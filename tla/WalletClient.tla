----------------------------- MODULE WalletClient -----------------------------
(***************************************************************************)
(* The wallet-connect client (wallet/src/nwc/client.ts): calls to a remote *)
(* wallet over relays, and what their outcome promises about money.  The   *)
(* wallet acts at most once on a request it receives in time, and says so  *)
(* in an ephemeral answer that only an open subscription hears.            *)
(***************************************************************************)
EXTENDS Naturals, FiniteSets

CONSTANTS Calls, Scenes, None

VARIABLES info,   \* the info event: [at, methods], at "none", "reading" or "read"
          call,   \* call -> [at, ready, sent, ack, reach, sub, outcome]
          wallet, \* call -> what the wallet did of it
          spent
vars == <<info, call, wallet, spent>>

Scene == Scenes[spent.scene]
Method(c) == Scene.method[c]
Idle == [at |-> "idle", sent |-> FALSE, acked |-> FALSE, reach |-> FALSE, sub |-> FALSE, outcome |-> None]

\* finish(): the first to settle the call does; its subscription and timers go.
Finish(x, outcome) == IF x.at = "done" THEN x ELSE [x EXCEPT !.at = "done", !.outcome = outcome, !.sub = FALSE]
NotPaid == [ok |-> FALSE, money |-> "not-paid"]
Unknown == [ok |-> FALSE, money |-> "unknown"]
Result  == [ok |-> TRUE, money |-> "paid"]
NoMoney == [ok |-> TRUE, money |-> "none"]

\* What a call asks of the info event first: payments need pay_invoice, two reads answer null
\* without their method, the others only need the event.
Allowed(c, methods) ==
    CASE Method(c) = "pay_invoice" -> IF Method(c) \in methods THEN "go" ELSE "refused"
      [] Method(c) \in {"get_info", "get_budget"} -> IF Method(c) \in methods THEN "go" ELSE "null"
      [] OTHER -> "go"
Admitted(c, x, methods) ==
    CASE Allowed(c, methods) = "go" -> [x EXCEPT !.at = "request"]
      [] Allowed(c, methods) = "null" -> Finish(x, NoMoney)
      [] OTHER -> Finish(x, NotPaid)

\* fetchInfo(): one read for all; a failed one is not kept.
Start(c) ==
    /\ call[c].at = "idle" /\ UNCHANGED <<wallet, spent>>
    /\ IF info.at # "read"
       THEN info' = [info EXCEPT !.at = "reading"] /\ call' = [call EXCEPT ![c].at = "info"]
       ELSE UNCHANGED info /\ call' = [call EXCEPT ![c] = Admitted(c, @, info.methods)]
InfoComes(methods) ==
    /\ info.at = "reading" /\ info' = [at |-> "read", methods |-> methods] /\ UNCHANGED <<wallet, spent>>
    /\ call' = [c \in Calls |-> IF call[c].at = "info" THEN Admitted(c, call[c], methods) ELSE call[c]]
InfoFails ==
    /\ info.at = "reading" /\ info' = [info EXCEPT !.at = "none"] /\ UNCHANGED <<wallet, spent>>
    /\ call' = [c \in Calls |-> IF call[c].at = "info" THEN Finish(call[c], NotPaid) ELSE call[c]]

\* The answer's subscription is opened first; the request goes out when it is live, or late.
Subscribe(c) ==
    /\ call[c].at = "request" /\ UNCHANGED <<info, wallet, spent>>
    /\ \E opens \in BOOLEAN :
         call' = [call EXCEPT ![c] = IF opens THEN [@ EXCEPT !.at = "open", !.sub = TRUE] ELSE Finish(@, NotPaid)]
\* send(), on the subscription's readiness or its timer.  reach: whether the wallet will have it.
Send(c) ==
    /\ call[c].at = "open" /\ ~call[c].sent /\ UNCHANGED <<info, wallet, spent>>
    /\ \E reach \in BOOLEAN : call' = [call EXCEPT ![c].sent = TRUE, ![c].reach = reach]
\* Slip: a publish that threw is taken for one that reached nobody.
OnPublishedSafe(x, ack) == IF ack = "reached" THEN x ELSE Finish(x, NotPaid)
\* The transport's verdict; it answers no only when no relay can have received the request.
OnPublished(x, ack) ==
    CASE ack = "reached" -> x
      [] ack = "no"      -> Finish(x, NotPaid)
      [] ack = "threw"   -> Finish(x, Unknown)
Published(c, ack) ==
    /\ call[c].sent /\ ~call[c].acked /\ (ack = "no" => ~call[c].reach) /\ UNCHANGED <<info, wallet, spent>>
    /\ call' = [call EXCEPT ![c] = OnPublished([@ EXCEPT !.acked = TRUE], ack)]

\* The wallet, while the request has not expired.
WalletActs(c, did) ==
    /\ call[c].reach /\ wallet[c] = "nothing" /\ UNCHANGED <<info, call, spent>>
    /\ call[c].at = "open" \/ ~spent.expired[c]
    /\ wallet' = [wallet EXCEPT ![c] = did]
\* onAnswer(): an answer to another request, or not the wallet's, is not read; one that cannot be
\* read leaves it open what the wallet did.
OnAnswer(c, x, says) ==
    CASE says = "foreign"    -> x
      [] says = "unreadable" -> Finish(x, Unknown)
      [] says = "error"      -> Finish(x, NotPaid)
      [] says = "result"     -> Finish(x, Result)
      \* payInvoice(): a result without a preimage proves nothing.
      [] says = "no preimage" -> Finish(x, IF Method(c) = "pay_invoice" THEN Unknown ELSE Result)
AnswerComes(c, says) ==
    /\ call[c].sub /\ call[c].sent /\ UNCHANGED <<info, wallet, spent>>
    /\ says \in {"result", "no preimage"} => wallet[c] = "done"
    /\ says = "error" => wallet[c] = "refused"
    /\ says = "unreadable" => wallet[c] # "nothing"
    /\ call' = [call EXCEPT ![c] = OnAnswer(c, @, says)]
AnswerTimer(c) ==
    /\ call[c].at = "open" /\ call[c].sent /\ UNCHANGED <<info, wallet>>
    /\ call' = [call EXCEPT ![c] = Finish(@, Unknown)]
    /\ spent' = [spent EXCEPT !.expired[c] = TRUE]

InitOf(n) ==
    /\ spent = [scene |-> n, expired |-> [c \in Calls |-> FALSE]] /\ info = [at |-> "none", methods |-> {}]
    /\ call = [c \in Calls |-> Idle] /\ wallet = [c \in Calls |-> "nothing"]
Init == \E n \in DOMAIN Scenes : InitOf(n)
Next == \/ \E c \in Calls : \/ Start(c) \/ Subscribe(c) \/ Send(c) \/ AnswerTimer(c)
                            \/ \E ack \in {"reached", "no", "threw"} : Published(c, ack)
                            \/ \E did \in {"done", "refused"} : WalletActs(c, did)
                            \/ \E says \in {"foreign", "unreadable", "error", "result", "no preimage"} : AnswerComes(c, says)
        \/ InfoFails \/ \E methods \in Scene.offers : InfoComes(methods)
Spec == Init /\ [][Next]_vars

-----------------------------------------------------------------------------
(* Properties.                                                             *)

\* errors.ts:7: a call that fails with `not-paid` has not been acted on and never will be, so
\* trying again is safe; one that succeeds was; and no settled call keeps its subscription.
MoneyHonest ==
    \A c \in Calls : call[c].at = "done" =>
        /\ call[c].outcome.money = "not-paid" => wallet[c] # "done"
        /\ call[c].outcome.money = "paid" => wallet[c] = "done"
        /\ ~call[c].sub

\* What keeps it: nothing of a call is at the wallet before its request is sent, and one that
\* failed as `not-paid` was refused there or never reached it.
Outcome  == {NotPaid, Unknown, Result, NoMoney}
CallType == [at : {"idle", "info", "request", "open", "done"}, sent : BOOLEAN, acked : BOOLEAN, reach : BOOLEAN,
             sub : BOOLEAN, outcome : Outcome \cup {None}]
Sound(x, did) ==
    /\ x.at \in {"idle", "info", "request"} => ~x.sent /\ ~x.sub
    /\ did # "nothing" => x.reach
    /\ x.reach => x.sent
    /\ x.at = "done" => /\ ~x.sub /\ x.outcome \in Outcome
                        /\ x.outcome.money = "not-paid" => did = "refused" \/ ~x.reach
                        /\ x.outcome.money = "paid" => did = "done"
Inv == /\ call \in [Calls -> CallType] /\ wallet \in [Calls -> {"nothing", "done", "refused"}]
       /\ \A c \in Calls : Sound(call[c], wallet[c])
=============================================================================
