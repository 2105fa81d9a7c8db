---------------------------- MODULE NosskeySigner -----------------------------
(***************************************************************************)
(* The iframe signer (sdk/src/signers/nosskey.ts): requests by message to  *)
(* a provider in a frame, which may answer late, as another account, with  *)
(* an error, or never.  Of an answer the account that made it is kept.     *)
(***************************************************************************)
EXTENDS Naturals, Sequences, FiniteSets

CONSTANTS Callers, Accounts, MaxPending, Scenes, None

VARIABLES port,    \* the connection [ready, closed, loaded], and the account it is pinned to
          pending, \* the callers whose request is out
          call,    \* caller -> [at, plan, step, pub, answer, by]: by whom its result was made
          account, \* the provider's account, which its user may switch
          spent
vars == <<port, pending, call, account, spent>>

Scene == Scenes[spent.scene]
Does(c) == Scene.does[c]   \* "key", "sign" or "crypt"
\* The requests of a call in order; signing reads the key first only when it is not pinned.
Plan(c) == CASE Does(c) = "key" -> <<"key">>
             [] Does(c) = "sign" -> IF port.pubkey = None THEN <<"key", "op">> ELSE <<"op">>
             [] Does(c) = "crypt" -> <<"key", "op", "key">>
Step(c) == call[c].plan[call[c].step]

\* #shutdown(): everything that waits is rejected, and nothing is heard from then on.
Shut(calls) == /\ port' = [port EXCEPT !.closed = TRUE, !.ready = FALSE] /\ pending' = {}
               /\ call' = [c \in Callers |-> IF c \in pending \/ calls[c].at = "ready" THEN [calls[c] EXCEPT !.at = "rejected"] ELSE calls[c]]
Shutdown == /\ ~port.closed /\ Shut(call) /\ UNCHANGED <<account, spent>>
Ready == /\ ~port.closed /\ ~port.ready /\ port' = [port EXCEPT !.ready = TRUE] /\ UNCHANGED <<pending, call, account, spent>>
\* A second load of the frame closes the connection.
Loads == /\ ~port.closed /\ spent.loads > 0 /\ spent' = [spent EXCEPT !.loads = @ - 1] /\ UNCHANGED account
         /\ IF port.loaded THEN Shut(call) ELSE port' = [port EXCEPT !.loaded = TRUE] /\ UNCHANGED <<pending, call>>
Switch(a) == /\ a # account /\ spent.switches > 0 /\ account' = a
             /\ spent' = [spent EXCEPT !.switches = @ - 1] /\ UNCHANGED <<port, pending, call>>

Begin(c) == /\ call[c].at = "idle" /\ UNCHANGED <<port, pending, account, spent>>
            /\ call' = [call EXCEPT ![c] = [at |-> IF port.closed THEN "rejected" ELSE "ready", step |-> 1, plan |-> Plan(c),
                                            pub |-> port.pubkey, by |-> None, answer |-> None]]
\* #request(), once the frame is ready.
Post(c) ==
    /\ call[c].at = "ready" /\ port.ready /\ UNCHANGED <<port, account, spent>>
    /\ IF Cardinality(pending) >= MaxPending
       THEN call' = [call EXCEPT ![c].at = "rejected"] /\ UNCHANGED pending
       ELSE call' = [call EXCEPT ![c].at = "waits"] /\ pending' = pending \cup {c}
\* The provider computes an answer as the account it has, and the answer arrives later.
Computes(c) == /\ c \in pending /\ call[c].answer = None /\ call' = [call EXCEPT ![c].answer = account]
               /\ UNCHANGED <<port, pending, account, spent>>
\* A key that is not the pinned one.
KeyChanged(c) == port.pubkey # None /\ port.pubkey # call[c].answer
Onward(x) == IF x.step < Len(x.plan) THEN [x EXCEPT !.step = @ + 1, !.at = "ready", !.answer = None] ELSE [x EXCEPT !.at = "done", !.answer = None]
Answered(c) ==
    LET x == call[c]
    IN  /\ c \in pending /\ x.answer # None /\ UNCHANGED <<account, spent>>
        /\ IF Step(c) = "key"
           THEN IF KeyChanged(c)
                THEN Shut([call EXCEPT ![c].at = "rejected"])
                ELSE /\ port' = [port EXCEPT !.pubkey = x.answer] /\ pending' = pending \ {c}
                     /\ call' = [call EXCEPT ![c] = Onward([x EXCEPT !.pub = x.answer, !.by = IF Does(c) = "key" THEN x.answer ELSE @])]
           ELSE /\ pending' = pending \ {c} /\ UNCHANGED port
                /\ call' = [call EXCEPT ![c] = IF Does(c) = "sign" /\ x.answer # x.pub THEN [x EXCEPT !.at = "rejected"]
                                               ELSE Onward([x EXCEPT !.by = x.answer])]
\* An error, a malformed answer.
Fails(c) == /\ c \in pending /\ pending' = pending \ {c} /\ call' = [call EXCEPT ![c].at = "rejected"] /\ UNCHANGED <<port, account, spent>>

InitOf(n) ==
    /\ spent = [scene |-> n, loads |-> 2, switches |-> Scenes[n].switches]
    /\ port = [ready |-> FALSE, closed |-> FALSE, loaded |-> FALSE, pubkey |-> None] /\ pending = {}
    /\ call = [c \in Callers |-> [at |-> "idle"]] /\ account \in Accounts
Init == \E n \in DOMAIN Scenes : InitOf(n)
Next == \/ Shutdown \/ Ready \/ Loads \/ \E a \in Accounts : Switch(a)
        \/ \E c \in Callers : Begin(c) \/ Post(c) \/ Computes(c) \/ Answered(c) \/ Fails(c)
Spec == Init /\ [][Next]_vars

-----------------------------------------------------------------------------
(* Properties.                                                             *)

\* nosskey.ts:4: the client pins the account: every key and signature it gives is of the one it
\* first saw, and so is what was encrypted, unless the account went and came back between the two
\* reads around it ("reject observed account switches"); no more than the cap are out, and a
\* closed connection has nothing left to answer.
AccountPinned ==
    /\ \A c \in Callers : call[c].at = "done" =>
         (Does(c) = "crypt" /\ Scene.switches > 1) \/ call[c].by = port.pubkey
    /\ Cardinality(pending) <= MaxPending /\ (port.closed => pending = {})
    /\ \A c \in Callers : call[c].at = "waits" <=> c \in pending

\* What keeps it, of a call x of c: what it knows of the key is what is pinned; the provider's user
\* who can switch no more, or once, cannot have made another's answer look like the pinned one's.
Pin      == Accounts \cup {None}
Plans(c) == CASE Does(c) = "key"   -> {<<"key">>}
              [] Does(c) = "sign"  -> {<<"op">>, <<"key", "op">>}
              [] Does(c) = "crypt" -> {<<"key", "op", "key">>}
CallType(c) == [at : {"ready", "waits", "rejected", "done"}, plan : Plans(c), step : 1..3, pub : Pin, by : Pin, answer : Pin]
Began(c, x, pin, acct, left) ==
    /\ x \in CallType(c) /\ x.step <= Len(x.plan) /\ x.pub \in {None, pin}
    /\ (x.plan[x.step] = "op" \/ x.step = 3 \/ x.at = "done") => x.pub # None
    /\ x.at = "done" => x.by = x.pub \/ (Does(c) = "crypt" /\ Scene.switches > 1)
    /\ (Does(c) = "crypt" /\ Scene.switches <= 1) =>
         /\ (x.step = 1 /\ x.answer # None) => x.answer = acct \/ left = 0
         /\ x.step = 2 => x.pub = acct \/ left = 0
         /\ (x.step = 2 /\ x.answer # None) => x.answer = x.pub \/ (x.answer = acct /\ left = 0)
         /\ x.step = 3 => x.by = x.pub \/ (x.by = acct /\ left = 0)
         /\ (x.step = 3 /\ x.answer # None) => x.answer = acct \/ x.by = x.pub
CallInv(c, x, pin, acct, left) == x = [at |-> "idle"] \/ Began(c, x, pin, acct, left)
Inv ==
    /\ port \in [ready : BOOLEAN, closed : BOOLEAN, loaded : BOOLEAN, pubkey : Pin]
    /\ account \in Accounts
    /\ spent \in [scene : DOMAIN Scenes, loads : Nat, switches : Nat] /\ spent.switches <= Scene.switches
    /\ pending \subseteq Callers /\ IsFiniteSet(pending) /\ Cardinality(pending) <= MaxPending
    /\ port.closed => pending = {} /\ ~port.ready
    /\ DOMAIN call = Callers
    /\ \A c \in Callers : /\ CallInv(c, call[c], port.pubkey, account, spent.switches)
                          /\ call[c].at = "waits" <=> c \in pending
=============================================================================
