--------------------------- MODULE ClientsProofs ---------------------------
(***************************************************************************)
(* Proofs about Clients: what a wallet call says of the money, what a      *)
(* NIP-46 transport and a frame signer own and answer, what opens an HTTP  *)
(* session and what the message cache keeps, for every value of the        *)
(* constants.  Each part has its inductive invariant, kept by each of its  *)
(* actions; a state stays of the part it began as, so the composition      *)
(* keeps them all.                                                         *)
(***************************************************************************)
EXTENDS Clients, FiniteSetTheorems, TLAPS

----------------------------------------------------------------------------
(* The wallet client.                                                      *)

\* The outcomes differ in what they say about the money.
LEMMA MoneyOf ==
    /\ Wallet!NotPaid.money = "not-paid" /\ Wallet!Unknown.money = "unknown"
    /\ Wallet!Result.money = "paid" /\ Wallet!NoMoney.money = "none"
BY DEF Wallet!NotPaid, Wallet!Unknown, Wallet!Result, Wallet!NoMoney

\* finish(), on a call that is not settled, settles it and closes its subscription.
LEMMA Finishes ==
    ASSUME NEW x \in Wallet!CallType, NEW o \in Wallet!Outcome, x.at # "done"
    PROVE  /\ Wallet!Finish(x, o) \in Wallet!CallType
           /\ Wallet!Finish(x, o).at = "done" /\ Wallet!Finish(x, o).outcome = o /\ ~Wallet!Finish(x, o).sub
           /\ Wallet!Finish(x, o).reach = x.reach /\ Wallet!Finish(x, o).sent = x.sent
BY DEF Wallet!Finish, Wallet!CallType

\* A call may be settled with an outcome that is true of the wallet.
LEMMA FinishSound ==
    ASSUME NEW x \in Wallet!CallType, NEW o \in Wallet!Outcome, NEW did, x.at # "done", Wallet!Sound(x, did),
           o.money = "not-paid" => did = "refused" \/ ~x.reach,
           o.money = "paid" => did = "done"
    PROVE  Wallet!Finish(x, o) \in Wallet!CallType /\ Wallet!Sound(Wallet!Finish(x, o), did)
<1> DEFINE y == Wallet!Finish(x, o)
<1>1. /\ y \in Wallet!CallType /\ y.at = "done" /\ y.outcome = o /\ ~y.sub
      /\ y.reach = x.reach /\ y.sent = x.sent
      BY Finishes
<1> HIDE DEF y
<1>2. Wallet!Sound(y, did)
      BY <1>1 DEF Wallet!Sound
<1> QED BY <1>1, <1>2 DEF y

\* A call that is told it may go on, or not.
LEMMA AdmittedSound ==
    ASSUME NEW c \in Calls, NEW x \in Wallet!CallType, NEW methods, x.at \in {"idle", "info"},
           NEW did \in {"nothing", "done", "refused"}, Wallet!Sound(x, did)
    PROVE  /\ Wallet!Admitted(c, x, methods) \in Wallet!CallType
           /\ Wallet!Sound(Wallet!Admitted(c, x, methods), did)
<1>1. CASE Wallet!Allowed(c, methods) = "go"
      BY <1>1 DEF Wallet!Admitted, Wallet!CallType, Wallet!Sound
<1>2. CASE Wallet!Allowed(c, methods) # "go"
      <2>1. PICK o \in {Wallet!NotPaid, Wallet!NoMoney} : Wallet!Admitted(c, x, methods) = Wallet!Finish(x, o)
            BY <1>2 DEF Wallet!Admitted
      <2> QED BY <2>1, FinishSound, MoneyOf DEF Wallet!Sound, Wallet!Outcome
<1> QED BY <1>1, <1>2

\* One call changes, or none of its fields that count, and the wallet's deeds stay.
LEMMA WalletOneCall ==
    ASSUME Wallet!Inv, NEW c \in Calls, NEW y \in Wallet!CallType, Wallet!Sound(y, slot3[c]),
           slot2' = [slot2 EXCEPT ![c] = y], slot3' = slot3
    PROVE  Wallet!Inv'
<1>1. slot2' \in [Calls -> Wallet!CallType] /\ slot3' \in [Calls -> {"nothing", "done", "refused"}]
      BY DEF Wallet!Inv
<1>2. ASSUME NEW d \in Calls PROVE Wallet!Sound(slot2'[d], slot3'[d])
      <2>1. CASE d = c
            BY <2>1 DEF Wallet!Inv
      <2>2. CASE d # c
            BY <2>2 DEF Wallet!Inv
      <2> QED BY <2>1, <2>2
<1> QED BY <1>1, <1>2 DEF Wallet!Inv, Wallet!Sound, Wallet!CallType, Wallet!Outcome

\* Every step of the wallet client and of the wallet keeps what is known of the calls.
LEMMA WalletKeeps ==
    ASSUME Wallet!Inv, Wallet!Next
    PROVE  Wallet!Inv'
<1> USE DEF Wallet!Inv
<1>1. ASSUME NEW c \in Calls, Wallet!Start(c) PROVE Wallet!Inv'
      <2>1. CASE slot1.at # "read"
            <3> DEFINE y == [slot2[c] EXCEPT !.at = "info"]
            <3>1. slot2' = [slot2 EXCEPT ![c] = y] /\ slot3' = slot3 /\ slot2[c].at = "idle"
                  BY <1>1, <2>1 DEF Wallet!Start
            <3>2. y \in Wallet!CallType /\ Wallet!Sound(y, slot3[c])
                  BY <3>1 DEF Wallet!CallType, Wallet!Sound
            <3> QED BY <3>1, <3>2, WalletOneCall
      <2>2. CASE slot1.at = "read"
            <3> DEFINE y == Wallet!Admitted(c, slot2[c], slot1.methods)
            <3>1. slot2' = [slot2 EXCEPT ![c] = y] /\ slot3' = slot3 /\ slot2[c].at = "idle"
                  BY <1>1, <2>2 DEF Wallet!Start
            <3>2. y \in Wallet!CallType /\ Wallet!Sound(y, slot3[c])
                  BY <3>1, AdmittedSound
            <3> QED BY <3>1, <3>2, WalletOneCall
      <2> QED BY <2>1, <2>2
<1>2. ASSUME NEW c \in Calls, Wallet!Subscribe(c) PROVE Wallet!Inv'
      <2>1. PICK opens \in BOOLEAN :
              slot2' = [slot2 EXCEPT ![c] = IF opens THEN [@ EXCEPT !.at = "open", !.sub = TRUE]
                                            ELSE Wallet!Finish(@, Wallet!NotPaid)]
            BY <1>2 DEF Wallet!Subscribe
      <2>2. slot2[c].at = "request" /\ slot3' = slot3 /\ slot2[c] \in Wallet!CallType /\ Wallet!Sound(slot2[c], slot3[c])
            BY <1>2 DEF Wallet!Subscribe
      <2>3. CASE opens
            <3> DEFINE y == [slot2[c] EXCEPT !.at = "open", !.sub = TRUE]
            <3>1. y \in Wallet!CallType /\ Wallet!Sound(y, slot3[c])
                  BY <2>2 DEF Wallet!CallType, Wallet!Sound
            <3> QED BY <2>1, <2>2, <2>3, <3>1, WalletOneCall
      <2>4. CASE ~opens
            <3> DEFINE y == Wallet!Finish(slot2[c], Wallet!NotPaid)
            <3>1. y \in Wallet!CallType /\ Wallet!Sound(y, slot3[c])
                  BY <2>2, Finishes, MoneyOf DEF Wallet!Sound, Wallet!Outcome
            <3> QED BY <2>1, <2>2, <2>4, <3>1, WalletOneCall
      <2> QED BY <2>3, <2>4
<1>3. ASSUME NEW c \in Calls, Wallet!Send(c) PROVE Wallet!Inv'
      <2>1. PICK reach \in BOOLEAN : slot2' = [slot2 EXCEPT ![c].sent = TRUE, ![c].reach = reach]
            BY <1>3 DEF Wallet!Send
      <2> DEFINE y == [slot2[c] EXCEPT !.sent = TRUE, !.reach = reach]
      <2>2. slot2[c].at = "open" /\ ~slot2[c].sent /\ slot3' = slot3
            BY <1>3 DEF Wallet!Send
      <2>3. slot2' = [slot2 EXCEPT ![c] = y]
            BY <2>1
      <2>4. y \in Wallet!CallType /\ Wallet!Sound(y, slot3[c])
            BY <2>2 DEF Wallet!CallType, Wallet!Sound
      <2> QED BY <2>2, <2>3, <2>4, WalletOneCall
<1>4. ASSUME NEW c \in Calls, Wallet!AnswerTimer(c) PROVE Wallet!Inv'
      <2> DEFINE y == Wallet!Finish(slot2[c], Wallet!Unknown)
      <2>1. slot2' = [slot2 EXCEPT ![c] = y] /\ slot2[c].at = "open" /\ slot3' = slot3
            BY <1>4 DEF Wallet!AnswerTimer
      <2>2. y \in Wallet!CallType /\ Wallet!Sound(y, slot3[c])
            BY <2>1, FinishSound, MoneyOf DEF Wallet!Sound, Wallet!Outcome
      <2> QED BY <2>1, <2>2, WalletOneCall
<1>5. ASSUME NEW c \in Calls, NEW ack \in {"reached", "no", "threw"}, Wallet!Published(c, ack) PROVE Wallet!Inv'
      <2> DEFINE x == [slot2[c] EXCEPT !.acked = TRUE]
                 y == Wallet!OnPublished(x, ack)
      <2>1. slot2' = [slot2 EXCEPT ![c] = y] /\ slot3' = slot3 /\ slot2[c].sent /\ (ack = "no" => ~slot2[c].reach)
            BY <1>5 DEF Wallet!Published
      <2>2. x \in Wallet!CallType /\ Wallet!Sound(x, slot3[c]) /\ x.reach = slot2[c].reach
            BY DEF Wallet!CallType, Wallet!Sound
      <2>3. \/ y = x
            \/ ack = "no" /\ y = Wallet!Finish(x, Wallet!NotPaid)
            \/ ack = "threw" /\ y = Wallet!Finish(x, Wallet!Unknown)
            BY DEF Wallet!OnPublished
      <2>4. CASE x.at = "done"
            <3>1. y = x
                  BY <2>3, <2>4 DEF Wallet!Finish
            <3> QED BY <2>1, <2>2, <3>1, WalletOneCall
      <2>5. CASE x.at # "done"
            <3>1. CASE ack = "no"
                  <4>1. slot3[c] = "nothing" /\ ~x.reach
                        BY <2>1, <2>2, <3>1 DEF Wallet!Sound
                  <4> QED BY <2>2, <2>3, <2>5, <3>1, <4>1, FinishSound, MoneyOf, WalletOneCall, <2>1 DEF Wallet!Outcome
            <3>2. CASE ack # "no"
                  <4>1. y \in Wallet!CallType /\ Wallet!Sound(y, slot3[c])
                        BY <2>2, <2>3, <2>5, <3>2, FinishSound, MoneyOf DEF Wallet!Outcome
                  <4> QED BY <2>1, <4>1, WalletOneCall
            <3> QED BY <3>1, <3>2
      <2> QED BY <2>4, <2>5
<1>6. ASSUME NEW c \in Calls, NEW did \in {"done", "refused"}, Wallet!WalletActs(c, did) PROVE Wallet!Inv'
      <2>1. slot2' = slot2 /\ slot3' = [slot3 EXCEPT ![c] = did] /\ slot2[c].reach /\ slot3[c] = "nothing"
            BY <1>6 DEF Wallet!WalletActs
      <2>2. ASSUME NEW d \in Calls PROVE Wallet!Sound(slot2[d], slot3'[d])
            BY <2>1 DEF Wallet!Sound
      <2> QED BY <2>1, <2>2 DEF Wallet!Sound, Wallet!CallType, Wallet!Outcome
<1>7. ASSUME NEW c \in Calls, NEW says \in {"foreign", "unreadable", "error", "result", "no preimage"},
             Wallet!AnswerComes(c, says)
      PROVE  Wallet!Inv'
      <2> DEFINE x == slot2[c]
                 y == Wallet!OnAnswer(c, x, says)
      <2>1. /\ slot2' = [slot2 EXCEPT ![c] = y] /\ slot3' = slot3 /\ x.sub /\ x \in Wallet!CallType
            /\ Wallet!Sound(x, slot3[c])
            /\ says \in {"result", "no preimage"} => slot3[c] = "done"
            /\ says = "error" => slot3[c] = "refused"
            BY <1>7 DEF Wallet!AnswerComes
      <2>2. x.at # "done"
            BY <2>1 DEF Wallet!Sound
      <2>3. \/ y = x
            \/ \E o \in Wallet!Outcome : /\ y = Wallet!Finish(x, o)
                                         /\ o.money = "not-paid" => says = "error"
                                         /\ o.money = "paid" => says \in {"result", "no preimage"}
            BY MoneyOf DEF Wallet!OnAnswer, Wallet!Outcome
      <2>4. y \in Wallet!CallType /\ Wallet!Sound(y, slot3[c])
            <3>1. CASE y = x
                  BY <2>1, <3>1
            <3>2. ASSUME NEW o \in Wallet!Outcome, y = Wallet!Finish(x, o), o.money = "not-paid" => says = "error",
                         o.money = "paid" => says \in {"result", "no preimage"}
                  PROVE  y \in Wallet!CallType /\ Wallet!Sound(y, slot3[c])
                  BY <2>1, <2>2, <3>2, FinishSound
            <3> QED BY <2>3, <3>1, <3>2
      <2> QED BY <2>1, <2>4, WalletOneCall
<1>8. ASSUME Wallet!InfoFails PROVE Wallet!Inv'
      <2>1. /\ slot3' = slot3
            /\ slot2' = [c \in Calls |-> IF slot2[c].at = "info" THEN Wallet!Finish(slot2[c], Wallet!NotPaid) ELSE slot2[c]]
            BY <1>8 DEF Wallet!InfoFails
      <2>2. ASSUME NEW c \in Calls PROVE slot2'[c] \in Wallet!CallType /\ Wallet!Sound(slot2'[c], slot3[c])
            BY <2>1, FinishSound, MoneyOf DEF Wallet!Sound, Wallet!Outcome
      <2> QED BY <2>1, <2>2 DEF Wallet!Sound, Wallet!CallType, Wallet!Outcome
<1>9. ASSUME NEW methods, Wallet!InfoComes(methods) PROVE Wallet!Inv'
      <2>1. /\ slot3' = slot3
            /\ slot2' = [c \in Calls |-> IF slot2[c].at = "info" THEN Wallet!Admitted(c, slot2[c], methods) ELSE slot2[c]]
            BY <1>9 DEF Wallet!InfoComes
      <2>2. ASSUME NEW c \in Calls PROVE slot2'[c] \in Wallet!CallType /\ Wallet!Sound(slot2'[c], slot3[c])
            BY <2>1, AdmittedSound
      <2> QED BY <2>1, <2>2 DEF Wallet!Sound, Wallet!CallType, Wallet!Outcome
<1> QED BY <1>1, <1>2, <1>3, <1>4, <1>5, <1>6, <1>7, <1>8, <1>9 DEF Wallet!Next

LEMMA WalletStarts ==
    ASSUME Wallet!Init
    PROVE  Wallet!Inv
BY DEF Wallet!Init, Wallet!InitOf, Wallet!Inv, Wallet!Idle, Wallet!CallType, Wallet!Sound

----------------------------------------------------------------------------
(* The frame signer.                                                       *)

\* The module's finite sets and their sizes are the library's.
LEMMA FrameSets == \A S : Nosskey!IsFiniteSet(S) = IsFiniteSet(S) /\ Nosskey!Cardinality(S) = Cardinality(S)
<1>1. \A S : Nosskey!IsFiniteSet(S) = IsFiniteSet(S)
      BY DEF Nosskey!IsFiniteSet, IsFiniteSet
<1>2. \A S : Nosskey!Cardinality(S) = Cardinality(S)
      BY DEF Nosskey!Cardinality, Cardinality
<1> QED BY <1>1, <1>2

\* Of a call that has begun: which request it is at, how many it makes, and which comes next.
LEMMA PlanCases ==
    ASSUME NEW c \in Callers, NEW x \in Nosskey!CallType(c), x.step <= Len(x.plan),
           Nosskey!Does(c) \in {"key", "sign", "crypt"}
    PROVE  \/ Nosskey!Does(c) = "key"   /\ x.step = 1 /\ Len(x.plan) = 1 /\ x.plan[1] = "key"
           \/ Nosskey!Does(c) = "sign"  /\ x.step = 1 /\ Len(x.plan) = 1 /\ x.plan[1] = "op"
           \/ Nosskey!Does(c) = "sign"  /\ x.step \in {1, 2} /\ Len(x.plan) = 2 /\ x.plan[1] = "key" /\ x.plan[2] = "op"
           \/ Nosskey!Does(c) = "crypt" /\ x.step \in {1, 2, 3} /\ Len(x.plan) = 3
              /\ x.plan[1] = "key" /\ x.plan[2] = "op" /\ x.plan[3] = "key"
<1>1. x.plan \in Nosskey!Plans(c) /\ x.step \in 1..3
      BY DEF Nosskey!CallType
<1>2. CASE Nosskey!Does(c) = "key"
      <2>1. x.plan = <<"key">>
            BY <1>1, <1>2 DEF Nosskey!Plans
      <2> QED BY <1>1, <1>2, <2>1
<1>3. CASE Nosskey!Does(c) = "sign"
      <2>1. x.plan = <<"op">> \/ x.plan = <<"key", "op">>
            BY <1>1, <1>3 DEF Nosskey!Plans
      <2>2. CASE x.plan = <<"op">>
            BY <1>1, <1>3, <2>2
      <2>3. CASE x.plan = <<"key", "op">>
            BY <1>1, <1>3, <2>3
      <2> QED BY <2>1, <2>2, <2>3
<1>4. CASE Nosskey!Does(c) = "crypt"
      <2>1. x.plan = <<"key", "op", "key">>
            BY <1>1, <1>4 DEF Nosskey!Plans
      <2> QED BY <1>1, <1>4, <2>1
<1> QED BY <1>2, <1>3, <1>4

\* A call that does not end keeps what it knows when its place changes.
LEMMA PlaceChanges ==
    ASSUME NEW c \in Callers, NEW x, NEW pin, NEW acct, NEW left, Nosskey!Began(c, x, pin, acct, left),
           NEW v \in {"ready", "waits", "rejected"}
    PROVE  Nosskey!Began(c, [x EXCEPT !.at = v], pin, acct, left) /\ [x EXCEPT !.at = v].at = v
BY DEF Nosskey!Began, Nosskey!CallType

\* The pin is set once.
LEMMA PinSet ==
    ASSUME NEW c \in Callers, NEW x, NEW acct, NEW left, NEW pin \in {None}, NEW new,
           Nosskey!Began(c, x, pin, acct, left)
    PROVE  Nosskey!Began(c, x, new, acct, left)
BY DEF Nosskey!Began

\* The user of the provider switches: of a call that may see one switch, this was it.
LEMMA SwitchSeen ==
    ASSUME NEW c \in Callers, NEW x, NEW pin, NEW acct, NEW new, NEW left \in Nat, Nosskey!Began(c, x, pin, acct, left),
           left > 0, left <= Nosskey!Scene.switches, Nosskey!Scene.switches \in Nat
    PROVE  Nosskey!Began(c, x, pin, new, left - 1)
BY DEF Nosskey!Began

\* The provider computes an answer as the account it has.
LEMMA AnswerMade ==
    ASSUME NEW c \in Callers, NEW x, NEW pin, NEW acct \in FrameAccounts, NEW left, Nosskey!Began(c, x, pin, acct, left)
    PROVE  /\ Nosskey!Began(c, [x EXCEPT !.answer = acct], pin, acct, left)
           /\ [x EXCEPT !.answer = acct].at = x.at
BY DEF Nosskey!Began, Nosskey!CallType, Nosskey!Pin

\* A key that is the pinned one, or the first.
LEMMA KeyTaken ==
    ASSUME NEW c \in Callers, NEW x, NEW pin, NEW acct, NEW left, Nosskey!Began(c, x, pin, acct, left),
           Nosskey!Does(c) \in {"key", "sign", "crypt"}, x.plan[x.step] = "key", x.answer # None, x.at = "waits",
           pin # None => pin = x.answer, None \notin FrameAccounts, Nosskey!Scene.switches \in Nat
    PROVE  LET y == Nosskey!Onward([x EXCEPT !.pub = x.answer, !.by = IF Nosskey!Does(c) = "key" THEN x.answer ELSE @])
           IN  Nosskey!Began(c, y, x.answer, acct, left) /\ y.at # "waits"
<1> DEFINE k == [x EXCEPT !.pub = x.answer, !.by = IF Nosskey!Does(c) = "key" THEN x.answer ELSE @]
           y == Nosskey!Onward(k)
<1>1. /\ k \in Nosskey!CallType(c) /\ k.step = x.step /\ k.plan = x.plan /\ k.pub = x.answer /\ k.answer = x.answer
      /\ k.by = IF Nosskey!Does(c) = "key" THEN x.answer ELSE x.by
      BY DEF Nosskey!CallType, Nosskey!Began
<1>2. x \in Nosskey!CallType(c) /\ x.step \in 1..3 /\ x.step <= Len(x.plan)
      BY DEF Nosskey!CallType, Nosskey!Began
<1>3. \/ Nosskey!Does(c) = "key" /\ x.step = 1 /\ Len(x.plan) = 1
      \/ Nosskey!Does(c) = "sign" /\ x.step = 1 /\ Len(x.plan) = 2 /\ x.plan[2] = "op"
      \/ Nosskey!Does(c) = "crypt" /\ x.step = 1 /\ Len(x.plan) = 3 /\ x.plan[2] = "op"
      \/ Nosskey!Does(c) = "crypt" /\ x.step = 3 /\ Len(x.plan) = 3
      BY <1>2, PlanCases
<1>n. PICK s \in Nat, n \in Nat : s = x.step /\ n = Len(x.plan)
      BY <1>2, <1>3
<1>m. \/ Nosskey!Does(c) = "key" /\ s = 1 /\ n = 1
      \/ Nosskey!Does(c) = "sign" /\ s = 1 /\ n = 2 /\ x.plan[2] = "op"
      \/ Nosskey!Does(c) = "crypt" /\ s = 1 /\ n = 3 /\ x.plan[2] = "op"
      \/ Nosskey!Does(c) = "crypt" /\ s = 3 /\ n = 3
      BY <1>3, <1>n
<1>4. y = IF s < n THEN [k EXCEPT !.step = @ + 1, !.at = "ready", !.answer = None]
          ELSE [k EXCEPT !.at = "done", !.answer = None]
      BY <1>1, <1>n DEF Nosskey!Onward
<1>5. SUFFICES Nosskey!Began(c, y, x.answer, acct, left) /\ y.at # "waits"
      OBVIOUS
<1> HIDE DEF k, y
<1>6. CASE s < n
      <2>0. Nosskey!Does(c) # "key" /\ s = 1 /\ n \in {2, 3} /\ x.plan[2] = "op"
            BY <1>m, <1>6
      <2>1. Nosskey!Does(c) # "key" /\ x.step = 1 /\ Len(x.plan) \in {2, 3} /\ x.plan[2] = "op"
            BY <2>0, <1>n
      <2>2. /\ y \in Nosskey!CallType(c) /\ y.step = 2 /\ y.plan = x.plan /\ y.at = "ready" /\ y.answer = None
            /\ y.pub = x.answer
            <3>1. k.step = 1 /\ k.step + 1 = 2
                  BY <1>1, <2>1
            <3>2. y = [k EXCEPT !.step = 2, !.at = "ready", !.answer = None]
                  BY <1>4, <1>6, <3>1
            <3>3. k.plan = x.plan /\ k.pub = x.answer /\ k \in Nosskey!CallType(c)
                  BY <1>1
            <3>4. y \in Nosskey!CallType(c)
                  <4>1. 2 \in 1..3 /\ None \in Nosskey!Pin
                        BY DEF Nosskey!Pin
                  <4>2. /\ k.plan \in Nosskey!Plans(c) /\ k.pub \in Nosskey!Pin /\ k.by \in Nosskey!Pin
                        /\ k = [at |-> k.at, plan |-> k.plan, step |-> k.step, pub |-> k.pub, by |-> k.by, answer |-> k.answer]
                        BY <3>3 DEF Nosskey!CallType
                  <4>3. y = [at |-> "ready", plan |-> k.plan, step |-> 2, pub |-> k.pub, by |-> k.by, answer |-> None]
                        BY <3>2, <4>2
                  <4> QED BY <4>1, <4>2, <4>3 DEF Nosskey!CallType
            <3>5. y.step = 2 /\ y.at = "ready" /\ y.answer = None /\ y.plan = k.plan /\ y.pub = k.pub
                  BY <3>2, <3>3 DEF Nosskey!CallType
            <3> QED BY <3>3, <3>4, <3>5
      <2>3. Nosskey!Does(c) = "crypt" /\ Nosskey!Scene.switches <= 1 => x.answer = acct \/ left = 0
            BY <2>1 DEF Nosskey!Began
      <2> QED BY <1>2, <2>1, <2>2, <2>3 DEF Nosskey!Began
<1>7. CASE ~(s < n)
      <2>1. /\ y \in Nosskey!CallType(c) /\ y.step = x.step /\ y.plan = x.plan /\ y.at = "done" /\ y.answer = None
            /\ y.pub = x.answer /\ y.by = k.by
            BY <1>1, <1>4, <1>7 DEF Nosskey!CallType, Nosskey!Pin
      <2>0. Nosskey!Does(c) = "key" \/ (Nosskey!Does(c) = "crypt" /\ s = 3)
            BY <1>m, <1>7
      <2>2. Nosskey!Does(c) = "key" \/ (Nosskey!Does(c) = "crypt" /\ x.step = 3)
            BY <2>0, <1>n
      <2>3. x.step = 3 => x.pub = x.answer
            BY DEF Nosskey!Began
      <2>4. Nosskey!Does(c) = "crypt" /\ Nosskey!Scene.switches <= 1 => x.by = x.answer
            BY <2>2, <2>3 DEF Nosskey!Began
      <2>5. Nosskey!Does(c) = "key" => k.by = x.answer
            BY <1>1
      <2>6. Nosskey!Does(c) = "crypt" => k.by = x.by
            BY <1>1
      <2>7. y.by = y.pub \/ (Nosskey!Does(c) = "crypt" /\ Nosskey!Scene.switches > 1)
            BY <2>1, <2>2, <2>4, <2>5, <2>6
      <2>8. Nosskey!Does(c) = "crypt" /\ Nosskey!Scene.switches <= 1 => y.step = 3 /\ y.by = y.pub
            BY <2>1, <2>2, <2>4, <2>6
      <2> QED BY <1>2, <2>1, <2>7, <2>8 DEF Nosskey!Began
<1> QED BY <1>6, <1>7

\* The answer to the operation itself, which a signing call checks against its key.
LEMMA OpTaken ==
    ASSUME NEW c \in Callers, NEW x, NEW pin, NEW acct, NEW left, Nosskey!Began(c, x, pin, acct, left),
           Nosskey!Does(c) \in {"key", "sign", "crypt"}, x.plan[x.step] = "op", x.answer # None, x.at = "waits",
           Nosskey!Does(c) = "sign" => x.answer = x.pub, Nosskey!Scene.switches \in Nat
    PROVE  LET y == Nosskey!Onward([x EXCEPT !.by = x.answer])
           IN  Nosskey!Began(c, y, pin, acct, left) /\ y.at # "waits"
<1> DEFINE k == [x EXCEPT !.by = x.answer]
           y == Nosskey!Onward(k)
<1>1. /\ k \in Nosskey!CallType(c) /\ k.step = x.step /\ k.plan = x.plan /\ k.pub = x.pub /\ k.answer = x.answer
      /\ k.by = x.answer
      BY DEF Nosskey!CallType, Nosskey!Began
<1>2. x \in Nosskey!CallType(c) /\ x.step \in 1..3 /\ x.step <= Len(x.plan)
      BY DEF Nosskey!CallType, Nosskey!Began
<1>3. \/ Nosskey!Does(c) = "sign" /\ x.step = 1 /\ Len(x.plan) = 1
      \/ Nosskey!Does(c) = "sign" /\ x.step = 2 /\ Len(x.plan) = 2
      \/ Nosskey!Does(c) = "crypt" /\ x.step = 2 /\ Len(x.plan) = 3
      BY <1>2, PlanCases
<1>4. x.pub # None /\ x.pub \in {None, pin}
      BY DEF Nosskey!Began
<1>5. SUFFICES Nosskey!Began(c, y, pin, acct, left) /\ y.at # "waits"
      OBVIOUS
<1>6. CASE Nosskey!Does(c) = "sign"
      <2>1. PICK s \in Nat : s = x.step /\ s = Len(x.plan)
            BY <1>3, <1>6
      <2>2. y = [k EXCEPT !.at = "done", !.answer = None]
            <3>1. ~(s < s)
                  OBVIOUS
            <3> QED BY <1>1, <2>1, <3>1 DEF Nosskey!Onward
      <2> HIDE DEF k, y
      <2>3. /\ y \in Nosskey!CallType(c) /\ y.step = x.step /\ y.plan = x.plan /\ y.at = "done" /\ y.answer = None
            /\ y.pub = x.pub /\ y.by = x.answer
            BY <1>1, <2>2 DEF Nosskey!CallType, Nosskey!Pin
      <2> QED BY <1>2, <1>4, <1>6, <2>3 DEF Nosskey!Began
<1>7. CASE Nosskey!Does(c) = "crypt"
      <2>1. x.step = 2 /\ Len(x.plan) = 3 /\ 2 < 3
            BY <1>3, <1>7
      <2>2. y = [k EXCEPT !.step = 3, !.at = "ready", !.answer = None]
            <3>1. k.step = 2 /\ Len(k.plan) = 3
                  BY <1>1, <2>1
            <3> HIDE DEF k
            <3>2. k.step < Len(k.plan) /\ k.step + 1 = 3
                  BY <3>1, 2 < 3, 2 + 1 = 3
            <3> QED BY <3>2 DEF Nosskey!Onward
      <2> HIDE DEF k, y
      <2>3. /\ y \in Nosskey!CallType(c) /\ y.step = 3 /\ y.plan = x.plan /\ y.at = "ready" /\ y.answer = None
            /\ y.pub = x.pub /\ y.by = x.answer
            <3>1. 3 \in 1..3 /\ None \in Nosskey!Pin
                  BY DEF Nosskey!Pin
            <3>2. /\ k.plan \in Nosskey!Plans(c) /\ k.pub \in Nosskey!Pin /\ k.by \in Nosskey!Pin
                  /\ k = [at |-> k.at, plan |-> k.plan, step |-> k.step, pub |-> k.pub, by |-> k.by, answer |-> k.answer]
                  BY <1>1 DEF Nosskey!CallType
            <3>3. y = [at |-> "ready", plan |-> k.plan, step |-> 3, pub |-> k.pub, by |-> k.by, answer |-> None]
                  BY <2>2, <3>2
            <3> QED BY <1>1, <3>1, <3>2, <3>3 DEF Nosskey!CallType
      <2>4. Nosskey!Scene.switches <= 1 => x.answer = x.pub \/ (x.answer = acct /\ left = 0)
            BY <1>7, <2>1 DEF Nosskey!Began
      <2>5. y.step <= Len(y.plan)
            BY <2>1, <2>3, 3 <= 3
      <2> QED BY <1>4, <1>7, <2>3, <2>4, <2>5 DEF Nosskey!Began
<1> QED BY <1>3, <1>6, <1>7

\* A call starts with the key the connection is pinned to, if it is.
LEMMA CallBegins ==
    ASSUME NEW c \in Callers, NEW acct, NEW left, Nosskey!Does(c) \in {"key", "sign", "crypt"},
           slot1.pubkey \in Nosskey!Pin, NEW at \in {"ready", "rejected"}, NEW x,
           x = [at |-> at, step |-> 1, plan |-> Nosskey!Plan(c), pub |-> slot1.pubkey, by |-> None, answer |-> None]
    PROVE  Nosskey!Began(c, x, slot1.pubkey, acct, left)
<1>1. /\ Nosskey!Plan(c) \in Nosskey!Plans(c) /\ 1 <= Len(Nosskey!Plan(c))
      /\ Nosskey!Plan(c)[1] = "op" => slot1.pubkey # None
      <2>1. CASE Nosskey!Does(c) = "key"
            <3>1. Nosskey!Plan(c) = <<"key">>
                  BY <2>1 DEF Nosskey!Plan
            <3> QED BY <2>1, <3>1 DEF Nosskey!Plans
      <2>2. CASE Nosskey!Does(c) = "sign"
            <3>1. CASE slot1.pubkey = None
                  <4>1. Nosskey!Plan(c) = <<"key", "op">>
                        BY <2>2, <3>1 DEF Nosskey!Plan
                  <4> QED BY <2>2, <4>1 DEF Nosskey!Plans
            <3>2. CASE slot1.pubkey # None
                  <4>1. Nosskey!Plan(c) = <<"op">>
                        BY <2>2, <3>2 DEF Nosskey!Plan
                  <4> QED BY <2>2, <3>2, <4>1 DEF Nosskey!Plans
            <3> QED BY <3>1, <3>2
      <2>3. CASE Nosskey!Does(c) = "crypt"
            <3>1. Nosskey!Plan(c) = <<"key", "op", "key">>
                  BY <2>3 DEF Nosskey!Plan
            <3> QED BY <2>3, <3>1 DEF Nosskey!Plans
      <2> QED BY <2>1, <2>2, <2>3
<1>2. 1 \in 1..3 /\ None \in Nosskey!Pin
      BY DEF Nosskey!Pin
<1>3. x \in Nosskey!CallType(c) /\ x.step = 1 /\ x.plan = Nosskey!Plan(c) /\ x.pub = slot1.pubkey /\ x.at = at /\ x.answer = None
      BY <1>1, <1>2 DEF Nosskey!CallType
<1> QED BY <1>1, <1>3 DEF Nosskey!Began

\* The invariant of the next state, said of the scene of this one.
LEMMA NosskeyNextState ==
    ASSUME slot5'.scene = slot5.scene,
           slot1' \in [ready : BOOLEAN, closed : BOOLEAN, loaded : BOOLEAN, pubkey : Nosskey!Pin],
           slot4' \in FrameAccounts,
           slot5' \in [scene : DOMAIN NosskeyScenes, loads : Nat, switches : Nat],
           slot5'.switches <= Nosskey!Scene.switches,
           slot2' \subseteq Callers, IsFiniteSet(slot2'), Cardinality(slot2') <= MaxPending,
           slot1'.closed => slot2' = {} /\ ~slot1'.ready,
           DOMAIN slot3' = Callers,
           \A c \in Callers : /\ Nosskey!CallInv(c, slot3'[c], slot1'.pubkey, slot4', slot5'.switches)
                              /\ slot3'[c].at = "waits" <=> c \in slot2'
    PROVE  Nosskey!Inv'
<1>1. Nosskey!Scene' = Nosskey!Scene
      BY DEF Nosskey!Scene
<1>2. ASSUME NEW c \in Callers PROVE Nosskey!CallInv(c, slot3[c], slot1.pubkey, slot4, slot5.switches)'
      <2>1. Nosskey!Does(c)' = Nosskey!Does(c)
            BY <1>1 DEF Nosskey!Does
      <2> QED BY <1>1, <2>1 DEF Nosskey!CallInv, Nosskey!Began, Nosskey!CallType, Nosskey!Plans, Nosskey!Pin
<1> QED BY <1>1, <1>2, FrameSets DEF Nosskey!Inv, Nosskey!Pin

\* #shutdown() ends what waits, whatever the calls have come to.
LEMMA ShutKeeps ==
    ASSUME Nosskey!Inv, NEW calls, DOMAIN calls = Callers, Nosskey!Shut(calls), slot4' = slot4,
           slot5' \in [scene : DOMAIN NosskeyScenes, loads : Nat, switches : Nat],
           slot5'.scene = slot5.scene, slot5'.switches = slot5.switches, MaxPending \in Nat,
           \A c \in Callers : /\ Nosskey!CallInv(c, calls[c], slot1.pubkey, slot4, slot5.switches)
                              /\ calls[c].at = "waits" => c \in slot2
                              /\ c \in slot2 => calls[c].at # "idle"
    PROVE  Nosskey!Inv'
<1>1. /\ slot1' = [slot1 EXCEPT !.closed = TRUE, !.ready = FALSE] /\ slot2' = {}
      /\ slot3' = [c \in Callers |-> IF c \in slot2 \/ calls[c].at = "ready" THEN [calls[c] EXCEPT !.at = "rejected"]
                                     ELSE calls[c]]
      BY DEF Nosskey!Shut
<1>2. slot1' \in [ready : BOOLEAN, closed : BOOLEAN, loaded : BOOLEAN, pubkey : Nosskey!Pin] /\ slot1'.pubkey = slot1.pubkey
      BY <1>1 DEF Nosskey!Inv
<1>3. ASSUME NEW c \in Callers
      PROVE  Nosskey!CallInv(c, slot3'[c], slot1.pubkey, slot4, slot5.switches) /\ slot3'[c].at # "waits"
      <2>1. CASE c \in slot2 \/ calls[c].at = "ready"
            <3>1. calls[c] # [at |-> "idle"]
                  BY <2>1
            <3>2. Nosskey!Began(c, calls[c], slot1.pubkey, slot4, slot5.switches)
                  BY <3>1 DEF Nosskey!CallInv
            <3> QED BY <1>1, <2>1, <3>2, PlaceChanges DEF Nosskey!CallInv
      <2>2. CASE ~(c \in slot2 \/ calls[c].at = "ready")
            BY <1>1, <2>2
      <2> QED BY <2>1, <2>2
<1>4. IsFiniteSet(slot2') /\ Cardinality(slot2') <= MaxPending
      <2>1. IsFiniteSet({}) /\ Cardinality({}) = 0
            BY FS_EmptySet
      <2>2. 0 <= MaxPending
            OBVIOUS
      <2> QED BY <1>1, <2>1, <2>2
<1>5. slot4' \in FrameAccounts /\ slot5'.switches <= Nosskey!Scene.switches /\ ~slot1'.ready
      BY <1>1, <1>2 DEF Nosskey!Inv
<1> QED BY <1>1, <1>2, <1>3, <1>4, <1>5, NosskeyNextState

\* One call changes; the pin may have been set by it.
LEMMA NosskeyOneCall ==
    ASSUME Nosskey!Inv, None \notin FrameAccounts, NEW c \in Callers, NEW y, slot3' = [slot3 EXCEPT ![c] = y],
           slot1' \in [ready : BOOLEAN, closed : BOOLEAN, loaded : BOOLEAN, pubkey : Nosskey!Pin],
           slot1'.closed = slot1.closed, slot1'.ready = slot1.ready, slot1'.pubkey = slot1.pubkey \/ slot1.pubkey = None,
           slot4' = slot4, slot5' = slot5,
           slot2' \subseteq slot2 \cup {c}, slot2 \ {c} \subseteq slot2', IsFiniteSet(slot2'), Cardinality(slot2') <= MaxPending,
           slot1.closed => slot2' = {},
           Nosskey!CallInv(c, y, slot1'.pubkey, slot4, slot5.switches),
           y.at = "waits" <=> c \in slot2'
    PROVE  Nosskey!Inv'
<1>1. ASSUME NEW d \in Callers
      PROVE  /\ Nosskey!CallInv(d, slot3'[d], slot1'.pubkey, slot4', slot5'.switches)
             /\ slot3'[d].at = "waits" <=> d \in slot2'
      <2>1. CASE d = c
            BY <2>1 DEF Nosskey!Inv
      <2>2. CASE d # c
            <3>1. slot3'[d] = slot3[d] /\ (d \in slot2' <=> d \in slot2)
                  BY <2>2 DEF Nosskey!Inv
            <3>2. Nosskey!CallInv(d, slot3[d], slot1.pubkey, slot4, slot5.switches) /\ (slot3[d].at = "waits" <=> d \in slot2)
                  BY DEF Nosskey!Inv
            <3>3. Nosskey!CallInv(d, slot3[d], slot1'.pubkey, slot4, slot5.switches)
                  BY <3>2, PinSet DEF Nosskey!CallInv
            <3> QED BY <3>1, <3>2, <3>3
      <2> QED BY <2>1, <2>2
<1>2. DOMAIN slot3' = Callers /\ slot2' \subseteq Callers /\ slot4' \in FrameAccounts
      BY DEF Nosskey!Inv
<1>3. /\ slot5'.switches <= Nosskey!Scene.switches /\ slot5' \in [scene : DOMAIN NosskeyScenes, loads : Nat, switches : Nat]
      /\ slot1'.closed => slot2' = {} /\ ~slot1'.ready
      BY DEF Nosskey!Inv
<1> QED BY <1>1, <1>2, <1>3, NosskeyNextState

\* Every step of the frame signer, of its provider and of the provider's user.
LEMMA NosskeyKeeps ==
    ASSUME Nosskey!Inv, Nosskey!Next, ClientsAssumption
    PROVE  Nosskey!Inv'
<1>0. /\ MaxPending \in Nat /\ None \notin FrameAccounts /\ Nosskey!Scene.switches \in Nat
      /\ \A c \in Callers : Nosskey!Does(c) \in {"key", "sign", "crypt"}
      BY DEF Nosskey!Inv, ClientsAssumption, Nosskey!Scene, Nosskey!Does
<1>i. /\ slot1 \in [ready : BOOLEAN, closed : BOOLEAN, loaded : BOOLEAN, pubkey : Nosskey!Pin]
      /\ slot4 \in FrameAccounts /\ DOMAIN slot3 = Callers
      /\ slot5 \in [scene : DOMAIN NosskeyScenes, loads : Nat, switches : Nat] /\ slot5.switches <= Nosskey!Scene.switches
      /\ slot2 \subseteq Callers /\ IsFiniteSet(slot2) /\ Cardinality(slot2) <= MaxPending
      /\ slot1.closed => slot2 = {} /\ ~slot1.ready
      /\ \A c \in Callers : /\ Nosskey!CallInv(c, slot3[c], slot1.pubkey, slot4, slot5.switches)
                            /\ slot3[c].at = "waits" <=> c \in slot2
      BY FrameSets DEF Nosskey!Inv
<1>b. ASSUME NEW c \in Callers, slot3[c].at # "idle" PROVE Nosskey!Began(c, slot3[c], slot1.pubkey, slot4, slot5.switches)
      BY <1>i, <1>b DEF Nosskey!CallInv
<1>1. CASE Nosskey!Shutdown
      BY <1>0, <1>i, <1>1, ShutKeeps DEF Nosskey!Shutdown
<1>2. CASE Nosskey!Ready
      <2>1. /\ slot1' = [slot1 EXCEPT !.ready = TRUE] /\ ~slot1.closed /\ slot2' = slot2 /\ slot3' = slot3
            /\ slot4' = slot4 /\ slot5' = slot5
            BY <1>2 DEF Nosskey!Ready
      <2>2. slot1' \in [ready : BOOLEAN, closed : BOOLEAN, loaded : BOOLEAN, pubkey : Nosskey!Pin]
            /\ slot1'.pubkey = slot1.pubkey /\ ~slot1'.closed
            BY <1>i, <2>1
      <2> QED BY <1>i, <2>1, <2>2, NosskeyNextState
<1>3. CASE Nosskey!Loads
      <2>1. /\ slot5' = [slot5 EXCEPT !.loads = @ - 1] /\ slot5.loads > 0 /\ slot4' = slot4 /\ ~slot1.closed
            BY <1>3 DEF Nosskey!Loads
      <2>2. /\ slot5' \in [scene : DOMAIN NosskeyScenes, loads : Nat, switches : Nat]
            /\ slot5'.scene = slot5.scene /\ slot5'.switches = slot5.switches
            BY <1>i, <2>1
      <2>3. CASE slot1.loaded
            BY <1>0, <1>3, <1>i, <2>1, <2>2, <2>3, ShutKeeps DEF Nosskey!Loads
      <2>4. CASE ~slot1.loaded
            <3>1. slot1' = [slot1 EXCEPT !.loaded = TRUE] /\ slot2' = slot2 /\ slot3' = slot3
                  BY <1>3, <2>4 DEF Nosskey!Loads
            <3>2. slot1' \in [ready : BOOLEAN, closed : BOOLEAN, loaded : BOOLEAN, pubkey : Nosskey!Pin]
                  /\ slot1'.pubkey = slot1.pubkey /\ ~slot1'.closed
                  BY <1>i, <2>1, <3>1
            <3> QED BY <1>i, <2>1, <2>2, <3>1, <3>2, NosskeyNextState
      <2> QED BY <2>3, <2>4
<1>4. ASSUME NEW a \in FrameAccounts, Nosskey!Switch(a) PROVE Nosskey!Inv'
      <2>1. /\ slot4' = a /\ slot5' = [slot5 EXCEPT !.switches = @ - 1] /\ slot5.switches > 0
            /\ slot1' = slot1 /\ slot2' = slot2 /\ slot3' = slot3
            BY <1>4 DEF Nosskey!Switch
      <2>2. PICK left \in Nat : slot5.switches = left
            BY <1>i
      <2>3. left > 0 /\ left <= Nosskey!Scene.switches
            BY <1>i, <2>1, <2>2
      <2>4. /\ slot5' \in [scene : DOMAIN NosskeyScenes, loads : Nat, switches : Nat]
            /\ slot5'.scene = slot5.scene /\ slot5'.switches = left - 1
            BY <1>i, <2>1, <2>2, <2>3
      <2>5. left - 1 <= Nosskey!Scene.switches
            BY <1>0, <2>2, <2>3
      <2>6. ASSUME NEW c \in Callers PROVE Nosskey!CallInv(c, slot3[c], slot1.pubkey, a, left - 1)
            BY <1>0, <1>i, <2>2, <2>3, SwitchSeen DEF Nosskey!CallInv
      <2> QED BY <1>i, <2>1, <2>4, <2>5, <2>6, NosskeyNextState
<1>5. ASSUME NEW c \in Callers, Nosskey!Begin(c) PROVE Nosskey!Inv'
      <2> DEFINE at == IF slot1.closed THEN "rejected" ELSE "ready"
                 y == [at |-> at, step |-> 1, plan |-> Nosskey!Plan(c), pub |-> slot1.pubkey, by |-> None, answer |-> None]
      <2>1. /\ slot3[c].at = "idle" /\ slot3' = [slot3 EXCEPT ![c] = y]
            /\ slot1' = slot1 /\ slot2' = slot2 /\ slot4' = slot4 /\ slot5' = slot5
            BY <1>5 DEF Nosskey!Begin
      <2>2. slot1.pubkey \in Nosskey!Pin
            BY <1>i
      <2>3. Nosskey!Began(c, y, slot1.pubkey, slot4, slot5.switches) /\ y.at # "waits"
            <3>1. at \in {"ready", "rejected"}
                  OBVIOUS
            <3>2. Nosskey!Began(c, y, slot1.pubkey, slot4, slot5.switches)
                  <4>1. y = [at |-> at, step |-> 1, plan |-> Nosskey!Plan(c), pub |-> slot1.pubkey, by |-> None, answer |-> None]
                        OBVIOUS
                  <4> HIDE DEF y, at
                  <4> QED BY <1>0, <2>2, <3>1, <4>1, CallBegins
            <3> QED BY <3>1, <3>2
      <2>5. Nosskey!CallInv(c, y, slot1.pubkey, slot4, slot5.switches)
            BY <2>3 DEF Nosskey!CallInv
      <2>4. c \notin slot2
            BY <1>i, <2>1
      <2> HIDE DEF y
      <2> QED BY <1>0, <1>i, <2>1, <2>3, <2>4, <2>5, NosskeyOneCall
<1>6. ASSUME NEW c \in Callers, Nosskey!Post(c) PROVE Nosskey!Inv'
      <2>1. slot3[c].at = "ready" /\ slot1.ready /\ slot1' = slot1 /\ slot4' = slot4 /\ slot5' = slot5
            BY <1>6 DEF Nosskey!Post
      <2>2. c \notin slot2 /\ ~slot1.closed
            BY <1>i, <2>1
      <2>3. CASE Cardinality(slot2) >= MaxPending
            <3> DEFINE y == [slot3[c] EXCEPT !.at = "rejected"]
            <3>1. slot3' = [slot3 EXCEPT ![c] = y] /\ slot2' = slot2
                  BY <1>6, <2>3, FrameSets DEF Nosskey!Post
            <3>2. Nosskey!CallInv(c, y, slot1.pubkey, slot4, slot5.switches) /\ y.at # "waits"
                  BY <1>b, <2>1, PlaceChanges DEF Nosskey!CallInv
            <3> HIDE DEF y
            <3> QED BY <1>0, <1>i, <2>1, <2>2, <3>1, <3>2, NosskeyOneCall
      <2>4. CASE ~(Cardinality(slot2) >= MaxPending)
            <3> DEFINE y == [slot3[c] EXCEPT !.at = "waits"]
            <3>1. slot3' = [slot3 EXCEPT ![c] = y] /\ slot2' = slot2 \cup {c}
                  BY <1>6, <2>4, FrameSets DEF Nosskey!Post
            <3>2. Nosskey!CallInv(c, y, slot1.pubkey, slot4, slot5.switches) /\ y.at = "waits"
                  BY <1>b, <2>1, PlaceChanges DEF Nosskey!CallInv
            <3>3. IsFiniteSet(slot2') /\ Cardinality(slot2') = Cardinality(slot2) + 1
                  BY <1>i, <2>2, <3>1, FS_AddElement
            <3>4. Cardinality(slot2') <= MaxPending
                  BY <1>0, <1>i, <2>4, <3>3, FS_CardinalityType
            <3> HIDE DEF y
            <3> QED BY <1>0, <1>i, <2>1, <2>2, <3>1, <3>2, <3>3, <3>4, NosskeyOneCall
      <2> QED BY <2>3, <2>4
<1>7. ASSUME NEW c \in Callers, Nosskey!Computes(c) PROVE Nosskey!Inv'
      <2> DEFINE y == [slot3[c] EXCEPT !.answer = slot4]
      <2>1. /\ c \in slot2 /\ slot3' = [slot3 EXCEPT ![c] = y]
            /\ slot1' = slot1 /\ slot2' = slot2 /\ slot4' = slot4 /\ slot5' = slot5
            BY <1>7 DEF Nosskey!Computes
      <2>2. slot3[c].at = "waits"
            BY <1>i, <2>1
      <2>3. Nosskey!CallInv(c, y, slot1.pubkey, slot4, slot5.switches) /\ y.at = "waits"
            BY <1>b, <1>i, <2>2, AnswerMade DEF Nosskey!CallInv
      <2> HIDE DEF y
      <2> QED BY <1>0, <1>i, <2>1, <2>3, NosskeyOneCall
<1>8. ASSUME NEW c \in Callers, Nosskey!Answered(c) PROVE Nosskey!Inv'
      <2> DEFINE x == slot3[c]
      <2>1. /\ c \in slot2 /\ x.answer # None /\ slot4' = slot4 /\ slot5' = slot5 /\ x.at = "waits"
            BY <1>8, <1>i DEF Nosskey!Answered
      <2>2. Nosskey!Began(c, x, slot1.pubkey, slot4, slot5.switches)
            BY <1>b, <2>1
      <2>3. ~slot1.closed
            BY <1>i, <2>1
      <2>4. slot2 \ {c} \subseteq Callers /\ IsFiniteSet(slot2 \ {c}) /\ Cardinality(slot2 \ {c}) <= MaxPending
            <3>1. IsFiniteSet(slot2 \ {c}) /\ Cardinality(slot2 \ {c}) = Cardinality(slot2) - 1
                  BY <1>i, <2>1, FS_RemoveElement
            <3>2. Cardinality(slot2) \in Nat
                  BY <1>i, FS_CardinalityType
            <3> QED BY <1>0, <1>i, <3>1, <3>2
      <2>5. CASE Nosskey!Step(c) = "key" /\ Nosskey!KeyChanged(c)
            <3> DEFINE y     == [x EXCEPT !.at = "rejected"]
                       calls == [slot3 EXCEPT ![c] = y]
            <3>1. Nosskey!Shut(calls)
                  BY <1>8, <2>5 DEF Nosskey!Answered
            <3>2. Nosskey!CallInv(c, y, slot1.pubkey, slot4, slot5.switches) /\ y.at = "rejected"
                  BY <2>2, PlaceChanges DEF Nosskey!CallInv
            <3> HIDE DEF x, y
            <3>3. ASSUME NEW d \in Callers
                  PROVE  /\ Nosskey!CallInv(d, calls[d], slot1.pubkey, slot4, slot5.switches)
                         /\ calls[d].at = "waits" => d \in slot2
                         /\ d \in slot2 => calls[d].at # "idle"
                  BY <1>i, <3>2
            <3>4. DOMAIN calls = Callers
                  BY <1>i
            <3> HIDE DEF calls
            <3> QED BY <1>0, <1>i, <2>1, <3>1, <3>3, <3>4, ShutKeeps
      <2>6. CASE Nosskey!Step(c) = "key" /\ ~Nosskey!KeyChanged(c)
            <3> DEFINE y == Nosskey!Onward([x EXCEPT !.pub = x.answer, !.by = IF Nosskey!Does(c) = "key" THEN x.answer ELSE @])
            <3>1. /\ slot1' = [slot1 EXCEPT !.pubkey = x.answer] /\ slot2' = slot2 \ {c} /\ slot3' = [slot3 EXCEPT ![c] = y]
                  BY <1>8, <2>6 DEF Nosskey!Answered
            <3>2. x.plan[x.step] = "key" /\ (slot1.pubkey # None => slot1.pubkey = x.answer)
                  BY <2>6 DEF Nosskey!Step, Nosskey!KeyChanged
            <3>3. Nosskey!Began(c, y, x.answer, slot4, slot5.switches) /\ y.at # "waits"
                  BY <1>0, <2>1, <2>2, <3>2, KeyTaken
            <3>4. x.answer \in Nosskey!Pin
                  BY <2>2 DEF Nosskey!Began, Nosskey!CallType
            <3> HIDE DEF x, y
            <3>5. /\ slot1' \in [ready : BOOLEAN, closed : BOOLEAN, loaded : BOOLEAN, pubkey : Nosskey!Pin]
                  /\ slot1'.closed = slot1.closed /\ slot1'.ready = slot1.ready
                  /\ slot1'.pubkey = x.answer /\ (slot1'.pubkey = slot1.pubkey \/ slot1.pubkey = None)
                  BY <1>i, <3>1, <3>2, <3>4
            <3>6. Nosskey!CallInv(c, y, slot1'.pubkey, slot4, slot5.switches)
                  BY <3>3, <3>5 DEF Nosskey!CallInv
            <3> QED BY <1>0, <2>1, <2>3, <2>4, <3>1, <3>3, <3>5, <3>6, NosskeyOneCall
      <2>7. CASE Nosskey!Step(c) # "key"
            <3> DEFINE y == IF Nosskey!Does(c) = "sign" /\ x.answer # x.pub THEN [x EXCEPT !.at = "rejected"]
                            ELSE Nosskey!Onward([x EXCEPT !.by = x.answer])
            <3>1. slot1' = slot1 /\ slot2' = slot2 \ {c} /\ slot3' = [slot3 EXCEPT ![c] = y]
                  BY <1>8, <2>7 DEF Nosskey!Answered
            <3>2. x.plan[x.step] = "op"
                  <4>1. x \in Nosskey!CallType(c) /\ x.step <= Len(x.plan)
                        BY <2>2 DEF Nosskey!Began
                  <4>2. x.plan[x.step] # "key"
                        BY <2>7 DEF Nosskey!Step
                  <4> HIDE DEF x
                  <4> QED BY <1>0, <4>1, <4>2, PlanCases
            <3>3. Nosskey!Began(c, y, slot1.pubkey, slot4, slot5.switches) /\ y.at # "waits"
                  <4>1. CASE Nosskey!Does(c) = "sign" /\ x.answer # x.pub
                        BY <2>2, <4>1, PlaceChanges
                  <4>2. CASE ~(Nosskey!Does(c) = "sign" /\ x.answer # x.pub)
                        BY <1>0, <2>1, <2>2, <3>2, <4>2, OpTaken
                  <4> QED BY <4>1, <4>2
            <3> HIDE DEF x, y
            <3>4. Nosskey!CallInv(c, y, slot1'.pubkey, slot4, slot5.switches)
                  BY <3>1, <3>3 DEF Nosskey!CallInv
            <3> QED BY <1>0, <1>i, <2>1, <2>3, <2>4, <3>1, <3>3, <3>4, NosskeyOneCall
      <2> QED BY <2>5, <2>6, <2>7
<1>9. ASSUME NEW c \in Callers, Nosskey!Fails(c) PROVE Nosskey!Inv'
      <2> DEFINE y == [slot3[c] EXCEPT !.at = "rejected"]
      <2>1. /\ c \in slot2 /\ slot2' = slot2 \ {c} /\ slot3' = [slot3 EXCEPT ![c] = y]
            /\ slot1' = slot1 /\ slot4' = slot4 /\ slot5' = slot5
            BY <1>9 DEF Nosskey!Fails
      <2>2. slot3[c].at = "waits" /\ ~slot1.closed
            BY <1>i, <2>1
      <2>3. Nosskey!CallInv(c, y, slot1.pubkey, slot4, slot5.switches) /\ y.at # "waits"
            BY <1>b, <2>2, PlaceChanges DEF Nosskey!CallInv
      <2>4. IsFiniteSet(slot2 \ {c}) /\ Cardinality(slot2 \ {c}) <= MaxPending
            <3>1. IsFiniteSet(slot2 \ {c}) /\ Cardinality(slot2 \ {c}) = Cardinality(slot2) - 1
                  BY <1>i, <2>1, FS_RemoveElement
            <3>2. Cardinality(slot2) \in Nat
                  BY <1>i, FS_CardinalityType
            <3> QED BY <1>0, <1>i, <3>1, <3>2
      <2> HIDE DEF y
      <2> QED BY <1>0, <1>i, <2>1, <2>2, <2>3, <2>4, NosskeyOneCall
<1> QED BY <1>1, <1>2, <1>3, <1>4, <1>5, <1>6, <1>7, <1>8, <1>9 DEF Nosskey!Next

LEMMA NosskeyStarts ==
    ASSUME Nosskey!Init, ClientsAssumption
    PROVE  Nosskey!Inv
<1>1. PICK n \in DOMAIN NosskeyScenes : Nosskey!InitOf(n)
      BY DEF Nosskey!Init
<1>2. /\ slot5 = [scene |-> n, loads |-> 2, switches |-> NosskeyScenes[n].switches]
      /\ slot1 = [ready |-> FALSE, closed |-> FALSE, loaded |-> FALSE, pubkey |-> None] /\ slot2 = {}
      /\ slot3 = [c \in Callers |-> [at |-> "idle"]] /\ slot4 \in FrameAccounts
      BY <1>1 DEF Nosskey!InitOf
<1>3. NosskeyScenes[n].switches \in Nat /\ MaxPending \in Nat
      BY DEF ClientsAssumption
<1>4. slot5 \in [scene : DOMAIN NosskeyScenes, loads : Nat, switches : Nat] /\ slot5.switches <= Nosskey!Scene.switches
      BY <1>2, <1>3 DEF Nosskey!Scene
<1>5. IsFiniteSet(slot2) /\ Cardinality(slot2) <= MaxPending
      <2>1. IsFiniteSet({}) /\ Cardinality({}) = 0
            BY FS_EmptySet
      <2> QED BY <1>2, <1>3, <2>1
<1>6. slot1 \in [ready : BOOLEAN, closed : BOOLEAN, loaded : BOOLEAN, pubkey : Nosskey!Pin]
      BY <1>2 DEF Nosskey!Pin
<1> QED BY <1>2, <1>4, <1>5, <1>6, FrameSets DEF Nosskey!Inv, Nosskey!CallInv

\* The calls that have begun know no key but the pinned one.
LEMMA NosskeyPinned ==
    ASSUME Nosskey!Inv
    PROVE  Nosskey!AccountPinned
<1>1. ASSUME NEW c \in Callers, slot3[c].at = "done"
      PROVE  (Nosskey!Does(c) = "crypt" /\ Nosskey!Scene.switches > 1) \/ slot3[c].by = slot1.pubkey
      <2>1. Nosskey!Began(c, slot3[c], slot1.pubkey, slot4, slot5.switches)
            BY <1>1 DEF Nosskey!Inv, Nosskey!CallInv
      <2> QED BY <1>1, <2>1 DEF Nosskey!Began
<1> QED BY <1>1 DEF Nosskey!Inv, Nosskey!AccountPinned

----------------------------------------------------------------------------
(* The NIP-46 client.                                                      *)

\* The parts of the invariant.
LEMMA RemoteParts ==
    ASSUME Remote!Inv
    PROVE  Remote!TypeOK /\ Remote!PairingTold /\ Remote!SocketsOwned /\ Remote!ReadersServed
BY DEF Remote!Inv, Remote!TransportOwned

\* Every step of a pairing, of its transport, and of the reads of the key.
LEMMA RemoteKeeps ==
    ASSUME Remote!Inv, Remote!Next, ClientsAssumption
    PROVE  Remote!Inv'
<1>0. MaxTries \in Nat /\ 1 <= MaxTries /\ None # "timeout"
      BY DEF ClientsAssumption
<1>s. UNCHANGED slot6.scene => Remote!Owned' = Remote!Owned
      BY DEF Remote!Owned, Remote!Scene
<1>i. Remote!TypeOK /\ Remote!PairingTold /\ Remote!SocketsOwned /\ Remote!ReadersServed
      BY RemoteParts
<1>n. PICK n \in Nat, asked \in Nat, drops \in Nat : n = slot4.tries /\ asked = slot4.asked /\ drops = slot6.drops
      BY <1>i DEF Remote!TypeOK
<1>t. n <= MaxTries
      BY <1>i, <1>n DEF Remote!ReadersServed
<1>1. CASE Remote!StartNostrConnect
      <2>1. Remote!TypeOK'
            BY <1>i, <1>1 DEF Remote!StartNostrConnect, Remote!TypeOK
      <2>2. Remote!PairingTold'
            BY <1>0, <1>s, <1>i, <1>1 DEF Remote!StartNostrConnect, Remote!TypeOK, Remote!PairingTold
      <2>3. Remote!SocketsOwned' /\ Remote!ReadersServed'
            BY <1>s, <1>i, <1>1 DEF Remote!StartNostrConnect, Remote!SocketsOwned, Remote!ReadersServed
      <2> QED BY <2>1, <2>2, <2>3 DEF Remote!Inv, Remote!TransportOwned
<1>2. CASE Remote!FromBunkerUri
      <2>1. Remote!TypeOK'
            BY <1>i, <1>2 DEF Remote!FromBunkerUri, Remote!TypeOK
      <2>2. Remote!PairingTold'
            BY <1>0, <1>s, <1>i, <1>2 DEF Remote!FromBunkerUri, Remote!TypeOK, Remote!PairingTold
      <2>3. Remote!SocketsOwned' /\ Remote!ReadersServed'
            BY <1>s, <1>i, <1>2 DEF Remote!FromBunkerUri, Remote!SocketsOwned, Remote!ReadersServed
      <2> QED BY <2>1, <2>2, <2>3 DEF Remote!Inv, Remote!TransportOwned
<1>3. CASE Remote!HandshakeDone
      <2>1. Remote!TypeOK'
            BY <1>i, <1>3 DEF Remote!HandshakeDone, Remote!Attached, Remote!TypeOK
      <2>2. Remote!PairingTold'
            BY <1>0, <1>s, <1>i, <1>3 DEF Remote!HandshakeDone, Remote!Attached, Remote!TypeOK, Remote!PairingTold
      <2>3. Remote!SocketsOwned'
            BY <1>0, <1>s, <1>i, <1>3 DEF Remote!HandshakeDone, Remote!Attached, Remote!TypeOK, Remote!SocketsOwned
      <2>4. Remote!ReadersServed'
            BY <1>i, <1>3 DEF Remote!HandshakeDone, Remote!ReadersServed
      <2> QED BY <2>1, <2>2, <2>3, <2>4 DEF Remote!Inv, Remote!TransportOwned
<1>4. CASE Remote!Retry
      <2>1. slot4' = [slot4 EXCEPT !.tries = n + 1, !.asked = asked + 1] /\ n < MaxTries /\ slot4.at = "reading"
            BY <1>4, <1>n DEF Remote!Retry
      <2>2. n + 1 \in Nat /\ asked + 1 \in Nat /\ n + 1 <= MaxTries
            BY <1>0, <2>1
      <2>3. slot4'.tries = n + 1 /\ slot4'.at = slot4.at
            BY <1>i, <2>1 DEF Remote!TypeOK
      <2>4. Remote!TypeOK'
            BY <1>i, <1>4, <2>1, <2>2 DEF Remote!Retry, Remote!TypeOK
      <2>5. Remote!ReadersServed'
            BY <1>i, <1>4, <2>2, <2>3 DEF Remote!Retry, Remote!ReadersServed
      <2>6. Remote!PairingTold' /\ Remote!SocketsOwned'
            BY <1>s, <1>i, <1>4 DEF Remote!Retry, Remote!PairingTold, Remote!SocketsOwned
      <2> QED BY <2>4, <2>5, <2>6 DEF Remote!Inv, Remote!TransportOwned
<1>5. CASE Remote!KeyComes
      <2>1. Remote!TypeOK'
            BY <1>i, <1>5 DEF Remote!KeyComes, Remote!TypeOK
      <2>2. Remote!ReadersServed'
            BY <1>0, <1>s, <1>i, <1>5 DEF Remote!KeyComes, Remote!TypeOK, Remote!ReadersServed
      <2>3. Remote!PairingTold' /\ Remote!SocketsOwned'
            BY <1>s, <1>i, <1>5 DEF Remote!KeyComes, Remote!PairingTold, Remote!SocketsOwned
      <2> QED BY <2>1, <2>2, <2>3 DEF Remote!Inv, Remote!TransportOwned
<1>6. CASE Remote!KeyFails
      <2>1. Remote!TypeOK'
            BY <1>i, <1>6 DEF Remote!KeyFails, Remote!NoRead, Remote!TypeOK
      <2>2. slot4'.tries = 0 /\ slot4'.at = "none" /\ 0 <= MaxTries
            BY <1>0, <1>6 DEF Remote!KeyFails, Remote!NoRead
      <2>3. \A r \in Readers : slot5'[r] # "waits"
            BY <1>i, <1>6 DEF Remote!KeyFails, Remote!TypeOK
      <2>4. Remote!ReadersServed'
            BY <2>2, <2>3 DEF Remote!ReadersServed
      <2>5. Remote!PairingTold' /\ Remote!SocketsOwned'
            BY <1>s, <1>i, <1>6 DEF Remote!KeyFails, Remote!PairingTold, Remote!SocketsOwned
      <2> QED BY <2>1, <2>4, <2>5 DEF Remote!Inv, Remote!TransportOwned
<1>7. CASE Remote!RequestLost
      <2>1. slot4' = [slot4 EXCEPT !.asked = asked - 1] /\ asked > 0
            BY <1>7, <1>n DEF Remote!RequestLost
      <2>2. asked - 1 \in Nat
            BY <2>1
      <2>3. slot4'.tries = slot4.tries /\ slot4'.at = slot4.at
            BY <1>i, <2>1 DEF Remote!TypeOK
      <2>4. Remote!TypeOK'
            BY <1>i, <1>7, <2>1, <2>2 DEF Remote!RequestLost, Remote!TypeOK
      <2>5. Remote!ReadersServed'
            BY <1>i, <1>7, <2>3 DEF Remote!RequestLost, Remote!ReadersServed
      <2>6. Remote!PairingTold' /\ Remote!SocketsOwned'
            BY <1>s, <1>i, <1>7 DEF Remote!RequestLost, Remote!PairingTold, Remote!SocketsOwned
      <2> QED BY <2>4, <2>5, <2>6 DEF Remote!Inv, Remote!TransportOwned
<1>8. ASSUME NEW stubborn \in SUBSET Sockets, Remote!HandshakeFails(stubborn) PROVE Remote!Inv'
      <2>1. Remote!TypeOK'
            BY <1>i, <1>8 DEF Remote!HandshakeFails, Remote!Dispose, Remote!Disposed, Remote!SocketsAfter, Remote!TypeOK
      <2>2. Remote!PairingTold'
            BY <1>0, <1>s, <1>i, <1>8 DEF Remote!HandshakeFails, Remote!Dispose, Remote!Disposed, Remote!SocketsAfter, Remote!TypeOK, Remote!PairingTold
      <2>3. Remote!SocketsOwned'
            BY <1>0, <1>s, <1>i, <1>8 DEF Remote!HandshakeFails, Remote!Dispose, Remote!Disposed, Remote!SocketsAfter, Remote!TypeOK, Remote!SocketsOwned
      <2>4. Remote!ReadersServed'
            BY <1>i, <1>8 DEF Remote!HandshakeFails, Remote!ReadersServed
      <2> QED BY <2>1, <2>2, <2>3, <2>4 DEF Remote!Inv, Remote!TransportOwned
<1>9. ASSUME NEW stubborn \in SUBSET Sockets, Remote!PairTimeout(stubborn) PROVE Remote!Inv'
      <2>1. Remote!TypeOK'
            BY <1>i, <1>9 DEF Remote!PairTimeout, Remote!Dispose, Remote!Disposed, Remote!SocketsAfter, Remote!TypeOK
      <2>2. Remote!PairingTold'
            BY <1>0, <1>s, <1>i, <1>9 DEF Remote!PairTimeout, Remote!Dispose, Remote!Disposed, Remote!SocketsAfter, Remote!TypeOK, Remote!PairingTold
      <2>3. Remote!SocketsOwned'
            BY <1>0, <1>s, <1>i, <1>9 DEF Remote!PairTimeout, Remote!Dispose, Remote!Disposed, Remote!SocketsAfter, Remote!TypeOK, Remote!SocketsOwned
      <2>4. Remote!ReadersServed'
            BY <1>i, <1>9 DEF Remote!PairTimeout, Remote!ReadersServed
      <2> QED BY <2>1, <2>2, <2>3, <2>4 DEF Remote!Inv, Remote!TransportOwned
<1>10. ASSUME NEW stubborn \in SUBSET Sockets, Remote!Cancel(stubborn) PROVE Remote!Inv'
      <2>1. /\ slot4' \in {slot4, [at |-> "none", tries |-> 0, asked |-> 0]}
            /\ slot1.at = "paired" => /\ slot4'.at # "reading" /\ slot6' = [slot6 EXCEPT !.closed = TRUE]
                                      /\ slot5' = [r \in Readers |-> IF slot5[r] = "waits" THEN "rejected" ELSE slot5[r]]
            /\ slot1.at # "paired" => slot4' = slot4 /\ slot5' = slot5 /\ slot6' = slot6
            <3>1. CASE slot1.at = "paired"
                  BY <1>10, <3>1 DEF Remote!Cancel, Remote!NoRead
            <3>2. CASE slot1.at # "paired"
                  BY <1>10, <3>2 DEF Remote!Cancel
            <3> QED BY <3>1, <3>2
      <2>2. Remote!TypeOK'
            <3>1. CASE slot1.at = "paired"
                  <4>1. slot4' \in [at : {"none", "reading", "known"}, tries : Nat, asked : Nat]
                        <5>1. slot4 \in [at : {"none", "reading", "known"}, tries : Nat, asked : Nat]
                              BY <1>i DEF Remote!TypeOK
                        <5>2. slot4' = slot4 \/ slot4' = [at |-> "none", tries |-> 0, asked |-> 0]
                              BY <2>1
                        <5> QED BY <5>1, <5>2
                  <4>2. slot5' \in [Readers -> {"idle", "waits", "answered", "rejected"}]
                        <5>1. slot5 \in [Readers -> {"idle", "waits", "answered", "rejected"}]
                              BY <1>i DEF Remote!TypeOK
                        <5>2. slot5' = [r \in Readers |-> IF slot5[r] = "waits" THEN "rejected" ELSE slot5[r]]
                              BY <2>1, <3>1
                        <5> QED BY <5>1, <5>2
                  <4>3. slot6' \in [scene : DOMAIN RemoteScenes, drops : Nat, closed : BOOLEAN]
                        BY <1>i, <2>1, <3>1 DEF Remote!TypeOK
                  <4> QED BY <1>i, <1>10, <3>1, <4>1, <4>2, <4>3
                          DEF Remote!Cancel, Remote!Dispose, Remote!Disposed, Remote!SocketsAfter, Remote!TypeOK
            <3>2. CASE slot1.at # "paired"
                  BY <1>i, <1>10, <2>1, <3>2 DEF Remote!Cancel, Remote!Dispose, Remote!Disposed, Remote!SocketsAfter, Remote!TypeOK
            <3> QED BY <3>1, <3>2
      <2>3. Remote!PairingTold'
            BY <1>0, <1>i, <1>10, <2>1 DEF Remote!Cancel, Remote!Dispose, Remote!Disposed, Remote!TypeOK, Remote!PairingTold
      <2>4. Remote!SocketsOwned'
            BY <1>s, <1>i, <1>10, <2>1 DEF Remote!Cancel, Remote!Dispose, Remote!Disposed, Remote!SocketsAfter, Remote!TypeOK, Remote!SocketsOwned
      <2>5. slot4'.tries = n \/ slot4'.tries = 0
            BY <1>n, <2>1
      <2>6. slot4'.tries <= MaxTries
            BY <1>0, <1>t, <2>5
      <2>7. /\ \A r \in Readers : slot5'[r] = "waits" => slot4'.at = "reading"
            /\ slot6'.closed => slot4'.at # "reading"
            <3>1. CASE slot1.at = "paired"
                  <4>1. \A r \in Readers : slot5'[r] # "waits"
                        BY <2>1, <3>1
                  <4> QED BY <2>1, <3>1, <4>1
            <3>2. CASE slot1.at # "paired"
                  BY <1>i, <2>1, <3>2 DEF Remote!ReadersServed
            <3> QED BY <3>1, <3>2
      <2>8. Remote!ReadersServed'
            BY <2>6, <2>7 DEF Remote!ReadersServed
      <2> QED BY <2>2, <2>3, <2>4, <2>8 DEF Remote!Inv, Remote!TransportOwned
<1>11. ASSUME NEW stubborn \in SUBSET Sockets, Remote!Close(stubborn) PROVE Remote!Inv'
      <2>1. Remote!TypeOK'
            BY <1>i, <1>11 DEF Remote!Close, Remote!Dispose, Remote!Disposed, Remote!SocketsAfter, Remote!NoRead, Remote!TypeOK
      <2>2. Remote!PairingTold'
            BY <1>0, <1>s, <1>i, <1>11 DEF Remote!Close, Remote!Dispose, Remote!Disposed, Remote!SocketsAfter, Remote!NoRead, Remote!TypeOK, Remote!PairingTold
      <2>3. Remote!SocketsOwned'
            BY <1>0, <1>s, <1>i, <1>11 DEF Remote!Close, Remote!Dispose, Remote!Disposed, Remote!SocketsAfter, Remote!NoRead, Remote!TypeOK, Remote!SocketsOwned
      <2>4. slot4' = slot4 \/ slot4'.tries = 0
            BY <1>11 DEF Remote!Close, Remote!NoRead
      <2>5. slot4'.tries <= MaxTries
            BY <1>0, <1>n, <1>t, <2>4
      <2>6. /\ \A r \in Readers : slot5'[r] = "waits" => slot4'.at = "reading"
            /\ slot6'.closed => slot4'.at # "reading"
            BY <1>i, <1>11 DEF Remote!Close, Remote!NoRead, Remote!TypeOK, Remote!ReadersServed
      <2>7. Remote!ReadersServed'
            BY <2>5, <2>6 DEF Remote!ReadersServed
      <2> QED BY <2>1, <2>2, <2>3, <2>7 DEF Remote!Inv, Remote!TransportOwned
<1>12. ASSUME NEW s \in Sockets, Remote!Dial(s) PROVE Remote!Inv'
      <2>1. Remote!TypeOK'
            BY <1>i, <1>12 DEF Remote!Dial, Remote!TypeOK
      <2>2. Remote!SocketsOwned'
            BY <1>0, <1>s, <1>i, <1>12 DEF Remote!Dial, Remote!TypeOK, Remote!SocketsOwned
      <2>3. Remote!PairingTold' /\ Remote!ReadersServed'
            BY <1>i, <1>12 DEF Remote!Dial, Remote!PairingTold, Remote!ReadersServed
      <2> QED BY <2>1, <2>2, <2>3 DEF Remote!Inv, Remote!TransportOwned
<1>13. ASSUME NEW s \in Sockets, Remote!SocketOpens(s) PROVE Remote!Inv'
      <2>1. Remote!TypeOK'
            BY <1>i, <1>13 DEF Remote!SocketOpens, Remote!OnOpen, Remote!TypeOK
      <2>2. Remote!SocketsOwned'
            BY <1>0, <1>s, <1>i, <1>13 DEF Remote!SocketOpens, Remote!OnOpen, Remote!TypeOK, Remote!SocketsOwned
      <2>3. Remote!PairingTold' /\ Remote!ReadersServed'
            BY <1>i, <1>13 DEF Remote!SocketOpens, Remote!PairingTold, Remote!ReadersServed
      <2> QED BY <2>1, <2>2, <2>3 DEF Remote!Inv, Remote!TransportOwned
<1>14. ASSUME NEW s \in Sockets, Remote!SocketDrops(s) PROVE Remote!Inv'
      <2>1. slot6' = [slot6 EXCEPT !.drops = drops - 1] /\ drops > 0 /\ slot3' = [slot3 EXCEPT ![s] = "closed"]
            BY <1>14, <1>n DEF Remote!SocketDrops
      <2>2. drops - 1 \in Nat
            BY <2>1
      <2>3. Remote!TypeOK' /\ slot6'.scene = slot6.scene /\ slot6'.closed = slot6.closed
            <3>1. /\ slot6' \in [scene : DOMAIN RemoteScenes, drops : Nat, closed : BOOLEAN]
                  /\ slot6'.scene = slot6.scene /\ slot6'.closed = slot6.closed
                  BY <1>i, <2>1, <2>2 DEF Remote!TypeOK
            <3>2. slot3' \in [Sockets -> {"none", "connecting", "open", "closed"}]
                  BY <1>i, <2>1 DEF Remote!TypeOK
            <3>3. UNCHANGED <<slot1, slot2, slot4, slot5>>
                  BY <1>14 DEF Remote!SocketDrops
            <3> QED BY <1>i, <3>1, <3>2, <3>3 DEF Remote!TypeOK
      <2>4. Remote!SocketsOwned'
            <3>1. slot2' = slot2 /\ \A q \in Sockets : slot3'[q] \in {slot3[q], "closed"}
                  BY <1>i, <1>14, <2>1 DEF Remote!SocketDrops, Remote!TypeOK
            <3> QED BY <1>s, <1>i, <2>3, <3>1 DEF Remote!SocketsOwned
      <2>5. Remote!PairingTold' /\ Remote!ReadersServed'
            BY <1>i, <1>14, <2>3 DEF Remote!SocketDrops, Remote!PairingTold, Remote!ReadersServed
      <2> QED BY <2>3, <2>4, <2>5 DEF Remote!Inv, Remote!TransportOwned
<1>15. ASSUME NEW r \in Readers, Remote!GetPublicKey(r) PROVE Remote!Inv'
      <2>1. /\ slot1' = slot1 /\ slot2' = slot2 /\ slot3' = slot3 /\ slot6' = slot6
            /\ slot5' \in [Readers -> {"idle", "waits", "answered", "rejected"}]
            /\ \/ slot4' = slot4 /\ (\A q \in Readers : slot5'[q] = "waits" => slot5[q] = "waits" \/ slot4.at = "reading")
               \/ slot4' = [at |-> "reading", tries |-> 1, asked |-> 1] /\ ~slot6.closed
            BY <1>i, <1>15 DEF Remote!GetPublicKey, Remote!TypeOK
      <2>2. Remote!PairingTold' /\ Remote!SocketsOwned'
            BY <1>s, <1>i, <2>1 DEF Remote!PairingTold, Remote!SocketsOwned
      <2>3. CASE slot4' = slot4 /\ (\A q \in Readers : slot5'[q] = "waits" => slot5[q] = "waits" \/ slot4.at = "reading")
            <3>1. Remote!TypeOK'
                  BY <1>i, <2>1, <2>3 DEF Remote!TypeOK
            <3>2. Remote!ReadersServed'
                  BY <1>i, <2>1, <2>3 DEF Remote!ReadersServed
            <3> QED BY <2>2, <3>1, <3>2 DEF Remote!Inv, Remote!TransportOwned
      <2>4. CASE slot4' = [at |-> "reading", tries |-> 1, asked |-> 1] /\ ~slot6.closed
            <3>1. slot4'.at = "reading" /\ slot4'.tries = 1 /\ slot4' \in [at : {"none", "reading", "known"}, tries : Nat, asked : Nat]
                  BY <2>4
            <3>2. Remote!TypeOK'
                  BY <1>i, <2>1, <3>1 DEF Remote!TypeOK
            <3>3. Remote!ReadersServed'
                  BY <1>0, <2>1, <2>4, <3>1 DEF Remote!ReadersServed
            <3> QED BY <2>2, <3>2, <3>3 DEF Remote!Inv, Remote!TransportOwned
      <2> QED BY <2>1, <2>3, <2>4
<1> QED BY <1>1, <1>2, <1>3, <1>4, <1>5, <1>6, <1>7, <1>8, <1>9, <1>10, <1>11, <1>12, <1>13, <1>14, <1>15 DEF Remote!Next

LEMMA RemoteStarts ==
    ASSUME Remote!Init, ClientsAssumption
    PROVE  Remote!Inv
<1>1. PICK n \in DOMAIN RemoteScenes : Remote!InitOf(n)
      BY DEF Remote!Init
<1>2. RemoteScenes[n].drops \in Nat /\ MaxTries \in Nat /\ 0 <= MaxTries /\ None # "timeout"
      BY DEF ClientsAssumption
<1>3. Remote!TypeOK /\ Remote!PairingTold /\ Remote!SocketsOwned
      BY <1>1, <1>2 DEF Remote!InitOf, Remote!NoRead, Remote!TypeOK, Remote!PairingTold, Remote!SocketsOwned
<1>4. slot4.tries = 0 /\ slot4.at = "none" /\ \A r \in Readers : slot5[r] = "idle"
      BY <1>1 DEF Remote!InitOf, Remote!NoRead
<1>5. Remote!ReadersServed
      BY <1>2, <1>4 DEF Remote!ReadersServed
<1> QED BY <1>3, <1>5 DEF Remote!Inv, Remote!TransportOwned

----------------------------------------------------------------------------
(* HTTP login.                                                             *)

\* What verifyAuthEvent() lets through.
LEMMA EventVerified ==
    ASSUME NEW v, NEW e, Login!VerifyAuthEvent(v, e) = "ok"
    PROVE  /\ e.chal.secret = Login!Opts(v).secret /\ ~(slot1 - e.chal.at > ChallengeTtl)
           /\ Login!Opts(v).url \in {None, e.url}
BY DEF Login!VerifyAuthEvent, Login!VerifyChallenge

\* What was true of the clock's past stays true of it.
LEMMA PastStays ==
    ASSUME slot1 \in Nat, slot1' \in Nat, slot1 <= slot1'
    PROVE  0..slot1 \subseteq 0..slot1'
OBVIOUS

\* Nobody but a browser's own login moves it on.
LEMMA LoginMoves ==
    ASSUME Login!LoginsSound, slot1' = slot1, NEW b \in Browsers, NEW x, slot2' = [slot2 EXCEPT ![b] = x],
           x.at \in {"challenged", "prompt"} => x.service \in Services /\ x.chal.at \in 0..slot1
    PROVE  Login!LoginsSound'
BY DEF Login!LoginsSound

\* An answer to a browser ends its login; a token it brings goes into the browser's jar.
LEMMA AnswerGiven ==
    ASSUME Login!LoginsSound, Login!JarsSound, slot1' = slot1, slot7' = slot7, NEW b \in Browsers, NEW t,
           Login!Answered(b, t), t = None \/ (t \in slot5' /\ t.by \in Services), slot5 \subseteq slot5'
    PROVE  Login!LoginsSound' /\ Login!JarsSound'
<1>1. Login!LoginsSound'
      BY LoginMoves DEF Login!Answered, Login!Idle
<1>2. slot6 \in [Browsers -> [Services -> slot5' \cup {None}]]
      BY DEF Login!JarsSound
<1>3. CASE t = None
      BY <1>1, <1>2, <1>3 DEF Login!Answered, Login!JarsSound
<1>4. CASE t # None
      <2>1. slot6' = [slot6 EXCEPT ![b][t.by] = t] /\ t \in slot5' /\ t.by \in Services
            BY <1>4 DEF Login!Answered
      <2>2. slot6' \in [Browsers -> [Services -> slot5' \cup {None}]]
            BY <1>2, <2>1
      <2> QED BY <1>1, <2>2 DEF Login!JarsSound
<1> QED BY <1>3, <1>4

\* What nothing of a step touches.
LEMMA LoginFrame ==
    ASSUME Login!Inv, UNCHANGED slot8.scene
    PROVE  /\ \A v : Login!Opts(v)' = Login!Opts(v)
           /\ UNCHANGED <<slot1, slot4>> => Login!SignedSound'
           /\ UNCHANGED <<slot1, slot3, slot4>> => Login!PostsSound'
           /\ UNCHANGED <<slot1, slot2>> => Login!LoginsSound'
           /\ UNCHANGED <<slot5, slot6, slot7>> => Login!JarsSound'
           /\ slot4 \subseteq slot4' /\ UNCHANGED slot5 => Login!TokensProven'
           /\ slot5 \subseteq slot5' /\ UNCHANGED slot7 => Login!AnswersProven'
<1>1. \A v : Login!Opts(v)' = Login!Opts(v)
      BY DEF Login!Opts, Login!Scene
<1>2. UNCHANGED <<slot1, slot4>> => Login!SignedSound'
      BY DEF Login!Inv, Login!SignedSound
<1>3. UNCHANGED <<slot1, slot3, slot4>> => Login!PostsSound'
      BY <1>1 DEF Login!Inv, Login!PostsSound, Login!Checked
<1>4. UNCHANGED <<slot1, slot2>> => Login!LoginsSound'
      BY DEF Login!Inv, Login!LoginsSound
<1>5. UNCHANGED <<slot5, slot6, slot7>> => Login!JarsSound'
      BY DEF Login!Inv, Login!JarsSound
<1>6. slot4 \subseteq slot4' /\ UNCHANGED slot5 => Login!TokensProven'
      BY <1>1 DEF Login!Inv, Login!SessionProven, Login!TokensProven
<1>7. slot5 \subseteq slot5' /\ UNCHANGED slot7 => Login!AnswersProven'
      BY <1>1 DEF Login!Inv, Login!SessionProven, Login!AnswersProven
<1> QED BY <1>1, <1>2, <1>3, <1>4, <1>5, <1>6, <1>7

\* Every step of a browser, of a service, of the network and of the clock.
LEMMA LoginKeeps ==
    ASSUME Login!Inv, Login!Next, ClientsAssumption
    PROVE  Login!Inv'
<1>i. /\ slot1 \in Nat /\ slot8 \in [scene : DOMAIN LoginScenes, logins : Nat, again : Nat]
      /\ Login!LoginsSound /\ Login!SignedSound /\ Login!PostsSound /\ Login!JarsSound
      /\ (\A t \in slot5 : t.by \in Services) /\ Login!TokensProven /\ Login!AnswersProven
      BY DEF Login!Inv, Login!SessionProven
<1>n. PICK logins \in Nat, again \in Nat : logins = slot8.logins /\ again = slot8.again
      BY <1>i
<1>t. ChallengeTtl \in Nat
      BY DEF ClientsAssumption
<1>1. CASE Login!Tick
      <2>1. /\ slot1' = slot1 + 1 /\ slot2' = slot2 /\ slot3' = slot3 /\ slot4' = slot4 /\ slot5' = slot5
            /\ slot7' = slot7 /\ slot8' = slot8
            BY <1>1 DEF Login!Tick
      <2>2. slot1' \in Nat /\ 0..slot1 \subseteq 0..slot1'
            BY <1>i, <2>1, PastStays
      <2>3. Login!LoginsSound' /\ Login!SignedSound'
            BY <1>i, <2>1, <2>2 DEF Login!LoginsSound, Login!SignedSound
      <2>4. Login!PostsSound'
            BY <1>i, <2>1, <2>2, LoginFrame DEF Login!PostsSound, Login!Checked
      <2>5. Login!JarsSound'
            BY <1>i, <1>1, <2>1 DEF Login!Tick, Login!JarsSound
      <2> QED BY <1>i, <2>1, <2>2, <2>3, <2>4, <2>5, LoginFrame DEF Login!Inv, Login!SessionProven
<1>2. ASSUME NEW b \in Browsers, NEW v \in Services, Login!FetchChallenge(b, v) PROVE Login!Inv'
      <2> DEFINE x == [at |-> "challenged", service |-> v, chal |-> Login!IssueChallenge(v)]
      <2>1. /\ slot8' = [slot8 EXCEPT !.logins = logins - 1] /\ logins > 0 /\ slot2' = [slot2 EXCEPT ![b] = x]
            /\ slot1' = slot1 /\ slot3' = slot3 /\ slot4' = slot4 /\ slot5' = slot5 /\ slot6' = slot6 /\ slot7' = slot7
            BY <1>2, <1>n DEF Login!FetchChallenge
      <2>2. logins - 1 \in Nat
            BY <2>1
      <2>3. slot8' \in [scene : DOMAIN LoginScenes, logins : Nat, again : Nat] /\ slot8'.scene = slot8.scene
            BY <1>i, <2>1, <2>2
      <2>4. x.service \in Services /\ x.chal.at \in 0..slot1
            BY <1>i DEF Login!IssueChallenge
      <2> HIDE DEF x
      <2>5. Login!LoginsSound'
            BY <1>i, <2>1, <2>4, LoginMoves
      <2> QED BY <1>i, <2>1, <2>3, <2>5, LoginFrame DEF Login!Inv, Login!SessionProven
<1>3. ASSUME NEW b \in Browsers, Login!BuildAuthEvent(b) PROVE Login!Inv'
      <2> DEFINE x == [at |-> "prompt", service |-> slot2[b].service, chal |-> slot2[b].chal, created |-> Login!Clock(b)]
      <2>1. /\ slot2[b].at = "challenged" /\ slot2' = [slot2 EXCEPT ![b] = x] /\ slot1' = slot1 /\ slot3' = slot3
            /\ slot4' = slot4 /\ slot5' = slot5 /\ slot6' = slot6 /\ slot7' = slot7 /\ slot8' = slot8
            BY <1>3 DEF Login!BuildAuthEvent
      <2>2. x.service \in Services /\ x.chal.at \in 0..slot1
            BY <1>i, <2>1 DEF Login!LoginsSound
      <2> HIDE DEF x
      <2>3. Login!LoginsSound'
            BY <1>i, <2>1, <2>2, LoginMoves
      <2> QED BY <1>i, <2>1, <2>3, LoginFrame DEF Login!Inv, Login!SessionProven
<1>4. ASSUME NEW b \in Browsers, Login!LoginFails(b) PROVE Login!Inv'
      <2>1. /\ slot2' = [slot2 EXCEPT ![b] = Login!Idle] /\ slot1' = slot1 /\ slot3' = slot3
            /\ slot4' = slot4 /\ slot5' = slot5 /\ slot6' = slot6 /\ slot7' = slot7 /\ slot8' = slot8
            BY <1>4 DEF Login!LoginFails
      <2>2. Login!Idle.at = "idle"
            BY DEF Login!Idle
      <2>3. Login!LoginsSound'
            BY <1>i, <2>1, <2>2, LoginMoves
      <2> QED BY <1>i, <2>1, <2>3, LoginFrame DEF Login!Inv, Login!SessionProven
<1>5. ASSUME NEW b \in Browsers, NEW p, Login!SignerAnswers(b, p) PROVE Login!Inv'
      <2> DEFINE url == Login!Scene.posts[slot2[b].service]
                 e == [pub |-> p, chal |-> slot2[b].chal, created |-> slot2[b].created, url |-> url, at |-> slot1]
                 r == [from |-> b, to |-> slot2[b].service, event |-> e, step |-> "sent", checked |-> None]
      <2>1. /\ slot2[b].at = "prompt" /\ slot4' = slot4 \cup {e} /\ slot2' = [slot2 EXCEPT ![b].at = "posted"]
            /\ slot3' = slot3 \cup {r} /\ slot1' = slot1 /\ slot5' = slot5 /\ slot6' = slot6 /\ slot7' = slot7 /\ slot8' = slot8
            BY <1>5 DEF Login!SignerAnswers
      <2>2. slot2[b].service \in Services /\ slot2[b].chal.at \in 0..slot1
            BY <1>i, <2>1 DEF Login!LoginsSound
      <2>3. e.chal = slot2[b].chal /\ e.at = slot1
            OBVIOUS
      <2>4. r \in [from : Browsers, to : Services, event : {e}, step : {"sent", "hook"}, checked : Nat \cup {None}] /\ r.step = "sent"
            <3> HIDE DEF e
            <3> QED BY <2>2
      <2> HIDE DEF e, r
      <2>5. Login!LoginsSound'
            BY <1>i, <2>1 DEF Login!LoginsSound
      <2>6. Login!SignedSound'
            <3>1. \A k \in 0..slot1 : k <= slot1 /\ slot1 \in 0..slot1
                  BY <1>i
            <3> QED BY <1>i, <2>1, <2>2, <2>3, <3>1 DEF Login!SignedSound
      <2>7. Login!PostsSound'
            BY <1>i, <2>1, <2>4, LoginFrame DEF Login!PostsSound, Login!Checked
      <2> QED BY <1>i, <2>1, <2>5, <2>6, <2>7, LoginFrame DEF Login!Inv, Login!SessionProven
<1>6. ASSUME NEW r \in slot3, Login!Verify(r) PROVE Login!Inv'
      <2>1. /\ r.step = "sent" /\ slot1' = slot1 /\ slot4' = slot4 /\ slot5' = slot5 /\ slot7' = slot7 /\ slot8' = slot8
            BY <1>6 DEF Login!Verify
      <2>2. r \in [from : Browsers, to : Services, event : slot4, step : {"sent", "hook"}, checked : Nat \cup {None}]
            BY <1>i DEF Login!PostsSound
      <2>3. CASE Login!VerifyAuthEvent(r.to, r.event) = "ok"
            <3> DEFINE q == [r EXCEPT !.step = "hook", !.checked = slot1]
            <3>1. slot3' = (slot3 \ {r}) \cup {q} /\ slot2' = slot2 /\ slot6' = slot6
                  BY <1>6, <2>3 DEF Login!Verify
            <3>2. /\ q \in [from : Browsers, to : Services, event : slot4, step : {"sent", "hook"}, checked : Nat \cup {None}]
                  /\ q.to = r.to /\ q.event = r.event /\ q.checked = slot1
                  BY <1>i, <2>2
            <3>3. Login!Checked(r.to, r.event, slot1)
                  <4>1. PICK c \in Nat, n \in Nat : c = r.event.chal.at /\ n = slot1
                        BY <1>i, <2>2 DEF Login!SignedSound
                  <4>2. ~(n - c > ChallengeTtl)
                        BY <2>3, <4>1, EventVerified
                  <4>3. n - c <= ChallengeTtl /\ n \in 0..n
                        BY <1>t, <4>2
                  <4>4. r.event.at <= slot1
                        BY <1>i, <2>2 DEF Login!SignedSound
                  <4> QED BY <2>3, <4>1, <4>3, <4>4, EventVerified DEF Login!Checked
            <3> HIDE DEF q
            <3>4. Login!PostsSound'
                  BY <1>i, <2>1, <3>1, <3>2, <3>3, LoginFrame DEF Login!PostsSound, Login!Checked
            <3> QED BY <1>i, <2>1, <3>1, <3>4, LoginFrame DEF Login!Inv, Login!SessionProven
      <2>4. CASE Login!VerifyAuthEvent(r.to, r.event) # "ok"
            <3>1. slot3' = slot3 \ {r} /\ Login!Answered(r.from, None)
                  BY <1>6, <2>4 DEF Login!Verify
            <3>2. Login!LoginsSound' /\ Login!JarsSound'
                  BY <1>i, <2>1, <2>2, <3>1, AnswerGiven
            <3>3. Login!PostsSound'
                  BY <1>i, <2>1, <3>1, LoginFrame DEF Login!PostsSound, Login!Checked
            <3> QED BY <1>i, <2>1, <3>2, <3>3, LoginFrame DEF Login!Inv, Login!SessionProven
      <2> QED BY <2>3, <2>4
<1>7. ASSUME NEW r \in slot3, Login!HookAccepts(r) PROVE Login!Inv'
      <2> DEFINE t == Login!SignAuthJwt(r.to, r.event, r.checked)
      <2>1. /\ r.step = "hook" /\ slot5' = slot5 \cup {t} /\ slot3' = slot3 \ {r}
            /\ slot1' = slot1 /\ slot4' = slot4 /\ slot7' = slot7 /\ slot8' = slot8
            BY <1>7 DEF Login!HookAccepts
      <2>2. r \in [from : Browsers, to : Services, event : slot4, step : {"sent", "hook"}, checked : Nat \cup {None}]
            BY <1>i DEF Login!PostsSound
      <2>3. Login!Checked(r.to, r.event, r.checked)
            BY <1>i, <2>1 DEF Login!PostsSound
      <2>4. t.by = r.to /\ t.event = r.event /\ t.pub = r.event.pub /\ t.checked = r.checked
            BY DEF Login!SignAuthJwt
      <2>5. Login!LoginsSound' /\ Login!JarsSound'
            <3>1. CASE slot2[r.from].at = "posted"
                  <4>1. Login!Answered(r.from, t)
                        BY <1>7, <3>1 DEF Login!HookAccepts
                  <4> HIDE DEF t
                  <4> QED BY <1>i, <2>1, <2>2, <2>4, <4>1, AnswerGiven
            <3>2. CASE slot2[r.from].at # "posted"
                  <4>1. slot2' = slot2 /\ slot6' = slot6
                        BY <1>7, <3>2 DEF Login!HookAccepts
                  <4> HIDE DEF t
                  <4> QED BY <1>i, <2>1, <4>1, LoginFrame DEF Login!JarsSound
            <3> QED BY <3>1, <3>2
      <2> HIDE DEF t
      <2>6. Login!PostsSound'
            BY <1>i, <2>1, LoginFrame DEF Login!PostsSound, Login!Checked
      <2>7. Login!TokensProven'
            <3>1. \A v : Login!Opts(v)' = Login!Opts(v)
                  BY <2>1, LoginFrame
            <3>2. r.event.chal.at <= r.event.at /\ r.event \in slot4
                  BY <1>i, <2>2 DEF Login!SignedSound
            <3> QED BY <1>i, <2>1, <2>3, <2>4, <3>1, <3>2 DEF Login!TokensProven, Login!Checked
      <2> QED BY <1>i, <2>1, <2>2, <2>4, <2>5, <2>6, <2>7, LoginFrame DEF Login!Inv, Login!SessionProven
<1>8. ASSUME NEW r \in slot3, Login!HookRejects(r) PROVE Login!Inv'
      <2>1. /\ slot3' = slot3 \ {r} /\ slot1' = slot1 /\ slot4' = slot4 /\ slot5' = slot5 /\ slot7' = slot7 /\ slot8' = slot8
            BY <1>8 DEF Login!HookRejects
      <2>2. r.from \in Browsers
            BY <1>i DEF Login!PostsSound
      <2>3. Login!LoginsSound' /\ Login!JarsSound'
            <3>1. CASE slot2[r.from].at = "posted"
                  <4>1. Login!Answered(r.from, None)
                        BY <1>8, <3>1 DEF Login!HookRejects
                  <4> QED BY <1>i, <2>1, <2>2, <4>1, AnswerGiven
            <3>2. CASE slot2[r.from].at # "posted"
                  <4>1. slot2' = slot2 /\ slot6' = slot6
                        BY <1>8, <3>2 DEF Login!HookRejects
                  <4> QED BY <2>1, <4>1, LoginFrame
            <3> QED BY <3>1, <3>2
      <2>4. Login!PostsSound'
            BY <1>i, <2>1, LoginFrame DEF Login!PostsSound, Login!Checked
      <2> QED BY <1>i, <2>1, <2>3, <2>4, LoginFrame DEF Login!Inv, Login!SessionProven
<1>9. ASSUME NEW b \in Browsers, NEW v \in Services, NEW e \in slot4, Login!Redelivered(e, b, v) PROVE Login!Inv'
      <2> DEFINE r == [from |-> b, to |-> v, event |-> e, step |-> "sent", checked |-> None]
      <2>1. /\ slot8' = [slot8 EXCEPT !.again = again - 1] /\ again > 0 /\ slot3' = slot3 \cup {r}
            /\ slot1' = slot1 /\ slot2' = slot2 /\ slot4' = slot4 /\ slot5' = slot5 /\ slot6' = slot6 /\ slot7' = slot7
            BY <1>9, <1>n DEF Login!Redelivered
      <2>2. again - 1 \in Nat
            BY <2>1
      <2>3. slot8' \in [scene : DOMAIN LoginScenes, logins : Nat, again : Nat] /\ slot8'.scene = slot8.scene
            BY <1>i, <2>1, <2>2
      <2>4. r \in [from : Browsers, to : Services, event : slot4, step : {"sent", "hook"}, checked : Nat \cup {None}]
            /\ r.step = "sent"
            OBVIOUS
      <2> HIDE DEF r
      <2>5. Login!PostsSound'
            BY <1>i, <2>1, <2>3, <2>4, LoginFrame DEF Login!PostsSound, Login!Checked
      <2> QED BY <1>i, <2>1, <2>3, <2>5, LoginFrame DEF Login!Inv, Login!SessionProven
<1>10. ASSUME NEW b \in Browsers, NEW v \in Services, NEW t \in slot5 \cup {None}, Login!Me(b, v, t) PROVE Login!Inv'
      <2> DEFINE u == Login!ReadJwt(b, v, t)
      <2>1. /\ slot7' = [slot7 EXCEPT ![b] = IF u # None /\ Login!VerifyAuthJwt(v, u) THEN [token |-> u, at |-> slot1, by |-> v] ELSE None]
            /\ slot1' = slot1 /\ slot2' = slot2 /\ slot3' = slot3 /\ slot4' = slot4 /\ slot5' = slot5 /\ slot6' = slot6 /\ slot8' = slot8
            BY <1>10 DEF Login!Me
      <2>2. u \in slot5 \cup {None}
            BY <1>i DEF Login!JarsSound, Login!ReadJwt
      <2> HIDE DEF u
      <2>3. Login!JarsSound'
            BY <1>i, <2>1 DEF Login!JarsSound
      <2>4. \A w : Login!Opts(w)' = Login!Opts(w)
            BY <2>1, LoginFrame
      <2>5. Login!AnswersProven'
            <3>1. CASE u # None /\ Login!VerifyAuthJwt(v, u)
                  <4> DEFINE x == [token |-> u, at |-> slot1, by |-> v]
                  <4>1. /\ x.token \in slot5 /\ x.at < x.token.exp /\ Login!Opts(x.by).secret = Login!Opts(x.token.by).secret
                        /\ Login!Opts(x.by).audience \in {None, Login!Opts(x.token.by).audience}
                        BY <2>2, <3>1 DEF Login!VerifyAuthJwt
                  <4>2. slot7' = [slot7 EXCEPT ![b] = x]
                        BY <2>1, <3>1
                  <4> HIDE DEF x
                  <4> QED BY <1>i, <2>1, <2>4, <4>1, <4>2 DEF Login!AnswersProven, Login!JarsSound
            <3>2. CASE ~(u # None /\ Login!VerifyAuthJwt(v, u))
                  <4>1. slot7' = [slot7 EXCEPT ![b] = None]
                        BY <2>1, <3>2
                  <4> QED BY <1>i, <2>1, <2>4, <4>1 DEF Login!AnswersProven, Login!JarsSound
            <3> QED BY <3>1, <3>2
      <2> QED BY <1>i, <2>1, <2>3, <2>5, LoginFrame DEF Login!Inv, Login!SessionProven
<1>11. ASSUME NEW b \in Browsers, NEW v \in Services, Login!Logout(b, v) PROVE Login!Inv'
      <2>1. /\ slot6' = [slot6 EXCEPT ![b][v] = None] /\ slot1' = slot1 /\ slot2' = slot2 /\ slot3' = slot3
            /\ slot4' = slot4 /\ slot5' = slot5 /\ slot7' = slot7 /\ slot8' = slot8
            BY <1>11 DEF Login!Logout
      <2>2. Login!JarsSound'
            BY <1>i, <2>1 DEF Login!JarsSound
      <2> QED BY <1>i, <2>1, <2>2, LoginFrame DEF Login!Inv, Login!SessionProven
<1> QED BY <1>1, <1>2, <1>3, <1>4, <1>5, <1>6, <1>7, <1>8, <1>9, <1>10, <1>11 DEF Login!Next

LEMMA LoginStarts ==
    ASSUME Login!Init, ClientsAssumption
    PROVE  Login!Inv
<1>1. PICK n \in DOMAIN LoginScenes : Login!InitOf(n)
      BY DEF Login!Init
<1>2. LoginScenes[n].logins \in Nat /\ LoginScenes[n].again \in Nat
      BY DEF ClientsAssumption
<1> QED BY <1>1, <1>2 DEF Login!InitOf, Login!Idle, Login!Inv, Login!LoginsSound, Login!SignedSound, Login!PostsSound,
                          Login!JarsSound, Login!SessionProven, Login!TokensProven, Login!AnswersProven

----------------------------------------------------------------------------
(* The message cache.                                                      *)

\* Ids tell the account's messages apart.
LEMMA IdsTell ==
    ASSUME ClientsAssumption, slot13.scene \in DOMAIN InboxScenes, NEW m, NEW k, Inbox!Known(m), Inbox!Known(k), m.id = k.id
    PROVE  m = k
BY DEF ClientsAssumption, Inbox!Known

\* What eviction drops, it drops of the strangers.
LEMMA VictimsEvictable ==
    ASSUME NEW ms, NEW d \in Inbox!Victims(ms)
    PROVE  d \subseteq ms /\ \A m \in d : slot3 # None /\ m.partner \notin slot3
<1>1. d = {} \/ d \in SUBSET Inbox!Evictable(ms)
      BY DEF Inbox!Victims, Inbox!kSubset
<1>2. Inbox!Evictable(ms) \subseteq ms /\ \A m \in Inbox!Evictable(ms) : slot3 # None /\ m.partner \notin slot3
      BY DEF Inbox!Evictable
<1> QED BY <1>1, <1>2

\* Dropping messages together with their ids loses none of the others.
LEMMA ForgetsWhole ==
    ASSUME NEW ms, NEW ids, NEW gone, NEW d \in SUBSET ms, Inbox!Kept(ms, ids, gone)
    PROVE  Inbox!Kept(ms \ d, ids \ Inbox!Ids(d), gone)
<1>1. \A m, k \in ms : m.id = k.id => m = k
      BY DEF Inbox!Kept
<1>2. Inbox!Ids(ms \ d) \subseteq ids \ Inbox!Ids(d)
      BY <1>1 DEF Inbox!Kept, Inbox!Ids
<1>3. ids \ Inbox!Ids(d) \subseteq Inbox!Ids(ms \ d) \cup Inbox!Ids(gone)
      BY DEF Inbox!Kept, Inbox!Ids
<1> QED BY <1>1, <1>2, <1>3 DEF Inbox!Kept

\* A change of the conversation list, and the eviction that follows it.
LEMMA ChangedKeeps ==
    ASSUME NEW ms, NEW ids, NEW past, Inbox!Changed(ms, ids, past), Inbox!Kept(ms, ids, past.replaced),
           DOMAIN past = {"evicted", "replaced", "remint"},
           \A d \in past.evicted : d.follows # None /\ d.msg.partner \notin d.follows
    PROVE  /\ slot1' \subseteq ms /\ Inbox!Kept(slot1, slot2, slot12.replaced)' /\ Inbox!StrangersEvicted'
           /\ DOMAIN slot12' = {"evicted", "replaced", "remint"} /\ slot12'.remint = past.remint
<1>1. PICK d \in IF Inbox!Hydrated = {} THEN {{}} ELSE Inbox!Victims(ms) :
        /\ Inbox!Forgotten(ms, ids, d)
        /\ slot12' = [past EXCEPT !.evicted = @ \cup {[msg |-> m, follows |-> slot3] : m \in d}]
      BY DEF Inbox!Changed
<1>2. d \subseteq ms /\ \A m \in d : slot3 # None /\ m.partner \notin slot3
      BY <1>1, VictimsEvictable
<1>3. slot1' = ms \ d /\ slot2' = ids \ Inbox!Ids(d)
      BY <1>1 DEF Inbox!Forgotten
<1>4. /\ DOMAIN slot12' = {"evicted", "replaced", "remint"} /\ slot12'.remint = past.remint /\ slot12'.replaced = past.replaced
      /\ slot12'.evicted = past.evicted \cup {[msg |-> m, follows |-> slot3] : m \in d}
      BY <1>1
<1>5. Inbox!Kept(ms \ d, ids \ Inbox!Ids(d), past.replaced)
      BY <1>2, ForgetsWhole
<1>6. Inbox!Kept(slot1, slot2, slot12.replaced)'
      BY <1>3, <1>4, <1>5 DEF Inbox!Kept, Inbox!Ids
<1>7. Inbox!StrangersEvicted'
      <2>1. ASSUME NEW x \in slot12'.evicted PROVE x.follows # None /\ x.msg.partner \notin x.follows
            <3>1. CASE x \in past.evicted
                  BY <3>1
            <3>2. CASE x \in {[msg |-> m, follows |-> slot3] : m \in d}
                  BY <1>2, <3>2
            <3> QED BY <1>4, <2>1, <3>1, <3>2
      <2> QED BY <2>1 DEF Inbox!StrangersEvicted
<1> QED BY <1>3, <1>4, <1>6, <1>7

\* Putting the saves off changes a session's timer and nothing else of it.
LEMMA SavingKeeps ==
    ASSUME Inbox!SessionsSound, slot9' = slot9, NEW ses, Inbox!Saving(ses),
           ses = slot5 \/ \E s \in Sessions : ses = [slot5 EXCEPT ![s].at = "live"] /\ slot5[s].at = "load"
    PROVE  /\ Inbox!SessionsSound'
           /\ \A r \in Sessions : /\ slot5'[r].key = slot5[r].key /\ slot5'[r].mints = slot5[r].mints
                                  /\ slot5'[r].at = slot5[r].at \/ (slot5[r].at = "load" /\ slot5'[r].at = "live")
<1> DEFINE T == [at : {"new", "key", "load", "live", "deaf", "closed"}, key : Sessions \cup {None}, mints : BOOLEAN,
                 inbox : {"none", "looking", "open"}, timer : BOOLEAN]
<1>1. slot5 \in [Sessions -> T] /\ \A r \in Sessions : slot5[r].timer => slot5[r].at \in {"live", "deaf"}
      BY DEF Inbox!SessionsSound
<1>2. slot5' = [r \in Sessions |-> IF r \in Inbox!Hydrated THEN [ses[r] EXCEPT !.timer = TRUE] ELSE ses[r]]
      BY DEF Inbox!Saving
<1>3. ASSUME NEW r \in Sessions
      PROVE  /\ ses[r] \in T /\ ses[r].key = slot5[r].key /\ ses[r].mints = slot5[r].mints /\ ses[r].timer = slot5[r].timer
             /\ ses[r].at = slot5[r].at \/ (slot5[r].at = "load" /\ ses[r].at = "live")
      BY <1>1
<1>4. ASSUME NEW r \in Sessions
      PROVE  /\ slot5'[r] \in T /\ slot5'[r].key = slot5[r].key /\ slot5'[r].mints = slot5[r].mints
             /\ slot5'[r].at = slot5[r].at \/ (slot5[r].at = "load" /\ slot5'[r].at = "live")
             /\ slot5'[r].timer => slot5'[r].at \in {"live", "deaf"}
      <2>1. CASE r \in Inbox!Hydrated
            <3>1. slot5[r].at = "live" /\ slot5'[r] = [ses[r] EXCEPT !.timer = TRUE]
                  BY <1>2, <2>1 DEF Inbox!Hydrated
            <3> QED BY <1>3, <3>1
      <2>2. CASE r \notin Inbox!Hydrated
            <3>1. slot5'[r] = ses[r]
                  BY <1>2, <2>2
            <3> QED BY <1>1, <1>3, <3>1
      <2> QED BY <2>1, <2>2
<1>5. slot5' \in [Sessions -> T]
      BY <1>2, <1>4
<1> QED BY <1>4, <1>5 DEF Inbox!SessionsSound

\* The keys stay what they were while nobody gets or mints one.
LEMMA KeysStay ==
    ASSUME Inbox!OneKey, Inbox!SessionsSound, slot9' = slot9, slot10' \subseteq slot10, slot11' \subseteq slot11,
           \A r \in Sessions : /\ slot5'[r].key = slot5[r].key /\ slot5'[r].mints = slot5[r].mints
                               /\ slot5'[r].at \in {slot5[r].at, "closed"}
                                  \/ (slot5[r].at \in {"load", "live"} /\ slot5'[r].at \in {"live", "deaf"})
    PROVE  Inbox!OneKey'
BY DEF Inbox!OneKey, Inbox!SessionsSound

\* An event's message is ingested, once.
LEMMA IngestKeeps ==
    ASSUME Inbox!Inv, ClientsAssumption, NEW m, Inbox!Known(m), Inbox!IngestMessage(m),
           slot9' = slot9, slot10' = slot10, slot11' = slot11, slot13'.scene = slot13.scene
    PROVE  /\ Inbox!Kept(slot1, slot2, slot12.replaced)' /\ Inbox!StrangersEvicted'
           /\ DOMAIN slot12' = {"evicted", "replaced", "remint"} /\ slot12'.remint = slot12.remint
           /\ Inbox!StoreKnown' /\ Inbox!SessionsSound' /\ (Inbox!OneKey => Inbox!OneKey')
<1>i. /\ slot13.scene \in DOMAIN InboxScenes /\ DOMAIN slot12 = {"evicted", "replaced", "remint"}
      /\ Inbox!StoreKnown /\ Inbox!SessionsSound /\ Inbox!Kept(slot1, slot2, slot12.replaced) /\ Inbox!StrangersEvicted
      BY DEF Inbox!Inv, Inbox!InboxSound
<1>1. CASE m.id \in slot2
      <2>1. slot1' = slot1 /\ slot2' = slot2 /\ slot5' = slot5 /\ slot12' = slot12
            BY <1>1 DEF Inbox!IngestMessage
      <2>2. Inbox!Kept(slot1, slot2, slot12.replaced)' /\ Inbox!StrangersEvicted'
            BY <1>i, <2>1 DEF Inbox!Kept, Inbox!Ids, Inbox!StrangersEvicted
      <2>3. Inbox!StoreKnown' /\ Inbox!SessionsSound'
            BY <1>i, <2>1 DEF Inbox!StoreKnown, Inbox!Known, Inbox!SessionsSound
      <2>4. Inbox!OneKey => Inbox!OneKey'
            BY <1>i, <2>1, KeysStay
      <2> QED BY <1>i, <2>1, <2>2, <2>3, <2>4
<1>2. CASE m.id \notin slot2
      <2>1. Inbox!Changed(slot1 \cup {m}, slot2 \cup {m.id}, slot12) /\ Inbox!Saving(slot5)
            BY <1>2 DEF Inbox!IngestMessage
      <2>2. Inbox!Kept(slot1 \cup {m}, slot2 \cup {m.id}, slot12.replaced)
            <3>1. \A k \in slot1 : k.id # m.id
                  BY <1>2, <1>i DEF Inbox!Kept, Inbox!Ids
            <3> QED BY <1>i, <3>1 DEF Inbox!Kept, Inbox!Ids
      <2>3. /\ slot1' \subseteq slot1 \cup {m} /\ Inbox!Kept(slot1, slot2, slot12.replaced)' /\ Inbox!StrangersEvicted'
            /\ DOMAIN slot12' = {"evicted", "replaced", "remint"} /\ slot12'.remint = slot12.remint
            BY <1>i, <2>1, <2>2, ChangedKeeps DEF Inbox!StrangersEvicted
      <2>4. Inbox!StoreKnown'
            BY <1>i, <2>3 DEF Inbox!StoreKnown, Inbox!Known
      <2>5. /\ Inbox!SessionsSound'
            /\ \A r \in Sessions : /\ slot5'[r].key = slot5[r].key /\ slot5'[r].mints = slot5[r].mints
                                   /\ slot5'[r].at = slot5[r].at \/ (slot5[r].at = "load" /\ slot5'[r].at = "live")
            BY <1>i, <2>1, SavingKeeps
      <2>6. Inbox!OneKey => Inbox!OneKey'
            <3>1. SUFFICES ASSUME Inbox!OneKey PROVE Inbox!OneKey'
                  OBVIOUS
            <3> QED BY <1>i, <2>5, <3>1, KeysStay
      <2> QED BY <2>3, <2>4, <2>5, <2>6
<1> QED BY <1>1, <1>2

\* What nothing of a step touches.
LEMMA InboxFrame ==
    ASSUME Inbox!Inv, slot13'.scene = slot13.scene
    PROVE  /\ \A m : Inbox!Known(m)' <=> Inbox!Known(m)
           /\ UNCHANGED <<slot6, slot7, slot8>> => Inbox!MailKnown'
           /\ UNCHANGED <<slot1, slot10, slot11>> => Inbox!StoreKnown'
           /\ UNCHANGED <<slot5, slot9>> => Inbox!SessionsSound'
           /\ UNCHANGED <<slot1, slot2, slot12>> => Inbox!Kept(slot1, slot2, slot12.replaced)' /\ Inbox!StrangersEvicted'
           /\ UNCHANGED <<slot5, slot9, slot10, slot11>> => (Inbox!OneKey => Inbox!OneKey')
<1>1. \A m : Inbox!Known(m)' <=> Inbox!Known(m)
      BY DEF Inbox!Known
<1>2. UNCHANGED <<slot6, slot7, slot8>> => Inbox!MailKnown'
      BY <1>1 DEF Inbox!Inv, Inbox!MailKnown
<1>3. UNCHANGED <<slot1, slot10, slot11>> => Inbox!StoreKnown'
      BY <1>1 DEF Inbox!Inv, Inbox!StoreKnown
<1>4. UNCHANGED <<slot5, slot9>> => Inbox!SessionsSound'
      BY DEF Inbox!Inv, Inbox!SessionsSound
<1>5. UNCHANGED <<slot1, slot2, slot12>> => Inbox!Kept(slot1, slot2, slot12.replaced)' /\ Inbox!StrangersEvicted'
      BY DEF Inbox!Inv, Inbox!InboxSound, Inbox!Kept, Inbox!Ids, Inbox!StrangersEvicted
<1>6. UNCHANGED <<slot5, slot9, slot10, slot11>> => (Inbox!OneKey => Inbox!OneKey')
      BY DEF Inbox!OneKey
<1> QED BY <1>1, <1>2, <1>3, <1>4, <1>5, <1>6

LEMMA InboxNextState ==
    ASSUME Inbox!Inv, "scene" \in DOMAIN slot13', slot13'.scene = slot13.scene,
           DOMAIN slot12' = {"evicted", "replaced", "remint"}, slot12'.remint \in BOOLEAN,
           Inbox!MailKnown', Inbox!StoreKnown', Inbox!SessionsSound', ~slot12'.remint => Inbox!OneKey',
           Inbox!Kept(slot1, slot2, slot12.replaced)', Inbox!StrangersEvicted'
    PROVE  Inbox!Inv'
<1>1. Inbox!DiskOpens'
      BY DEF Inbox!DiskOpens, Inbox!OneKey
<1> QED BY <1>1 DEF Inbox!Inv, Inbox!InboxSound


\* The key of a session that opens, from memory, from the store or new.
LEMMA KeyGot ==
    ASSUME Inbox!Inv, ClientsAssumption, NEW s \in Sessions, Inbox!GetOrCreateCacheKey(s)
    PROVE  Inbox!SessionsSound' /\ (Inbox!OneKey => Inbox!OneKey')
<1> DEFINE k == IF slot9.ram # None THEN slot9.ram ELSE IF slot9.stored # None THEN slot9.stored ELSE s
           at == IF slot9.ram # None THEN "load" ELSE "key"
           new == slot9.ram = None /\ slot9.stored = None
           x == [at |-> at, key |-> k, mints |-> new, inbox |-> "none", timer |-> FALSE]
<1>1. /\ slot5' = [slot5 EXCEPT ![s] = x] /\ slot9' = slot9 /\ slot10' = slot10 /\ slot11' = slot11
      BY DEF Inbox!GetOrCreateCacheKey
<1>2. /\ Inbox!SessionsSound /\ None \notin Sessions
      BY DEF Inbox!Inv, ClientsAssumption
<1>3. k \in Sessions /\ k # None /\ at \in {"load", "key"} /\ new \in BOOLEAN
      BY <1>2 DEF Inbox!SessionsSound
<1>4. /\ at = "load" => k = slot9.ram /\ slot9.ram # None
      /\ at = "key" /\ ~new => k = slot9.stored /\ slot9.stored # None
      OBVIOUS
<1> HIDE DEF k, at, new
<1>5. /\ x \in [at : {"new", "key", "load", "live", "deaf", "closed"}, key : Sessions \cup {None}, mints : BOOLEAN,
                inbox : {"none", "looking", "open"}, timer : BOOLEAN]
      /\ x.at = at /\ x.key = k /\ x.mints = new /\ ~x.timer
      BY <1>3
<1> HIDE DEF x
<1>6. Inbox!SessionsSound'
      BY <1>1, <1>2, <1>3, <1>5 DEF Inbox!SessionsSound
<1>7. ASSUME Inbox!OneKey PROVE Inbox!OneKey'
      <2>1. ASSUME NEW r \in Sessions, slot5'[r].at \in {"load", "live", "deaf"} \/ (slot5'[r].at = "key" /\ ~slot5'[r].mints)
            PROVE  slot5'[r].key = slot9.stored /\ slot9.stored # None
            <3>1. CASE r = s
                  <4>1. slot5'[r] = x
                        BY <1>1, <1>2, <3>1 DEF Inbox!SessionsSound
                  <4> QED BY <1>3, <1>4, <1>5, <1>7, <2>1, <4>1 DEF Inbox!OneKey
            <3>2. CASE r # s
                  <4>1. slot5'[r] = slot5[r]
                        BY <1>1, <1>2, <3>2 DEF Inbox!SessionsSound
                  <4> QED BY <1>7, <2>1, <4>1 DEF Inbox!OneKey
            <3> QED BY <3>1, <3>2
      <2> QED BY <1>1, <1>7, <2>1 DEF Inbox!OneKey
<1> QED BY <1>6, <1>7

\* A key that was minted is stored; a second one is noted.
LEMMA KeyStored ==
    ASSUME Inbox!Inv, NEW s \in Sessions, Inbox!KeyReady(s)
    PROVE  /\ Inbox!SessionsSound' /\ DOMAIN slot12' = {"evicted", "replaced", "remint"} /\ slot12'.remint \in BOOLEAN
           /\ slot12'.evicted = slot12.evicted /\ slot12'.replaced = slot12.replaced
           /\ ~slot12'.remint => Inbox!OneKey'
<1> DEFINE again == slot12.remint \/ (slot5[s].mints /\ slot9.stored # None)
           x == [slot5[s] EXCEPT !.at = "load"]
<1>1. /\ slot5[s].at = "key" /\ slot5' = [slot5 EXCEPT ![s] = x] /\ slot10' = slot10 /\ slot11' = slot11
      /\ slot9' = [stored |-> IF slot5[s].mints THEN slot5[s].key ELSE slot9.stored, ram |-> slot5[s].key]
      /\ slot12' = [slot12 EXCEPT !.remint = again]
      BY DEF Inbox!KeyReady
<1>2. /\ Inbox!SessionsSound /\ DOMAIN slot12 = {"evicted", "replaced", "remint"} /\ slot12.remint \in BOOLEAN
      /\ ~slot12.remint => Inbox!OneKey
      BY DEF Inbox!Inv
<1>3. again \in BOOLEAN
      BY <1>2 DEF Inbox!SessionsSound
<1> HIDE DEF again
<1>4. /\ DOMAIN slot12' = {"evicted", "replaced", "remint"} /\ slot12'.remint = again
      /\ slot12'.evicted = slot12.evicted /\ slot12'.replaced = slot12.replaced
      BY <1>1, <1>2
<1>5. /\ x \in [at : {"new", "key", "load", "live", "deaf", "closed"}, key : Sessions \cup {None}, mints : BOOLEAN,
                inbox : {"none", "looking", "open"}, timer : BOOLEAN]
      /\ x.at = "load" /\ x.key = slot5[s].key /\ ~x.timer /\ slot5[s].key # None
      BY <1>1, <1>2 DEF Inbox!SessionsSound
<1> HIDE DEF x
<1>6. slot9'.ram = slot5[s].key /\ slot9'.stored = IF slot5[s].mints THEN slot5[s].key ELSE slot9.stored
      BY <1>1
<1>7. Inbox!SessionsSound'
      BY <1>1, <1>2, <1>5 DEF Inbox!SessionsSound
<1>8. ASSUME ~again PROVE Inbox!OneKey'
      <2>1. Inbox!OneKey /\ ~(slot5[s].mints /\ slot9.stored # None)
            BY <1>2, <1>8 DEF again
      <2>2. slot5[s].mints \/ (slot5[s].key = slot9.stored /\ slot9.stored # None)
            BY <1>1, <2>1 DEF Inbox!OneKey
      <2>3. slot9'.stored = slot5[s].key /\ slot9'.ram = slot9'.stored /\ slot9'.stored # None
            BY <1>5, <1>6, <2>2
      <2>4. slot9.stored # None => slot9'.stored = slot9.stored
            BY <1>6, <2>1
      <2>5. /\ \A r \in slot10 : r.key = slot9'.stored /\ slot9'.stored # None
            /\ \A v \in slot11 : \A r \in v.rows : r.key = slot9'.stored /\ slot9'.stored # None
            BY <2>1, <2>4 DEF Inbox!OneKey
      <2>6. ASSUME NEW r \in Sessions, slot5'[r].at \in {"load", "live", "deaf"} \/ (slot5'[r].at = "key" /\ ~slot5'[r].mints)
            PROVE  slot5'[r].key = slot9'.stored /\ slot9'.stored # None
            <3>1. CASE r = s
                  BY <1>1, <1>2, <1>5, <2>3, <3>1 DEF Inbox!SessionsSound
            <3>2. CASE r # s
                  <4>1. slot5'[r] = slot5[r]
                        BY <1>1, <1>2, <3>2 DEF Inbox!SessionsSound
                  <4> QED BY <2>1, <2>4, <2>6, <4>1 DEF Inbox!OneKey
            <3> QED BY <3>1, <3>2
      <2> QED BY <1>1, <2>3, <2>5, <2>6 DEF Inbox!OneKey
<1> QED BY <1>3, <1>4, <1>7, <1>8

\* Hydration replaces threads of the memory by those of the disk.
LEMMA ThreadsReplaced ==
    ASSUME Inbox!Inv, ClientsAssumption, NEW s \in Sessions, Inbox!HydrateMessages(s)
    PROVE  /\ Inbox!Kept(slot1, slot2, slot12.replaced)' /\ Inbox!StrangersEvicted'
           /\ DOMAIN slot12' = {"evicted", "replaced", "remint"} /\ slot12'.remint = slot12.remint
           /\ Inbox!StoreKnown' /\ Inbox!SessionsSound' /\ (Inbox!OneKey => Inbox!OneKey')
<1> DEFINE rows == Inbox!Readable(slot5[s].key)
           kept == {m \in slot1 : m.partner \notin Inbox!Partners({r.msg : r \in slot10})}
           past == [slot12 EXCEPT !.replaced = @ \cup ((slot1 \ kept) \ rows)]
           ses  == [slot5 EXCEPT ![s].at = "live"]
<1>i. /\ slot13.scene \in DOMAIN InboxScenes /\ DOMAIN slot12 = {"evicted", "replaced", "remint"}
      /\ Inbox!StoreKnown /\ Inbox!SessionsSound /\ Inbox!Kept(slot1, slot2, slot12.replaced) /\ Inbox!StrangersEvicted
      BY DEF Inbox!Inv, Inbox!InboxSound
<1>1. /\ slot5[s].at = "load" /\ Inbox!Saving(ses) /\ Inbox!Changed(kept \cup rows, slot2 \cup Inbox!Ids(rows), past)
      /\ slot9' = slot9 /\ slot10' = slot10 /\ slot11' = slot11 /\ slot13' = slot13
      BY DEF Inbox!HydrateMessages
<1>2. kept \subseteq slot1 /\ (\A m \in rows : Inbox!Known(m)) /\ (\A m \in slot1 : Inbox!Known(m))
      BY <1>i DEF Inbox!StoreKnown, Inbox!Readable
<1>3. /\ past.evicted = slot12.evicted /\ past.remint = slot12.remint /\ DOMAIN past = {"evicted", "replaced", "remint"}
      /\ past.replaced = slot12.replaced \cup ((slot1 \ kept) \ rows)
      BY <1>i
<1> HIDE DEF rows, kept, past
<1>4. Inbox!Kept(kept \cup rows, slot2 \cup Inbox!Ids(rows), past.replaced)
      <2>1. \A m, k \in kept \cup rows : m.id = k.id => m = k
            BY <1>i, <1>2, IdsTell
      <2>2. Inbox!Ids(kept \cup rows) \subseteq slot2 \cup Inbox!Ids(rows)
            BY <1>i, <1>2 DEF Inbox!Kept, Inbox!Ids
      <2>3. slot2 \cup Inbox!Ids(rows) \subseteq Inbox!Ids(kept \cup rows) \cup Inbox!Ids(past.replaced)
            BY <1>i, <1>3 DEF Inbox!Kept, Inbox!Ids
      <2> QED BY <2>1, <2>2, <2>3 DEF Inbox!Kept
<1>5. /\ slot1' \subseteq kept \cup rows /\ Inbox!Kept(slot1, slot2, slot12.replaced)' /\ Inbox!StrangersEvicted'
      /\ DOMAIN slot12' = {"evicted", "replaced", "remint"} /\ slot12'.remint = slot12.remint
      <2>1. \A d \in past.evicted : d.follows # None /\ d.msg.partner \notin d.follows
            BY <1>i, <1>3 DEF Inbox!StrangersEvicted
      <2> QED BY <1>1, <1>3, <1>4, <2>1, ChangedKeeps
<1>6. Inbox!StoreKnown'
      BY <1>i, <1>1, <1>2, <1>5 DEF Inbox!StoreKnown, Inbox!Known
<1>7. /\ Inbox!SessionsSound'
      /\ \A r \in Sessions : /\ slot5'[r].key = slot5[r].key /\ slot5'[r].mints = slot5[r].mints
                             /\ slot5'[r].at = slot5[r].at \/ (slot5[r].at = "load" /\ slot5'[r].at = "live")
      BY <1>i, <1>1, SavingKeeps
<1>8. Inbox!OneKey => Inbox!OneKey'
      <2>1. SUFFICES ASSUME Inbox!OneKey PROVE Inbox!OneKey'
            OBVIOUS
      <2> QED BY <1>i, <1>1, <1>7, <2>1, KeysStay
<1> QED BY <1>5, <1>6, <1>7, <1>8

\* A session's record replaced by a well-formed one.
LEMMA OneSession ==
    ASSUME Inbox!SessionsSound, NEW s \in Sessions, slot9' = slot9,
           NEW x \in [at : {"new", "key", "load", "live", "deaf", "closed"}, key : Sessions \cup {None}, mints : BOOLEAN,
                      inbox : {"none", "looking", "open"}, timer : BOOLEAN],
           slot5' = [slot5 EXCEPT ![s] = x], ~x.timer, x.at = "key" => x.key # None
    PROVE  Inbox!SessionsSound' /\ slot5'[s] = x /\ \A r \in Sessions : r # s => slot5'[r] = slot5[r]
<1>1. slot5'[s] = x /\ \A r \in Sessions : r # s => slot5'[r] = slot5[r]
      BY DEF Inbox!SessionsSound
<1>2. \A r \in Sessions : /\ slot5'[r].timer => slot5'[r].at \in {"live", "deaf"}
                          /\ slot5'[r].at = "key" => slot5'[r].key # None
      BY <1>1 DEF Inbox!SessionsSound
<1>3. /\ slot9' \in [stored : Sessions \cup {None}, ram : Sessions \cup {None}]
      /\ slot5' \in [Sessions -> [at : {"new", "key", "load", "live", "deaf", "closed"}, key : Sessions \cup {None}, mints : BOOLEAN,
                                  inbox : {"none", "looking", "open"}, timer : BOOLEAN]]
      BY DEF Inbox!SessionsSound
<1> QED BY <1>1, <1>2, <1>3 DEF Inbox!SessionsSound

\* Every step of a session, of an event's way in, of the walk back and of the store.
LEMMA InboxKeeps ==
    ASSUME Inbox!Inv, Inbox!Next, ClientsAssumption
    PROVE  Inbox!Inv'
<1>i. /\ "scene" \in DOMAIN slot13 /\ slot13.scene \in DOMAIN InboxScenes
      /\ DOMAIN slot12 = {"evicted", "replaced", "remint"} /\ slot12.remint \in BOOLEAN
      /\ Inbox!MailKnown /\ Inbox!StoreKnown /\ Inbox!SessionsSound /\ (~slot12.remint => Inbox!OneKey)
      /\ Inbox!Kept(slot1, slot2, slot12.replaced) /\ Inbox!StrangersEvicted
      BY DEF Inbox!Inv, Inbox!InboxSound
<1>1. ASSUME NEW f, Inbox!SetFollowSet(f) PROVE Inbox!Inv'
      <2>1. /\ UNCHANGED <<slot1, slot2, slot5, slot6, slot7, slot8, slot9, slot10, slot11, slot12>>
            /\ "scene" \in DOMAIN slot13' /\ slot13'.scene = slot13.scene
            BY <1>i, <1>1 DEF Inbox!SetFollowSet
      <2> QED BY <1>i, <2>1, InboxFrame, InboxNextState
<1>2. ASSUME NEW p, NEW t, Inbox!SetReadCursor(p, t) PROVE Inbox!Inv'
      <2>1. UNCHANGED <<slot1, slot2, slot5, slot6, slot7, slot8, slot9, slot10, slot11, slot12, slot13>>
            BY <1>i, <1>2 DEF Inbox!SetReadCursor
      <2> QED BY <1>i, <2>1, InboxFrame, InboxNextState
<1>3. ASSUME NEW s \in Sessions, Inbox!SubscribeInbox(s) \/ Inbox!InboxRelaysFound(s) \/ Inbox!LeaveInbox(s) PROVE Inbox!Inv'
      <2>1. PICK v \in {"none", "looking", "open"} : slot5' = [slot5 EXCEPT ![s].inbox = v]
            BY <1>3 DEF Inbox!SubscribeInbox, Inbox!InboxRelaysFound, Inbox!LeaveInbox
      <2>2. UNCHANGED <<slot1, slot2, slot6, slot7, slot8, slot9, slot10, slot11, slot12, slot13>>
            BY <1>3 DEF Inbox!SubscribeInbox, Inbox!InboxRelaysFound, Inbox!LeaveInbox
      <2>3. /\ Inbox!SessionsSound'
            /\ \A r \in Sessions : /\ slot5'[r].key = slot5[r].key /\ slot5'[r].mints = slot5[r].mints /\ slot5'[r].at = slot5[r].at
            BY <1>i, <2>1, <2>2 DEF Inbox!SessionsSound
      <2>4. ~slot12'.remint => Inbox!OneKey'
            BY <1>i, <2>2, <2>3, KeysStay
      <2> QED BY <1>i, <2>2, <2>3, <2>4, InboxFrame, InboxNextState
<1>4. ASSUME NEW s \in Sessions, Inbox!GetOrCreateCacheKey(s) PROVE Inbox!Inv'
      <2>1. /\ UNCHANGED <<slot1, slot2, slot6, slot7, slot8, slot9, slot10, slot11, slot12>>
            /\ "scene" \in DOMAIN slot13' /\ slot13'.scene = slot13.scene
            BY <1>i, <1>4 DEF Inbox!GetOrCreateCacheKey
      <2>2. Inbox!SessionsSound' /\ (Inbox!OneKey => Inbox!OneKey')
            BY <1>4, KeyGot
      <2> QED BY <1>i, <2>1, <2>2, InboxFrame, InboxNextState
<1>5. ASSUME NEW s \in Sessions, Inbox!KeyReady(s) PROVE Inbox!Inv'
      <2>1. UNCHANGED <<slot1, slot2, slot6, slot7, slot8, slot10, slot11, slot13>>
            BY <1>5 DEF Inbox!KeyReady
      <2>2. /\ Inbox!SessionsSound' /\ DOMAIN slot12' = {"evicted", "replaced", "remint"} /\ slot12'.remint \in BOOLEAN
            /\ slot12'.evicted = slot12.evicted /\ slot12'.replaced = slot12.replaced /\ (~slot12'.remint => Inbox!OneKey')
            BY <1>5, KeyStored
      <2>3. Inbox!Kept(slot1, slot2, slot12.replaced)' /\ Inbox!StrangersEvicted'
            BY <1>i, <2>1, <2>2 DEF Inbox!Kept, Inbox!Ids, Inbox!StrangersEvicted
      <2> QED BY <1>i, <2>1, <2>2, <2>3, InboxFrame, InboxNextState
<1>6. ASSUME NEW s \in Sessions, Inbox!HydrateMessages(s) PROVE Inbox!Inv'
      <2>1. UNCHANGED <<slot6, slot7, slot8, slot13>>
            BY <1>6 DEF Inbox!HydrateMessages
      <2> QED BY <1>i, <1>6, <2>1, ThreadsReplaced, InboxFrame, InboxNextState
<1>7. ASSUME NEW s \in Sessions, Inbox!PersistDMSession(s) PROVE Inbox!Inv'
      <2> DEFINE rows == {[msg |-> m, key |-> slot5[s].key] : m \in slot1}
                 v == [by |-> s, rows |-> rows]
      <2>1. /\ UNCHANGED <<slot1, slot2, slot6, slot7, slot8, slot9, slot10, slot12, slot13>> /\ slot5[s].timer
            /\ slot5' = [slot5 EXCEPT ![s].timer = FALSE] /\ slot11' = slot11 \cup {v}
            BY <1>7 DEF Inbox!PersistDMSession
      <2>2. v.rows = rows /\ \A r \in rows : r.msg \in slot1 /\ r.key = slot5[s].key
            OBVIOUS
      <2> HIDE DEF rows, v
      <2>3. Inbox!StoreKnown'
            BY <1>i, <2>1, <2>2, InboxFrame DEF Inbox!StoreKnown
      <2>4. /\ Inbox!SessionsSound'
            /\ \A r \in Sessions : /\ slot5'[r].key = slot5[r].key /\ slot5'[r].mints = slot5[r].mints /\ slot5'[r].at = slot5[r].at
            <3> DEFINE x == [slot5[s] EXCEPT !.timer = FALSE]
            <3>1. /\ x \in [at : {"new", "key", "load", "live", "deaf", "closed"}, key : Sessions \cup {None}, mints : BOOLEAN,
                             inbox : {"none", "looking", "open"}, timer : BOOLEAN]
                  /\ x.key = slot5[s].key /\ x.mints = slot5[s].mints /\ x.at = slot5[s].at /\ ~x.timer
                  /\ x.at = "key" => x.key # None
                  <4>1. slot5[s] \in [at : {"new", "key", "load", "live", "deaf", "closed"}, key : Sessions \cup {None}, mints : BOOLEAN,
                                     inbox : {"none", "looking", "open"}, timer : BOOLEAN]
                        BY <1>i DEF Inbox!SessionsSound
                  <4>2. x.timer = FALSE
                        BY <4>1
                  <4>3. slot5[s].at = "key" => slot5[s].key # None
                        BY <1>i DEF Inbox!SessionsSound
                  <4> QED BY <4>1, <4>2, <4>3
            <3>2. slot5' = [slot5 EXCEPT ![s] = x]
                  BY <2>1
            <3> HIDE DEF x
            <3>3. Inbox!SessionsSound' /\ slot5'[s] = x /\ \A r \in Sessions : r # s => slot5'[r] = slot5[r]
                  BY <1>i, <2>1, <3>1, <3>2, OneSession
            <3> QED BY <3>1, <3>3
      <2>5. slot5[s].at \in {"live", "deaf"}
            BY <1>i, <2>1 DEF Inbox!SessionsSound
      <2>6. Inbox!OneKey => Inbox!OneKey'
            BY <2>1, <2>2, <2>4, <2>5 DEF Inbox!OneKey
      <2> QED BY <1>i, <2>1, <2>3, <2>4, <2>6, InboxFrame, InboxNextState
<1>8. ASSUME NEW s \in Sessions, Inbox!CloseDMSession(s) PROVE Inbox!Inv'
      <2>1. /\ UNCHANGED <<slot1, slot2, slot6, slot7, slot8, slot9, slot10, slot11, slot12, slot13>>
            /\ slot5' = [slot5 EXCEPT ![s].at = "closed", ![s].timer = FALSE]
            BY <1>8 DEF Inbox!CloseDMSession
      <2>2. /\ Inbox!SessionsSound'
            /\ \A r \in Sessions : /\ slot5'[r].key = slot5[r].key /\ slot5'[r].mints = slot5[r].mints
                                   /\ slot5'[r].at \in {slot5[r].at, "closed"}
            <3> DEFINE x == [slot5[s] EXCEPT !.at = "closed", !.timer = FALSE]
            <3>1. /\ x \in [at : {"new", "key", "load", "live", "deaf", "closed"}, key : Sessions \cup {None}, mints : BOOLEAN,
                             inbox : {"none", "looking", "open"}, timer : BOOLEAN]
                  /\ x.key = slot5[s].key /\ x.mints = slot5[s].mints /\ x.at = "closed" /\ ~x.timer
                  <4>1. slot5[s] \in [at : {"new", "key", "load", "live", "deaf", "closed"}, key : Sessions \cup {None}, mints : BOOLEAN,
                                     inbox : {"none", "looking", "open"}, timer : BOOLEAN]
                        BY <1>i DEF Inbox!SessionsSound
                  <4>2. x.timer = FALSE
                        BY <4>1
                  <4>3. slot5[s].at = "key" => slot5[s].key # None
                        BY <1>i DEF Inbox!SessionsSound
                  <4> QED BY <4>1, <4>2, <4>3
            <3>2. slot5' = [slot5 EXCEPT ![s] = x]
                  BY <2>1
            <3> HIDE DEF x
            <3>3. Inbox!SessionsSound' /\ slot5'[s] = x /\ \A r \in Sessions : r # s => slot5'[r] = slot5[r]
                  BY <1>i, <2>1, <3>1, <3>2, OneSession
            <3> QED BY <3>1, <3>3
      <2>3. ~slot12'.remint => Inbox!OneKey'
            BY <1>i, <2>1, <2>2, KeysStay
      <2> QED BY <1>i, <2>1, <2>2, <2>3, InboxFrame, InboxNextState
<1>9. ASSUME NEW s \in Sessions, NEW e \in slot8, Inbox!EventComes(s, e) PROVE Inbox!Inv'
      <2>1. /\ UNCHANGED <<slot1, slot2, slot5, slot7, slot8, slot9, slot10, slot11, slot12>> /\ slot6' = slot6 \cup {[ev |-> e, by |-> s]}
            /\ "scene" \in DOMAIN slot13' /\ slot13'.scene = slot13.scene
            BY <1>i, <1>9 DEF Inbox!EventComes
      <2>2. Inbox!MailKnown'
            BY <1>i, <2>1, InboxFrame DEF Inbox!MailKnown
      <2> QED BY <1>i, <2>1, <2>2, InboxFrame, InboxNextState
<1>10. ASSUME NEW o \in slot6, Inbox!Handled(o) PROVE Inbox!Inv'
      <2>1. UNCHANGED <<slot7, slot8, slot9, slot10, slot11, slot13>> /\ slot6' = slot6 \ {o}
            BY <1>10 DEF Inbox!Handled
      <2>2. Inbox!MailKnown' /\ Inbox!Known(o.ev.msg)
            BY <1>i, <2>1, InboxFrame DEF Inbox!MailKnown
      <2>3. CASE Inbox!Opens(o.ev)
            <3>1. Inbox!IngestMessage(o.ev.msg)
                  BY <1>10, <2>3 DEF Inbox!Handled
            <3> QED BY <1>i, <2>1, <2>2, <3>1, IngestKeeps, InboxNextState
      <2>4. CASE ~Inbox!Opens(o.ev)
            <3>1. UNCHANGED <<slot1, slot2, slot5, slot12>>
                  BY <1>10, <2>4 DEF Inbox!Handled
            <3> QED BY <1>i, <2>1, <2>2, <3>1, InboxFrame, InboxNextState
      <2> QED BY <2>3, <2>4
<1>11. ASSUME NEW c \in Inbox!Scene.sends, Inbox!SendDM(c) PROVE Inbox!Inv'
      <2>1. /\ UNCHANGED <<slot6, slot7, slot9, slot10, slot11>> /\ slot8' = slot8 \cup c.wire /\ Inbox!IngestMessage(c.echo)
            /\ "scene" \in DOMAIN slot13' /\ slot13'.scene = slot13.scene
            BY <1>i, <1>11 DEF Inbox!SendDM
      <2>2. Inbox!Known(c.echo) /\ \A e \in c.wire : Inbox!Known(e.msg)
            BY DEF Inbox!Known, Inbox!Messages, Inbox!Scene
      <2>3. Inbox!MailKnown'
            BY <1>i, <2>1, <2>2, InboxFrame DEF Inbox!MailKnown
      <2> QED BY <1>i, <2>1, <2>2, <2>3, IngestKeeps, InboxNextState
<1>12. CASE Inbox!BackfillInbox
      <2>1. /\ UNCHANGED <<slot1, slot2, slot5, slot6, slot8, slot9, slot10, slot11, slot12>>
            /\ slot7' = [window |-> 1, at |-> "query", todo |-> {}, partners |-> {}]
            /\ "scene" \in DOMAIN slot13' /\ slot13'.scene = slot13.scene
            BY <1>i, <1>12 DEF Inbox!BackfillInbox
      <2>2. DOMAIN slot7' = {"window", "at", "todo", "partners"} /\ slot7'.todo = {}
            BY <2>1
      <2>3. Inbox!MailKnown'
            BY <1>i, <2>1, <2>2, InboxFrame DEF Inbox!MailKnown
      <2> QED BY <1>i, <2>1, <2>3, InboxFrame, InboxNextState
<1>13. ASSUME NEW es \in SUBSET slot8, Inbox!WindowAnswered(es) PROVE Inbox!Inv'
      <2>1. /\ UNCHANGED <<slot1, slot2, slot5, slot6, slot8, slot9, slot10, slot11, slot12, slot13>> /\ slot7 # None
            /\ slot7' = IF es = {} THEN None ELSE [slot7 EXCEPT !.at = "open", !.todo = es]
            BY <1>13 DEF Inbox!WindowAnswered
      <2>2. slot7' # None => DOMAIN slot7' = {"window", "at", "todo", "partners"} /\ slot7'.todo = es
            BY <1>i, <2>1 DEF Inbox!MailKnown
      <2>3. Inbox!MailKnown'
            BY <1>i, <2>1, <2>2, InboxFrame DEF Inbox!MailKnown
      <2> QED BY <1>i, <2>1, <2>3, InboxFrame, InboxNextState
<1>14. ASSUME NEW e \in slot8, Inbox!WalkOpens(e) PROVE Inbox!Inv'
      <2> DEFINE fresh == Inbox!Opens(e) /\ e.msg.id \notin slot2
                 left == [slot7 EXCEPT !.todo = @ \ {e}, !.partners = IF fresh THEN @ \cup {e.msg.partner} ELSE @]
                 next == IF left.todo = {} THEN [left EXCEPT !.at = "query", !.window = @ + 1] ELSE left
      <2>1. /\ UNCHANGED <<slot6, slot8, slot9, slot10, slot11, slot13>> /\ slot7 # None
            /\ slot7' = IF next.at = "query" /\ Inbox!Enough(next) THEN None ELSE next
            BY <1>14 DEF Inbox!WalkOpens
      <2>2. DOMAIN left = {"window", "at", "todo", "partners"} /\ left.todo = slot7.todo \ {e}
            BY <1>i, <2>1 DEF Inbox!MailKnown
      <2> HIDE DEF left
      <2>3. DOMAIN next = {"window", "at", "todo", "partners"} /\ next.todo = slot7.todo \ {e}
            BY <2>2
      <2> HIDE DEF next
      <2>4. Inbox!MailKnown' /\ Inbox!Known(e.msg)
            BY <1>i, <2>1, <2>3, InboxFrame DEF Inbox!MailKnown
      <2>5. CASE Inbox!Opens(e)
            <3>1. Inbox!IngestMessage(e.msg)
                  BY <1>14, <2>5 DEF Inbox!WalkOpens
            <3> QED BY <1>i, <2>1, <2>4, <3>1, IngestKeeps, InboxNextState
      <2>6. CASE ~Inbox!Opens(e)
            <3>1. UNCHANGED <<slot1, slot2, slot5, slot12>>
                  BY <1>14, <2>6 DEF Inbox!WalkOpens
            <3> QED BY <1>i, <2>1, <2>4, <3>1, InboxFrame, InboxNextState
      <2> QED BY <2>5, <2>6
<1>15. ASSUME NEW v \in slot11, Inbox!SaveLands(v) PROVE Inbox!Inv'
      <2>1. /\ UNCHANGED <<slot1, slot2, slot5, slot6, slot7, slot8, slot9, slot12, slot13>>
            /\ slot11' = slot11 \ {v} /\ slot10' \in {v.rows, slot10}
            BY <1>15 DEF Inbox!SaveLands
      <2>2. Inbox!StoreKnown'
            BY <1>i, <2>1, InboxFrame DEF Inbox!StoreKnown
      <2>3. Inbox!OneKey => Inbox!OneKey'
            BY <2>1 DEF Inbox!OneKey
      <2> QED BY <1>i, <2>1, <2>2, <2>3, InboxFrame, InboxNextState
<1>16. CASE Inbox!ClearDMSession
      <2>1. /\ UNCHANGED <<slot6, slot7, slot8, slot9, slot11, slot12>> /\ slot1' = {} /\ slot2' = {} /\ slot10' \in {{}, slot10}
            /\ slot5' = [s \in Sessions |-> IF s \in Inbox!Hydrated THEN [slot5[s] EXCEPT !.at = "deaf"] ELSE slot5[s]]
            /\ "scene" \in DOMAIN slot13' /\ slot13'.scene = slot13.scene
            BY <1>i, <1>16 DEF Inbox!ClearDMSession
      <2>2. Inbox!StoreKnown'
            BY <1>i, <2>1, InboxFrame DEF Inbox!StoreKnown
      <2>3. Inbox!Kept(slot1, slot2, slot12.replaced)' /\ Inbox!StrangersEvicted'
            BY <1>i, <2>1 DEF Inbox!Kept, Inbox!Ids, Inbox!StrangersEvicted
      <2>4. /\ Inbox!SessionsSound'
            /\ \A r \in Sessions : /\ slot5'[r].key = slot5[r].key /\ slot5'[r].mints = slot5[r].mints
                                   /\ slot5'[r].at = slot5[r].at \/ (slot5[r].at = "live" /\ slot5'[r].at = "deaf")
            <3> DEFINE T == [at : {"new", "key", "load", "live", "deaf", "closed"}, key : Sessions \cup {None}, mints : BOOLEAN,
                             inbox : {"none", "looking", "open"}, timer : BOOLEAN]
            <3>1. ASSUME NEW r \in Sessions
                  PROVE  /\ slot5'[r] \in T /\ slot5'[r].key = slot5[r].key /\ slot5'[r].mints = slot5[r].mints
                         /\ slot5'[r].at = slot5[r].at \/ (slot5[r].at = "live" /\ slot5'[r].at = "deaf")
                         /\ slot5'[r].timer => slot5'[r].at \in {"live", "deaf"}
                         /\ slot5'[r].at = "key" => slot5'[r].key # None
                  <4>1. /\ slot5[r] \in T /\ (slot5[r].timer => slot5[r].at \in {"live", "deaf"})
                        /\ slot5[r].at = "key" => slot5[r].key # None
                        BY <1>i DEF Inbox!SessionsSound
                  <4>2. CASE r \in Inbox!Hydrated
                        <5>1. slot5[r].at = "live" /\ slot5'[r] = [slot5[r] EXCEPT !.at = "deaf"]
                              BY <2>1, <4>2 DEF Inbox!Hydrated
                        <5> QED BY <4>1, <5>1
                  <4>3. CASE r \notin Inbox!Hydrated
                        <5>1. slot5'[r] = slot5[r]
                              BY <2>1, <4>3
                        <5> QED BY <4>1, <5>1
                  <4> QED BY <4>2, <4>3
            <3>2. slot5' \in [Sessions -> T]
                  BY <2>1, <3>1
            <3> QED BY <1>i, <2>1, <3>1, <3>2 DEF Inbox!SessionsSound
      <2>5. ~slot12'.remint => Inbox!OneKey'
            BY <1>i, <2>1, <2>4, KeysStay
      <2> QED BY <1>i, <2>1, <2>2, <2>3, <2>4, <2>5, InboxFrame, InboxNextState
<1>17. CASE Inbox!Reload
      <2>1. /\ UNCHANGED <<slot8, slot10, slot12>> /\ slot1' = {} /\ slot2' = {} /\ slot6' = {} /\ slot7' = None /\ slot11' = {}
            /\ slot9' = [slot9 EXCEPT !.ram = None]
            /\ slot5' = [s \in Sessions |-> IF slot5[s].at = "new" THEN slot5[s]
                                            ELSE [slot5[s] EXCEPT !.at = "closed", !.inbox = "none", !.timer = FALSE]]
            /\ "scene" \in DOMAIN slot13' /\ slot13'.scene = slot13.scene
            BY <1>i, <1>17 DEF Inbox!Reload
      <2>2. Inbox!StoreKnown' /\ Inbox!MailKnown'
            BY <1>i, <2>1, InboxFrame DEF Inbox!StoreKnown, Inbox!MailKnown
      <2>3. Inbox!Kept(slot1, slot2, slot12.replaced)' /\ Inbox!StrangersEvicted'
            BY <1>i, <2>1 DEF Inbox!Kept, Inbox!Ids, Inbox!StrangersEvicted
      <2>4. /\ Inbox!SessionsSound' /\ slot9'.ram = None /\ slot9'.stored = slot9.stored
            /\ \A s \in Sessions : slot5'[s].at \in {"new", "closed"}
            <3>1. slot9' \in [stored : Sessions \cup {None}, ram : Sessions \cup {None}] /\ slot9'.ram = None /\ slot9'.stored = slot9.stored
                  BY <1>i, <2>1 DEF Inbox!SessionsSound
            <3>2. ASSUME NEW s \in Sessions
                  PROVE  /\ slot5'[s] \in [at : {"new", "key", "load", "live", "deaf", "closed"}, key : Sessions \cup {None}, mints : BOOLEAN,
                                            inbox : {"none", "looking", "open"}, timer : BOOLEAN]
                         /\ slot5'[s].at \in {"new", "closed"} /\ ~slot5'[s].timer
                  <4>1. CASE slot5[s].at = "new"
                        <5>1. slot5'[s] = slot5[s]
                              BY <2>1, <4>1
                        <5> QED BY <1>i, <4>1, <5>1 DEF Inbox!SessionsSound
                  <4>2. CASE slot5[s].at # "new"
                        <5>1. slot5'[s] = [slot5[s] EXCEPT !.at = "closed", !.inbox = "none", !.timer = FALSE]
                              BY <2>1, <4>2
                        <5> QED BY <1>i, <5>1 DEF Inbox!SessionsSound
                  <4> QED BY <4>1, <4>2
            <3>3. slot5' \in [Sessions -> [at : {"new", "key", "load", "live", "deaf", "closed"}, key : Sessions \cup {None}, mints : BOOLEAN,
                                           inbox : {"none", "looking", "open"}, timer : BOOLEAN]]
                  BY <2>1, <3>2
            <3>4. \A s \in Sessions : /\ slot5'[s].timer => slot5'[s].at \in {"live", "deaf"}
                                      /\ slot5'[s].at = "key" => slot5'[s].key # None
                  BY <3>2
            <3> QED BY <3>1, <3>2, <3>3, <3>4 DEF Inbox!SessionsSound
      <2>5. Inbox!OneKey => Inbox!OneKey'
            BY <2>1, <2>4 DEF Inbox!OneKey
      <2> QED BY <1>i, <2>1, <2>2, <2>3, <2>4, <2>5, InboxFrame, InboxNextState
<1> QED BY <1>1, <1>2, <1>3, <1>4, <1>5, <1>6, <1>7, <1>8, <1>9, <1>10, <1>11, <1>12, <1>13, <1>14, <1>15, <1>16, <1>17
        DEF Inbox!Next

LEMMA InboxStarts ==
    ASSUME Inbox!Init, ClientsAssumption
    PROVE  Inbox!Inv
<1>1. PICK n \in DOMAIN InboxScenes : Inbox!InitOf(n)
      BY DEF Inbox!Init
<1>2. /\ "scene" \in DOMAIN slot13 /\ slot13.scene = n
      /\ DOMAIN slot12 = {"evicted", "replaced", "remint"} /\ slot12.remint = FALSE /\ slot12.evicted = {} /\ slot12.replaced = {}
      /\ slot1 = {} /\ slot2 = {} /\ slot5 = [s \in Sessions |-> Inbox!Fresh] /\ slot6 = {} /\ slot7 = None
      /\ slot8 = InboxScenes[n].mail /\ slot9 = [stored |-> None, ram |-> None] /\ slot10 = {} /\ slot11 = {}
      BY <1>1 DEF Inbox!InitOf
<1>3. Inbox!MailKnown /\ Inbox!StoreKnown
      BY <1>2 DEF Inbox!MailKnown, Inbox!StoreKnown, Inbox!Known, Inbox!Messages
<1>4. Inbox!SessionsSound /\ Inbox!OneKey
      BY <1>2 DEF Inbox!SessionsSound, Inbox!OneKey, Inbox!Fresh
<1>5. Inbox!InboxSound
      BY <1>2 DEF Inbox!InboxSound, Inbox!Kept, Inbox!Ids, Inbox!StrangersEvicted, Inbox!DiskOpens
<1> QED BY <1>2, <1>3, <1>4, <1>5 DEF Inbox!Inv

----------------------------------------------------------------------------
(* The parts side by side.                                                 *)

LEMMA WalletAlone ==
    ASSUME part = "wallet", [Next]_all
    PROVE  part' = "wallet" /\ (Wallet!Next \/ UNCHANGED <<slot1, slot2, slot3, slot4>>)
<1>1. CASE Next
      BY <1>1 DEF Next, InCoalescer, InReads, InWallet, InRemote, InNosskey, InLogin, InInbox, InGraph, InOracle, InKeys, Keep10, Keep9, Keep7, Keep6, Wallet!Next
<1>2. CASE UNCHANGED all
      BY <1>2 DEF all
<1> QED BY <1>1, <1>2

LEMMA RemoteAlone ==
    ASSUME part = "remote", [Next]_all
    PROVE  part' = "remote" /\ (Remote!Next \/ UNCHANGED <<slot1, slot2, slot3, slot4, slot5, slot6>>)
<1>1. CASE Next
      BY <1>1 DEF Next, InCoalescer, InReads, InWallet, InRemote, InNosskey, InLogin, InInbox, InGraph, InOracle, InKeys, Keep10, Keep9, Keep7, Keep6, Remote!Next
<1>2. CASE UNCHANGED all
      BY <1>2 DEF all
<1> QED BY <1>1, <1>2

LEMMA NosskeyAlone ==
    ASSUME part = "nosskey", [Next]_all
    PROVE  part' = "nosskey" /\ (Nosskey!Next \/ UNCHANGED <<slot1, slot2, slot3, slot4, slot5>>)
<1>1. CASE Next
      BY <1>1 DEF Next, InCoalescer, InReads, InWallet, InRemote, InNosskey, InLogin, InInbox, InGraph, InOracle, InKeys, Keep10, Keep9, Keep7, Keep6, Nosskey!Next
<1>2. CASE UNCHANGED all
      BY <1>2 DEF all
<1> QED BY <1>1, <1>2

LEMMA LoginAlone ==
    ASSUME part = "login", [Next]_all
    PROVE  part' = "login" /\ (Login!Next \/ UNCHANGED <<slot1, slot2, slot3, slot4, slot5, slot6, slot7, slot8>>)
<1>1. CASE Next
      BY <1>1 DEF Next, InCoalescer, InReads, InWallet, InRemote, InNosskey, InLogin, InInbox, InGraph, InOracle, InKeys, Keep10, Keep9, Keep7, Keep6, Login!Next
<1>2. CASE UNCHANGED all
      BY <1>2 DEF all
<1> QED BY <1>1, <1>2

LEMMA InboxAlone ==
    ASSUME part = "inbox", [Next]_all
    PROVE  part' = "inbox" /\ (Inbox!Next \/ UNCHANGED <<slot1, slot2, slot3, slot4, slot5, slot6, slot7, slot8, slot9, slot10, slot11, slot12, slot13>>)
<1>1. CASE Next
      BY <1>1 DEF Next, InCoalescer, InReads, InWallet, InRemote, InNosskey, InLogin, InInbox, InGraph, InOracle, InKeys, Keep10, Keep9, Keep7, Keep6, Inbox!Next
<1>2. CASE UNCHANGED all
      BY <1>2 DEF all
<1> QED BY <1>1, <1>2

\* The invariant of every part, while the state is of that part.
ClientsInv == /\ part = "wallet"  => Wallet!Inv
              /\ part = "remote"  => Remote!Inv
              /\ part = "nosskey" => Nosskey!Inv
              /\ part = "login"   => Login!Inv
              /\ part = "inbox"   => Inbox!Inv

\* A state is of the part it began as.
LEMMA PartStays ==
    ASSUME [Next]_all
    PROVE  part' = part
<1>1. CASE Next
      BY <1>1 DEF Next, InCoalescer, InReads, InWallet, InRemote, InNosskey, InLogin, InInbox, InGraph, InOracle, InKeys,
                  Keep10, Keep9, Keep7, Keep6
<1>2. CASE UNCHANGED all
      BY <1>2 DEF all
<1> QED BY <1>1, <1>2

LEMMA ClientsStart ==
    ASSUME Init, ClientsAssumption
    PROVE  ClientsInv
<1>1. ASSUME part = "wallet" PROVE Wallet!Inv
      <2>1. Wallet!Init
            BY <1>1 DEF Init
      <2> QED BY <2>1, WalletStarts
<1>2. ASSUME part = "remote" PROVE Remote!Inv
      <2>1. Remote!Init
            BY <1>2 DEF Init
      <2> QED BY <2>1, RemoteStarts
<1>3. ASSUME part = "nosskey" PROVE Nosskey!Inv
      <2>1. Nosskey!Init
            BY <1>3 DEF Init
      <2> QED BY <2>1, NosskeyStarts
<1>4. ASSUME part = "login" PROVE Login!Inv
      <2>1. Login!Init
            BY <1>4 DEF Init
      <2> QED BY <2>1, LoginStarts
<1>5. ASSUME part = "inbox" PROVE Inbox!Inv
      <2>1. Inbox!Init
            BY <1>5 DEF Init
      <2> QED BY <2>1, InboxStarts
<1> QED BY <1>1, <1>2, <1>3, <1>4, <1>5 DEF ClientsInv

LEMMA ClientsKeep ==
    ASSUME ClientsInv, [Next]_all, ClientsAssumption
    PROVE  ClientsInv'
<1>1. ASSUME part' = "wallet" PROVE Wallet!Inv'
      <2>1. part = "wallet" /\ Wallet!Inv
            BY <1>1, PartStays DEF ClientsInv
      <2>2. CASE Wallet!Next
            BY <2>1, <2>2, WalletKeeps
      <2>3. CASE UNCHANGED <<slot1, slot2, slot3, slot4>>
            BY <2>1, <2>3 DEF Wallet!Inv
      <2> QED BY <2>1, <2>2, <2>3, WalletAlone
<1>2. ASSUME part' = "remote" PROVE Remote!Inv'
      <2>1. part = "remote" /\ Remote!Inv
            BY <1>2, PartStays DEF ClientsInv
      <2>2. CASE Remote!Next
            BY <2>1, <2>2, RemoteKeeps
      <2>3. CASE UNCHANGED <<slot1, slot2, slot3, slot4, slot5, slot6>>
            <3>1. Remote!TypeOK'
                  BY <2>1, <2>3, RemoteParts DEF Remote!TypeOK
            <3>2. Remote!PairingTold' /\ Remote!ReadersServed'
                  BY <2>1, <2>3, RemoteParts DEF Remote!PairingTold, Remote!ReadersServed
            <3>3. Remote!SocketsOwned'
                  BY <2>1, <2>3, RemoteParts DEF Remote!SocketsOwned, Remote!Owned, Remote!Scene
            <3> QED BY <3>1, <3>2, <3>3 DEF Remote!Inv, Remote!TransportOwned
      <2> QED BY <2>1, <2>2, <2>3, RemoteAlone
<1>3. ASSUME part' = "nosskey" PROVE Nosskey!Inv'
      <2>1. part = "nosskey" /\ Nosskey!Inv
            BY <1>3, PartStays DEF ClientsInv
      <2>2. CASE Nosskey!Next
            BY <2>1, <2>2, NosskeyKeeps
      <2>3. CASE UNCHANGED <<slot1, slot2, slot3, slot4, slot5>>
            <3>1. \A c : Nosskey!Does(c)' = Nosskey!Does(c) /\ Nosskey!Plans(c)' = Nosskey!Plans(c)
                  BY <2>3 DEF Nosskey!Does, Nosskey!Scene, Nosskey!Plans
            <3>2. Nosskey!Scene' = Nosskey!Scene
                  BY <2>3 DEF Nosskey!Scene
            <3>3. \A c \in Callers : Nosskey!CallInv(c, slot3[c], slot1.pubkey, slot4, slot5.switches)'
                  BY <2>1, <2>3, <3>1, <3>2 DEF Nosskey!Inv, Nosskey!CallInv, Nosskey!Began, Nosskey!CallType
            <3> QED BY <2>1, <2>3, <3>2, <3>3 DEF Nosskey!Inv
      <2> QED BY <2>1, <2>2, <2>3, NosskeyAlone
<1>4. ASSUME part' = "login" PROVE Login!Inv'
      <2>1. part = "login" /\ Login!Inv
            BY <1>4, PartStays DEF ClientsInv
      <2>2. CASE Login!Next
            BY <2>1, <2>2, LoginKeeps
      <2>3. CASE UNCHANGED <<slot1, slot2, slot3, slot4, slot5, slot6, slot7, slot8>>
            <3>1. Login!LoginsSound' /\ Login!SignedSound' /\ Login!PostsSound' /\ Login!JarsSound'
                  BY <2>1, <2>3, LoginFrame
            <3>2. Login!TokensProven' /\ Login!AnswersProven'
                  BY <2>1, <2>3, LoginFrame
            <3> QED BY <2>1, <2>3, <3>1, <3>2 DEF Login!Inv, Login!SessionProven
      <2> QED BY <2>1, <2>2, <2>3, LoginAlone
<1>5. ASSUME part' = "inbox" PROVE Inbox!Inv'
      <2>1. part = "inbox" /\ Inbox!Inv
            BY <1>5, PartStays DEF ClientsInv
      <2>2. CASE Inbox!Next
            BY <2>1, <2>2, InboxKeeps
      <2>3. CASE UNCHANGED <<slot1, slot2, slot3, slot4, slot5, slot6, slot7, slot8, slot9, slot10, slot11, slot12, slot13>>
            <3>1. /\ "scene" \in DOMAIN slot13 /\ slot12.remint \in BOOLEAN /\ DOMAIN slot12 = {"evicted", "replaced", "remint"}
                  /\ ~slot12.remint => Inbox!OneKey
                  BY <2>1 DEF Inbox!Inv
            <3>2. Inbox!MailKnown' /\ Inbox!StoreKnown' /\ Inbox!SessionsSound'
                  BY <2>1, <2>3, InboxFrame
            <3>3. Inbox!Kept(slot1, slot2, slot12.replaced)' /\ Inbox!StrangersEvicted' /\ (~slot12'.remint => Inbox!OneKey')
                  BY <2>1, <2>3, <3>1, InboxFrame
            <3> QED BY <2>1, <2>3, <3>1, <3>2, <3>3, InboxNextState
      <2> QED BY <2>1, <2>2, <2>3, InboxAlone
<1> QED BY <1>1, <1>2, <1>3, <1>4, <1>5 DEF ClientsInv

\* The client side: whatever part a behaviour is of, the invariant of that part holds all along.
THEOREM ClientsInvariant == Spec => []ClientsInv
<1>1. Init => ClientsInv
      BY ClientsAssumption, ClientsStart
<1>2. ClientsInv /\ [Next]_all => ClientsInv'
      BY ClientsAssumption, ClientsKeep
<1> QED BY <1>1, <1>2, PTL DEF Spec

\* nwc/client.ts, errors.ts:7: however the wallet's acts, its answers, the relay's acks and the timers
\* fall, a payment reported as `not-paid` was not made, one reported as paid was, and a settled call
\* holds no subscription.
THEOREM PaymentsTold == Spec => []MoneyHonest
<1>1. ClientsInv => MoneyHonest
      <2>1. ASSUME Wallet!Inv PROVE Wallet!MoneyHonest
            <3>1. ASSUME NEW c \in Calls, slot2[c].at = "done"
                  PROVE  /\ slot2[c].outcome.money = "not-paid" => slot3[c] # "done"
                         /\ slot2[c].outcome.money = "paid" => slot3[c] = "done"
                         /\ ~slot2[c].sub
                  <4>1. Wallet!Sound(slot2[c], slot3[c])
                        BY <2>1 DEF Wallet!Inv
                  <4> QED BY <3>1, <4>1 DEF Wallet!Sound
            <3> QED BY <3>1 DEF Wallet!MoneyHonest
      <2> QED BY <2>1 DEF ClientsInv, MoneyHonest
<1> QED BY <1>1, ClientsInvariant, PTL

\* nip46/connection.ts, nosskey.ts: a transport given up, by a failure, a cancellation, the timer or
\* close(), holds no socket open and no signer, however late they come; and what a frame signer
\* answers is of the account it pinned, however its user switches accounts meanwhile.
THEOREM SignersOwnTheirs == Spec => []SignersOwn
<1>1. ClientsInv => SignersOwn
      <2>1. Remote!Inv => Remote!TransportOwned
            BY DEF Remote!Inv
      <2>2. Nosskey!Inv => Nosskey!AccountPinned
            BY NosskeyPinned
      <2> QED BY <2>1, <2>2 DEF ClientsInv, SignersOwn
<1> QED BY <1>1, ClientsInvariant, PTL

\* auth/challenge.ts, verify.ts, jwt.ts, service.ts: a token is for an account whose signer signed
\* between the issue and the check of a challenge of that secret, within its time, and /me answers
\* with a token that is in time and made for the service that reads it, whatever is delivered twice.
THEOREM LoginsAreProven == Spec => []LoginsProven
<1>1. ClientsInv => LoginsProven
      BY DEF ClientsInv, LoginsProven, Login!Inv
<1> QED BY <1>1, ClientsInvariant, PTL

\* dm/cache: whatever arrives live, by the walk back or as an echo, and whatever is evicted, hydrated
\* or cleared meanwhile: there is one copy per id, one that is not kept can come again, eviction takes
\* only strangers', and the disk opens with the stored key unless two sessions minted one at once.
THEOREM MessagesKeptOnce == Spec => []InboxSound
<1>1. ClientsInv => InboxSound
      BY DEF ClientsInv, InboxSound, Inbox!Inv
<1> QED BY <1>1, ClientsInvariant, PTL
==============================================================================
