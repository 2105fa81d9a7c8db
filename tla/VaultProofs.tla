----------------------------- MODULE VaultProofs ----------------------------
(***************************************************************************)
(* Proofs about Vault, for any number of calls, callbacks, accounts and    *)
(* passwords and any bounds.  IInv is what makes "a lock always wins"      *)
(* inductive: no captured revision is ahead of the session's, only the     *)
(* call at the head of the lane is past its first check, and a call that   *)
(* is past it and not overtaken has an open vault under its hands.         *)
(*                                                                         *)
(* Then, over that invariant: the guard against guessing, what is over     *)
(* leaves nothing behind, an open session is the stored record, and what   *)
(* is reported is so. EInv adds to IInv what these rest on: the order of   *)
(* the lane, behind which a destroy() waits with everything ahead of it    *)
(* already overtaken, and, for every call between a read and a write, how  *)
(* what it carries compares with the session and with the store. CInv adds *)
(* what the reports rest on.                                               *)
(***************************************************************************)
EXTENDS Vault, FiniteSetTheorems, TLAPS

Pcs == Queued \cup AtWork \cup {"idle", "rekey", "done"}

\* Where a call stands between the moment its session was known to be open and the
\* moment it stops relying on that.
InSession == {"clear", "restore", "reseal", "rewrite", "mint", "mintWrite", "read", "write"}

\* What a call carries at the points that use it.
Carries(k) ==
    /\ k.pc \in {"rewrite", "mintWrite", "seal", "createWrite", "createGuard", "write"}
            => k.write # None
    /\ k.pc \in {"read", "write"} => k.before # None
    /\ k.pc = "queued" /\ k.op \in Mutations => k.acct # None
    /\ k.pc = "queued" /\ k.op \in {"unlock", "change", "reEncrypt", "create"} => k.pw # None
    /\ k.pc \in {"derive", "clear", "reseal"} => k.pw # None
    /\ k.pc = "restore" /\ k.op # "create" => k.pw # None
    /\ k.pc \in {"seal", "createWrite", "createGuard"} => k.op = "create"

\* Only the head of the lane is past its first check; a revision is captured, never
\* invented; a call not overtaken since its vault was open still has it open.
CallOK(c) ==
    /\ Carries(call[c])
    /\ call[c].pc \in AtWork => lane # <<>> /\ Head(lane) = c
    /\ call[c].pc = "derive" => disk # None
    /\ call[c].rev <= revision
    /\ call[c].pc \in InSession /\ call[c].rev = revision => payload # None

CallsOK == /\ lane \in Seq(Calls)
           /\ call \in [Calls -> CallType]
           /\ \A c \in Calls : CallOK(c)

StateType ==
    /\ disk \in Record \cup {None}
    /\ guard \in [failures : Nat, shut : BOOLEAN]
    /\ payload \in Body \cup {None}
    /\ held \in Key \cup {None}
    /\ revision \in Nat /\ session \in Nat /\ lockedAt \in Nat
    /\ scope \in [Scopes -> ScopeType]
    /\ loose \subseteq Stamp
    /\ spent \in SpentType

StateOK == StateType /\ lockedAt <= revision /\ HeldIffOpen /\ LockWins

IInv == StateOK /\ CallsOK

----------------------------------------------------------------------------
(* The records of Vault, field by field.                                   *)

LEMMA CallFields ==
    ASSUME NEW k \in CallType
    PROVE  /\ k.rev \in Nat /\ k.pc \in Pcs /\ k.op \in AllOps \cup {"none"}
           /\ k.acct \in Accounts \cup {None} /\ k.pw \in Passwords \cup {None}
           /\ k.before \in Body \cup {None} /\ k.write \in Record \cup {None}
           /\ k.wrote \in BOOLEAN /\ k.minted \in BOOLEAN
  BY DEF CallType, Pcs

LEMMA IdleCallType == IdleCall \in CallType /\ Carries(IdleCall)
  BY VaultAssumption
     DEF CallType, IdleCall, Outcomes, Queued, AtWork, AllOps, Carries, Mutations

LEMMA RecordFields == ASSUME NEW r \in Record PROVE r.body \in Body /\ r.key \in Key
  BY DEF Record

LEMMA RecordMade == ASSUME NEW key \in Key, NEW b \in Body
                    PROVE  [key |-> key, body |-> b] \in Record
  BY DEF Record

LEMMA NotNone == None \notin Body /\ None \notin Record /\ None \notin Key /\ None \notin Accounts
  BY VaultAssumption

\* A call that moves on, keeping everything else it carries.
LEMMA PcMoved == ASSUME NEW k \in CallType, NEW p \in Pcs
                 PROVE  /\ [k EXCEPT !.pc = p] \in CallType
                        /\ [k EXCEPT !.pc = p].pc = p
                        /\ [k EXCEPT !.pc = p].rev = k.rev
                        /\ [k EXCEPT !.pc = p].pw = k.pw
                        /\ [k EXCEPT !.pc = p].write = k.write
                        /\ [k EXCEPT !.pc = p].before = k.before
                        /\ [k EXCEPT !.pc = p].op = k.op
  BY DEF CallType, Pcs

LEMMA DoneType == ASSUME NEW k \in CallType, NEW out \in Outcomes, NEW wrote \in BOOLEAN
                  PROVE  LET j == [IdleCall EXCEPT !.op = k.op, !.rev = k.rev, !.pc = "done",
                                                   !.out = out, !.wrote = wrote]
                         IN  j \in CallType /\ j.pc = "done" /\ j.rev = k.rev /\ Carries(j)
<1> DEFINE j == [IdleCall EXCEPT !.op = k.op, !.rev = k.rev, !.pc = "done",
                                 !.out = out, !.wrote = wrote]
<1>1. j \in CallType
  BY DEF CallType, IdleCall, Queued
<1>2. j.pc = "done" /\ j.rev = k.rev
  BY DEF IdleCall
<1> HIDE DEF j
<1>3. Carries(j)
  BY <1>2 DEF Carries
<1> QED
  BY <1>1, <1>2, <1>3 DEF j

----------------------------------------------------------------------------
(* How a step moves the calls.                                             *)

\* The head of the lane moved, and kept the lane or left it.
LEMMA Worked ==
    ASSUME CallsOK, revision \in Nat, NEW c \in Calls, NEW k \in CallType,
           lane # <<>>, Head(lane) = c,
           call' = [call EXCEPT ![c] = k],
           lane' = lane \/ (lane' = Tail(lane) /\ k.pc \notin AtWork),
           revision' \in Nat, revision <= revision', k.rev <= revision',
           Carries(k), k.pc = "derive" => disk' # None,
           k.pc \in InSession /\ k.rev = revision' => payload' # None
    PROVE  CallsOK'
<1>1. lane' \in Seq(Calls)
  BY DEF CallsOK
<1>2. call' \in [Calls -> CallType] /\ call'[c] = k
  BY DEF CallsOK
<1>3. ASSUME NEW d \in Calls PROVE CallOK(d)'
  <2>1. CASE d = c
    BY <2>1, <1>2 DEF CallOK, InSession, AtWork
  <2>2. CASE d # c
    <3>1. call'[d] = call[d] /\ call[d] \in CallType
      BY <2>2 DEF CallsOK
    <3>2. call[d].pc \notin AtWork
      BY <2>2 DEF CallsOK, CallOK
    <3>3. Carries(call[d]) /\ call[d].rev <= revision /\ call[d].rev \in Nat
      BY <3>1, CallFields DEF CallsOK, CallOK
    <3> QED
      BY <3>1, <3>2, <3>3 DEF CallOK, InSession, AtWork, Carries
  <2> QED
    BY <2>1, <2>2
<1> QED
  BY <1>1, <1>2, <1>3 DEF CallsOK

\* A working call left the lane.
LEMMA Left ==
    ASSUME CallsOK, revision \in Nat, NEW c \in Calls, NEW p, Running(c, p),
           NEW out \in Outcomes, NEW wrote \in BOOLEAN, FinishAs(c, out, wrote),
           revision' \in Nat, revision <= revision'
    PROVE  CallsOK'
<1> DEFINE k == [IdleCall EXCEPT !.op = call[c].op, !.rev = call[c].rev, !.pc = "done",
                                 !.out = out, !.wrote = wrote]
<1>1. call[c] \in CallType /\ call[c].rev \in Nat /\ call[c].rev <= revision
  BY CallFields DEF CallsOK, CallOK
<1>2. k \in CallType /\ k.pc = "done" /\ k.rev = call[c].rev /\ Carries(k)
  BY <1>1, DoneType
<1>3. call' = [call EXCEPT ![c] = k] /\ lane' = Tail(lane)
  BY DEF FinishAs
<1>4. lane # <<>> /\ Head(lane) = c
  BY DEF Running
<1> HIDE DEF k
<1>5. k.rev <= revision'
  BY <1>1, <1>2
<1>6. k.pc \notin AtWork /\ k.pc \notin InSession /\ k.pc # "derive"
  BY <1>2 DEF AtWork, InSession
<1> QED
  BY <1>2, <1>3, <1>4, <1>5, <1>6, Worked

\* The same of a call whose write has landed.
LEMMA LeftWritten ==
    ASSUME CallsOK, revision \in Nat, NEW c \in Calls, NEW p, Running(c, p),
           NEW out \in Outcomes, FinishAs(c, out, TRUE), UNCHANGED revision
    PROVE  CallsOK'
<1> DEFINE wrote == TRUE
<1>1. wrote \in BOOLEAN /\ FinishAs(c, out, wrote)
  OBVIOUS
<1> HIDE DEF wrote
<1> QED
  BY <1>1, Left

\* A working call went on to its next await.
LEMMA Went ==
    ASSUME CallsOK, revision \in Nat, NEW c \in Calls, NEW p, Running(c, p),
           NEW k \in CallType, Continue(c, k),
           revision' \in Nat, revision <= revision', k.rev <= revision',
           Carries(k), k.pc = "derive" => disk' # None,
           k.pc \in InSession /\ k.rev = revision' => payload' # None
    PROVE  CallsOK'
  BY Worked DEF Running, Continue

\* A step of the user, the clock or a callback left the lane and its calls alone.
LEMMA Stood ==
    ASSUME CallsOK, revision \in Nat, UNCHANGED <<lane, call, disk>>,
           revision' \in Nat, revision <= revision',
           revision' # revision \/ payload = None \/ payload' # None
    PROVE  CallsOK'
<1>1. ASSUME NEW d \in Calls PROVE CallOK(d)'
  <2>1. call'[d] = call[d] /\ call[d] \in CallType /\ call[d].rev \in Nat
    BY CallFields DEF CallsOK
  <2>2. CallOK(d)
    BY DEF CallsOK
  <2> QED
    BY <2>1, <2>2 DEF CallOK, Carries
<1> QED
  BY <1>1 DEF CallsOK

\* A call that is not at work moved, and may have joined the lane.
LEMMA Joined ==
    ASSUME CallsOK, revision \in Nat, NEW c \in Calls, NEW k \in CallType,
           call[c].pc \notin AtWork, k.pc \notin AtWork,
           call' = [call EXCEPT ![c] = k],
           lane' = lane \/ lane' = Append(lane, c), UNCHANGED disk,
           revision' \in Nat, revision <= revision', k.rev <= revision', Carries(k),
           revision' # revision \/ payload' = payload
    PROVE  CallsOK'
<1>1. lane' \in Seq(Calls) /\ (lane # <<>> => lane' # <<>> /\ Head(lane') = Head(lane))
  BY DEF CallsOK
<1>2. call' \in [Calls -> CallType] /\ call'[c] = k
  BY DEF CallsOK
<1>3. ASSUME NEW d \in Calls PROVE CallOK(d)'
  <2>1. CASE d = c
    BY <2>1, <1>2 DEF CallOK, InSession, AtWork
  <2>2. CASE d # c
    <3>1. call'[d] = call[d] /\ call[d] \in CallType /\ call[d].rev \in Nat
      BY <2>2, CallFields DEF CallsOK
    <3>2. CallOK(d)
      BY DEF CallsOK
    <3> QED
      BY <3>1, <3>2, <1>1 DEF CallOK, Carries
  <2> QED
    BY <2>1, <2>2
<1> QED
  BY <1>1, <1>2, <1>3 DEF CallsOK

----------------------------------------------------------------------------
(* How a step moves the rest of the state.                                 *)

LEMMA FaultSpent == ASSUME spent \in SpentType, Fault PROVE spent' \in SpentType
  BY DEF Fault, SpentType

LEMMA Played ==
    ASSUME spent \in SpentType
    PROVE  scene.accounts \subseteq Accounts /\ scene.passwords \subseteq Passwords
  BY VaultAssumption DEF SpentType, scene, Scene

LEMMA StateKept ==
    ASSUME StateOK, UNCHANGED <<guard, memory>>, disk' \in Record \cup {None},
           spent' = spent \/ Fault
    PROVE  StateOK'
  BY DEF StateOK, StateType, memory, Fault, SpentType, HeldIffOpen, LockWins

LEMMA Locked ==
    ASSUME StateOK, LockSession, UNCHANGED store, spent' = spent \/ Fault
    PROVE  StateOK'
<1>1. StateType'
  <2>1. scope' \in [Scopes -> ScopeType]
    BY DEF StateOK, StateType, LockSession, LockNow, ScopeType
  <2> QED
    BY <2>1 DEF StateOK, StateType, LockSession, LockNow, store, Fault, SpentType
<1> QED
  BY <1>1 DEF StateOK, StateType, LockSession, LockNow, HeldIffOpen, LockWins

LEMMA Installed ==
    ASSUME StateOK, NEW c \in Calls, ~Overtaken(c), NEW b \in Body, NEW key \in Key,
           Install(c, b, key), UNCHANGED <<disk, spent>>,
           guard' = guard \/ guard' = FreshGuard
    PROVE  StateOK'
<1>1. session' = revision /\ payload' = b /\ held' = key /\ b # None /\ key # None
  BY NotNone DEF Install, Overtaken
<1>2. /\ disk' = disk /\ revision' = revision /\ scope' = scope /\ loose' = loose
      /\ lockedAt' = lockedAt /\ spent' = spent
  BY DEF Install
<1>3. guard' \in [failures : Nat, shut : BOOLEAN]
  <2>1. FreshGuard \in [failures : Nat, shut : BOOLEAN]
    BY DEF FreshGuard
  <2>2. guard \in [failures : Nat, shut : BOOLEAN]
    BY DEF StateOK, StateType
  <2> QED
    BY <2>1, <2>2
<1>4. StateType'
  BY <1>1, <1>2, <1>3 DEF StateOK, StateType
<1> QED
  BY <1>1, <1>2, <1>4 DEF StateOK, StateType, HeldIffOpen, LockWins

\* The facts about the running call that every step uses.
LEMMA RunningCall ==
    ASSUME IInv, NEW c \in Calls, NEW p, Running(c, p)
    PROVE  /\ call[c] \in CallType /\ call[c].pc = p /\ Carries(call[c])
           /\ call[c].rev \in Nat /\ call[c].rev <= revision /\ revision \in Nat
           /\ p = "derive" => disk \in Record
           /\ p \in InSession /\ ~Overtaken(c) => payload \in Body /\ held \in Key
           /\ call[c].wrote \in BOOLEAN
<1>1. call[c] \in CallType /\ call[c].pc = p /\ CallOK(c)
  BY DEF IInv, CallsOK, Running
<1>2. call[c].rev \in Nat /\ call[c].wrote \in BOOLEAN
  BY <1>1, CallFields
<1> QED
  BY <1>1, <1>2 DEF IInv, StateOK, StateType, CallOK, Overtaken, HeldIffOpen

\* A running call finishes or goes on, and nothing but the record or the budget of
\* faults changed.
LEMMA FinishKeeps ==
    ASSUME IInv, NEW c \in Calls, NEW p, Running(c, p), NEW out \in Outcomes,
           Finish(c, out), revision' \in Nat, revision <= revision'
    PROVE  CallsOK'
<1>1. call[c].wrote \in BOOLEAN /\ revision \in Nat /\ CallsOK
  BY RunningCall DEF IInv
<1>2. FinishAs(c, out, call[c].wrote)
  BY DEF Finish
<1> QED
  BY <1>1, <1>2, Left

\* Going on from one await to the next, within the open session.
LEMMA GotoKeeps ==
    ASSUME IInv, NEW c \in Calls, NEW p, Running(c, p), NEW q \in AtWork, Goto(c, q),
           q \in {"rewrite", "mintWrite", "seal", "createWrite", "createGuard", "write"}
              => call[c].write # None,
           q \notin {"read", "write"},
           q \in {"seal", "createWrite", "createGuard"} => call[c].op = "create",
           q \in {"derive", "clear", "restore", "reseal"}
              => call[c].pw # None \/ (q = "restore" /\ call[c].op = "create"),
           q = "derive" => disk' # None,
           q \in InSession /\ ~Overtaken(c) => payload' # None,
           UNCHANGED revision
    PROVE  CallsOK'
<1> DEFINE k == [call[c] EXCEPT !.pc = q]
<1>1. call[c] \in CallType /\ call[c].rev \in Nat /\ call[c].rev <= revision /\ revision \in Nat
  BY RunningCall
<1>2. /\ k \in CallType /\ k.pc = q /\ k.rev = call[c].rev
      /\ k.pw = call[c].pw /\ k.write = call[c].write /\ k.op = call[c].op
  BY <1>1, PcMoved DEF Pcs
<1>3. Continue(c, k)
  BY DEF Goto
<1> HIDE DEF k
<1>4. Carries(k)
  BY <1>2 DEF Carries, AtWork
<1>5. k.pc \in InSession /\ k.rev = revision' => payload' # None
  BY <1>2 DEF Overtaken
<1> QED
  BY <1>1, <1>2, <1>3, <1>4, <1>5, Went DEF IInv

----------------------------------------------------------------------------
(* unlock() keeps the invariant, step by step.                             *)

LEMMA Outs == Outcomes = {"none", "true", "false", "wrong", "overtaken", "rejected", "lost"}
  BY DEF Outcomes

LEMMA StartUnlockKeeps == ASSUME IInv, NEW c \in Calls, StartUnlock(c) PROVE IInv'
<1>1. Running(c, "queued") /\ UNCHANGED <<store, memory, spent>>
  BY DEF StartUnlock
<1>2. revision' = revision /\ revision \in Nat /\ disk' = disk
  BY <1>1, RunningCall DEF memory, store
<1>3. StateOK'
  BY <1>1, StateKept DEF IInv, StateOK, StateType, store
<1>4. CallsOK'
  <2>1. CASE Overtaken(c)
    BY <2>1, <1>1, <1>2, Outs, FinishKeeps DEF StartUnlock
  <2>2. CASE ~Overtaken(c) /\ (guard.shut \/ disk = None)
    BY <2>2, <1>1, <1>2, Outs, FinishKeeps DEF StartUnlock
  <2>3. CASE ~Overtaken(c) /\ ~(guard.shut \/ disk = None)
    <3>1. Goto(c, "derive") /\ call[c].pw # None
      BY <2>3, <1>1, RunningCall DEF StartUnlock, Carries
    <3> QED
      BY <3>1, <2>3, <1>1, <1>2, GotoKeeps DEF AtWork, InSession
  <2> QED
    BY <2>1, <2>2, <2>3
<1> QED
  BY <1>3, <1>4 DEF IInv

LEMMA DeriveWrongKeeps == ASSUME IInv, NEW c \in Calls, DeriveWrong(c) PROVE IInv'
<1>1. Running(c, "derive") /\ Goto(c, "charge") /\ UNCHANGED <<store, memory, spent>>
  BY DEF DeriveWrong
<1>2. StateOK'
  BY <1>1, StateKept DEF IInv, StateOK, StateType, store
<1>3. CallsOK'
  BY <1>1, GotoKeeps DEF AtWork, InSession, memory
<1> QED
  BY <1>2, <1>3 DEF IInv

LEMMA NextGuardType ==
    ASSUME guard \in [failures : Nat, shut : BOOLEAN]
    PROVE  NextGuard \in [failures : Nat, shut : BOOLEAN]
  BY DEF NextGuard

LEMMA GuardMoved ==
    ASSUME guard \in [failures : Nat, shut : BOOLEAN], guard' \in {guard, FreshGuard, NextGuard}
    PROVE  guard' \in [failures : Nat, shut : BOOLEAN]
<1>1. FreshGuard \in [failures : Nat, shut : BOOLEAN]
  BY DEF FreshGuard
<1> QED
  BY <1>1, NextGuardType

LEMMA ChargeGuardKeeps == ASSUME IInv, NEW c \in Calls, ChargeGuard(c) PROVE IInv'
<1>1. /\ Running(c, "charge") /\ UNCHANGED <<disk, memory>>
      /\ \E out \in {"wrong", "rejected"} : Finish(c, out)
      /\ guard' = guard \/ guard' = NextGuard
      /\ spent' = spent \/ Fault
  BY DEF ChargeGuard
<1>2. StateOK'
  BY <1>1, NextGuardType
     DEF IInv, StateOK, StateType, memory, Fault, SpentType, HeldIffOpen, LockWins
<1>3. CallsOK'
  BY <1>1, RunningCall, Outs, FinishKeeps DEF memory
<1> QED
  BY <1>2, <1>3 DEF IInv

LEMMA OpenedType == ASSUME NEW c \in Calls, disk \in Record PROVE Opened(c) \in Body
  BY RecordFields DEF Opened, Body, Stamp

\* A call moves on and notes whether it has to mint.
LEMMA ClearType ==
    ASSUME NEW r \in CallType, NEW m \in BOOLEAN
    PROVE  [r EXCEPT !.pc = "clear", !.minted = m] \in CallType
BY DEF CallType, AtWork

LEMMA DeriveRightKeeps == ASSUME IInv, NEW c \in Calls, DeriveRight(c) PROVE IInv'
<1>1. Running(c, "derive") /\ UNCHANGED <<store, spent>>
  BY DEF DeriveRight
<1>2. disk \in Record /\ revision \in Nat /\ call[c].pw # None
  BY <1>1, RunningCall DEF Carries
<1>3. CASE Overtaken(c)
  <2>1. Finish(c, "overtaken") /\ UNCHANGED memory
    BY <1>3 DEF DeriveRight
  <2>2. StateOK'
    BY <1>1, <2>1, StateKept DEF IInv, StateOK, StateType, store
  <2> QED
    BY <1>1, <1>2, <2>1, <2>2, Outs, FinishKeeps DEF IInv, memory
<1>4. CASE ~Overtaken(c)
  <2> DEFINE k == [call[c] EXCEPT !.pc = "clear", !.minted = disk.body.cacheKey = "absent"]
  <2>1. Install(c, Opened(c), disk.key) /\ Continue(c, k)
    BY <1>4 DEF DeriveRight
  <2>2. Opened(c) \in Body /\ disk.key \in Key
    BY <1>2, OpenedType, RecordFields
  <2>3. StateOK'
    BY <1>1, <1>4, <2>1, <2>2, Installed DEF IInv, store
  <2>4. call[c] \in CallType
    BY <1>1, RunningCall
  <2>a. k \in CallType
    <3>1. (disk.body.cacheKey = "absent") \in BOOLEAN
      OBVIOUS
    <3> QED BY <2>4, <3>1, ClearType, Zenon
  <2>b. k.pc = "clear" /\ k.rev = call[c].rev /\ k.pw = call[c].pw
    BY <2>4 DEF CallType
  <2>5. k \in CallType /\ k.pc = "clear" /\ k.rev = call[c].rev /\ k.pw = call[c].pw
    BY <2>a, <2>b
  <2> HIDE DEF k
  <2>6. Carries(k)
    BY <1>2, <2>5 DEF Carries
  <2>7. payload' # None /\ revision' = revision /\ call[c].rev = revision
    BY <1>4, <2>1, <2>2, NotNone DEF Install, Overtaken
  <2> QED
    BY <1>1, <1>2, <2>1, <2>3, <2>5, <2>6, <2>7, Went DEF IInv
<1> QED
  BY <1>3, <1>4

LEMMA ClearGuardKeeps == ASSUME IInv, NEW c \in Calls, ClearGuard(c) PROVE IInv'
<1>1. Running(c, "clear") /\ UNCHANGED <<disk, memory>>
  BY DEF ClearGuard
<1>2. revision' = revision /\ revision \in Nat /\ payload' = payload /\ call[c].pw # None
  BY <1>1, RunningCall DEF memory, Carries
<1>3. ~Overtaken(c) => payload # None
  BY <1>1, RunningCall, NotNone DEF InSession
<1>4. StateOK'
  <2>1. (guard' = guard \/ guard' = FreshGuard) /\ (spent' = spent \/ Fault)
    BY DEF ClearGuard
  <2>2. guard' \in [failures : Nat, shut : BOOLEAN]
    BY <2>1, GuardMoved DEF IInv, StateOK, StateType
  <2> QED
    BY <1>1, <2>1, <2>2 DEF IInv, StateOK, StateType, memory, Fault, SpentType, HeldIffOpen, LockWins
<1>5. CASE Goto(c, "restore")
  BY <1>1, <1>2, <1>3, <1>4, <1>5, GotoKeeps DEF IInv, AtWork
<1>6. CASE Finish(c, "rejected")
  BY <1>1, <1>2, <1>4, <1>6, Outs, FinishKeeps DEF IInv
<1> QED
  BY <1>5, <1>6 DEF ClearGuard

LEMMA AfterResealKeeps ==
    ASSUME IInv, NEW c \in Calls, NEW p \in {"restore", "reseal", "rewrite"}, Running(c, p),
           AfterReseal(c), revision' = revision, payload' = payload
    PROVE  CallsOK'
<1>1. revision \in Nat /\ (~Overtaken(c) => payload # None)
  BY RunningCall, NotNone DEF InSession
<1>2. CASE Overtaken(c)
  BY <1>1, <1>2, Outs, FinishKeeps DEF AfterReseal
<1>3. CASE ~Overtaken(c) /\ call[c].minted
  <2>1. Goto(c, "mint")
    BY <1>3 DEF AfterReseal
  <2> QED
    BY <1>1, <1>3, <2>1, GotoKeeps DEF AtWork
<1>4. CASE ~Overtaken(c) /\ ~call[c].minted
  <2>1. Goto(c, "notify")
    BY <1>4 DEF AfterReseal
  <2> QED
    BY <1>1, <1>4, <2>1, GotoKeeps DEF AtWork, InSession
<1> QED
  BY <1>2, <1>3, <1>4

LEMMA RestoreKeeps == ASSUME IInv, NEW c \in Calls, Restore(c) PROVE IInv'
<1>1. Running(c, "restore") /\ UNCHANGED <<store, memory>> /\ (spent' = spent \/ Fault)
  BY DEF Restore
<1>2. /\ revision' = revision /\ revision \in Nat /\ payload' = payload
      /\ call[c].op # "create" => call[c].pw # None
  BY <1>1, RunningCall DEF memory, Carries
<1>3. ~Overtaken(c) => payload # None
  BY <1>1, RunningCall, NotNone DEF InSession
<1>4. StateOK'
  BY <1>1, StateKept DEF IInv, StateOK, StateType, store
<1>5. CASE Goto(c, "notify")
  BY <1>1, <1>2, <1>4, <1>5, GotoKeeps DEF IInv, AtWork, InSession
<1>6. CASE Finish(c, "overtaken") \/ Finish(c, "rejected")
  BY <1>1, <1>2, <1>4, <1>6, Outs, FinishKeeps DEF IInv
<1>7. CASE Goto(c, "reseal") /\ call[c].op # "create"
  BY <1>1, <1>2, <1>3, <1>4, <1>7, GotoKeeps DEF IInv, AtWork
<1>8. CASE AfterReseal(c)
  BY <1>1, <1>2, <1>4, <1>8, AfterResealKeeps DEF IInv
<1> QED
  BY <1>5, <1>6, <1>7, <1>8 DEF Restore

LEMMA MintFailsKeeps ==
    ASSUME IInv, NEW c \in Calls, NEW p, Running(c, p), MintFails(c) PROVE IInv'
<1>1. revision \in Nat /\ Fault /\ UNCHANGED store
  BY RunningCall DEF MintFails
<1>2. CASE Overtaken(c)
  <2>1. Finish(c, "overtaken") /\ UNCHANGED memory
    BY <1>2 DEF MintFails
  <2>2. StateOK'
    BY <1>1, <2>1, StateKept DEF IInv, StateOK, StateType, store
  <2> QED
    BY <1>1, <2>1, <2>2, Outs, FinishKeeps DEF IInv, memory
<1>3. CASE ~Overtaken(c)
  <2>1. Finish(c, "rejected") /\ LockSession
    BY <1>3 DEF MintFails
  <2>2. StateOK'
    BY <1>1, <2>1, Locked DEF IInv
  <2> QED
    BY <1>1, <2>1, <2>2, Outs, FinishKeeps DEF IInv, LockSession
<1> QED
  BY <1>2, <1>3

LEMMA WritePcs == \A q \in {"mintWrite", "write", "rewrite"} : q \in Pcs
  BY DEF Pcs, AtWork

\* What #saveNow and #resealNow write: a record under a key of theirs.
LEMMA WritingKeeps ==
    ASSUME IInv, NEW c \in Calls, NEW p \in InSession, Running(c, p), ~Overtaken(c),
           NEW q \in {"mintWrite", "write", "rewrite"}, NEW w \in Record,
           q = "write" => call[c].before # None,
           Continue(c, [call[c] EXCEPT !.pc = q, !.write = w]),
           UNCHANGED <<store, memory, spent>>
    PROVE  IInv'
<1> DEFINE k == [call[c] EXCEPT !.pc = q, !.write = w]
<1>1. call[c] \in CallType /\ call[c].rev = revision /\ revision \in Nat /\ payload # None
  BY RunningCall, NotNone DEF Overtaken
<1>2. /\ k \in CallType /\ k.pc = q /\ k.rev = revision /\ k.write # None
      /\ k.before = call[c].before
  <2>1. q \in Pcs
    BY WritePcs
  <2>2. /\ k \in CallType /\ k.pc = q /\ k.rev = call[c].rev /\ k.write = w
        /\ k.before = call[c].before
    BY <1>1, <2>1 DEF CallType, Pcs
  <2> HIDE DEF k
  <2> QED
    BY <1>1, <2>2, NotNone
<1> HIDE DEF k
<1>3. Carries(k)
  BY <1>2 DEF Carries
<1>4. StateOK'
  BY StateKept DEF IInv, StateOK, StateType, store
<1>5. Continue(c, k)
  BY DEF k
<1> QED
  BY <1>1, <1>2, <1>3, <1>4, <1>5, Went DEF IInv, memory

LEMMA MintReadKeeps == ASSUME IInv, NEW c \in Calls, MintRead(c) PROVE IInv'
<1>1. Running(c, "mint") /\ revision \in Nat
  BY RunningCall DEF MintRead
<1>2. CASE MintFails(c)
  BY <1>1, <1>2, MintFailsKeeps
<1>3. CASE UNCHANGED <<store, memory, spent>> /\ Overtaken(c) /\ Finish(c, "overtaken")
  <2>1. StateOK'
    BY <1>3, StateKept DEF IInv, StateOK, StateType, store
  <2> QED
    BY <1>1, <1>3, <2>1, Outs, FinishKeeps DEF IInv, memory
<1>4. CASE /\ UNCHANGED <<store, memory, spent>> /\ ~Overtaken(c)
           /\ Continue(c, [call[c] EXCEPT !.pc = "mintWrite",
                              !.write = [key |-> held, body |-> payload]])
  <2>1. [key |-> held, body |-> payload] \in Record
    BY <1>1, <1>4, RunningCall, RecordMade DEF InSession
  <2> QED
    BY <1>1, <1>4, <2>1, WritingKeeps DEF InSession
<1> QED
  BY <1>2, <1>3, <1>4 DEF MintRead

LEMMA MintWriteKeeps == ASSUME IInv, NEW c \in Calls, MintWrite(c) PROVE IInv'
<1>1. Running(c, "mintWrite") /\ revision \in Nat /\ call[c].write \in Record
  BY RunningCall, CallFields DEF MintWrite, Carries
<1>2. CASE MintFails(c)
  BY <1>1, <1>2, MintFailsKeeps
<1>3. CASE /\ disk' = call[c].write /\ UNCHANGED <<guard, memory, spent>>
           /\ IF Overtaken(c) THEN FinishAs(c, "overtaken", TRUE) ELSE Goto(c, "notify")
  <2>1. StateOK'
    BY <1>1, <1>3, StateKept DEF IInv
  <2>2. revision' = revision
    BY <1>3 DEF memory
  <2>3. CASE FinishAs(c, "overtaken", TRUE)
    BY <1>1, <2>1, <2>2, <2>3, Outs, LeftWritten DEF IInv
  <2>4. CASE Goto(c, "notify")
    BY <1>1, <2>1, <2>2, <2>4, GotoKeeps DEF IInv, AtWork, InSession
  <2> QED
    BY <1>3, <2>3, <2>4
<1> QED
  BY <1>2, <1>3 DEF MintWrite

LEMMA NotifyKeeps == ASSUME IInv, NEW c \in Calls, Notify(c) PROVE IInv'
<1>1. Running(c, "notify") /\ revision \in Nat /\ UNCHANGED <<store, memory, spent>>
  BY RunningCall DEF Notify
<1>2. StateOK' /\ revision' = revision
  BY <1>1, StateKept DEF IInv, StateOK, StateType, store, memory
<1>3. CASE call[c].op # "change"
  BY <1>1, <1>2, <1>3, Outs, FinishKeeps DEF IInv, Notify
<1>4. CASE call[c].op = "change"
  <2> DEFINE k == [IdleCall EXCEPT !.op = "change", !.rev = call[c].rev, !.pc = "rekey"]
  <2>1. call' = [call EXCEPT ![c] = k] /\ lane' = Tail(lane)
    BY <1>4 DEF Notify
  <2>2. call[c].rev \in Nat /\ call[c].rev <= revision /\ lane # <<>> /\ Head(lane) = c
    BY <1>1, RunningCall DEF Running
  <2>3. k \in CallType /\ k.pc = "rekey" /\ k.rev = call[c].rev
    BY <2>2, IdleCallType DEF CallType, IdleCall, AllOps
  <2> HIDE DEF k
  <2>4. Carries(k)
    BY <2>3 DEF Carries
  <2>5. k.pc \notin AtWork /\ k.pc \notin InSession /\ k.pc # "derive"
    BY <2>3 DEF AtWork, InSession
  <2>6. CallsOK /\ revision' \in Nat /\ revision <= revision' /\ k.rev <= revision'
    BY <1>1, <1>2, <2>2, <2>3 DEF IInv
  <2>7. CallsOK'
    BY <1>1, <2>1, <2>2, <2>3, <2>4, <2>5, <2>6, Worked
  <2> QED
    BY <1>2, <2>7 DEF IInv
<1> QED
  BY <1>3, <1>4

\* What a queued call carries.
LEMMA QueuedCarries ==
    ASSUME NEW k, k.pc = "queued", k.op \in Mutations => k.acct # None,
           k.op \in {"unlock", "change", "reEncrypt", "create"} => k.pw # None
    PROVE  Carries(k)
  BY DEF Carries

LEMMA RekeyKeeps == ASSUME IInv, NEW c \in Calls, Rekey(c) PROVE IInv'
<1>1. call[c].pc = "rekey" /\ revision \in Nat /\ UNCHANGED <<store, memory, spent>>
  BY DEF Rekey, IInv, StateOK, StateType
<1>2. StateOK' /\ revision' = revision /\ payload' = payload /\ disk' = disk
  BY <1>1, StateKept DEF IInv, StateOK, StateType, store, memory
<1>3. call[c] \in CallType /\ call[c].rev \in Nat /\ call[c].rev <= revision
  BY CallFields DEF IInv, CallsOK, CallOK
<1>4. CASE payload = None
  <2> DEFINE k == [call[c] EXCEPT !.pc = "done", !.out = "rejected"]
  <2>1. Continue(c, k)
    BY <1>4 DEF Rekey
  <2>2. k \in CallType /\ k.pc = "done" /\ k.rev = call[c].rev
    BY <1>3 DEF CallType, Outcomes
  <2> HIDE DEF k
  <2>3. Carries(k)
    BY <2>2 DEF Carries
  <2>4. call[c].pc \notin AtWork /\ k.pc \notin AtWork
    BY <1>1, <2>2 DEF AtWork
  <2>5. CallsOK /\ revision' \in Nat /\ revision <= revision' /\ k.rev <= revision'
    BY <1>1, <1>2, <1>3, <2>2 DEF IInv
  <2>6. call' = [call EXCEPT ![c] = k] /\ lane' = lane
    BY <2>1 DEF Continue
  <2>7. CallsOK'
    BY <1>1, <1>2, <2>2, <2>3, <2>4, <2>5, <2>6, Joined
  <2> QED
    BY <1>2, <2>7 DEF IInv
<1>5. CASE payload # None
  <2>1. PICK p \in Passwords :
          /\ call' = [call EXCEPT ![c] = [IdleCall EXCEPT !.op = "reEncrypt", !.pw = p,
                                            !.rev = revision, !.pc = "queued"]]
          /\ lane' = Append(lane, c)
    BY <1>5, Played DEF Rekey, IInv, StateOK, StateType
  <2> DEFINE k == [IdleCall EXCEPT !.op = "reEncrypt", !.pw = p, !.rev = revision,
                                   !.pc = "queued"]
  <2>2. /\ k \in CallType /\ k.pc = "queued" /\ k.rev = revision /\ k.pw = p
        /\ k.op = "reEncrypt"
    BY <1>1, IdleCallType DEF CallType, IdleCall, Queued, AllOps
  <2> HIDE DEF k
  <2>3. Carries(k)
    BY <2>2, VaultAssumption, QueuedCarries DEF Mutations
  <2>4. call[c].pc \notin AtWork /\ k.pc \notin AtWork
    BY <1>1, <2>2 DEF AtWork
  <2>5. CallsOK /\ revision' \in Nat /\ revision <= revision' /\ k.rev <= revision'
    BY <1>1, <1>2, <2>2 DEF IInv
  <2>6. call' = [call EXCEPT ![c] = k] /\ lane' = Append(lane, c)
    BY <2>1 DEF k
  <2>7. CallsOK'
    BY <1>1, <1>2, <2>2, <2>3, <2>4, <2>5, <2>6, Joined
  <2> QED
    BY <1>2, <2>7 DEF IInv
<1> QED
  BY <1>4, <1>5

----------------------------------------------------------------------------
(* The re-seal.                                                            *)

LEMMA StartReEncryptKeeps == ASSUME IInv, NEW c \in Calls, StartReEncrypt(c) PROVE IInv'
<1>1. Running(c, "queued") /\ revision \in Nat /\ UNCHANGED <<store, memory, spent>>
  BY RunningCall DEF StartReEncrypt
<1>2. StateOK' /\ revision' = revision /\ payload' = payload
  BY <1>1, StateKept DEF IInv, StateOK, StateType, store, memory
<1>3. CASE Overtaken(c) \/ payload = None
  BY <1>1, <1>2, <1>3, Outs, FinishKeeps DEF IInv, StartReEncrypt
<1>4. CASE ~(Overtaken(c) \/ payload = None)
  <2>1. Goto(c, "reseal") /\ call[c].pw # None
    BY <1>1, <1>4, RunningCall DEF StartReEncrypt, Carries
  <2> QED
    BY <1>1, <1>2, <1>4, <2>1, GotoKeeps DEF IInv, AtWork
<1> QED
  BY <1>3, <1>4

LEMMA ResealFailsKeeps ==
    ASSUME IInv, NEW c \in Calls, NEW p \in {"reseal", "rewrite"}, Running(c, p),
           NEW wrote \in BOOLEAN, ResealFails(c, wrote),
           revision' = revision, payload' = payload
    PROVE  CallsOK'
<1>1. revision \in Nat /\ CallsOK
  BY RunningCall DEF IInv
<1>2. CASE FinishAs(c, "rejected", wrote)
  BY <1>1, <1>2, Outs, Left
<1>3. CASE AfterReseal(c)
  BY <1>3, AfterResealKeeps
<1> QED
  BY <1>2, <1>3 DEF ResealFails

LEMMA ResealKeeps == ASSUME IInv, NEW c \in Calls, Reseal(c) PROVE IInv'
<1>1. Running(c, "reseal") /\ UNCHANGED <<store, memory>> /\ (spent' = spent \/ Fault)
  BY DEF Reseal
<1>2. StateOK' /\ revision' = revision /\ payload' = payload
  BY <1>1, StateKept DEF IInv, StateOK, StateType, store, memory
<1>3. CASE ResealFails(c, FALSE)
  <2> DEFINE wrote == FALSE
  <2>1. wrote \in BOOLEAN /\ ResealFails(c, wrote)
    BY <1>3
  <2> HIDE DEF wrote
  <2> QED
    BY <1>1, <1>2, <2>1, ResealFailsKeeps DEF IInv
<1>4. CASE /\ ~Overtaken(c) /\ UNCHANGED spent
           /\ Continue(c, [call[c] EXCEPT !.pc = "rewrite",
                 !.write = [key |-> [pw |-> call[c].pw, strong |-> TRUE], body |-> payload]])
  <2>1. payload \in Body /\ call[c].pw \in Passwords
    BY <1>1, <1>4, RunningCall, CallFields DEF InSession, Carries
  <2>2. [pw |-> call[c].pw, strong |-> TRUE] \in Key
    BY <2>1 DEF Key
  <2>3. [key |-> [pw |-> call[c].pw, strong |-> TRUE], body |-> payload] \in Record
    BY <2>1, <2>2, RecordMade
  <2> QED
    BY <1>1, <1>4, <2>3, WritingKeeps DEF InSession
<1> QED
  BY <1>3, <1>4 DEF Reseal

LEMMA RewriteKeeps == ASSUME IInv, NEW c \in Calls, Rewrite(c) PROVE IInv'
<1>1. /\ Running(c, "rewrite") /\ revision \in Nat /\ call[c].write \in Record
      /\ UNCHANGED <<guard, payload, revision, scope, loose, session, lockedAt>>
  BY RunningCall, CallFields DEF Rewrite, Carries
<1>2. CASE /\ ResealFails(c, TRUE) \/ ResealFails(c, FALSE)
           /\ UNCHANGED held /\ (disk' = disk \/ disk' = call[c].write)
           /\ (spent' = spent \/ Fault)
  <2>1. StateOK'
    BY <1>1, <1>2, StateKept DEF IInv, StateOK, StateType, memory
  <2>2. PICK wrote \in BOOLEAN : ResealFails(c, wrote)
    BY <1>2
  <2> QED
    BY <1>1, <2>1, <2>2, ResealFailsKeeps DEF IInv
<1>3. CASE /\ ~Overtaken(c) /\ disk' = call[c].write /\ held' = call[c].write.key
           /\ UNCHANGED spent
           /\ FinishAs(c, "true", TRUE) \/ AfterReseal(c)
  <2>1. held' \in Key /\ payload \in Body /\ held' # None /\ payload # None
    BY <1>1, <1>3, RecordFields, RunningCall, NotNone DEF InSession
  <2>2. StateOK'
    BY <1>1, <1>3, <2>1 DEF IInv, StateOK, StateType, HeldIffOpen, LockWins
  <2>3. CASE FinishAs(c, "true", TRUE)
    BY <1>1, <2>2, <2>3, Outs, LeftWritten DEF IInv
  <2>4. CASE AfterReseal(c)
    BY <1>1, <2>2, <2>4, AfterResealKeeps DEF IInv
  <2> QED
    BY <1>3, <2>3, <2>4
<1> QED
  BY <1>2, <1>3 DEF Rewrite

----------------------------------------------------------------------------
(* create() and the two destroys.                                          *)

LEMMA NewBodyType ==
    ASSUME NEW c \in Calls, call[c].acct \in Accounts \cup {None}, payload \in Body \cup {None}
    PROVE  NewBody(c) \in Body
  BY DEF NewBody, Body, Stamp

LEMMA StartCreateKeeps == ASSUME IInv, NEW c \in Calls, StartCreate(c) PROVE IInv'
<1>1. /\ Running(c, "queued") /\ call[c].op = "create" /\ revision \in Nat
      /\ UNCHANGED <<store, memory, spent>>
  BY RunningCall DEF StartCreate
<1>2. StateOK' /\ revision' = revision
  BY <1>1, StateKept DEF IInv, StateOK, StateType, store, memory
<1>3. CASE Overtaken(c)
  BY <1>1, <1>2, <1>3, Outs, FinishKeeps DEF IInv, StartCreate
<1>4. CASE ~Overtaken(c)
  <2> DEFINE w == [key |-> [pw |-> call[c].pw, strong |-> TRUE], body |-> NewBody(c)]
             k == [call[c] EXCEPT !.pc = "seal", !.write = w]
  <2>1. Continue(c, k)
    BY <1>4 DEF StartCreate
  <2>2. /\ call[c] \in CallType /\ call[c].rev \in Nat /\ call[c].rev <= revision
        /\ call[c].acct \in Accounts \cup {None} /\ call[c].pw \in Passwords
    BY <1>1, RunningCall, CallFields DEF Carries
  <2>3. w \in Record
    <3>1. NewBody(c) \in Body
      BY <2>2, NewBodyType DEF IInv, StateOK, StateType
    <3>2. [pw |-> call[c].pw, strong |-> TRUE] \in Key
      BY <2>2 DEF Key
    <3> QED
      BY <3>1, <3>2, RecordMade
  <2> HIDE DEF w
  <2>4. /\ k \in CallType /\ k.pc = "seal" /\ k.rev = call[c].rev /\ k.write = w
        /\ k.op = "create"
    BY <1>1, <2>2, <2>3 DEF CallType, AtWork
  <2> HIDE DEF k
  <2>5. Carries(k) /\ k.pc \notin InSession
    BY <2>3, <2>4, NotNone DEF Carries, InSession
  <2> QED
    BY <1>1, <1>2, <2>1, <2>2, <2>4, <2>5, Went DEF IInv
<1> QED
  BY <1>3, <1>4

LEMMA SealKeeps == ASSUME IInv, NEW c \in Calls, Seal(c) PROVE IInv'
<1>1. /\ Running(c, "seal") /\ revision \in Nat /\ UNCHANGED <<store, memory, spent>>
      /\ call[c].write # None /\ call[c].op = "create"
  BY RunningCall DEF Seal, Carries
<1>2. StateOK' /\ revision' = revision
  BY <1>1, StateKept DEF IInv, StateOK, StateType, store, memory
<1>3. CASE Finish(c, "rejected")
  BY <1>1, <1>2, <1>3, Outs, FinishKeeps DEF IInv
<1>4. CASE Goto(c, "createWrite")
  BY <1>1, <1>2, <1>4, GotoKeeps DEF IInv, AtWork, InSession
<1> QED
  BY <1>3, <1>4 DEF Seal

LEMMA CreateWriteKeeps == ASSUME IInv, NEW c \in Calls, CreateWrite(c) PROVE IInv'
<1>1. Running(c, "createWrite") /\ revision \in Nat /\ UNCHANGED <<guard, memory>>
  BY RunningCall DEF CreateWrite
<1>2. /\ call[c].write \in Record /\ call[c] \in CallType
      /\ call[c].rev \in Nat /\ call[c].rev <= revision /\ call[c].op = "create"
  BY <1>1, RunningCall, CallFields DEF Carries
<1>3. StateOK' /\ revision' = revision
  <2>1. (disk' = call[c].write \/ disk' = disk) /\ (spent' = spent \/ Fault)
    BY DEF CreateWrite
  <2> QED
    BY <1>1, <1>2, <2>1, StateKept DEF IInv, StateOK, StateType, memory
<1>4. CASE Finish(c, "rejected")
  BY <1>1, <1>3, <1>4, Outs, FinishKeeps DEF IInv
<1>5. CASE Continue(c, [call[c] EXCEPT !.pc = "createGuard", !.wrote = TRUE])
  <2> DEFINE k == [call[c] EXCEPT !.pc = "createGuard", !.wrote = TRUE]
  <2>1. /\ k \in CallType /\ k.pc = "createGuard" /\ k.rev = call[c].rev
        /\ k.write = call[c].write /\ k.op = call[c].op
    BY <1>2 DEF CallType, AtWork
  <2>2. Continue(c, k)
    BY <1>5
  <2> HIDE DEF k
  <2>3. Carries(k) /\ k.pc \notin InSession
    BY <1>2, <2>1, NotNone DEF Carries, InSession
  <2> QED
    BY <1>1, <1>2, <1>3, <2>1, <2>2, <2>3, Went DEF IInv
<1> QED
  BY <1>4, <1>5 DEF CreateWrite

LEMMA CreateGuardKeeps == ASSUME IInv, NEW c \in Calls, CreateGuard(c) PROVE IInv'
<1>1. Running(c, "createGuard") /\ revision \in Nat /\ disk' = disk /\ call[c].write \in Record
  BY RunningCall, CallFields DEF CreateGuard, Carries
<1>2. CASE Finish(c, "rejected") /\ UNCHANGED memory
  <2>1. guard' \in {guard, FreshGuard, NextGuard} /\ (spent' = spent \/ Fault)
    BY DEF CreateGuard
  <2>2. guard' \in [failures : Nat, shut : BOOLEAN]
    BY <2>1, GuardMoved DEF IInv, StateOK, StateType
  <2>3. StateOK' /\ revision' = revision
    BY <1>1, <1>2, <2>1, <2>2
       DEF IInv, StateOK, StateType, memory, Fault, SpentType, HeldIffOpen, LockWins
  <2> QED
    BY <1>1, <1>2, <2>3, Outs, FinishKeeps DEF IInv
<1>3. CASE /\ ~Overtaken(c) /\ Install(c, call[c].write.body, call[c].write.key)
           /\ Goto(c, "restore") /\ guard' = FreshGuard /\ UNCHANGED spent
  <2>0. call[c].op = "create"
    BY <1>1, RunningCall DEF Carries
  <2>1. call[c].write.body \in Body /\ call[c].write.key \in Key
    BY <1>1, RecordFields
  <2>2. StateOK'
    BY <1>1, <1>3, <2>1, Installed DEF IInv
  <2>3. payload' # None /\ revision' = revision
    BY <1>3, <2>1, NotNone DEF Install
  <2> QED
    BY <1>1, <1>3, <2>0, <2>2, <2>3, GotoKeeps DEF IInv, AtWork
<1> QED
  BY <1>2, <1>3 DEF CreateGuard

LEMMA StartDestroyKeeps == ASSUME IInv, NEW c \in Calls, StartDestroy(c) PROVE IInv'
<1>1. Running(c, "queued") /\ Goto(c, "wipe") /\ UNCHANGED <<store, memory, spent>>
  BY DEF StartDestroy
<1>2. StateOK' /\ revision' = revision
  BY <1>1, StateKept DEF IInv, StateOK, StateType, store, memory
<1> QED
  BY <1>1, <1>2, GotoKeeps DEF IInv, AtWork, InSession

LEMMA StartDestroyIfEmptyKeeps ==
    ASSUME IInv, NEW c \in Calls, StartDestroyIfEmpty(c) PROVE IInv'
<1>1. Running(c, "queued") /\ revision \in Nat /\ UNCHANGED <<store, spent>>
  BY RunningCall DEF StartDestroyIfEmpty
<1>2. CASE Finish(c, "false") /\ UNCHANGED memory
  <2>1. StateOK' /\ revision' = revision
    BY <1>1, <1>2, StateKept DEF IInv, StateOK, StateType, store, memory
  <2> QED
    BY <1>1, <1>2, <2>1, Outs, FinishKeeps DEF IInv
<1>3. CASE /\ Continue(c, [call[c] EXCEPT !.pc = "wipe", !.rev = revision + 1])
           /\ LockSession
  <2> DEFINE k == [call[c] EXCEPT !.pc = "wipe", !.rev = revision + 1]
  <2>1. call[c] \in CallType
    BY <1>1, RunningCall
  <2> DEFINE r == revision + 1
  <2>r. r \in Nat
    BY <1>1
  <2> HIDE DEF r
  <2>2. k \in CallType /\ k.pc = "wipe" /\ k.rev = revision + 1
    <3>1. [call[c] EXCEPT !.pc = "wipe", !.rev = r] \in CallType
      BY <2>r, <2>1 DEF CallType, AtWork
    <3>2. k.pc = "wipe" /\ k.rev = revision + 1
      BY <2>1 DEF CallType
    <3> QED
      BY <3>1, <3>2 DEF r
  <2>3. Continue(c, k)
    BY <1>3
  <2> HIDE DEF k
  <2>4. Carries(k) /\ k.pc \notin InSession
    BY <2>2 DEF Carries, InSession
  <2>5. StateOK' /\ revision' = revision + 1
    BY <1>1, <1>3, Locked DEF IInv, LockSession
  <2> QED
    BY <1>1, <2>2, <2>3, <2>4, <2>5, Went DEF IInv
<1> QED
  BY <1>2, <1>3 DEF StartDestroyIfEmpty

LEMMA WipeKeeps == ASSUME IInv, NEW c \in Calls, Wipe(c) PROVE IInv'
<1>1. Running(c, "wipe") /\ revision \in Nat /\ UNCHANGED <<guard, memory>>
  BY RunningCall DEF Wipe
<1>2. StateOK' /\ revision' = revision
  <2>1. (disk' = None \/ disk' = disk) /\ (spent' = spent \/ Fault)
    BY DEF Wipe
  <2> QED
    BY <1>1, <2>1, StateKept DEF IInv, StateOK, StateType, memory
<1>3. CASE Goto(c, "wipeGuard")
  BY <1>1, <1>2, <1>3, GotoKeeps DEF IInv, AtWork, InSession
<1>4. CASE Finish(c, "rejected")
  BY <1>1, <1>2, <1>4, Outs, FinishKeeps DEF IInv
<1> QED
  BY <1>3, <1>4 DEF Wipe

LEMMA WipeGuardKeeps == ASSUME IInv, NEW c \in Calls, WipeGuard(c) PROVE IInv'
<1>1. Running(c, "wipeGuard") /\ revision \in Nat /\ UNCHANGED <<disk, memory>>
  BY RunningCall DEF WipeGuard
<1>2. StateOK' /\ revision' = revision
  <2>1. guard' \in {guard, FreshGuard, NextGuard} /\ (spent' = spent \/ Fault)
    BY DEF WipeGuard
  <2>2. guard' \in [failures : Nat, shut : BOOLEAN]
    BY <2>1, GuardMoved DEF IInv, StateOK, StateType
  <2> QED
    BY <1>1, <2>1, <2>2 DEF IInv, StateOK, StateType, memory, Fault, SpentType, HeldIffOpen, LockWins
<1>3. CASE Goto(c, "listeners")
  BY <1>1, <1>2, <1>3, GotoKeeps DEF IInv, AtWork, InSession
<1>4. CASE Finish(c, "rejected")
  BY <1>1, <1>2, <1>4, Outs, FinishKeeps DEF IInv
<1> QED
  BY <1>3, <1>4 DEF WipeGuard

LEMMA DestroyedKeeps == ASSUME IInv, NEW c \in Calls, Destroyed(c) PROVE IInv'
<1>1. /\ Running(c, "listeners") /\ revision \in Nat /\ Finish(c, "true") /\ LockNow
      /\ UNCHANGED <<disk, guard, revision, loose, session, lockedAt, spent>>
  BY RunningCall DEF Destroyed, store
<1>2. scope' \in [Scopes -> ScopeType]
  BY <1>1 DEF IInv, StateOK, StateType, LockNow, ScopeType
<1>3. StateOK'
  BY <1>1, <1>2 DEF IInv, StateOK, StateType, LockNow, HeldIffOpen, LockWins
<1> QED
  BY <1>1, <1>3, Outs, FinishKeeps DEF IInv

----------------------------------------------------------------------------
(* The mutations.                                                          *)

LEMMA AppliedType ==
    ASSUME NEW c \in Calls, payload \in Body, call[c].acct \in Accounts,
           call[c].op \in Mutations
    PROVE  Applied(c) \in Body
<1> DEFINE a == call[c].acct
           left == Present(payload) \ {a}
           next == IF payload.active # a THEN payload.active
                   ELSE IF left = {} THEN None ELSE CHOOSE b \in left : TRUE
<1>1. CASE call[c].op \in {"add", "update"}
  <2>1. [payload EXCEPT !.accts[a] = c] \in Body
    BY DEF Body, Stamp
  <2> QED
    BY <1>1, <2>1 DEF Applied
<1>2. CASE call[c].op = "setActive"
  <2>1. [payload EXCEPT !.active = a] \in Body
    BY DEF Body
  <2> QED
    BY <1>2, <2>1 DEF Applied
<1>3. CASE call[c].op = "remove"
  <2>1. left \subseteq Accounts
    BY DEF Present
  <2> HIDE DEF left
  <2>2. next \in Accounts \cup {None}
    BY <2>1 DEF Body
  <2> HIDE DEF next
  <2>3. [payload EXCEPT !.accts[a] = "absent", !.active = next] \in Body
    BY <2>2 DEF Body
  <2>4. Applied(c) = [payload EXCEPT !.accts[a] = "absent", !.active = next]
    BY <1>3 DEF Applied, next, left
  <2> QED
    BY <2>3, <2>4
<1> QED
  BY <1>1, <1>2, <1>3 DEF Mutations

LEMMA DetachedType ==
    ASSUME NEW c \in Calls, payload \in Body, call[c].acct \in Accounts,
           call[c].op \in Mutations, ~Refused(c)
    PROVE  Detached(c) \subseteq Stamp
<1>1. CASE call[c].op \in TouchSecrets
  <2>1. call[c].acct \in Present(payload)
    BY <1>1 DEF Refused, TouchSecrets
  <2>2. payload.accts[call[c].acct] \in Stamp
    BY <2>1 DEF Present, Body
  <2> QED
    BY <2>2 DEF Detached
<1>2. CASE call[c].op \notin TouchSecrets
  BY <1>2 DEF Detached
<1> QED
  BY <1>1, <1>2

LEMMA StartMutationKeeps == ASSUME IInv, NEW c \in Calls, StartMutation(c) PROVE IInv'
<1>1. /\ Running(c, "queued") /\ call[c].op \in Mutations /\ revision \in Nat
      /\ UNCHANGED <<store, spent>>
  BY RunningCall DEF StartMutation
<1>2. /\ call[c] \in CallType /\ call[c].acct \in Accounts
      /\ call[c].rev \in Nat /\ call[c].rev <= revision
  BY <1>1, RunningCall, CallFields DEF Carries
<1>3. CASE Overtaken(c) \/ payload = None
  <2>1. Finish(c, "rejected") /\ UNCHANGED memory
    BY <1>3 DEF StartMutation
  <2>2. StateOK' /\ revision' = revision
    BY <1>1, <2>1, StateKept DEF IInv, StateOK, StateType, store, memory
  <2> QED
    BY <1>1, <2>1, <2>2, Outs, FinishKeeps DEF IInv
<1>4. CASE ~(Overtaken(c) \/ payload = None)
  <2> DEFINE rev == IF call[c].op \in TouchSecrets THEN revision + 1 ELSE revision
             k == [call[c] EXCEPT !.pc = "read", !.rev = rev, !.before = payload]
  <2>1. rev \in Nat /\ revision <= rev
    BY <1>1
  <2>2. /\ revision' = rev /\ UNCHANGED <<held, scope, session, lockedAt>>
        /\ \/ /\ \E out \in {"rejected", "true"} : Finish(c, out)
              /\ UNCHANGED <<payload, loose>>
           \/ /\ ~Refused(c) /\ Continue(c, k)
              /\ payload' = Applied(c) /\ loose' = Detached(c)
    BY <1>4 DEF StartMutation
  <2> HIDE DEF rev
  <2>3. payload \in Body
    BY <1>4 DEF IInv, StateOK, StateType
  <2>4. CASE UNCHANGED <<payload, loose>> /\ \E out \in {"rejected", "true"} : Finish(c, out)
    <3>1. StateOK'
      BY <1>1, <2>1, <2>2, <2>4 DEF IInv, StateOK, StateType, store, HeldIffOpen, LockWins
    <3>2. PICK out \in Outcomes : Finish(c, out)
      BY <2>4, Outs
    <3>3. CallsOK'
      BY <1>1, <2>1, <2>2, <3>2, FinishKeeps
    <3> QED
      BY <3>1, <3>3 DEF IInv
  <2>5. CASE /\ ~Refused(c) /\ Continue(c, k)
             /\ payload' = Applied(c) /\ loose' = Detached(c)
    <3>1. payload' \in Body /\ loose' \subseteq Stamp /\ payload' # None
      BY <1>1, <1>2, <2>3, <2>5, AppliedType, DetachedType, NotNone
    <3>2. StateOK'
      BY <1>1, <1>4, <2>1, <2>2, <3>1
         DEF IInv, StateOK, StateType, store, HeldIffOpen, LockWins
    <3>3. k \in CallType /\ k.pc = "read" /\ k.rev = rev /\ k.before = payload
      BY <1>2, <2>1, <2>3 DEF CallType, AtWork
    <3>4. Continue(c, k)
      BY <2>5
    <3> HIDE DEF k
    <3>5. Carries(k)
      BY <1>4, <3>3 DEF Carries
    <3>6. CallsOK /\ revision' \in Nat /\ revision <= revision' /\ k.rev <= revision'
      BY <2>1, <2>2, <3>3 DEF IInv
    <3>7. CallsOK'
      BY <1>1, <3>1, <3>3, <3>4, <3>5, <3>6, Went
    <3> QED
      BY <3>2, <3>7 DEF IInv
  <2> QED
    BY <2>2, <2>4, <2>5
<1> QED
  BY <1>3, <1>4

LEMMA MutationFailsKeeps ==
    ASSUME IInv, NEW c \in Calls, NEW p \in {"read", "write"}, Running(c, p),
           MutationFails(c), spent' = spent \/ Fault
    PROVE  IInv'
<1>1. revision \in Nat /\ call[c].before \in Body
  <2>1. call[c] \in CallType /\ call[c].before # None /\ revision \in Nat
    BY RunningCall DEF Carries
  <2> QED
    BY <2>1, CallFields
<1>2. /\ Finish(c, "rejected") /\ loose' = {}
      /\ UNCHANGED <<disk, guard, held, revision, scope, session, lockedAt>>
  BY DEF MutationFails
<1> DEFINE undone == [call[c].before EXCEPT !.active = IF SelectionCleared(c) THEN None ELSE @]
<1>3. payload' = payload \/ (payload # None /\ payload' = undone)
  BY DEF MutationFails
<1>4. undone \in Body
  BY <1>1 DEF Body
<1> HIDE DEF undone
<1>5. payload' \in Body \cup {None} /\ (payload' = None <=> payload = None)
  BY <1>3, <1>4, NotNone DEF IInv, StateOK, StateType
<1>6. StateOK'
  BY <1>2, <1>5 DEF IInv, StateOK, StateType, Fault, HeldIffOpen, LockWins, SpentType
<1>7. CallsOK'
  BY <1>1, <1>2, Outs, FinishKeeps
<1> QED
  BY <1>6, <1>7 DEF IInv

LEMMA MutationReadKeeps == ASSUME IInv, NEW c \in Calls, MutationRead(c) PROVE IInv'
<1>1. Running(c, "read") /\ call[c].before # None
  BY RunningCall DEF MutationRead, Carries
<1>2. CASE MutationFails(c) /\ (spent' = spent \/ Fault)
  BY <1>1, <1>2, MutationFailsKeeps
<1>3. CASE /\ ~Overtaken(c) /\ UNCHANGED <<store, memory, spent>>
           /\ Continue(c, [call[c] EXCEPT !.pc = "write",
                              !.write = [key |-> held, body |-> payload]])
  <2>1. [key |-> held, body |-> payload] \in Record
    BY <1>1, <1>3, RunningCall, RecordMade DEF InSession
  <2> QED
    BY <1>1, <1>3, <2>1, WritingKeeps DEF InSession
<1> QED
  BY <1>2, <1>3 DEF MutationRead

LEMMA MutationWriteKeeps == ASSUME IInv, NEW c \in Calls, MutationWrite(c) PROVE IInv'
<1>1. Running(c, "write") /\ revision \in Nat /\ call[c].write \in Record
  BY RunningCall, CallFields DEF MutationWrite, Carries
<1>2. CASE MutationFails(c) /\ Fault
  BY <1>1, <1>2, MutationFailsKeeps
<1>3. CASE /\ disk' = call[c].write /\ loose' = {} /\ FinishAs(c, "true", TRUE)
           /\ UNCHANGED <<guard, payload, held, revision, scope, session, lockedAt, spent>>
  <2>1. StateOK'
    BY <1>1, <1>3 DEF IInv, StateOK, StateType, HeldIffOpen, LockWins
  <2>2. CallsOK'
    BY <1>1, <1>3, Outs, LeftWritten DEF IInv
  <2> QED
    BY <2>1, <2>2 DEF IInv
<1> QED
  BY <1>2, <1>3 DEF MutationWrite

----------------------------------------------------------------------------
(* Calls are made.                                                         *)

LEMMA EnqueueKeeps ==
    ASSUME IInv, NEW c \in Calls, NEW op \in AllOps, NEW a \in Accounts \cup {None},
           NEW p \in Passwords \cup {None}, NEW r \in Nat, Enqueue(c, op, a, p, r),
           op \in Mutations => a # None,
           op \in {"unlock", "change", "reEncrypt", "create"} => p # None,
           revision' \in Nat, revision <= revision', r <= revision',
           revision' # revision \/ payload' = payload
    PROVE  CallsOK'
<1> DEFINE k == [IdleCall EXCEPT !.op = op, !.acct = a, !.pw = p, !.rev = r,
                                 !.pc = "queued"]
<1>1. /\ call' = [call EXCEPT ![c] = k] /\ lane' = Append(lane, c) /\ disk' = disk
      /\ call[c].pc = "idle"
  BY DEF Enqueue, store
<1>2. /\ k \in CallType /\ k.pc = "queued" /\ k.rev = r /\ k.acct = a /\ k.pw = p
      /\ k.op = op
  BY DEF CallType, IdleCall, Outcomes, Queued
<1> HIDE DEF k
<1>3. Carries(k)
  BY <1>2, QueuedCarries
<1>4. call[c].pc \notin AtWork /\ k.pc \notin AtWork
  BY <1>1, <1>2 DEF AtWork
<1>5. CallsOK /\ revision \in Nat /\ k.rev <= revision'
  BY <1>2 DEF IInv, StateOK, StateType
<1> QED
  BY <1>1, <1>2, <1>3, <1>4, <1>5, Joined

LEMMA IssueKeeps == ASSUME IInv, NEW c \in Calls, Issue(c) PROVE IInv'
<1>1. revision \in Nat /\ revision + 1 \in Nat /\ StateOK
  BY DEF IInv, StateOK, StateType
<1>2. CASE IssueCreate(c)
  <2>1. PICK a \in Accounts \cup {None}, p \in Passwords :
          Enqueue(c, "create", a, p, revision + 1) /\ revision' = revision + 1
          /\ UNCHANGED <<payload, held, scope, loose, session, lockedAt>>
    BY <1>1, <1>2, Played DEF IssueCreate, StateOK, StateType
  <2>2. StateOK'
    BY <1>1, <2>1 DEF Enqueue, StateOK, StateType, HeldIffOpen, LockWins, store
  <2>3. p # None
    BY VaultAssumption
  <2>4. CallsOK'
    BY <1>1, <2>1, <2>3, EnqueueKeeps DEF AllOps, Mutations
  <2> QED
    BY <2>2, <2>4 DEF IInv
<1>3. CASE IssueDestroy(c)
  <2>1. Enqueue(c, "destroy", None, None, revision + 1) /\ LockSession
    BY <1>3 DEF IssueDestroy
  <2>2. StateOK'
    BY <1>1, <2>1, Locked DEF Enqueue
  <2>3. revision' = revision + 1
    BY <2>1 DEF LockSession
  <2>4. CallsOK'
    BY <1>1, <2>1, <2>3, EnqueueKeeps DEF AllOps, Mutations
  <2> QED
    BY <2>2, <2>4 DEF IInv
<1>4. ASSUME NEW op \in AllOps, NEW a \in Accounts \cup {None}, NEW p \in Passwords \cup {None},
             Enqueue(c, op, a, p, revision), UNCHANGED memory,
             op \in Mutations => a # None,
             op \in {"unlock", "change", "reEncrypt", "create"} => p # None
      PROVE  IInv'
  <2>1. UNCHANGED <<guard, memory>> /\ disk' = disk /\ spent' = spent /\ revision' = revision
        /\ payload' = payload
    BY <1>4 DEF Enqueue, store, memory
  <2>2. StateOK'
    BY <1>1, <2>1, StateKept DEF StateOK, StateType
  <2>3. CallsOK'
    BY <1>1, <1>4, <2>1, EnqueueKeeps
  <2> QED
    BY <2>2, <2>3 DEF IInv
<1>5. CASE IssueUnlock(c)
  <2>1. PICK op \in {"unlock", "change"}, p \in Passwords :
          Enqueue(c, op, None, p, revision) /\ UNCHANGED memory
    BY <1>1, <1>5, Played DEF IssueUnlock, StateOK, StateType
  <2>2. p # None /\ op \in AllOps /\ op \notin Mutations
    BY VaultAssumption DEF AllOps, Mutations
  <2> QED
    BY <1>4, <2>1, <2>2
<1>6. CASE IssueReEncrypt(c)
  <2>1. PICK p \in Passwords : Enqueue(c, "reEncrypt", None, p, revision) /\ UNCHANGED memory
    BY <1>1, <1>6, Played DEF IssueReEncrypt, StateOK, StateType
  <2>2. p # None
    BY VaultAssumption
  <2> DEFINE op == "reEncrypt"
  <2>3. op \in AllOps /\ op \notin Mutations /\ Enqueue(c, op, None, p, revision)
    BY <2>1 DEF AllOps, Mutations
  <2> HIDE DEF op
  <2> QED
    BY <1>4, <2>1, <2>2, <2>3
<1>7. CASE IssueOther(c)
  <2>1. PICK op \in {"add", "remove", "update", "setActive", "destroyIfEmpty"},
             a \in Accounts : Enqueue(c, op, a, None, revision) /\ UNCHANGED memory
    BY <1>1, <1>7, Played DEF IssueOther, StateOK, StateType
  <2>2. a # None /\ op \in AllOps /\ op \notin {"unlock", "change", "reEncrypt", "create"}
    BY NotNone DEF AllOps
  <2> QED
    BY <1>4, <2>1, <2>2
<1> QED
  BY <1>2, <1>3, <1>5, <1>6, <1>7 DEF Issue

----------------------------------------------------------------------------
(* What never queues.                                                      *)

LEMMA LockKeeps == ASSUME IInv, Lock PROVE IInv'
<1>1. revision \in Nat /\ revision' = revision + 1 /\ UNCHANGED <<store, lane, call>>
      /\ LockSession
  BY DEF Lock, LockSession, IInv, StateOK, StateType
<1>2. StateType'
  <2>1. scope' \in [Scopes -> ScopeType]
    BY <1>1 DEF IInv, StateOK, StateType, LockSession, LockNow, ScopeType
  <2> QED
    BY <1>1, <2>1 DEF IInv, StateOK, StateType, LockSession, LockNow, store, Lock, SpentType
<1>3. StateOK'
  BY <1>1, <1>2 DEF StateOK, StateType, LockSession, LockNow, HeldIffOpen, LockWins
<1>4. CallsOK'
  BY <1>1, Stood DEF IInv, store
<1> QED
  BY <1>3, <1>4 DEF IInv

LEMMA ClearActiveKeeps == ASSUME IInv, ClearActive PROVE IInv'
<1>1. revision \in Nat /\ revision' = revision + 1 /\ UNCHANGED <<store, lane, call>>
  BY DEF ClearActive, IInv, StateOK, StateType
<1>2. payload' \in Body /\ payload' # None /\ payload # None
  <2>1. payload \in Body /\ payload' = [payload EXCEPT !.active = None] /\ payload # None
    BY DEF ClearActive, IInv, StateOK, StateType
  <2>2. payload' \in Body
    BY <2>1 DEF Body
  <2> QED
    BY <2>1, <2>2, NotNone
<1>3. StateOK'
  BY <1>1, <1>2 DEF ClearActive, IInv, StateOK, StateType, HeldIffOpen, LockWins, store, SpentType
<1>4. CallsOK'
  BY <1>1, Stood DEF IInv, store
<1> QED
  BY <1>3, <1>4 DEF IInv

LEMMA BeginKeeps == ASSUME IInv, NEW s \in Scopes, Begin(s) PROVE IInv'
<1>1. /\ UNCHANGED <<store, payload, held, revision, lane, call, loose, session, lockedAt, spent>>
      /\ revision \in Nat /\ payload \in Body
  BY DEF Begin, IInv, StateOK, StateType
<1>2. scope' \in [Scopes -> ScopeType]
  <2>1. PICK a \in Present(payload) :
          scope' = [scope EXCEPT ![s] = [st |-> "running", acct |-> a,
                      stamp |-> payload.accts[a], rev |-> revision, live |-> TRUE]]
    BY DEF Begin
  <2>2. a \in Accounts /\ payload.accts[a] \in Stamp \cup {"absent"}
    BY <1>1 DEF Present, Body
  <2>3. [st |-> "running", acct |-> a, stamp |-> payload.accts[a], rev |-> revision,
         live |-> TRUE] \in ScopeType
    BY <1>1, <2>2 DEF ScopeType
  <2> QED
    BY <2>1, <2>3 DEF IInv, StateOK, StateType
<1>3. StateOK'
  BY <1>1, <1>2 DEF IInv, StateOK, StateType, HeldIffOpen, LockWins, store
<1>4. CallsOK'
  BY <1>1, Stood DEF IInv, store
<1> QED
  BY <1>3, <1>4 DEF IInv

LEMMA EndKeeps == ASSUME IInv, NEW s \in Scopes, End(s) PROVE IInv'
<1>1. /\ UNCHANGED <<store, payload, held, revision, lane, call, loose, session, lockedAt, spent>>
      /\ revision \in Nat
  BY DEF End, IInv, StateOK, StateType
<1>2. scope' \in [Scopes -> ScopeType]
  BY DEF End, IInv, StateOK, StateType, ScopeType
<1>3. StateOK'
  BY <1>1, <1>2 DEF IInv, StateOK, StateType, HeldIffOpen, LockWins, store
<1>4. CallsOK'
  BY <1>1, Stood DEF IInv, store
<1> QED
  BY <1>3, <1>4 DEF IInv

LEMMA LockoutEndsKeeps == ASSUME IInv, LockoutEnds PROVE IInv'
<1>1. UNCHANGED <<disk, memory, lane, call, spent>> /\ revision \in Nat
  BY DEF LockoutEnds, IInv, StateOK, StateType
<1>2. guard' \in [failures : Nat, shut : BOOLEAN]
  BY DEF LockoutEnds, IInv, StateOK, StateType
<1>3. StateOK'
  BY <1>1, <1>2 DEF IInv, StateOK, StateType, HeldIffOpen, LockWins, memory
<1>4. CallsOK'
  BY <1>1, Stood DEF IInv, memory
<1> QED
  BY <1>3, <1>4 DEF IInv

LEMMA RestartKeeps == ASSUME IInv, Restart PROVE IInv'
<1>1. /\ revision \in Nat /\ revision' = revision + 1 /\ lockedAt' = revision + 1
      /\ payload' = None /\ held' = None /\ loose' = {} /\ lane' = <<>>
      /\ UNCHANGED <<store, session>>
  BY DEF Restart, IInv, StateOK, StateType
<1>2. scope' \in [Scopes -> ScopeType]
  BY DEF Restart, IInv, StateOK, StateType, ScopeType
<1>3. spent' \in SpentType
  <2>1. spent \in SpentType
    BY DEF IInv, StateOK, StateType
  <2>2. spent' = [spent EXCEPT !.restarts = @ + 1]
    BY DEF Restart
  <2> QED
    BY <2>1, <2>2 DEF SpentType
<1>4. StateOK'
  BY <1>1, <1>2, <1>3 DEF IInv, StateOK, StateType, HeldIffOpen, LockWins, store
<1>5. ASSUME NEW c \in Calls PROVE call'[c] \in CallType /\ CallOK(c)'
  <2>1. call[c] \in CallType /\ CallOK(c) /\ call[c].rev \in Nat /\ call[c].op \in AllOps \cup {"none"}
    BY CallFields DEF IInv, CallsOK
  <2>2. CASE call[c].pc \in {"idle", "done"}
    <3>1. call'[c] = call[c]
      BY <2>2 DEF Restart
    <3> QED
      BY <1>1, <2>1, <2>2, <3>1 DEF CallOK, Carries, AtWork, InSession
  <2>3. CASE call[c].pc \notin {"idle", "done"}
    <3> DEFINE k == [IdleCall EXCEPT !.op = call[c].op, !.rev = call[c].rev,
                                     !.pc = "done", !.out = "lost"]
    <3>1. call'[c] = k
      BY <2>3 DEF Restart
    <3>2. k \in CallType /\ k.pc = "done" /\ k.rev = call[c].rev
      BY <2>1, IdleCallType DEF CallType, IdleCall, Outcomes
    <3> HIDE DEF k
    <3> QED
      BY <1>1, <2>1, <3>1, <3>2 DEF CallOK, Carries, AtWork, InSession
  <2> QED
    BY <2>2, <2>3
<1>6. call' \in [Calls -> CallType]
  <2> DEFINE f(c) == IF call[c].pc \in {"idle", "done"} THEN call[c]
                     ELSE [IdleCall EXCEPT !.op = call[c].op, !.rev = call[c].rev,
                                           !.pc = "done", !.out = "lost"]
  <2>1. call' = [c \in Calls |-> f(c)]
    BY DEF Restart
  <2> HIDE DEF f
  <2>2. \A c \in Calls : call'[c] = f(c)
    BY <2>1
  <2>3. \A c \in Calls : f(c) \in CallType
    BY <2>2, <1>5
  <2> QED
    BY <2>1, <2>3
<1>7. CallsOK'
  BY <1>1, <1>5, <1>6 DEF CallsOK
<1> QED
  BY <1>4, <1>7 DEF IInv

----------------------------------------------------------------------------
(* The theorems.                                                           *)

LEMMA InitInv == ASSUME Init PROVE IInv
<1>1. StateOK
  <2>1. FreshGuard \in [failures : Nat, shut : BOOLEAN] /\ disk \in Record \cup {None}
    BY VaultAssumption DEF Init, FreshGuard, Scene
  <2>2. scope \in [Scopes -> ScopeType]
    BY DEF Init, IdleScope, ScopeType
  <2>3. /\ payload \in Body \cup {None} /\ held \in Key \cup {None}
        /\ payload = None <=> held = None
    <3>1. CASE payload = None /\ held = None
      BY <3>1
    <3>2. CASE disk # None /\ payload = disk.body /\ held = disk.key
      BY <2>1, <3>2, RecordFields, NotNone
    <3> QED
      BY <3>1, <3>2 DEF Init
  <2> QED
    BY <2>1, <2>2, <2>3 DEF Init, StateOK, StateType, HeldIffOpen, LockWins, SpentType
<1>2. CallsOK
  <2>1. lane \in Seq(Calls) /\ revision = 0
    BY DEF Init
  <2>2. /\ IdleCall \in CallType /\ Carries(IdleCall)
        /\ IdleCall.rev = 0 /\ IdleCall.pc = "idle"
    BY IdleCallType DEF IdleCall
  <2>3. call = [c \in Calls |-> IdleCall]
    BY DEF Init
  <2> QED
    BY <2>1, <2>2, <2>3 DEF CallsOK, CallOK, AtWork, InSession
<1> QED
  BY <1>1, <1>2 DEF IInv

LEMMA NextInv == ASSUME IInv, [Next]_vars PROVE IInv'
<1>1. ASSUME NEW c \in Calls, Work(c) PROVE IInv'
  <2>1. CASE UnlockStep(c)
    BY <2>1, StartUnlockKeeps, DeriveWrongKeeps, ChargeGuardKeeps, DeriveRightKeeps,
       ClearGuardKeeps, RestoreKeeps, MintReadKeeps, MintWriteKeeps, NotifyKeeps
       DEF UnlockStep
  <2>2. CASE Rekey(c)
    BY <2>2, RekeyKeeps
  <2>3. CASE ResealStep(c)
    BY <2>3, StartReEncryptKeeps, ResealKeeps, RewriteKeeps DEF ResealStep
  <2>4. CASE CreateStep(c)
    BY <2>4, StartCreateKeeps, SealKeeps, CreateWriteKeeps, CreateGuardKeeps DEF CreateStep
  <2>5. CASE DestroyStep(c)
    BY <2>5, StartDestroyKeeps, StartDestroyIfEmptyKeeps, WipeKeeps, WipeGuardKeeps,
       DestroyedKeeps DEF DestroyStep
  <2>6. CASE MutateStep(c)
    BY <2>6, StartMutationKeeps, MutationReadKeeps, MutationWriteKeeps DEF MutateStep
  <2> QED
    BY <1>1, <2>1, <2>2, <2>3, <2>4, <2>5, <2>6 DEF Work
<1>2. ASSUME NEW c \in Calls, Issue(c) PROVE IInv'
  BY <1>2, IssueKeeps
<1>3. ASSUME NEW s \in Scopes, Begin(s) \/ End(s) PROVE IInv'
  BY <1>3, BeginKeeps, EndKeeps
<1>4. CASE Lock \/ ClearActive \/ LockoutEnds \/ Restart
  BY <1>4, LockKeeps, ClearActiveKeeps, LockoutEndsKeeps, RestartKeeps
<1>5. CASE UNCHANGED vars
  <2>1. StateOK'
    BY <1>5 DEF vars, IInv, StateOK, StateType, HeldIffOpen, LockWins
  <2>2. CallsOK'
    BY <1>5, Stood DEF vars, IInv, StateOK, StateType
  <2> QED
    BY <2>1, <2>2 DEF IInv
<1> QED
  BY <1>1, <1>2, <1>3, <1>4, <1>5 DEF Next

\* The invariant holds throughout every behaviour of the vault.
THEOREM VaultInvariant == Spec => []IInv
<1>1. Init => IInv
  BY InitInv
<1>2. IInv /\ [Next]_vars => IInv'
  BY NextInv
<1> QED
  BY <1>1, <1>2, PTL DEF Spec

\* Every variable of the vault, the lane and the calls included, keeps its type.
THEOREM TypeCorrect == Spec => []TypeOK
<1>1. IInv => TypeOK
  BY DEF IInv, StateOK, StateType, CallsOK, TypeOK
<1> QED
  BY <1>1, VaultInvariant, PTL

\* No interleaving of a re-seal, a create, an unlock and a lock leaves a live vault key
\* without its payload, or a payload without the key a save encrypts under.
THEOREM HeldWithPayload == Spec => []HeldIffOpen
<1>1. IInv => HeldIffOpen
  BY DEF IInv, StateOK
<1> QED
  BY <1>1, VaultInvariant, PTL

\* lock() beats everything in flight: whatever is open was installed on behalf of a call
\* made after the last lock.
THEOREM LockAlwaysWins == Spec => []LockWins
<1>1. IInv => LockWins
  BY DEF IInv, StateOK
<1> QED
  BY <1>1, VaultInvariant, PTL

----------------------------------------------------------------------------
(* More about the session.                                                 *)

Wiping == {"wipe", "wipeGuard", "listeners"}

\* The lane holds each call once, and those it holds are the ones that wait or work.
LaneOK ==
    /\ \A i, j \in 1..Len(lane) : lane[i] = lane[j] => i = j
    /\ \A i \in 1..Len(lane) : call[lane[i]].pc \in Queued \cup AtWork
    /\ \A c \in Calls : call[c].pc \in Queued \cup AtWork => \E i \in 1..Len(lane) : lane[i] = c

\* An outcome is a settled call's; an idle call is none yet.
Unsettled(k) == /\ k.pc # "done" => k.out = "none"
                /\ k.pc = "idle" => k.op = "none"
                /\ k.pc = "rekey" => k.op = "change"
                /\ k.pc \in Wiping => k.op \in {"destroy", "destroyIfEmpty"}
                /\ k.pc \in AtWork \ Wiping => k.op \notin {"destroy", "destroyIfEmpty", "none"}

\* A call that has done nothing but guess passwords.
Guesses(k) == /\ k.op \in {"none", "unlock", "change"}
              /\ k.pc \in {"idle", "queued", "derive", "charge"} \/ k.out = "wrong"
Wrong == {c \in Calls : call[c].out = "wrong"}
Guarded ==
    /\ guard.shut => \A c \in Calls : call[c].pc # "derive"
    /\ IsFiniteSet(Wrong)
    /\ (\A c \in Calls : Guesses(call[c])) => guard.failures = Cardinality(Wrong)

\* A readable copy has an open vault, a detached secret its mutation at the head of the lane.
Lent == \A s \in Scopes : scope[s].live => scope[s].st = "running" /\ payload # None
Kept == loose # {} => lane # <<>> /\ call[Head(lane)].pc \in {"read", "write"}

\* A destroy() that waits has locked, and whatever is before it was called earlier.
Awaits(d) ==
    call[d].op = "destroy" /\ call[d].pc = "queued" =>
        /\ payload = None
        /\ \A i, j \in 1..Len(lane) : i < j /\ lane[j] = d => call[lane[i]].rev < call[d].rev
Wipes(d) == call[d].pc \in Wiping => payload = None /\ (call[d].pc # "wipe" => disk = None)
\* One that resolved, when no create() is later.
Last(d) == \A c \in Calls : call[c].op = "create" => call[c].rev < call[d].rev
Gone(d) ==
    call[d].op \in {"destroy", "destroyIfEmpty"} /\ call[d].pc = "done" /\ call[d].out = "true" /\ Last(d) =>
        /\ disk = None /\ payload = None
        /\ \A c \in Calls : call[c].pc \in AtWork => call[c].pc \in Wiping
Ended == Lent /\ Kept /\ \A d \in Calls : Awaits(d) /\ Wipes(d) /\ Gone(d)

\* A body and the key a save encrypts under are what is stored.
Alike(a, b) == a.accts = b.accts /\ a.cacheKey = b.cacheKey
Synced(b, D, H) ==
    /\ D # None
    /\ H.strong => H = D.key
    /\ b.accts = D.body.accts
    /\ D.body.cacheKey # "absent" => b.cacheKey = D.body.cacheKey
AtRisk == {"read", "write", "createGuard"}
\* What a call k between a read and a write relies on, of the record D, the key H and the
\* payload P.
Follows(k, D, H, P) ==
    /\ k.pc \in {"read", "write"} => /\ Synced(k.before, D, H) /\ P.cacheKey = k.before.cacheKey
                                     /\ k.op = "setActive" => P.accts = k.before.accts
    /\ k.pc \in {"rewrite", "mintWrite", "write"} => Alike(k.write.body, P)
    /\ k.pc \in {"mintWrite", "write"} => k.write.key = H
    /\ k.pc \in {"reseal", "rewrite"} /\ k.op # "reEncrypt" => ~H.strong
Matched ==
    /\ \A c \in Calls : call[c].pc = "createGuard" => disk = call[c].write /\ call[c].wrote
    /\ payload # None /\ ~RejectedAfterWrite =>
         /\ (\A c \in Calls : call[c].pc \notin AtRisk) => Synced(payload, disk, held)
         /\ \A c \in Calls : Follows(call[c], disk, held, payload)

EInv == /\ LaneOK /\ \A c \in Calls : Unsettled(call[c])
        /\ Guarded /\ Ended /\ Matched

----------------------------------------------------------------------------
(* The lane, and what a call is.                                           *)

LEMMA Kinds == /\ Queued \cap AtWork = {} /\ Wiping \subseteq AtWork /\ AtRisk \subseteq AtWork
               /\ {"done", "rekey", "idle"} \cap (Queued \cup AtWork) = {}
               /\ Pcs = Queued \cup AtWork \cup {"idle", "rekey", "done"}
  BY DEF Queued, AtWork, Wiping, AtRisk, Pcs

LEMMA HeadFirst == ASSUME NEW s \in Seq(Calls), s # <<>>
                   PROVE  /\ Head(s) = s[1] /\ 1 \in 1..Len(s) /\ Len(s) \in Nat
                          /\ Tail(s) \in Seq(Calls) /\ Len(Tail(s)) = Len(s) - 1
                          /\ \A i \in 1..Len(Tail(s)) : Tail(s)[i] = s[i + 1] /\ i + 1 \in 2..Len(s)
                          /\ \A i \in 1..Len(s) : s[i] \in Calls
  OBVIOUS

LEMMA LastLast == ASSUME NEW s \in Seq(Calls), NEW c \in Calls
                  PROVE  /\ Append(s, c) \in Seq(Calls) /\ Len(Append(s, c)) = Len(s) + 1 /\ Len(s) \in Nat
                         /\ \A i \in 1..Len(s) : Append(s, c)[i] = s[i] /\ s[i] \in Calls
                         /\ Append(s, c)[Len(s) + 1] = c
  OBVIOUS

\* The head of the lane goes on.
LEMMA LaneWent ==
    ASSUME CallsOK, LaneOK, NEW c \in Calls, lane # <<>>, Head(lane) = c, NEW k, k.pc \in AtWork,
           call' = [call EXCEPT ![c] = k], lane' = lane
    PROVE  LaneOK'
<1>1. lane \in Seq(Calls) /\ call'[c] = k /\ \A d \in Calls : d # c => call'[d] = call[d]
  BY DEF CallsOK
<1>2. lane[1] = c /\ 1 \in 1..Len(lane) /\ \A i \in 1..Len(lane) : lane[i] \in Calls
  BY <1>1, HeadFirst
<1> QED
  BY <1>1, <1>2 DEF LaneOK

\* The head of the lane leaves it.
LEMMA LaneLeft ==
    ASSUME CallsOK, LaneOK, NEW c \in Calls, lane # <<>>, Head(lane) = c, NEW k,
           k.pc \notin Queued \cup AtWork, call' = [call EXCEPT ![c] = k], lane' = Tail(lane)
    PROVE  LaneOK'
<1>1. lane \in Seq(Calls) /\ call'[c] = k /\ \A d \in Calls : d # c => call'[d] = call[d]
  BY DEF CallsOK
<1>2. /\ lane[1] = c /\ 1 \in 1..Len(lane) /\ Len(lane) \in Nat /\ Len(lane') = Len(lane) - 1
      /\ \A i \in 1..Len(lane) : lane[i] \in Calls
      /\ \A i \in 1..Len(lane') : lane'[i] = lane[i + 1] /\ i + 1 \in 2..Len(lane)
  BY <1>1, HeadFirst
<1>3. \A i \in 2..Len(lane) : lane[i] # c /\ i \in 1..Len(lane)
  BY <1>2 DEF LaneOK
<1>4. \A i, j \in 1..Len(lane') : lane'[i] = lane'[j] => i = j
  <2> TAKE i, j \in 1..Len(lane')
  <2> HAVE lane'[i] = lane'[j]
  <2>1. i + 1 = j + 1
    BY <1>2, <1>3 DEF LaneOK
  <2> QED
    BY <2>1, <1>2
<1>5. \A i \in 1..Len(lane') : call'[lane'[i]].pc \in Queued \cup AtWork
  BY <1>1, <1>2, <1>3 DEF LaneOK
<1>6. ASSUME NEW d \in Calls, call'[d].pc \in Queued \cup AtWork
      PROVE  \E i \in 1..Len(lane') : lane'[i] = d
  <2>1. d # c /\ call[d].pc \in Queued \cup AtWork
    BY <1>1, <1>6
  <2>2. PICK j \in 1..Len(lane) : lane[j] = d
    BY <2>1 DEF LaneOK
  <2>3. j # 1 /\ j - 1 \in 1..Len(lane') /\ (j - 1) + 1 = j
    BY <1>2, <2>1, <2>2
  <2> QED
    BY <1>2, <2>2, <2>3
<1> QED
  BY <1>4, <1>5, <1>6 DEF LaneOK

\* A call joins the lane.
LEMMA LaneJoined ==
    ASSUME CallsOK, LaneOK, NEW c \in Calls, call[c].pc \notin Queued \cup AtWork, NEW k, k.pc \in Queued,
           call' = [call EXCEPT ![c] = k], lane' = Append(lane, c)
    PROVE  LaneOK'
<1>1. lane \in Seq(Calls) /\ call'[c] = k /\ \A d \in Calls : d # c => call'[d] = call[d]
  BY DEF CallsOK
<1> DEFINE n == Len(lane)
<1>2. /\ n \in Nat /\ Len(lane') = n + 1 /\ lane'[n + 1] = c
      /\ \A i \in 1..n : lane'[i] = lane[i] /\ lane[i] \in Calls
  BY <1>1, LastLast
<1>3. \A i \in 1..n : lane[i] # c
  BY DEF LaneOK
<1>4. \A i \in 1..Len(lane') : i \in 1..n \/ i = n + 1
  BY <1>2
<1>5. \A i, j \in 1..Len(lane') : lane'[i] = lane'[j] => i = j
  BY <1>2, <1>3, <1>4 DEF LaneOK
<1>6. \A i \in 1..Len(lane') : call'[lane'[i]].pc \in Queued \cup AtWork
  BY <1>1, <1>2, <1>3, <1>4 DEF LaneOK
<1>7. ASSUME NEW d \in Calls, call'[d].pc \in Queued \cup AtWork
      PROVE  \E i \in 1..Len(lane') : lane'[i] = d
  <2>1. CASE d = c
    BY <2>1, <1>2
  <2>2. CASE d # c
    <3>1. PICK j \in 1..n : lane[j] = d
      BY <1>1, <1>7, <2>2 DEF LaneOK
    <3>2. j \in 1..Len(lane')
      BY <1>2
    <3> QED
      BY <1>2, <3>1, <3>2
  <2> QED
    BY <2>1, <2>2
<1> QED
  BY <1>5, <1>6, <1>7 DEF LaneOK

\* A call that was not in the lane settles outside it.
LEMMA LaneApart ==
    ASSUME CallsOK, LaneOK, NEW c \in Calls, call[c].pc \notin Queued \cup AtWork, NEW k,
           k.pc \notin Queued \cup AtWork, call' = [call EXCEPT ![c] = k], lane' = lane
    PROVE  LaneOK'
<1>1. lane \in Seq(Calls) /\ call'[c] = k /\ \A d \in Calls : d # c => call'[d] = call[d]
  BY DEF CallsOK
<1>2. \A i \in 1..Len(lane) : lane[i] \in Calls /\ lane[i] # c
  BY <1>1 DEF LaneOK
<1> QED
  BY <1>1, <1>2 DEF LaneOK

----------------------------------------------------------------------------
(* A step of the call at the head of the lane.                             *)

\* The head of the lane, c, becomes k, and keeps the lane or leaves it.
Moved(c, k) ==
    /\ lane # <<>> /\ Head(lane) = c /\ call' = [call EXCEPT ![c] = k]
    /\ \/ lane' = lane /\ k.pc \in AtWork
       \/ lane' = Tail(lane) /\ k.pc \in {"done", "rekey"}

LEMMA MovedIs ==
    ASSUME CallsOK, NEW c \in Calls, NEW k, Moved(c, k)
    PROVE  /\ call'[c] = k /\ \A d \in Calls : d # c => call'[d] = call[d]
           /\ \A d \in Calls : d # c => call[d].pc \notin AtWork
           /\ k.pc \in AtWork \cup {"done", "rekey"} /\ k.pc # "queued"
  BY Kinds DEF CallsOK, CallOK, Moved, Queued

LEMMA LaneMoved == ASSUME CallsOK, LaneOK, NEW c \in Calls, NEW k, Moved(c, k) PROVE LaneOK'
  BY LaneWent, LaneLeft, Kinds DEF Moved

LEMMA UnsettledMoved ==
    ASSUME CallsOK, \A d \in Calls : Unsettled(call[d]), NEW c \in Calls, NEW k,
           call' = [call EXCEPT ![c] = k], Unsettled(k)
    PROVE  \A d \in Calls : Unsettled(call'[d])
  BY DEF CallsOK

\* What is not charged leaves the count as it is, or ends the time of mere guesses.
LEMMA GuardedMoved ==
    ASSUME CallsOK, \A d \in Calls : Unsettled(call[d]), Guarded, NEW c \in Calls, NEW k,
           call[c].pc # "done", call' = [call EXCEPT ![c] = k],
           k.out # "wrong", Guesses(k) => Guesses(call[c]), guard'.failures = guard.failures \/ ~Guesses(k),
           guard'.shut => guard.shut, k.pc = "derive" => ~guard'.shut
    PROVE  Guarded'
<1>1. call'[c] = k /\ \A d \in Calls : d # c => call'[d] = call[d]
  BY DEF CallsOK
<1>2. call[c].out = "none"
  BY DEF Unsettled
<1>3. Wrong' = Wrong
  BY <1>1, <1>2 DEF Wrong
<1>4. guard'.shut => \A d \in Calls : call'[d].pc # "derive"
  BY <1>1 DEF Guarded
<1>5. (\A d \in Calls : Guesses(call'[d])) => guard'.failures = Cardinality(Wrong)
  <2> SUFFICES ASSUME \A d \in Calls : Guesses(call'[d])  PROVE guard'.failures = Cardinality(Wrong)
    OBVIOUS
  <2>1. Guesses(k)
    BY <1>1
  <2>2. \A d \in Calls : Guesses(call[d])
    BY <1>1, <2>1
  <2> QED
    BY <2>1, <2>2 DEF Guarded
<1> QED
  BY <1>3, <1>4, <1>5 DEF Guarded

LEMMA LentMoved ==
    ASSUME Lent, scope \in [Scopes -> ScopeType],
           \/ UNCHANGED scope /\ (payload # None => payload' # None)
           \/ LockNow
    PROVE  Lent'
  BY DEF Lent, LockNow, ScopeType

LEMMA KeptMoved ==
    ASSUME CallsOK, Kept, NEW c \in Calls, NEW k, Moved(c, k),
           \/ loose' = {}
           \/ k.pc \in {"read", "write"}
           \/ UNCHANGED loose /\ call[c].pc \notin {"read", "write"}
    PROVE  Kept'
<1>1. call'[c] = k
  BY MovedIs
<1>2. CASE loose' = {}
  BY <1>2 DEF Kept
<1>3. CASE k.pc \in {"read", "write"}
  <2>1. lane' = lane /\ lane # <<>> /\ Head(lane) = c
    BY <1>3 DEF Moved
  <2> QED
    BY <1>1, <1>3, <2>1 DEF Kept
<1>4. CASE UNCHANGED loose /\ call[c].pc \notin {"read", "write"}
  BY <1>4 DEF Kept, Moved
<1> QED
  BY <1>2, <1>3, <1>4

\* Of a destroy() that waits, everything ahead is overtaken, and the vault is locked.
LEMMA Overtakes ==
    ASSUME IInv, LaneOK, Ended, NEW c \in Calls, lane # <<>>, Head(lane) = c,
           ~Overtaken(c) \/ payload # None, NEW d \in Calls, d # c
    PROVE  ~(call[d].op = "destroy" /\ call[d].pc = "queued")
<1> SUFFICES ASSUME call[d].op = "destroy", call[d].pc = "queued"  PROVE FALSE
  OBVIOUS
<1>1. payload = None
  BY DEF Ended, Awaits
<1>2. PICK j \in 1..Len(lane) : lane[j] = d
  BY DEF LaneOK, Queued
<1>3. lane \in Seq(Calls) /\ lane[1] = c /\ 1 \in 1..Len(lane) /\ Len(lane) \in Nat
  BY HeadFirst DEF IInv, CallsOK
<1>4. 1 < j
  BY <1>2, <1>3
<1>5. call[c].rev < call[d].rev
  BY <1>2, <1>3, <1>4 DEF Ended, Awaits
<1>6. call[d].rev <= revision /\ call[c].rev \in Nat /\ call[d].rev \in Nat /\ revision \in Nat
  BY CallFields DEF IInv, CallsOK, CallOK, StateOK, StateType
<1> QED
  BY <1>1, <1>5, <1>6 DEF Overtaken

LEMMA AwaitsMoved ==
    ASSUME IInv, LaneOK, Ended, NEW c \in Calls, NEW k, Moved(c, k),
           \/ k.rev = call[c].rev /\ (payload = None => payload' = None)
           \/ ~Overtaken(c) \/ payload # None
    PROVE  \A d \in Calls : Awaits(d)'
<1>1. CallsOK /\ lane \in Seq(Calls) /\ lane # <<>> /\ Head(lane) = c
  BY DEF IInv, CallsOK, Moved
<1>2. call'[c] = k /\ k.pc # "queued" /\ \A d \in Calls : d # c => call'[d] = call[d]
  BY <1>1, MovedIs
<1> SUFFICES ASSUME NEW d \in Calls, call'[d].op = "destroy", call'[d].pc = "queued"
             PROVE  /\ payload' = None
                    /\ \A i, j \in 1..Len(lane') : i < j /\ lane'[j] = d => call'[lane'[i]].rev < call'[d].rev
  BY DEF Awaits
<1>3. d # c /\ call[d].op = "destroy" /\ call[d].pc = "queued" /\ call'[d] = call[d]
  BY <1>2
<1>4. k.rev = call[c].rev /\ payload' = None
  BY <1>1, <1>3, Overtakes DEF Ended, Awaits
<1>5. \A i, j \in 1..Len(lane) : i < j /\ lane[j] = d => call[lane[i]].rev < call[d].rev
  BY <1>3 DEF Ended, Awaits
<1>6. \A e \in Calls : call'[e].rev = call[e].rev
  BY <1>2, <1>4
<1>7. CASE lane' = lane
  BY <1>1, <1>4, <1>5, <1>6, <1>7, HeadFirst
<1>8. CASE lane' = Tail(lane)
  <2>1. /\ Len(lane') = Len(lane) - 1 /\ Len(lane) \in Nat
        /\ \A i \in 1..Len(lane) : lane[i] \in Calls
        /\ \A i \in 1..Len(lane') : lane'[i] = lane[i + 1] /\ i + 1 \in 1..Len(lane)
    BY <1>1, <1>8, HeadFirst
  <2>2. ASSUME NEW i \in 1..Len(lane'), NEW j \in 1..Len(lane'), i < j, lane'[j] = d
        PROVE  call'[lane'[i]].rev < call'[d].rev
    <3>1. i + 1 < j + 1 /\ lane[j + 1] = d /\ i + 1 \in 1..Len(lane) /\ j + 1 \in 1..Len(lane)
      BY <2>1, <2>2
    <3>2. call[lane[i + 1]].rev < call[d].rev
      BY <1>5, <3>1
    <3> QED
      BY <1>3, <1>6, <2>1, <3>1, <3>2
  <2> QED
    BY <1>4, <2>2
<1> QED
  BY <1>7, <1>8 DEF Moved

LEMMA WipesMoved ==
    ASSUME CallsOK, NEW c \in Calls, NEW k, Moved(c, k),
           k.pc \in Wiping => payload' = None /\ (k.pc # "wipe" => disk' = None)
    PROVE  \A d \in Calls : Wipes(d)'
  BY MovedIs, Kinds DEF Wipes

\* What a resolved destroy() leaves is not replaced, unless by a create() that is later.
LEMMA GoneMoved ==
    ASSUME IInv, Ended, NEW c \in Calls, NEW k, Moved(c, k), k.op = call[c].op,
           k.pc = "done" /\ k.out = "true" /\ k.op \in {"destroy", "destroyIfEmpty"} => disk' = None /\ payload' = None,
           k.op = "create" => k.rev = call[c].rev,
           \/ call[c].pc \in AtWork \ Wiping
           \/ disk = None /\ payload = None => disk' = None /\ payload' = None /\ k.pc \notin AtWork \ Wiping
           \/ k.op = "create" /\ ~Overtaken(c)
    PROVE  \A d \in Calls : Gone(d)'
<1>1. /\ call'[c] = k /\ \A d \in Calls : d # c => call'[d] = call[d]
      /\ \A d \in Calls : d # c => call[d].pc \notin AtWork
  BY MovedIs DEF IInv
<1> SUFFICES ASSUME NEW d \in Calls, call'[d].op \in {"destroy", "destroyIfEmpty"}, call'[d].pc = "done",
                    call'[d].out = "true", Last(d)'
             PROVE  /\ disk' = None /\ payload' = None
                    /\ \A e \in Calls : call'[e].pc \in AtWork => call'[e].pc \in Wiping
  BY DEF Gone
<1>0. CASE d = c
  BY <1>0, <1>1, Kinds
<1> SUFFICES ASSUME d # c PROVE /\ disk' = None /\ payload' = None
                               /\ \A e \in Calls : call'[e].pc \in AtWork => call'[e].pc \in Wiping
  BY <1>0
<1>2. d # c /\ call'[d] = call[d]
  BY <1>1
<1>3. \A e \in Calls : call[e].op = "create" => call[e].rev < call[d].rev
  <2> TAKE e \in Calls
  <2> HAVE call[e].op = "create"
  <2>1. call'[e].op = "create" /\ call'[e].rev = call[e].rev
    BY <1>1
  <2> QED
    BY <1>2, <2>1 DEF Last
<1>4. /\ disk = None /\ payload = None
      /\ \A e \in Calls : call[e].pc \in AtWork => call[e].pc \in Wiping
  BY <1>2, <1>3 DEF Ended, Gone, Last
<1>5. call[d].rev <= revision /\ call[c].rev \in Nat /\ call[d].rev \in Nat /\ revision \in Nat
  BY CallFields DEF IInv, CallsOK, CallOK, StateOK, StateType
<1>6. ~(k.op = "create" /\ ~Overtaken(c))
  BY <1>3, <1>5 DEF Overtaken
<1>7. disk' = None /\ payload' = None /\ k.pc \notin AtWork \ Wiping
  BY <1>4, <1>6
<1> QED
  BY <1>1, <1>7

LEMMA RejectedStays ==
    ASSUME CallsOK, \A d \in Calls : Unsettled(call[d]), NEW c \in Calls, NEW k,
           call[c].pc # "done", call' = [call EXCEPT ![c] = k], RejectedAfterWrite
    PROVE  RejectedAfterWrite'
<1>1. PICK d \in Calls : /\ call[d].op \in {"reEncrypt", "create"} /\ call[d].wrote
                         /\ call[d].out = "rejected"
  BY DEF RejectedAfterWrite
<1>2. d # c /\ call'[d] = call[d]
  BY <1>1 DEF Unsettled, CallsOK
<1> QED
  BY <1>1, <1>2 DEF RejectedAfterWrite

\* What is known of the session and of the call at the head of the lane.
LEMMA MatchedHead ==
    ASSUME CallsOK, Matched, NEW c \in Calls, lane # <<>>, Head(lane) = c, payload # None, ~RejectedAfterWrite
    PROVE  /\ call[c].pc \notin AtRisk => Synced(payload, disk, held)
           /\ Follows(call[c], disk, held, payload)
<1>1. \A d \in Calls : d # c => call[d].pc \notin AtRisk
  BY Kinds DEF CallsOK, CallOK
<1> QED
  BY <1>1 DEF Matched

LEMMA MatchedMoved ==
    ASSUME CallsOK, NEW c \in Calls, NEW k, Moved(c, k),
           k.pc = "createGuard" => disk' = k.write /\ k.wrote,
           payload' # None /\ ~RejectedAfterWrite' =>
               /\ k.pc \notin AtRisk => Synced(payload', disk', held')
               /\ Follows(k, disk', held', payload')
    PROVE  Matched'
<1>1. /\ call'[c] = k /\ \A d \in Calls : d # c => call'[d] = call[d] /\ call[d].pc \notin AtWork
  BY MovedIs
<1>2. \A d \in Calls : d # c => Follows(call'[d], disk', held', payload') /\ call'[d].pc # "createGuard"
  BY <1>1 DEF Follows, AtWork
<1>3. (\A d \in Calls : Follows(call[d], disk, held, payload))' <=> \A d \in Calls : Follows(call'[d], disk', held', payload')
  BY DEF Follows, Synced, Alike
<1>4. Synced(payload, disk, held)' <=> Synced(payload', disk', held')
  BY DEF Synced
<1> QED
  BY <1>1, <1>2, <1>3, <1>4 DEF Matched

\* A step that writes nothing and installs nothing, with c where it was or on its way.
LEMMA Rests ==
    ASSUME CallsOK, \A d \in Calls : Unsettled(call[d]), Matched, NEW c \in Calls, NEW k, Moved(c, k),
           call[c].pc \notin AtRisk \cup {"done"}, k.pc \notin AtRisk \cup {"reseal", "rewrite", "mintWrite", "write"},
           UNCHANGED <<disk, held, payload>> \/ payload' = None
    PROVE  Matched'
<1>1. ASSUME payload' # None, ~RejectedAfterWrite'
      PROVE  Synced(payload', disk', held')
  <2>1. UNCHANGED <<disk, held, payload>> /\ ~RejectedAfterWrite
    BY <1>1, RejectedStays DEF Moved
  <2> QED
    BY <1>1, <2>1, MatchedHead DEF Moved
<1>2. Follows(k, disk', held', payload')
  BY DEF Follows, AtRisk
<1> QED
  BY <1>1, <1>2, MatchedMoved DEF AtRisk

----------------------------------------------------------------------------
(* The outcomes of a step.                                                 *)

Done(j, out, wrote) == [IdleCall EXCEPT !.op = j.op, !.rev = j.rev, !.pc = "done", !.out = out, !.wrote = wrote]

LEMMA DoneIs ==
    ASSUME NEW j \in CallType, NEW out \in Outcomes, NEW wrote \in BOOLEAN
    PROVE  LET k == Done(j, out, wrote)
           IN  k \in CallType /\ k.pc = "done" /\ k.out = out /\ k.op = j.op /\ k.rev = j.rev /\ k.wrote = wrote
  BY DoneType DEF Done, IdleCall

LEMMA FinishIs ==
    ASSUME CallsOK, NEW c \in Calls, NEW p, Running(c, p), NEW out \in Outcomes, NEW wrote \in BOOLEAN,
           FinishAs(c, out, wrote)
    PROVE  \E k \in CallType : /\ Moved(c, k) /\ k.pc = "done" /\ k.out = out /\ k.wrote = wrote
                               /\ k.op = call[c].op /\ k.rev = call[c].rev
<1>1. call[c] \in CallType
  BY DEF CallsOK
<1>2. Moved(c, Done(call[c], out, wrote))
  <2>1. call' = [call EXCEPT ![c] = Done(call[c], out, wrote)] /\ lane' = Tail(lane)
    BY DEF FinishAs, Done
  <2>2. Done(call[c], out, wrote).pc = "done"
    BY <1>1, DoneIs
  <2> QED
    BY <2>1, <2>2 DEF Running, Moved
<1> QED
  BY <1>1, <1>2, DoneIs

LEMMA SettlesIs ==
    ASSUME CallsOK, NEW c \in Calls, NEW p, Running(c, p), NEW out \in Outcomes, Finish(c, out)
    PROVE  \E k \in CallType : /\ Moved(c, k) /\ k.pc = "done" /\ k.out = out /\ k.wrote = call[c].wrote
                               /\ k.op = call[c].op /\ k.rev = call[c].rev
<1>1. call[c].wrote \in BOOLEAN /\ FinishAs(c, out, call[c].wrote)
  BY CallFields DEF CallsOK, Finish
<1> QED
  BY <1>1, FinishIs

LEMMA GoesTo ==
    ASSUME CallsOK, NEW c \in Calls, NEW p, Running(c, p), NEW q \in AtWork, Goto(c, q)
    PROVE  \E k \in CallType : /\ Moved(c, k) /\ k.pc = q /\ k.out = call[c].out /\ k.wrote = call[c].wrote
                               /\ k.op = call[c].op /\ k.rev = call[c].rev /\ k.write = call[c].write
                               /\ k.before = call[c].before /\ k.pw = call[c].pw /\ k.minted = call[c].minted
<1> DEFINE k == [call[c] EXCEPT !.pc = q]
<1>1. call[c] \in CallType /\ q \in Pcs
  BY Kinds DEF CallsOK, Pcs
<1>2. /\ k \in CallType /\ k.pc = q /\ k.out = call[c].out /\ k.wrote = call[c].wrote
      /\ k.op = call[c].op /\ k.rev = call[c].rev /\ k.write = call[c].write
      /\ k.before = call[c].before /\ k.pw = call[c].pw /\ k.minted = call[c].minted
  BY <1>1, PcMoved DEF CallType
<1>3. Moved(c, k)
  BY <1>2 DEF Goto, Continue, Running, Moved
<1> QED
  BY <1>2, <1>3

LEMMA UnsettledEnds == ASSUME NEW k, k.pc = "done" PROVE Unsettled(k)
  BY Kinds DEF Unsettled

----------------------------------------------------------------------------
(* Steps that do not work in the lane.                                     *)

\* A call c that is not in the lane becomes k: it joins the lane or settles.
Entered(c, k) ==
    /\ call' = [call EXCEPT ![c] = k] /\ call[c].pc \in {"idle", "rekey"} /\ k.op # "none"
    /\ \/ lane' = Append(lane, c) /\ k.pc = "queued"
       \/ lane' = lane /\ k.pc = "done" /\ k.out = "rejected"

LEMMA EnteredIs ==
    ASSUME CallsOK, NEW c \in Calls, NEW k, Entered(c, k)
    PROVE  /\ call'[c] = k /\ \A d \in Calls : d # c => call'[d] = call[d]
           /\ call[c].pc \notin Queued \cup AtWork /\ call[c].pc # "done"
           /\ k.pc \notin AtWork /\ k.pc \in {"queued", "done"}
  BY Kinds DEF CallsOK, Entered, Queued, AtWork

LEMMA LaneEntered == ASSUME CallsOK, LaneOK, NEW c \in Calls, NEW k, Entered(c, k) PROVE LaneOK'
<1>1. call[c].pc \notin Queued \cup AtWork /\ (k.pc = "queued" => k.pc \in Queued)
      /\ (k.pc = "done" => k.pc \notin Queued \cup AtWork)
  BY EnteredIs DEF Queued, AtWork
<1> QED
  BY <1>1, LaneJoined, LaneApart DEF Entered

LEMMA EndsEntered ==
    ASSUME IInv, LaneOK, \A d \in Calls : Unsettled(call[d]), Ended, NEW c \in Calls, NEW k, Entered(c, k),
           UNCHANGED <<disk, loose>>, UNCHANGED <<scope, payload>> \/ LockNow,
           k.pc = "queued" /\ k.op = "destroy" => payload' = None /\ k.rev = revision + 1
    PROVE  Ended'
<1>1. /\ call'[c] = k /\ \A d \in Calls : d # c => call'[d] = call[d]
      /\ call[c].pc \notin Queued \cup AtWork /\ k.pc \notin AtWork /\ k.pc \in {"queued", "done"}
  BY EnteredIs DEF IInv
<1>2. call[c].op # "create"
  BY DEF Unsettled, Entered
<1>3. payload = None => payload' = None
  BY DEF LockNow
<1>4. lane \in Seq(Calls)
  BY DEF IInv, CallsOK
<1>5. Lent'
  BY LentMoved DEF Ended, IInv, StateOK, StateType
<1>6. Kept'
  <2> SUFFICES ASSUME loose # {}  PROVE lane' # <<>> /\ call'[Head(lane')].pc \in {"read", "write"}
    BY DEF Kept
  <2>1. lane # <<>> /\ call[Head(lane)].pc \in {"read", "write"}
    BY DEF Ended, Kept
  <2>2. Head(lane) \in Calls /\ Head(lane) # c
    BY <1>1, <1>4, <2>1, HeadFirst DEF AtWork
  <2>3. lane' # <<>> /\ Head(lane') = Head(lane)
    BY <1>4, <2>1 DEF Entered
  <2> QED
    BY <1>1, <2>1, <2>2, <2>3
<1>7. ASSUME NEW d \in Calls PROVE Awaits(d)'
  <2> SUFFICES ASSUME call'[d].op = "destroy", call'[d].pc = "queued"
               PROVE  /\ payload' = None
                      /\ \A i, j \in 1..Len(lane') : i < j /\ lane'[j] = d => call'[lane'[i]].rev < call'[d].rev
    BY DEF Awaits
  <2>0. \A i \in 1..Len(lane) : lane[i] \in Calls /\ lane[i] # c
    BY <1>1, <1>4, HeadFirst DEF LaneOK
  <2>1. CASE d # c
    <3>1. /\ payload = None
          /\ \A i, j \in 1..Len(lane) : i < j /\ lane[j] = d => call[lane[i]].rev < call[d].rev
      BY <1>1, <2>1 DEF Ended, Awaits
    <3>2. CASE lane' = lane
      BY <1>1, <1>3, <2>0, <2>1, <3>1, <3>2
    <3>3. CASE lane' = Append(lane, c)
      <4>1. \A i, j \in 1..Len(lane') : i < j /\ lane'[j] = d => /\ i \in 1..Len(lane) /\ j \in 1..Len(lane)
                                                                /\ lane'[i] = lane[i] /\ lane'[j] = lane[j]
        BY <1>4, <2>1, <3>3, LastLast
      <4> QED
        BY <1>1, <1>3, <2>0, <2>1, <3>1, <4>1
    <3> QED
      BY <3>2, <3>3 DEF Entered
  <2>2. CASE d = c
    <3>1. payload' = None /\ k.rev = revision + 1 /\ lane' = Append(lane, c)
      BY <1>1, <2>2 DEF Entered
    <3>2. \A i \in 1..Len(lane) : call'[lane[i]].rev < k.rev
      BY <1>1, <2>0, <3>1, CallFields DEF IInv, CallsOK, CallOK, StateOK, StateType
    <3>3. \A i, j \in 1..Len(lane') : i < j => i \in 1..Len(lane) /\ lane'[i] = lane[i]
      BY <1>4, <3>1, LastLast
    <3> QED
      BY <1>1, <2>2, <3>1, <3>2, <3>3
  <2> QED
    BY <2>1, <2>2
<1>8. ASSUME NEW d \in Calls PROVE Wipes(d)'
  BY <1>1, <1>3, Kinds DEF Ended, Wipes
<1>9. ASSUME NEW d \in Calls PROVE Gone(d)'
  <2> SUFFICES ASSUME call'[d].op \in {"destroy", "destroyIfEmpty"}, call'[d].pc = "done",
                      call'[d].out = "true", Last(d)'
               PROVE  /\ disk' = None /\ payload' = None
                      /\ \A e \in Calls : call'[e].pc \in AtWork => call'[e].pc \in Wiping
    BY DEF Gone
  <2>1. d # c /\ call'[d] = call[d]
    BY <1>1 DEF Entered
  <2>2. \A e \in Calls : call[e].op = "create" => call[e].rev < call[d].rev
    BY <1>1, <1>2, <2>1 DEF Last
  <2> QED
    BY <1>1, <1>3, <2>1, <2>2 DEF Ended, Gone, Last
<1> QED
  BY <1>5, <1>6, <1>7, <1>8, <1>9 DEF Ended

LEMMA MatchedEntered ==
    ASSUME CallsOK, \A d \in Calls : Unsettled(call[d]), Matched, NEW c \in Calls, NEW k, Entered(c, k),
           UNCHANGED disk, UNCHANGED <<payload, held>> \/ payload' = None
    PROVE  Matched'
<1>1. /\ call'[c] = k /\ \A d \in Calls : d # c => call'[d] = call[d]
      /\ call[c].pc \notin Queued \cup AtWork /\ call[c].pc # "done" /\ k.pc \notin AtWork
  BY EnteredIs
<1>2. \A d \in Calls : call'[d].pc = "createGuard" => disk' = call'[d].write /\ call'[d].wrote
  BY <1>1 DEF Matched, AtWork
<1>3. ASSUME payload' # None, ~RejectedAfterWrite'
      PROVE  /\ (\A d \in Calls : call'[d].pc \notin AtRisk) => Synced(payload', disk', held')
             /\ \A d \in Calls : Follows(call'[d], disk', held', payload')
  <2>1. UNCHANGED <<disk, held, payload>> /\ ~RejectedAfterWrite
    BY <1>1, <1>3, RejectedStays DEF Entered
  <2>2. (\A d \in Calls : call'[d].pc \notin AtRisk) => \A d \in Calls : call[d].pc \notin AtRisk
    BY <1>1, Kinds
  <2>3. Follows(k, disk', held', payload')
    BY <1>1 DEF Follows, AtWork
  <2> QED
    BY <1>1, <1>3, <2>1, <2>2, <2>3 DEF Matched
<1>4. (\A d \in Calls : Follows(call[d], disk, held, payload))' <=> \A d \in Calls : Follows(call'[d], disk', held', payload')
  BY DEF Follows, Synced, Alike
<1>5. Synced(payload, disk, held)' <=> Synced(payload', disk', held')
  BY DEF Synced
<1> QED
  BY <1>2, <1>3, <1>4, <1>5 DEF Matched

\* A call that is made, or changePassword() on its way to reEncrypt().
LEMMA EnteredHolds ==
    ASSUME IInv, EInv, NEW c \in Calls, NEW k, Entered(c, k), UNCHANGED <<disk, guard, loose>>,
           UNCHANGED <<scope, payload, held>> \/ LockNow,
           k.pc = "queued" => k.out = "none" /\ (call[c].pc = "rekey" => k.op = "reEncrypt"),
           k.pc = "queued" /\ k.op = "destroy" => payload' = None /\ k.rev = revision + 1
    PROVE  EInv'
<1>1. CallsOK /\ k.pc \in {"queued", "done"} /\ call[c].pc \in {"idle", "rekey"}
      /\ (k.pc = "done" => k.out = "rejected")
      /\ call' = [call EXCEPT ![c] = k]
  BY EnteredIs DEF IInv, Entered
<1>2. Unsettled(k) /\ k.out # "wrong"
  BY <1>1 DEF Unsettled, AtWork, Wiping
<1>3. Guesses(k) => Guesses(call[c])
  BY <1>1 DEF EInv, Unsettled, Guesses
<1>4. Guarded'
  BY <1>1, <1>2, <1>3, GuardedMoved DEF EInv
<1>5. Ended'
  BY EndsEntered DEF EInv
<1>6. Matched'
  BY <1>1, MatchedEntered DEF EInv, LockNow
<1>7. LaneOK'
  BY <1>1, LaneEntered DEF EInv
<1>8. \A d \in Calls : Unsettled(call'[d])
  BY <1>1, <1>2, UnsettledMoved DEF EInv
<1> QED
  BY <1>4, <1>5, <1>6, <1>7, <1>8 DEF EInv, Unsettled

\* A step of the user, the clock or a callback: the calls stand.
LEMMA StandsHolds ==
    ASSUME IInv, EInv, UNCHANGED <<disk, lane, call, loose>>,
           guard'.failures = guard.failures, guard'.shut => guard.shut,
           \/ LockNow
           \/ /\ UNCHANGED held /\ (payload = None <=> payload' = None) /\ Lent'
              /\ payload # None => Alike(payload', payload)
    PROVE  EInv'
<1>1. LaneOK' /\ (\A d \in Calls : Unsettled(call[d]))'
  BY DEF EInv, LaneOK, Unsettled
<1>2. Guarded'
  BY DEF EInv, Guarded, Wrong, Guesses
<1>3. Lent' /\ Kept'
  BY LentMoved DEF EInv, Ended, Kept, IInv, StateOK, StateType, LockNow
<1>4. payload = None => payload' = None
  BY DEF LockNow
<1>5. \A d \in Calls : Awaits(d)' /\ Wipes(d)' /\ Gone(d)'
  BY <1>4 DEF EInv, Ended, Awaits, Wipes, Gone, Last
<1>6. Matched'
  <2>1. CASE payload' = None
    BY <2>1 DEF EInv, Matched
  <2>2. CASE payload' # None
    <3>1. UNCHANGED held /\ payload # None /\ Alike(payload', payload)
      BY <2>2 DEF LockNow
    <3>2. Synced(payload, disk, held) => Synced(payload', disk, held)
      BY <3>1 DEF Alike, Synced
    <3>3. \A d \in Calls : Follows(call[d], disk, held, payload) => Follows(call[d], disk, held, payload')
      BY <3>1 DEF Alike, Follows
    <3>4. RejectedAfterWrite' <=> RejectedAfterWrite
      BY DEF RejectedAfterWrite
    <3>5. (\A d \in Calls : Follows(call[d], disk, held, payload))' <=> \A d \in Calls : Follows(call[d], disk, held, payload')
      BY <3>1 DEF Follows, Synced, Alike
    <3>6. Synced(payload, disk, held)' <=> Synced(payload', disk, held)
      BY <3>1 DEF Synced
    <3> QED
      BY <3>1, <3>2, <3>3, <3>4, <3>5, <3>6 DEF EInv, Matched
  <2> QED
    BY <2>1, <2>2
<1> QED
  BY <1>1, <1>2, <1>3, <1>5, <1>6 DEF EInv, Ended

----------------------------------------------------------------------------
(* The work of unlock().                                                   *)

\* The head of the lane moves on as the call it is, under the revision it captured.
Goes(c, k) == k \in CallType /\ Moved(c, k) /\ k.op = call[c].op /\ k.rev = call[c].rev
Settles(c, k, out) == Goes(c, k) /\ k.pc = "done" /\ k.out = out
Proceeds(c, k, q)  == Goes(c, k) /\ k.pc = q /\ k.out = call[c].out /\ k.wrote = call[c].wrote /\ k.write = call[c].write
                      /\ k.before = call[c].before

LEMMA SettlesBy ==
    ASSUME IInv, NEW c \in Calls, NEW p, Running(c, p), NEW out \in Outcomes, Finish(c, out)
    PROVE  \E k : Settles(c, k, out) /\ k.wrote = call[c].wrote
<1>1. CallsOK
  BY DEF IInv
<1>2. PICK k \in CallType : /\ Moved(c, k) /\ k.pc = "done" /\ k.out = out /\ k.wrote = call[c].wrote
                            /\ k.op = call[c].op /\ k.rev = call[c].rev
  BY <1>1, SettlesIs
<1> QED
  BY <1>2 DEF Settles, Goes

LEMMA ProceedsBy ==
    ASSUME IInv, NEW c \in Calls, NEW p, Running(c, p), NEW q \in AtWork, Goto(c, q)
    PROVE  \E k : Proceeds(c, k, q)
<1>1. CallsOK
  BY DEF IInv
<1>2. PICK k \in CallType : /\ Moved(c, k) /\ k.pc = q /\ k.out = call[c].out /\ k.wrote = call[c].wrote
                            /\ k.op = call[c].op /\ k.rev = call[c].rev /\ k.write = call[c].write
                            /\ k.before = call[c].before /\ k.pw = call[c].pw /\ k.minted = call[c].minted
  BY <1>1, GoesTo
<1> QED
  BY <1>2 DEF Proceeds, Goes

\* The head of the lane, past its first check and destroying nothing, goes on.
Works(c, k) ==
    /\ Goes(c, k) /\ call[c].pc \in AtWork \ Wiping /\ k.pc \notin Wiping
    /\ k.pc # "done" => k.out = call[c].out
    /\ k.pc = "rekey" => k.op = "change"
    /\ k.pc \notin {"derive", "idle", "queued"} /\ k.out # "wrong"
    /\ k.pc = "charge" => call[c].pc = "derive" /\ guard' = guard
    /\ guard'.shut => guard.shut
    /\ payload = None => payload' = None \/ ~Overtaken(c)
    /\ (scope' = scope /\ (payload # None => payload' # None)) \/ LockNow
    /\ loose' = {} \/ k.pc \in {"read", "write"} \/ (loose' = loose /\ call[c].pc \notin {"read", "write"})

LEMMA WorkHolds == ASSUME IInv, EInv, NEW c \in Calls, NEW k, Works(c, k), Matched' PROVE EInv'
<1> USE DEF Works
<1>1. CallsOK /\ Moved(c, k) /\ k.op = call[c].op /\ k.rev = call[c].rev /\ call' = [call EXCEPT ![c] = k]
  BY DEF IInv, Goes, Moved
<1>2. call[c].pc # "done" /\ k.pc \in AtWork \cup {"done", "rekey"}
  BY <1>1, MovedIs, Kinds
<1>3. Unsettled(call[c]) /\ call[c].out = "none" /\ call[c].op \notin {"destroy", "destroyIfEmpty", "none"}
  BY <1>2 DEF EInv, Unsettled
<1>4. Unsettled(k)
  BY <1>1, <1>2, <1>3, Kinds DEF Unsettled
<1>5. Guarded'
  <2>1. Guesses(k) => k.pc = "charge"
    BY <1>2 DEF Guesses, AtWork
  <2>2. Guesses(k) => Guesses(call[c]) /\ guard'.failures = guard.failures
    BY <1>1, <2>1 DEF Guesses
  <2> QED
    BY <1>1, <1>2, <2>2, GuardedMoved DEF EInv
<1>6. Lent' /\ Kept'
  BY <1>1, LentMoved, KeptMoved DEF EInv, Ended, IInv, StateOK, StateType
<1>7. \A d \in Calls : Awaits(d)'
  BY <1>1, AwaitsMoved DEF EInv
<1>8. \A d \in Calls : Wipes(d)'
  BY <1>1, WipesMoved
<1>9. \A d \in Calls : Gone(d)'
  BY <1>1, <1>3, GoneMoved DEF EInv
<1>10. LaneOK'
  BY <1>1, LaneMoved DEF EInv
<1>11. \A d \in Calls : Unsettled(call'[d])
  BY <1>1, <1>4, UnsettledMoved DEF EInv
<1> QED
  BY <1>5, <1>6, <1>7, <1>8, <1>9, <1>10, <1>11 DEF EInv, Ended, Unsettled

\* One that writes nothing and installs nothing.
Quietly(c, k) ==
    /\ Goes(c, k) /\ call[c].pc \in AtWork \ (Wiping \cup AtRisk)
    /\ k.pc \notin Wiping \cup AtRisk \cup {"reseal", "rewrite", "mintWrite", "write"}
    /\ k.pc # "done" => k.out = call[c].out
    /\ k.pc = "rekey" => k.op = "change"
    /\ k.pc \notin {"derive", "idle", "queued"} /\ k.out # "wrong"
    /\ k.pc = "charge" => call[c].pc = "derive" /\ guard' = guard
    /\ guard'.shut => guard.shut
    /\ disk' = disk /\ loose' = loose
    /\ <<held, payload, scope>>' = <<held, payload, scope>> \/ LockNow

LEMMA QuietHolds == ASSUME IInv, EInv, NEW c \in Calls, NEW k, Quietly(c, k) PROVE EInv'
<1>1. CallsOK /\ Moved(c, k) /\ call[c].pc # "done"
  BY Kinds DEF IInv, Quietly, Goes
<1>2. Matched'
  BY <1>1, Rests DEF EInv, Quietly, LockNow
<1>3. Works(c, k)
  BY <1>1 DEF Quietly, Works, AtRisk, LockNow
<1> QED
  BY <1>2, <1>3, WorkHolds

LEMMA RunsAt == ASSUME NEW c \in Calls, NEW p, Running(c, p)
                PROVE  lane # <<>> /\ Head(lane) = c /\ call[c].pc = p
  BY DEF Running

LEMMA DeriveWrongHolds == ASSUME IInv, EInv, NEW c \in Calls, DeriveWrong(c) PROVE EInv'
<1>1. Running(c, "derive") /\ Goto(c, "charge") /\ UNCHANGED <<store, memory, spent>>
  BY DEF DeriveWrong
<1>2. PICK k : Proceeds(c, k, "charge")
  BY <1>1, ProceedsBy DEF AtWork
<1>3. call[c].pc = "derive" /\ call[c].out = "none"
  BY <1>1, RunsAt DEF EInv, Unsettled
<1>4. Quietly(c, k)
  BY <1>1, <1>2, <1>3 DEF Quietly, Proceeds, store, memory, AtWork, Wiping, AtRisk
<1> QED
  BY <1>4, QuietHolds

LEMMA ClearGuardHolds == ASSUME IInv, EInv, NEW c \in Calls, ClearGuard(c) PROVE EInv'
<1>1. Running(c, "clear") /\ UNCHANGED <<disk, memory>> /\ (guard'.shut => guard.shut)
  BY DEF ClearGuard, FreshGuard
<1>2. call[c].pc = "clear" /\ call[c].out = "none"
  BY <1>1, RunsAt DEF EInv, Unsettled
<1>3. CASE Goto(c, "restore")
  <2>1. PICK k : Proceeds(c, k, "restore")
    BY <1>1, <1>3, ProceedsBy DEF AtWork
  <2>2. Quietly(c, k)
    BY <1>1, <1>2, <2>1 DEF Quietly, Proceeds, memory, AtWork, Wiping, AtRisk
  <2> QED
    BY <2>2, QuietHolds
<1>4. CASE Finish(c, "rejected")
  <2>1. PICK k : Settles(c, k, "rejected")
    BY <1>1, <1>4, SettlesBy, Outs
  <2>2. Quietly(c, k)
    BY <1>1, <1>2, <2>1 DEF Quietly, Settles, memory, AtWork, Wiping, AtRisk
  <2> QED
    BY <2>2, QuietHolds
<1> QED
  BY <1>3, <1>4 DEF ClearGuard

\* A wrong password is charged.
LEMMA ChargeGuardHolds == ASSUME IInv, EInv, NEW c \in Calls, ChargeGuard(c) PROVE EInv'
<1>1. Running(c, "charge") /\ UNCHANGED <<disk, memory>>
  BY DEF ChargeGuard
<1>2. call[c].pc = "charge" /\ call[c].out = "none" /\ lane # <<>> /\ Head(lane) = c
  BY <1>1, RunsAt DEF EInv, Unsettled
<1>3. CASE Finish(c, "rejected") /\ UNCHANGED guard
  <2>1. PICK k : Settles(c, k, "rejected")
    BY <1>1, <1>3, SettlesBy, Outs
  <2>2. Quietly(c, k)
    BY <1>1, <1>2, <1>3, <2>1 DEF Quietly, Settles, memory, AtWork, Wiping, AtRisk
  <2> QED
    BY <2>2, QuietHolds
<1>4. CASE Finish(c, "wrong") /\ guard' = NextGuard
  <2>1. PICK k : Settles(c, k, "wrong")
    BY <1>1, <1>4, SettlesBy, Outs
  <2>2. /\ CallsOK /\ Moved(c, k) /\ k.op = call[c].op /\ k.rev = call[c].rev /\ k.pc = "done"
        /\ k.out = "wrong" /\ call' = [call EXCEPT ![c] = k]
    BY <2>1 DEF Settles, Goes, Moved, IInv
  <2>3. call'[c] = k /\ \A d \in Calls : d # c => call'[d] = call[d] /\ call[d].pc \notin AtWork
    BY <2>2, MovedIs
  <2>4. Guarded'
    <3>1. Wrong' = Wrong \cup {c} /\ c \notin Wrong
      BY <1>2, <2>2, <2>3 DEF Wrong
    <3>2. IsFiniteSet(Wrong) /\ IsFiniteSet(Wrong')
      BY <3>1, FS_AddElement DEF EInv, Guarded
    <3>3. Cardinality(Wrong') = Cardinality(Wrong) + 1 /\ Cardinality(Wrong) \in Nat
      BY <3>1, <3>2, FS_AddElement, FS_CardinalityType
    <3>4. \A d \in Calls : call'[d].pc # "derive"
      BY <2>2, <2>3 DEF AtWork
    <3>5. guard'.failures = guard.failures + 1
      BY <1>4 DEF NextGuard
    <3>6. (\A d \in Calls : Guesses(call'[d])) => \A d \in Calls : Guesses(call[d])
      BY <1>2, <2>2, <2>3 DEF Guesses
    <3> QED
      BY <3>2, <3>3, <3>4, <3>5, <3>6 DEF EInv, Guarded
  <2>5. Matched'
    BY <1>1, <1>2, <2>2, Rests DEF EInv, memory, AtRisk
  <2>6. Lent' /\ Kept'
    BY <1>1, <1>2, <2>2, LentMoved, KeptMoved DEF EInv, Ended, IInv, StateOK, StateType, memory
  <2>7. \A d \in Calls : Awaits(d)'
    BY <1>1, <2>2, AwaitsMoved DEF EInv, memory
  <2>8. \A d \in Calls : Wipes(d)'
    BY <2>2, WipesMoved DEF Wiping
  <2>9. \A d \in Calls : Gone(d)'
    BY <1>2, <2>2, GoneMoved DEF EInv, AtWork, Wiping
  <2>10. LaneOK' /\ \A d \in Calls : Unsettled(call'[d])
    BY <2>2, LaneMoved, UnsettledEnds, UnsettledMoved DEF EInv
  <2> QED
    BY <2>4, <2>5, <2>6, <2>7, <2>8, <2>9, <2>10 DEF EInv, Ended, Unsettled
<1> QED
  BY <1>3, <1>4 DEF ChargeGuard

\* A step that changes neither the record nor the session: what the call carries is all there is to show.
LEMMA Carried ==
    ASSUME CallsOK, \A d \in Calls : Unsettled(call[d]), Matched, NEW c \in Calls, NEW k, Moved(c, k),
           call[c].pc # "done", disk' = disk /\ held' = held /\ payload' = payload, k.pc # "createGuard",
           /\ payload # None /\ ~RejectedAfterWrite
           /\ call[c].pc \notin AtRisk => Synced(payload, disk, held)
           /\ Follows(call[c], disk, held, payload)
           => /\ k.pc \notin AtRisk => Synced(payload, disk, held)
              /\ Follows(k, disk, held, payload)
    PROVE  Matched'
<1>1. ASSUME payload' # None, ~RejectedAfterWrite'
      PROVE  (k.pc \notin AtRisk => Synced(payload', disk', held')) /\ Follows(k, disk', held', payload')
  <2>1. payload # None /\ ~RejectedAfterWrite
    BY <1>1, RejectedStays DEF Moved
  <2> QED
    BY <2>1, MatchedHead DEF Moved
<1> QED
  BY <1>1, MatchedMoved

\* A settled call carries nothing any more.
LEMMA CarriesNothing ==
    ASSUME NEW k, k.pc \in {"done", "rekey", "clear", "restore", "charge", "derive", "mint", "notify", "seal", "createWrite"},
           NEW D, NEW H, NEW P
    PROVE  Follows(k, D, H, P) /\ k.pc \notin AtRisk
  BY DEF Follows, AtRisk

LEMMA DeriveRightHolds == ASSUME IInv, EInv, NEW c \in Calls, DeriveRight(c) PROVE EInv'
<1>1. Running(c, "derive") /\ UNCHANGED <<store, spent>>
  BY DEF DeriveRight
<1>2. disk \in Record /\ call[c] \in CallType
  BY <1>1, RunningCall
<1>3. call[c].pc = "derive" /\ call[c].out = "none" /\ CallsOK
  BY <1>1, RunsAt DEF EInv, Unsettled, IInv
<1>4. CASE Overtaken(c)
  <2>1. Finish(c, "overtaken") /\ UNCHANGED memory
    BY <1>4 DEF DeriveRight
  <2>2. PICK k : Settles(c, k, "overtaken")
    BY <1>1, <2>1, SettlesBy, Outs
  <2>3. Quietly(c, k)
    BY <1>1, <1>3, <2>1, <2>2 DEF Quietly, Settles, store, memory, AtWork, Wiping, AtRisk
  <2> QED
    BY <2>3, QuietHolds
<1>5. CASE ~Overtaken(c)
  <2> DEFINE k == [call[c] EXCEPT !.pc = "clear", !.minted = disk.body.cacheKey = "absent"]
  <2>1. Install(c, Opened(c), disk.key) /\ Continue(c, k)
    BY <1>5 DEF DeriveRight
  <2>2. k \in CallType
    <3>1. (disk.body.cacheKey = "absent") \in BOOLEAN
      OBVIOUS
    <3> QED BY <1>2, <3>1, ClearType, Zenon
  <2>3. k.pc = "clear" /\ k.rev = call[c].rev /\ k.op = call[c].op /\ k.out = call[c].out
    BY <1>2 DEF CallType
  <2> HIDE DEF k
  <2>4. Goes(c, k)
    BY <1>1, <2>1, <2>2, <2>3 DEF Goes, Moved, Continue, Running, AtWork
  <2>5. Opened(c) \in Body /\ disk.key \in Key /\ disk.body \in Body
    BY <1>2, OpenedType, RecordFields
  <2>6. payload' = Opened(c) /\ held' = disk.key /\ scope' = scope /\ loose' = loose /\ disk' = disk /\ guard' = guard
        /\ payload' # None
    BY <1>1, <2>1, <2>5, NotNone DEF Install, store
  <2>7. Works(c, k)
    BY <1>3, <1>5, <2>3, <2>4, <2>6 DEF Works, AtWork, Wiping
  <2>8. Synced(Opened(c), disk, disk.key)
    <3>1. Opened(c).accts = disk.body.accts /\ (disk.body.cacheKey # "absent" => Opened(c).cacheKey = disk.body.cacheKey)
      BY <2>5 DEF Opened, Body
    <3> QED
      BY <1>2, <3>1, NotNone DEF Synced
  <2>9. Matched'
    BY <1>3, <2>3, <2>4, <2>6, <2>8, CarriesNothing, MatchedMoved DEF Goes
  <2> QED
    BY <2>7, <2>9, WorkHolds
<1> QED
  BY <1>4, <1>5

\* Out of the re-seal: to the mint, to the listeners, or out of the lane.
Leaving(c, k) == /\ Goes(c, k)
                 /\ \/ k.pc = "done" /\ k.out \in {"overtaken", "rejected"}
                    \/ k.pc \in {"mint", "notify"} /\ k.out = call[c].out

LEMMA AfterResealIs ==
    ASSUME IInv, NEW c \in Calls, NEW p, Running(c, p), AfterReseal(c)
    PROVE  \E k : Leaving(c, k)
<1>1. CASE Finish(c, "overtaken")
  <2>1. PICK k : Settles(c, k, "overtaken")
    BY <1>1, SettlesBy, Outs
  <2> QED
    BY <2>1 DEF Settles, Leaving
<1>2. ASSUME NEW q \in {"mint", "notify"}, Goto(c, q)
      PROVE  \E k : Leaving(c, k)
  <2>1. PICK k : Proceeds(c, k, q)
    BY <1>2, ProceedsBy DEF AtWork
  <2> QED
    BY <2>1 DEF Proceeds, Leaving
<1> QED
  BY <1>1, <1>2 DEF AfterReseal

LEMMA RestoreHolds == ASSUME IInv, EInv, NEW c \in Calls, Restore(c) PROVE EInv'
<1>1. Running(c, "restore") /\ UNCHANGED <<store, memory>>
  BY DEF Restore
<1>2. call[c].pc = "restore" /\ call[c].out = "none" /\ CallsOK
  BY <1>1, RunsAt DEF EInv, Unsettled, IInv
<1>3. ASSUME NEW k, Leaving(c, k)
      PROVE  EInv'
  <2>1. Quietly(c, k)
    BY <1>1, <1>2, <1>3 DEF Quietly, Leaving, store, memory, AtWork, Wiping, AtRisk
  <2> QED
    BY <2>1, QuietHolds
<1>4. CASE Finish(c, "rejected") \/ Finish(c, "overtaken")
  <2>1. PICK out \in {"rejected", "overtaken"} : Finish(c, out)
    BY <1>4
  <2>2. PICK k : Settles(c, k, out)
    BY <1>1, <2>1, SettlesBy, Outs
  <2> QED
    BY <1>3, <2>2 DEF Settles, Leaving
<1>5. CASE Goto(c, "notify")
  <2>1. PICK k : Proceeds(c, k, "notify")
    BY <1>1, <1>5, ProceedsBy DEF AtWork
  <2> QED
    BY <1>3, <2>1 DEF Proceeds, Leaving
<1>6. CASE AfterReseal(c)
  BY <1>1, <1>3, <1>6, AfterResealIs
<1>7. CASE ~Overtaken(c) /\ ~disk.key.strong /\ Goto(c, "reseal")
  <2>1. PICK k : Proceeds(c, k, "reseal")
    BY <1>1, <1>7, ProceedsBy DEF AtWork
  <2>2. disk' = disk /\ held' = held /\ payload' = payload /\ scope' = scope /\ loose' = loose /\ guard' = guard
    BY <1>1 DEF store, memory
  <2>3. Works(c, k)
    BY <1>2, <2>1, <2>2 DEF Works, Proceeds, AtWork, Wiping
  <2>4. Synced(payload, disk, held) => Synced(payload, disk, held) /\ Follows(k, disk, held, payload)
    BY <1>7, <2>1 DEF Proceeds, Follows, Synced
  <2>5. Moved(c, k) /\ k.pc # "createGuard" /\ call[c].pc # "done" /\ call[c].pc \notin AtRisk
    BY <1>2, <2>1 DEF Proceeds, Goes, AtRisk
  <2>6. Matched'
    BY <1>2, <2>2, <2>4, <2>5, Carried DEF EInv
  <2> QED
    BY <2>3, <2>6, WorkHolds
<1> QED
  BY <1>4, <1>5, <1>6, <1>7 DEF Restore

\* Out of the lane, with nothing written and nothing installed: the step is quiet.
LEMMA SettlesQuietly ==
    ASSUME IInv, EInv, NEW c \in Calls, NEW p \in AtWork \ (Wiping \cup AtRisk), Running(c, p),
           NEW out \in Outcomes \ {"wrong"}, Finish(c, out), UNCHANGED <<store, loose>>,
           <<held, payload, scope>>' = <<held, payload, scope>> \/ LockNow
    PROVE  EInv'
<1>1. PICK k : Settles(c, k, out)
  BY SettlesBy
<1>2. call[c].pc = p
  BY RunsAt
<1>3. Quietly(c, k)
  BY <1>1, <1>2 DEF Quietly, Settles, store, AtWork, Wiping, AtRisk
<1> QED
  BY <1>3, QuietHolds

\* Onto the next await, the same way.
LEMMA ProceedsQuietly ==
    ASSUME IInv, EInv, NEW c \in Calls, NEW p \in AtWork \ (Wiping \cup AtRisk), Running(c, p),
           NEW q \in {"mint", "notify", "createWrite"}, Goto(c, q), UNCHANGED <<store, memory>>
    PROVE  EInv'
<1>1. PICK k : Proceeds(c, k, q)
  BY ProceedsBy DEF AtWork
<1>2. call[c].pc = p /\ call[c].out = "none"
  BY RunsAt, Kinds DEF EInv, Unsettled
<1>3. Quietly(c, k)
  BY <1>1, <1>2 DEF Quietly, Proceeds, store, memory, AtWork, Wiping, AtRisk
<1> QED
  BY <1>3, QuietHolds

\* A call that takes what it will write.
Taking(j, q, w) == [j EXCEPT !.pc = q, !.write = w]

LEMMA WriteTaken ==
    ASSUME NEW j \in CallType, NEW q \in AtWork, NEW w \in Record
    PROVE  LET k == Taking(j, q, w)
           IN  /\ k \in CallType /\ k.pc = q /\ k.write = w /\ k.op = j.op /\ k.rev = j.rev /\ k.out = j.out
               /\ k.wrote = j.wrote /\ k.before = j.before
  BY DEF CallType, Taking

LEMMA MintFailsHolds ==
    ASSUME IInv, EInv, NEW c \in Calls, NEW p \in {"mint", "mintWrite"}, Running(c, p), MintFails(c)
    PROVE  EInv'
<1>1. p \in AtWork \ (Wiping \cup AtRisk) /\ {"overtaken", "rejected"} \subseteq Outcomes \ {"wrong"}
  BY DEF AtWork, Wiping, AtRisk, Outcomes
<1>2. CASE Overtaken(c)
  <2>1. Finish(c, "overtaken") /\ UNCHANGED memory /\ UNCHANGED store
    BY <1>2 DEF MintFails
  <2>2. UNCHANGED <<store, loose>> /\ <<held, payload, scope>>' = <<held, payload, scope>>
    BY <2>1 DEF memory
  <2> QED
    BY <1>1, <2>1, <2>2, SettlesQuietly
<1>3. CASE ~Overtaken(c)
  <2>1. Finish(c, "rejected") /\ LockSession /\ UNCHANGED store
    BY <1>3 DEF MintFails
  <2>2. UNCHANGED <<store, loose>> /\ LockNow
    BY <2>1 DEF LockSession
  <2> QED
    BY <1>1, <2>1, <2>2, SettlesQuietly
<1> QED
  BY <1>2, <1>3

LEMMA MintReadHolds == ASSUME IInv, EInv, NEW c \in Calls, MintRead(c) PROVE EInv'
<1>1. Running(c, "mint")
  BY DEF MintRead
<1>2. call[c].pc = "mint" /\ call[c].out = "none" /\ CallsOK /\ call[c] \in CallType
  BY <1>1, RunsAt, RunningCall DEF EInv, Unsettled, IInv
<1>3. CASE MintFails(c)
  BY <1>1, <1>3, MintFailsHolds
<1>4. CASE Overtaken(c) /\ ~MintFails(c)
  <2>1. Finish(c, "overtaken") /\ UNCHANGED <<store, memory, spent>>
    BY <1>4 DEF MintRead
  <2>2. UNCHANGED <<store, loose>> /\ <<held, payload, scope>>' = <<held, payload, scope>>
    BY <2>1 DEF memory
  <2> QED
    BY <1>1, <2>1, <2>2, SettlesQuietly DEF AtWork, Wiping, AtRisk, Outcomes
<1>5. CASE ~Overtaken(c) /\ ~MintFails(c)
  <2> DEFINE w == [key |-> held, body |-> payload]
             k == Taking(call[c], "mintWrite", w)
  <2>1. Continue(c, k) /\ UNCHANGED <<store, memory, spent>>
    BY <1>5 DEF MintRead, Taking
  <2>2. w \in Record /\ w.key = held /\ w.body = payload
    BY <1>1, <1>5, RunningCall, RecordMade DEF InSession
  <2> HIDE DEF w
  <2>3. "mintWrite" \in AtWork
    BY DEF AtWork
  <2>4. /\ k \in CallType /\ k.pc = "mintWrite" /\ k.write = w /\ k.op = call[c].op
        /\ k.rev = call[c].rev /\ k.out = call[c].out
    BY <1>2, <2>2, <2>3, WriteTaken
  <2> HIDE DEF k
  <2>5. Goes(c, k)
    BY <1>1, <2>1, <2>3, <2>4 DEF Goes, Moved, Continue, Running
  <2>6. disk' = disk /\ held' = held /\ payload' = payload /\ scope' = scope /\ loose' = loose /\ guard' = guard
    BY <2>1 DEF store, memory
  <2>7. Works(c, k)
    BY <1>2, <2>4, <2>5, <2>6 DEF Works, AtWork, Wiping
  <2>8. Follows(k, disk, held, payload) /\ k.pc # "createGuard" /\ call[c].pc \notin AtRisk /\ call[c].pc # "done"
    BY <1>2, <2>2, <2>4 DEF Follows, Alike, AtRisk
  <2>9. Matched'
    BY <1>2, <2>5, <2>6, <2>8, Carried DEF EInv, Goes
  <2> QED
    BY <2>7, <2>9, WorkHolds
<1> QED
  BY <1>3, <1>4, <1>5

\* The record becomes what the call carries, and the session what it was.
LEMMA MintWriteHolds == ASSUME IInv, EInv, NEW c \in Calls, MintWrite(c) PROVE EInv'
<1>1. Running(c, "mintWrite")
  BY DEF MintWrite
<1>2. call[c].pc = "mintWrite" /\ call[c].out = "none" /\ CallsOK /\ call[c] \in CallType /\ call[c].write # None
  BY <1>1, RunsAt, RunningCall DEF EInv, Unsettled, IInv, Carries
<1>3. CASE MintFails(c)
  BY <1>1, <1>3, MintFailsHolds
<1>4. CASE ~MintFails(c)
  <2>1. disk' = call[c].write /\ UNCHANGED <<guard, memory, spent>>
    BY <1>4 DEF MintWrite
  <2>2. \E k : /\ Goes(c, k) /\ k.pc \in {"done", "notify"} /\ (k.pc # "done" => k.out = call[c].out)
               /\ k.out # "wrong"
    <3>1. CASE Overtaken(c)
      <4>1. FinishAs(c, "overtaken", TRUE)
        BY <1>4, <3>1 DEF MintWrite
      <4> DEFINE wrote == TRUE
      <4>2. wrote \in BOOLEAN /\ FinishAs(c, "overtaken", wrote) /\ "overtaken" \in Outcomes
        BY <4>1 DEF Outcomes
      <4> HIDE DEF wrote
      <4>3. PICK k \in CallType : /\ Moved(c, k) /\ k.pc = "done" /\ k.out = "overtaken"
                                  /\ k.op = call[c].op /\ k.rev = call[c].rev
        BY <1>1, <1>2, <4>2, FinishIs
      <4> QED
        BY <4>3 DEF Goes
    <3>2. CASE ~Overtaken(c)
      <4>1. Goto(c, "notify")
        BY <1>4, <3>2 DEF MintWrite
      <4>2. PICK k : Proceeds(c, k, "notify")
        BY <1>1, <4>1, ProceedsBy DEF AtWork
      <4> QED
        BY <1>2, <4>2 DEF Proceeds
    <3> QED
      BY <3>1, <3>2
  <2>3. PICK k : /\ Goes(c, k) /\ k.pc \in {"done", "notify"} /\ (k.pc # "done" => k.out = call[c].out)
                 /\ k.out # "wrong"
    BY <2>2
  <2>4. held' = held /\ payload' = payload /\ scope' = scope /\ loose' = loose /\ guard' = guard
    BY <2>1 DEF memory
  <2>5. Works(c, k)
    BY <1>2, <2>3, <2>4 DEF Works, AtWork, Wiping
  <2>6. Moved(c, k) /\ Follows(k, disk', held', payload') /\ k.pc # "createGuard"
    BY <2>3, CarriesNothing DEF Goes
  <2>7. ASSUME payload' # None, ~RejectedAfterWrite'
        PROVE  Synced(payload', disk', held')
    <3>1. payload # None /\ ~RejectedAfterWrite /\ call[c].pc # "done"
      BY <1>2, <2>4, <2>6, <2>7, RejectedStays DEF Moved, EInv
    <3>2. Follows(call[c], disk, held, payload)
      BY <1>2, <2>6, <3>1, MatchedHead DEF EInv, Moved
    <3>3. Alike(call[c].write.body, payload) /\ call[c].write.key = held
      BY <1>2, <3>2 DEF Follows
    <3> QED
      BY <1>2, <2>1, <2>4, <3>3 DEF Synced, Alike
  <2>8. Matched'
    BY <1>2, <2>6, <2>7, MatchedMoved
  <2> QED
    BY <2>5, <2>8, WorkHolds
<1> QED
  BY <1>3, <1>4

LEMMA NotifyHolds == ASSUME IInv, EInv, NEW c \in Calls, Notify(c) PROVE EInv'
<1>1. Running(c, "notify") /\ UNCHANGED <<store, memory, spent>>
  BY DEF Notify
<1>2. UNCHANGED <<store, loose>> /\ <<held, payload, scope>>' = <<held, payload, scope>>
  BY <1>1 DEF memory
<1>3. call[c].pc = "notify" /\ call[c].out = "none" /\ CallsOK /\ call[c] \in CallType /\ call[c].rev \in Nat
  BY <1>1, RunsAt, RunningCall DEF EInv, Unsettled, IInv
<1>4. CASE call[c].op # "change"
  <2>1. Finish(c, "true")
    BY <1>4 DEF Notify
  <2> QED
    BY <1>1, <1>2, <2>1, SettlesQuietly DEF AtWork, Wiping, AtRisk, Outcomes
<1>5. CASE call[c].op = "change"
  <2> DEFINE k == [IdleCall EXCEPT !.op = "change", !.rev = call[c].rev, !.pc = "rekey"]
  <2>1. call' = [call EXCEPT ![c] = k] /\ lane' = Tail(lane)
    BY <1>5 DEF Notify
  <2>2. k \in CallType
    BY <1>3, IdleCallType DEF CallType, AllOps
  <2>3. k.pc = "rekey" /\ k.op = "change" /\ k.rev = call[c].rev /\ k.out = "none"
    BY DEF IdleCall
  <2> HIDE DEF k
  <2>4. Goes(c, k)
    BY <1>1, <1>5, <2>1, <2>2, <2>3 DEF Goes, Moved, Running
  <2>5. Quietly(c, k)
    BY <1>2, <1>3, <2>3, <2>4 DEF Quietly, store, AtWork, Wiping, AtRisk
  <2> QED
    BY <2>5, QuietHolds
<1> QED
  BY <1>4, <1>5

----------------------------------------------------------------------------
(* The head of the lane makes its first check.                             *)

Starts(c, k) ==
    /\ k \in CallType /\ Moved(c, k) /\ k.op = call[c].op /\ call[c].pc = "queued" /\ Unsettled(k)
    /\ k.out \notin {"wrong", "true"} \/ (k.out = "true" /\ k.op \notin {"destroy", "destroyIfEmpty"})
    /\ guard' = guard /\ (k.pc = "derive" => ~guard.shut)
    /\ (scope' = scope /\ (payload # None => payload' # None)) \/ LockNow
    /\ loose' = loose \/ k.pc \in {"read", "write"}
    /\ (k.rev = call[c].rev /\ (payload = None => payload' = None)) \/ ~Overtaken(c) \/ payload # None
    /\ k.pc \in Wiping => payload' = None /\ k.pc = "wipe"
    /\ k.op = "create" => k.rev = call[c].rev
    /\ \/ disk = None /\ payload = None => disk' = None /\ payload' = None /\ k.pc \notin AtWork \ Wiping
       \/ k.op = "create" /\ ~Overtaken(c)

LEMMA StartsHolds == ASSUME IInv, EInv, NEW c \in Calls, NEW k, Starts(c, k), Matched' PROVE EInv'
<1> USE DEF Starts
<1>1. CallsOK /\ Moved(c, k) /\ k.op = call[c].op /\ call' = [call EXCEPT ![c] = k] /\ call[c].pc = "queued"
  BY DEF IInv, Moved
<1>2. Guarded'
  <2>1. Guesses(k) => Guesses(call[c])
    BY DEF Guesses
  <2> QED
    BY <1>1, <2>1, GuardedMoved DEF EInv
<1>3. Lent'
  BY LentMoved DEF EInv, Ended, IInv, StateOK, StateType
<1>4. Kept'
  BY <1>1, KeptMoved DEF EInv, Ended
<1>5. \A d \in Calls : Awaits(d)'
  BY <1>1, AwaitsMoved DEF EInv
<1>6. \A d \in Calls : Wipes(d)'
  BY <1>1, WipesMoved
<1>7. \A d \in Calls : Gone(d)'
  BY <1>1, GoneMoved DEF EInv
<1>8. LaneOK' /\ \A d \in Calls : Unsettled(call'[d])
  BY <1>1, LaneMoved, UnsettledMoved DEF EInv
<1> QED
  BY <1>2, <1>3, <1>4, <1>5, <1>6, <1>7, <1>8 DEF EInv, Ended, Unsettled

\* A call that is refused at the start.
LEMMA RefusedHolds ==
    ASSUME IInv, EInv, NEW c \in Calls, Running(c, "queued"),
           NEW out \in {"overtaken", "rejected", "false", "true"}, Finish(c, out),
           out = "true" => call[c].op \notin {"destroy", "destroyIfEmpty"},
           UNCHANGED <<disk, guard, payload, held, scope, loose>>
    PROVE  EInv'
<1>1. PICK k : Settles(c, k, out)
  BY SettlesBy DEF Outcomes
<1>2. call[c].pc = "queued" /\ CallsOK
  BY RunsAt DEF IInv
<1>3. Moved(c, k) /\ k.pc = "done" /\ Unsettled(k)
  BY <1>1, UnsettledEnds DEF Settles, Goes
<1>4. Starts(c, k)
  BY <1>1, <1>2, <1>3 DEF Starts, Settles, Goes, Wiping, AtWork
<1>5. Matched'
  BY <1>2, <1>3, Rests DEF EInv, AtRisk
<1> QED
  BY <1>4, <1>5, StartsHolds

LEMMA StartUnlockHolds == ASSUME IInv, EInv, NEW c \in Calls, StartUnlock(c) PROVE EInv'
<1>1. Running(c, "queued") /\ UNCHANGED <<store, memory>> /\ call[c].op \in {"unlock", "change"}
  BY DEF StartUnlock
<1>2. call[c].pc = "queued" /\ call[c].out = "none" /\ CallsOK
  BY <1>1, RunsAt DEF EInv, Unsettled, IInv
<1>3. CASE Finish(c, "overtaken") \/ Finish(c, "rejected")
  BY <1>1, <1>3, RefusedHolds DEF store, memory
<1>4. CASE ~guard.shut /\ disk # None /\ Goto(c, "derive")
  <2>1. PICK k : Proceeds(c, k, "derive")
    BY <1>1, <1>4, ProceedsBy DEF AtWork
  <2>2. Unsettled(k)
    BY <1>1, <1>2, <2>1 DEF Unsettled, Proceeds, Goes, Wiping, AtWork
  <2>3. Starts(c, k)
    BY <1>1, <1>2, <1>4, <2>1, <2>2 DEF Starts, Proceeds, Goes, store, memory, Wiping, AtWork
  <2>4. Moved(c, k) /\ k.pc = "derive"
    BY <2>1 DEF Proceeds, Goes
  <2>5. Matched'
    BY <1>1, <1>2, <2>4, Rests DEF EInv, AtRisk, store, memory
  <2> QED
    BY <2>3, <2>5, StartsHolds
<1> QED
  BY <1>3, <1>4 DEF StartUnlock

LEMMA StartReEncryptHolds == ASSUME IInv, EInv, NEW c \in Calls, StartReEncrypt(c) PROVE EInv'
<1>1. Running(c, "queued") /\ UNCHANGED <<store, memory>> /\ call[c].op = "reEncrypt"
  BY DEF StartReEncrypt
<1>2. call[c].pc = "queued" /\ call[c].out = "none" /\ CallsOK
  BY <1>1, RunsAt DEF EInv, Unsettled, IInv
<1>3. CASE Finish(c, "rejected")
  BY <1>1, <1>3, RefusedHolds DEF store, memory
<1>4. CASE ~Overtaken(c) /\ payload # None /\ Goto(c, "reseal")
  <2>1. PICK k : Proceeds(c, k, "reseal")
    BY <1>1, <1>4, ProceedsBy DEF AtWork
  <2>2. Unsettled(k)
    BY <1>1, <1>2, <2>1 DEF Unsettled, Proceeds, Goes, Wiping, AtWork
  <2>3. Starts(c, k)
    BY <1>1, <1>2, <1>4, <2>1, <2>2 DEF Starts, Proceeds, Goes, store, memory, Wiping, AtWork
  <2>4. Moved(c, k) /\ k.pc = "reseal" /\ k.op = "reEncrypt"
    BY <1>1, <2>1 DEF Proceeds, Goes
  <2>5. Follows(k, disk, held, payload) /\ k.pc \notin AtRisk /\ call[c].pc \notin AtRisk
    BY <1>2, <2>4 DEF Follows, AtRisk
  <2>6. disk' = disk /\ held' = held /\ payload' = payload
    BY <1>1 DEF store, memory
  <2>7. Matched'
    BY <1>2, <2>4, <2>5, <2>6, Carried DEF EInv
  <2> QED
    BY <2>3, <2>7, StartsHolds
<1> QED
  BY <1>3, <1>4 DEF StartReEncrypt

LEMMA StartCreateHolds == ASSUME IInv, EInv, NEW c \in Calls, StartCreate(c) PROVE EInv'
<1>1. Running(c, "queued") /\ UNCHANGED <<store, memory>> /\ call[c].op = "create"
  BY DEF StartCreate
<1>2. /\ call[c].pc = "queued" /\ call[c].out = "none" /\ CallsOK /\ call[c] \in CallType
      /\ call[c].pw \in Passwords /\ call[c].acct \in Accounts \cup {None}
  BY <1>1, RunsAt, RunningCall, CallFields DEF EInv, Unsettled, IInv, Carries
<1>3. CASE Finish(c, "rejected")
  BY <1>1, <1>3, RefusedHolds DEF store, memory
<1>4. CASE ~Overtaken(c) /\ ~Finish(c, "rejected")
  <2> DEFINE w == [key |-> [pw |-> call[c].pw, strong |-> TRUE], body |-> NewBody(c)]
             k == Taking(call[c], "seal", w)
  <2>1. Continue(c, k)
    BY <1>4 DEF StartCreate, Taking
  <2>2. w \in Record
    <3>1. NewBody(c) \in Body
      BY <1>2, NewBodyType DEF IInv, StateOK, StateType
    <3>2. [pw |-> call[c].pw, strong |-> TRUE] \in Key
      BY <1>2 DEF Key
    <3> QED
      BY <3>1, <3>2, RecordMade
  <2> HIDE DEF w
  <2>3. "seal" \in AtWork
    BY DEF AtWork
  <2>4. k \in CallType /\ k.pc = "seal" /\ k.op = call[c].op /\ k.rev = call[c].rev /\ k.out = call[c].out
    BY <1>2, <2>2, <2>3, WriteTaken
  <2> HIDE DEF k
  <2>5. Moved(c, k)
    BY <1>1, <2>1, <2>3, <2>4 DEF Moved, Continue, Running
  <2>6. Unsettled(k)
    BY <1>1, <1>2, <2>4 DEF Unsettled, Wiping, AtWork
  <2>7. Starts(c, k)
    BY <1>1, <1>2, <1>4, <2>4, <2>5, <2>6 DEF Starts, store, memory, Wiping
  <2>8. Matched'
    BY <1>1, <1>2, <2>4, <2>5, Rests DEF EInv, AtRisk, store, memory
  <2> QED
    BY <2>7, <2>8, StartsHolds
<1> QED
  BY <1>3, <1>4 DEF StartCreate

\* A destroy() has locked when it was called: it finds the vault as it left it.
LEMMA StartDestroyHolds == ASSUME IInv, EInv, NEW c \in Calls, StartDestroy(c) PROVE EInv'
<1>1. Running(c, "queued") /\ UNCHANGED <<store, memory>> /\ call[c].op = "destroy" /\ Goto(c, "wipe")
  BY DEF StartDestroy
<1>2. call[c].pc = "queued" /\ call[c].out = "none" /\ CallsOK
  BY <1>1, RunsAt DEF EInv, Unsettled, IInv
<1>3. payload = None
  BY <1>1, <1>2 DEF EInv, Ended, Awaits
<1>4. PICK k : Proceeds(c, k, "wipe")
  BY <1>1, ProceedsBy DEF AtWork
<1>5. k \in CallType /\ Moved(c, k) /\ k.pc = "wipe" /\ k.op = "destroy" /\ k.rev = call[c].rev /\ k.out = "none"
  BY <1>1, <1>2, <1>4 DEF Proceeds, Goes
<1>6. Unsettled(k)
  BY <1>5 DEF Unsettled, Wiping, AtWork
<1>7. Starts(c, k)
  BY <1>1, <1>2, <1>3, <1>5, <1>6 DEF Starts, store, memory, Wiping
<1>8. Matched'
  BY <1>1, <1>2, <1>5, Rests DEF EInv, AtRisk, store, memory
<1> QED
  BY <1>7, <1>8, StartsHolds

LEMMA StartDestroyIfEmptyHolds ==
    ASSUME IInv, EInv, NEW c \in Calls, StartDestroyIfEmpty(c) PROVE EInv'
<1>1. Running(c, "queued") /\ UNCHANGED <<store, spent>> /\ call[c].op = "destroyIfEmpty"
  BY DEF StartDestroyIfEmpty
<1>2. call[c].pc = "queued" /\ call[c].out = "none" /\ CallsOK /\ call[c] \in CallType /\ revision \in Nat
  BY <1>1, RunsAt, RunningCall DEF EInv, Unsettled, IInv
<1>3. CASE Finish(c, "false") /\ UNCHANGED memory
  BY <1>1, <1>3, RefusedHolds DEF store, memory
<1>4. CASE payload # None /\ LockSession /\ Continue(c, [call[c] EXCEPT !.pc = "wipe", !.rev = revision + 1])
  <2> DEFINE r == revision + 1
             k == [call[c] EXCEPT !.pc = "wipe", !.rev = r]
  <2>1. r \in Nat /\ Continue(c, k)
    BY <1>2, <1>4
  <2> HIDE DEF r
  <2>2. k \in CallType /\ k.pc = "wipe" /\ k.op = call[c].op /\ k.out = call[c].out
    BY <1>2, <2>1 DEF CallType, AtWork
  <2> HIDE DEF k
  <2>3. "wipe" \in AtWork
    BY DEF AtWork
  <2>4. Moved(c, k)
    BY <1>1, <2>1, <2>2, <2>3 DEF Moved, Continue, Running
  <2>5. Unsettled(k)
    BY <1>1, <1>2, <2>2 DEF Unsettled, Wiping, AtWork
  <2>6. LockNow /\ loose' = loose /\ payload' = None
    BY <1>4 DEF LockSession, LockNow
  <2>7. Starts(c, k)
    BY <1>1, <1>2, <1>4, <2>2, <2>4, <2>5, <2>6 DEF Starts, store, Wiping
  <2>8. Matched'
    BY <1>2, <2>2, <2>4, <2>6, Rests DEF EInv, AtRisk
  <2> QED
    BY <2>7, <2>8, StartsHolds
<1> QED
  BY <1>3, <1>4 DEF StartDestroyIfEmpty

\* A mutation keeps the cache key, and a choice of account the secrets.
LEMMA AppliedIs ==
    ASSUME NEW c \in Calls, payload \in Body, call[c].op \in Mutations
    PROVE  Applied(c).cacheKey = payload.cacheKey /\ (call[c].op = "setActive" => Applied(c).accts = payload.accts)
<1> DEFINE a == call[c].acct
           left == Present(payload) \ {a}
           next == IF payload.active # a THEN payload.active
                   ELSE IF left = {} THEN None ELSE CHOOSE b \in left : TRUE
<1>1. CASE call[c].op \in {"add", "update"}
  BY <1>1 DEF Applied, Body
<1>2. CASE call[c].op = "setActive"
  BY <1>2 DEF Applied, Body
<1>3. CASE call[c].op = "remove"
  <2>1. Applied(c) = [payload EXCEPT !.accts[a] = "absent", !.active = next]
    BY <1>3 DEF Applied
  <2> HIDE DEF next
  <2> QED
    BY <1>3, <2>1 DEF Body
<1> QED
  BY <1>1, <1>2, <1>3 DEF Mutations

LEMMA StartMutationHolds == ASSUME IInv, EInv, NEW c \in Calls, StartMutation(c) PROVE EInv'
<1>1. Running(c, "queued") /\ UNCHANGED <<store, spent>> /\ call[c].op \in Mutations /\ revision \in Nat
  BY RunningCall DEF StartMutation
<1>2. /\ call[c].pc = "queued" /\ call[c].out = "none" /\ CallsOK /\ call[c] \in CallType /\ call[c].acct \in Accounts
      /\ call[c].op \notin {"destroy", "destroyIfEmpty", "create", "none"}
  BY <1>1, RunsAt, RunningCall, CallFields DEF EInv, Unsettled, IInv, Carries, Mutations
<1>3. CASE Overtaken(c) \/ payload = None
  <2>1. Finish(c, "rejected") /\ UNCHANGED memory
    BY <1>3 DEF StartMutation
  <2> QED
    BY <1>1, <2>1, RefusedHolds DEF store, memory
<1>4. CASE ~(Overtaken(c) \/ payload = None)
  <2> DEFINE rev == IF call[c].op \in TouchSecrets THEN revision + 1 ELSE revision
             k == [call[c] EXCEPT !.pc = "read", !.rev = rev, !.before = payload]
  <2>1. rev \in Nat
    BY <1>1
  <2>2. /\ UNCHANGED <<held, scope>>
        /\ \/ /\ \E out \in {"rejected", "true"} : Finish(c, out)
              /\ UNCHANGED <<payload, loose>>
           \/ /\ Continue(c, k) /\ payload' = Applied(c)
    BY <1>4 DEF StartMutation
  <2> HIDE DEF rev
  <2>3. payload \in Body
    BY <1>4 DEF IInv, StateOK, StateType
  <2>4. CASE UNCHANGED <<payload, loose>> /\ \E out \in {"rejected", "true"} : Finish(c, out)
    <3>1. PICK out \in {"rejected", "true"} : Finish(c, out)
      BY <2>4
    <3> QED
      BY <1>1, <1>2, <2>2, <2>4, <3>1, RefusedHolds DEF store
  <2>5. CASE Continue(c, k) /\ payload' = Applied(c)
    <3>1. payload' \in Body /\ payload' # None
      BY <1>1, <1>2, <2>3, <2>5, AppliedType, NotNone
    <3>2. k \in CallType /\ k.pc = "read" /\ k.before = payload /\ k.op = call[c].op /\ k.out = call[c].out
      BY <1>2, <2>1, <2>3 DEF CallType, AtWork
    <3>3. Continue(c, k)
      BY <2>5
    <3> HIDE DEF k
    <3>4. Moved(c, k)
      BY <1>1, <3>2, <3>3 DEF Moved, Continue, Running, AtWork
    <3>5. Unsettled(k)
      BY <1>2, <3>2 DEF Unsettled, Wiping, AtWork
    <3>6. Starts(c, k)
      BY <1>1, <1>2, <1>4, <2>2, <3>1, <3>2, <3>4, <3>5 DEF Starts, store, Wiping
    <3>7. payload'.cacheKey = payload.cacheKey /\ (k.op = "setActive" => payload'.accts = payload.accts)
      BY <1>1, <2>3, <2>5, <3>2, AppliedIs
    <3>8. ASSUME ~RejectedAfterWrite'
          PROVE  Follows(k, disk', held', payload')
      <4>1. ~RejectedAfterWrite
        BY <1>2, <3>4, <3>8, RejectedStays DEF EInv, Moved
      <4>2. Synced(payload, disk, held)
        BY <1>2, <1>4, <3>4, <4>1, MatchedHead DEF EInv, Moved, AtRisk
      <4>3. disk' = disk /\ held' = held
        BY <1>1, <2>2 DEF store
      <4> QED
        BY <3>2, <3>7, <4>2, <4>3 DEF Follows
    <3>9. k.pc # "createGuard" /\ k.pc \in AtRisk
      BY <3>2 DEF AtRisk
    <3>10. Matched'
      BY <1>2, <3>4, <3>8, <3>9, MatchedMoved
    <3> QED
      BY <3>6, <3>10, StartsHolds
  <2> QED
    BY <2>2, <2>4, <2>5
<1> QED
  BY <1>3, <1>4

----------------------------------------------------------------------------
(* The re-seal.                                                            *)

LEMMA ResealFailsIs ==
    ASSUME IInv, NEW c \in Calls, NEW p, Running(c, p), NEW wrote \in BOOLEAN, ResealFails(c, wrote)
    PROVE  \E k : /\ Leaving(c, k)
                  /\ k.op = "reEncrypt" => k.pc = "done" /\ k.out = "rejected" /\ k.wrote = wrote
<1>1. CallsOK
  BY DEF IInv
<1>2. CASE call[c].op = "reEncrypt"
  <2>1. FinishAs(c, "rejected", wrote) /\ "rejected" \in Outcomes
    BY <1>2 DEF ResealFails, Outcomes
  <2>2. PICK k \in CallType : /\ Moved(c, k) /\ k.pc = "done" /\ k.out = "rejected" /\ k.wrote = wrote
                              /\ k.op = call[c].op /\ k.rev = call[c].rev
    BY <1>1, <2>1, FinishIs
  <2> QED
    BY <2>2 DEF Leaving, Goes
<1>3. CASE call[c].op # "reEncrypt"
  <2>1. PICK k : Leaving(c, k)
    BY <1>3, AfterResealIs DEF ResealFails
  <2> QED
    BY <1>3, <2>1 DEF Leaving, Goes
<1> QED
  BY <1>2, <1>3

\* Nothing was written and nothing replaced.
LEMMA ResealFailsHolds ==
    ASSUME IInv, EInv, NEW c \in Calls, NEW p \in {"reseal", "rewrite"}, Running(c, p), ResealFails(c, FALSE),
           UNCHANGED <<store, payload, held, scope, loose>>
    PROVE  EInv'
<1> DEFINE wrote == FALSE
<1>1. wrote \in BOOLEAN /\ ResealFails(c, wrote)
  OBVIOUS
<1> HIDE DEF wrote
<1>2. PICK k : Leaving(c, k)
  BY <1>1, ResealFailsIs
<1>3. call[c].pc = p /\ call[c].out = "none"
  BY RunsAt, Kinds DEF EInv, Unsettled
<1>4. Quietly(c, k)
  BY <1>2, <1>3 DEF Quietly, Leaving, store, AtWork, Wiping, AtRisk
<1> QED
  BY <1>4, QuietHolds

LEMMA ResealHolds == ASSUME IInv, EInv, NEW c \in Calls, Reseal(c) PROVE EInv'
<1>1. Running(c, "reseal") /\ UNCHANGED <<store, memory>>
  BY DEF Reseal
<1>2. UNCHANGED <<store, payload, held, scope, loose>>
  BY <1>1 DEF memory
<1>3. CASE ResealFails(c, FALSE)
  BY <1>1, <1>2, <1>3, ResealFailsHolds
<1>4. CASE ~Overtaken(c) /\ ~ResealFails(c, FALSE)
  <2>1. /\ call[c].pc = "reseal" /\ call[c].out = "none" /\ CallsOK /\ call[c] \in CallType
        /\ call[c].pw \in Passwords /\ payload \in Body
    BY <1>1, <1>4, RunsAt, RunningCall, CallFields DEF EInv, Unsettled, IInv, Carries, InSession
  <2> DEFINE w == [key |-> [pw |-> call[c].pw, strong |-> TRUE], body |-> payload]
             k == Taking(call[c], "rewrite", w)
  <2>2. Continue(c, k)
    BY <1>4 DEF Reseal, Taking
  <2>3. w \in Record /\ w.body = payload
    <3>1. [pw |-> call[c].pw, strong |-> TRUE] \in Key
      BY <2>1 DEF Key
    <3> QED
      BY <2>1, <3>1, RecordMade
  <2> HIDE DEF w
  <2>4. "rewrite" \in AtWork
    BY DEF AtWork
  <2>5. /\ k \in CallType /\ k.pc = "rewrite" /\ k.write = w /\ k.op = call[c].op /\ k.rev = call[c].rev
        /\ k.out = call[c].out
    BY <2>1, <2>3, <2>4, WriteTaken
  <2> HIDE DEF k
  <2>6. Goes(c, k)
    BY <1>1, <2>2, <2>4, <2>5 DEF Goes, Moved, Continue, Running
  <2>7. disk' = disk /\ held' = held /\ payload' = payload /\ scope' = scope /\ loose' = loose /\ guard' = guard
    BY <1>2 DEF store
  <2>8. Works(c, k)
    BY <2>1, <2>5, <2>6, <2>7 DEF Works, AtWork, Wiping
  <2>9. Follows(call[c], disk, held, payload) => Follows(k, disk, held, payload)
    BY <2>1, <2>3, <2>5 DEF Follows, Alike
  <2>10. k.pc # "createGuard" /\ call[c].pc \notin AtRisk /\ call[c].pc # "done"
    BY <2>1, <2>5 DEF AtRisk
  <2>11. Matched'
    BY <2>1, <2>6, <2>7, <2>9, <2>10, Carried DEF EInv, Goes
  <2> QED
    BY <2>8, <2>11, WorkHolds
<1> QED
  BY <1>3, <1>4 DEF Reseal

\* The new record is there: the session goes over to its key, or the call says that it failed.
LEMMA RewriteHolds == ASSUME IInv, EInv, NEW c \in Calls, Rewrite(c) PROVE EInv'
<1>1. Running(c, "rewrite") /\ UNCHANGED <<guard, payload, scope, loose>>
  BY DEF Rewrite
<1>2. CASE ResealFails(c, FALSE) /\ UNCHANGED <<disk, held>>
  BY <1>1, <1>2, ResealFailsHolds DEF store
<1>3. CASE ~(ResealFails(c, FALSE) /\ UNCHANGED <<disk, held>>)
  <2>1. /\ call[c].pc = "rewrite" /\ call[c].out = "none" /\ CallsOK /\ call[c] \in CallType /\ call[c].write # None
        /\ lane # <<>> /\ Head(lane) = c
    BY <1>1, RunsAt, RunningCall DEF EInv, Unsettled, IInv, Carries
  <2>2. disk' = call[c].write
    BY <1>3 DEF Rewrite
  <2>3. \E k : /\ Goes(c, k) /\ k.pc \in {"done", "mint", "notify"} /\ k.out # "wrong" /\ (k.pc # "done" => k.out = call[c].out)
               /\ \/ held' = call[c].write.key
                  \/ held' = held /\ (k.op = "reEncrypt" => k.wrote /\ k.out = "rejected")
    <3> DEFINE wrote == TRUE
    <3>0. wrote \in BOOLEAN /\ "true" \in Outcomes
      BY DEF Outcomes
    <3>w. wrote
      OBVIOUS
    <3>1. CASE Overtaken(c)
      <4>1. ResealFails(c, wrote) /\ held' = held
        BY <1>3, <3>1 DEF Rewrite
      <4> HIDE DEF wrote
      <4>2. PICK k : Leaving(c, k) /\ (k.op = "reEncrypt" => k.pc = "done" /\ k.out = "rejected" /\ k.wrote = wrote)
        BY <1>1, <3>0, <4>1, ResealFailsIs
      <4> QED
        BY <2>1, <3>w, <4>1, <4>2 DEF Leaving
    <3>2. CASE ~Overtaken(c)
      <4>1. held' = call[c].write.key /\ (FinishAs(c, "true", wrote) \/ AfterReseal(c))
        BY <1>3, <3>2 DEF Rewrite
      <4> HIDE DEF wrote
      <4>2. CASE FinishAs(c, "true", wrote)
        <5>1. PICK k \in CallType : /\ Moved(c, k) /\ k.pc = "done" /\ k.out = "true"
                                    /\ k.op = call[c].op /\ k.rev = call[c].rev
          BY <1>1, <2>1, <3>0, <4>2, FinishIs
        <5> QED
          BY <4>1, <5>1 DEF Goes
      <4>3. CASE AfterReseal(c)
        <5>1. PICK k : Leaving(c, k)
          BY <1>1, <4>3, AfterResealIs
        <5> QED
          BY <2>1, <4>1, <5>1 DEF Leaving
      <4> QED
        BY <4>1, <4>2, <4>3
    <3> QED
      BY <3>1, <3>2
  <2>4. PICK k : /\ Goes(c, k) /\ k.pc \in {"done", "mint", "notify"} /\ k.out # "wrong" /\ (k.pc # "done" => k.out = call[c].out)
                 /\ \/ held' = call[c].write.key
                    \/ held' = held /\ (k.op = "reEncrypt" => k.wrote /\ k.out = "rejected")
    BY <2>3
  <2>5. Works(c, k)
    BY <1>1, <2>1, <2>4 DEF Works, AtWork, Wiping
  <2>6. Moved(c, k) /\ k.op = call[c].op /\ Follows(k, disk', held', payload') /\ k.pc # "createGuard"
    BY <2>4, CarriesNothing DEF Goes
  <2>7. ASSUME payload' # None, ~RejectedAfterWrite'
        PROVE  Synced(payload', disk', held')
    <3>1. payload # None /\ ~RejectedAfterWrite /\ payload' = payload
      BY <1>1, <2>1, <2>6, <2>7, RejectedStays DEF Moved, EInv
    <3>2. Follows(call[c], disk, held, payload)
      BY <2>1, <3>1, MatchedHead DEF EInv
    <3>3. Alike(call[c].write.body, payload) /\ (call[c].op # "reEncrypt" => ~held.strong)
      BY <2>1, <3>2 DEF Follows
    <3>4. held' = call[c].write.key \/ (held' = held /\ k.op # "reEncrypt")
      <4>1. call'[c] = k
        BY <2>1, <2>6, MovedIs
      <4> QED
        BY <2>4, <2>7, <4>1 DEF RejectedAfterWrite
    <3> QED
      BY <2>1, <2>2, <2>6, <3>1, <3>3, <3>4 DEF Synced, Alike
  <2>8. Matched'
    BY <2>1, <2>6, <2>7, MatchedMoved
  <2> QED
    BY <2>5, <2>8, WorkHolds
<1> QED
  BY <1>2, <1>3

----------------------------------------------------------------------------
(* create().                                                               *)

LEMMA SealHolds == ASSUME IInv, EInv, NEW c \in Calls, Seal(c) PROVE EInv'
<1>1. Running(c, "seal") /\ UNCHANGED <<store, memory>>
  BY DEF Seal
<1>2. CASE Finish(c, "rejected")
  BY <1>1, <1>2, SettlesQuietly DEF AtWork, Wiping, AtRisk, Outcomes, store, memory
<1>3. CASE Goto(c, "createWrite")
  BY <1>1, <1>3, ProceedsQuietly DEF AtWork, Wiping, AtRisk
<1> QED
  BY <1>2, <1>3 DEF Seal

\* Between the write and the guard the open session, if there is one, is an earlier vault's.
LEMMA CreateWriteHolds == ASSUME IInv, EInv, NEW c \in Calls, CreateWrite(c) PROVE EInv'
<1>1. Running(c, "createWrite") /\ UNCHANGED <<guard, memory>>
  BY DEF CreateWrite
<1>2. call[c].pc = "createWrite" /\ call[c].out = "none" /\ CallsOK /\ call[c] \in CallType
  BY <1>1, RunsAt, RunningCall DEF EInv, Unsettled, IInv
<1>3. CASE Finish(c, "rejected") /\ UNCHANGED disk
  BY <1>1, <1>3, SettlesQuietly DEF AtWork, Wiping, AtRisk, Outcomes, store, memory
<1>4. CASE disk' = call[c].write /\ Continue(c, [call[c] EXCEPT !.pc = "createGuard", !.wrote = TRUE])
  <2> DEFINE k == [call[c] EXCEPT !.pc = "createGuard", !.wrote = TRUE]
  <2>1. Continue(c, k)
    BY <1>4
  <2>2. /\ k \in CallType /\ k.pc = "createGuard" /\ k.op = call[c].op /\ k.rev = call[c].rev
        /\ k.out = call[c].out /\ k.write = call[c].write
    BY <1>2 DEF CallType, AtWork
  <2>3. k.wrote
    BY <1>2, Zenon DEF CallType
  <2> HIDE DEF k
  <2>4. Goes(c, k)
    BY <1>1, <2>1, <2>2 DEF Goes, Moved, Continue, Running, AtWork
  <2>5. held' = held /\ payload' = payload /\ scope' = scope /\ loose' = loose /\ guard' = guard
    BY <1>1 DEF memory
  <2>6. Works(c, k)
    BY <1>2, <2>2, <2>4, <2>5 DEF Works, AtWork, Wiping
  <2>7. Moved(c, k) /\ k.pc \in AtRisk /\ Follows(k, disk', held', payload') /\ disk' = k.write
    BY <1>4, <2>2, <2>4 DEF Goes, AtRisk, Follows
  <2>8. Matched'
    BY <1>2, <2>3, <2>7, MatchedMoved
  <2> QED
    BY <2>6, <2>8, WorkHolds
<1> QED
  BY <1>3, <1>4 DEF CreateWrite

\* The new session is what was written, or the old one is left beside a record that is not its own.
LEMMA CreateGuardHolds == ASSUME IInv, EInv, NEW c \in Calls, CreateGuard(c) PROVE EInv'
<1>1. Running(c, "createGuard") /\ UNCHANGED disk /\ (guard'.shut => guard.shut)
  BY DEF CreateGuard, FreshGuard
<1>2. /\ call[c].pc = "createGuard" /\ call[c].out = "none" /\ CallsOK /\ call[c] \in CallType
      /\ call[c].write \in Record /\ call[c].op = "create"
  BY <1>1, RunsAt, RunningCall, CallFields DEF EInv, Unsettled, IInv, Carries
<1>3. disk = call[c].write /\ call[c].wrote
  BY <1>2 DEF EInv, Matched
<1>4. CASE Finish(c, "rejected") /\ UNCHANGED memory
  <2>1. PICK k : Settles(c, k, "rejected") /\ k.wrote = call[c].wrote
    BY <1>1, <1>4, SettlesBy DEF Outcomes
  <2>2. Goes(c, k) /\ Moved(c, k) /\ k.pc = "done" /\ k.out = "rejected" /\ k.op = "create"
    BY <1>2, <2>1 DEF Settles, Goes
  <2>3. held' = held /\ payload' = payload /\ scope' = scope /\ loose' = loose
    BY <1>4 DEF memory
  <2>4. Works(c, k)
    BY <1>1, <1>2, <2>2, <2>3 DEF Works, AtWork, Wiping
  <2>5. RejectedAfterWrite'
    <3>1. call'[c] = k
      BY <1>2, <2>2, MovedIs
    <3> QED
      BY <1>3, <2>1, <2>2, <3>1 DEF RejectedAfterWrite
  <2>6. Matched'
    BY <1>2, <2>2, <2>5, MatchedMoved
  <2> QED
    BY <2>4, <2>6, WorkHolds
<1>5. CASE ~Overtaken(c) /\ Install(c, call[c].write.body, call[c].write.key) /\ Goto(c, "restore")
  <2>1. PICK k : Proceeds(c, k, "restore")
    BY <1>1, <1>5, ProceedsBy DEF AtWork
  <2>2. Goes(c, k) /\ Moved(c, k) /\ k.pc = "restore" /\ k.out = "none"
    BY <1>2, <2>1 DEF Proceeds, Goes
  <2>3. call[c].write.body \in Body /\ call[c].write.key \in Key /\ call[c].write # None
    BY <1>2, RecordFields, NotNone
  <2>4. payload' = call[c].write.body /\ held' = call[c].write.key /\ scope' = scope /\ loose' = loose /\ payload' # None
    BY <1>5, <2>3, NotNone DEF Install
  <2>5. Works(c, k)
    BY <1>1, <1>2, <1>5, <2>2, <2>4 DEF Works, AtWork, Wiping
  <2>6. Synced(payload', disk', held')
    BY <1>1, <1>3, <2>3, <2>4 DEF Synced
  <2>7. Matched'
    BY <1>2, <2>2, <2>6, CarriesNothing, MatchedMoved
  <2> QED
    BY <2>5, <2>7, WorkHolds
<1> QED
  BY <1>4, <1>5 DEF CreateGuard

----------------------------------------------------------------------------
(* The two destroys.                                                       *)

\* A destroy() goes on over a vault it has locked.
Destroys(c, k) ==
    /\ Goes(c, k) /\ call[c].pc \in Wiping /\ k.pc \in {"wipeGuard", "listeners", "done"}
    /\ payload' = None /\ loose' = loose
    /\ scope' = scope \/ LockNow
    /\ disk' = None \/ (disk' = disk /\ k.out # "true")
    /\ guard'.shut => guard.shut
    /\ k.pc # "done" => disk' = None /\ k.out = "none"
    /\ k.out # "wrong"

LEMMA DestroysHolds == ASSUME IInv, EInv, NEW c \in Calls, NEW k, Destroys(c, k) PROVE EInv'
<1> USE DEF Destroys
<1>1. /\ CallsOK /\ Moved(c, k) /\ k.op = call[c].op /\ k.rev = call[c].rev /\ call' = [call EXCEPT ![c] = k]
      /\ call[c].pc # "done" /\ call[c].pc \notin {"read", "write"}
  BY DEF IInv, Goes, Moved, Wiping
<1>2. payload = None /\ k.op \in {"destroy", "destroyIfEmpty"}
  BY <1>1 DEF EInv, Ended, Wipes, Unsettled
<1>3. Unsettled(k)
  BY <1>2 DEF Unsettled, Wiping, AtWork
<1>4. Guarded'
  <2>1. ~Guesses(k) /\ k.pc # "derive"
    BY <1>2 DEF Guesses
  <2> QED
    BY <1>1, <2>1, GuardedMoved DEF EInv
<1>5. Lent' /\ Kept'
  BY <1>1, <1>2, LentMoved, KeptMoved DEF EInv, Ended, IInv, StateOK, StateType
<1>6. \A d \in Calls : Awaits(d)'
  BY <1>1, AwaitsMoved DEF EInv
<1>7. \A d \in Calls : Wipes(d)'
  BY <1>1, WipesMoved DEF Wiping
<1>8. \A d \in Calls : Gone(d)'
  <2>1. k.pc \notin AtWork \ Wiping
    BY DEF Wiping, AtWork
  <2>2. k.op # "create"
    BY <1>2
  <2> QED
    BY <1>1, <2>1, <2>2, GoneMoved DEF EInv
<1>9. Matched'
  BY <1>1, Rests DEF EInv, Wiping, AtRisk
<1>10. LaneOK' /\ \A d \in Calls : Unsettled(call'[d])
  BY <1>1, <1>3, LaneMoved, UnsettledMoved DEF EInv
<1> QED
  BY <1>4, <1>5, <1>6, <1>7, <1>8, <1>9, <1>10 DEF EInv, Ended, Unsettled

LEMMA WipesOut ==
    ASSUME IInv, EInv, NEW c \in Calls, NEW p \in Wiping, Running(c, p), Finish(c, "rejected"),
           UNCHANGED <<store, payload, scope, loose>>
    PROVE  EInv'
<1>1. PICK k : Settles(c, k, "rejected")
  BY SettlesBy DEF Outcomes
<1>2. call[c].pc = p /\ payload = None
  BY RunsAt DEF EInv, Ended, Wipes
<1>3. Destroys(c, k)
  BY <1>1, <1>2 DEF Destroys, Settles, store
<1> QED
  BY <1>3, DestroysHolds

LEMMA WipeHolds == ASSUME IInv, EInv, NEW c \in Calls, Wipe(c) PROVE EInv'
<1>1. Running(c, "wipe") /\ UNCHANGED <<guard, memory>>
  BY DEF Wipe
<1>2. call[c].pc = "wipe" /\ call[c].out = "none" /\ payload = None
  BY <1>1, RunsAt DEF EInv, Unsettled, Ended, Wipes, Wiping
<1>3. CASE Finish(c, "rejected") /\ UNCHANGED disk
  BY <1>1, <1>3, WipesOut DEF Wiping, store, memory
<1>4. CASE disk' = None /\ Goto(c, "wipeGuard")
  <2>1. PICK k : Proceeds(c, k, "wipeGuard")
    BY <1>1, <1>4, ProceedsBy DEF AtWork
  <2>2. Destroys(c, k)
    BY <1>1, <1>2, <1>4, <2>1 DEF Destroys, Proceeds, memory, Wiping
  <2> QED
    BY <2>2, DestroysHolds
<1> QED
  BY <1>3, <1>4 DEF Wipe

LEMMA WipeGuardHolds == ASSUME IInv, EInv, NEW c \in Calls, WipeGuard(c) PROVE EInv'
<1>1. Running(c, "wipeGuard") /\ UNCHANGED <<disk, memory>> /\ (guard'.shut => guard.shut)
  BY DEF WipeGuard, FreshGuard
<1>2. call[c].pc = "wipeGuard" /\ call[c].out = "none" /\ payload = None /\ disk = None
  BY <1>1, RunsAt DEF EInv, Unsettled, Ended, Wipes, Wiping
<1>3. CASE Finish(c, "rejected") /\ UNCHANGED guard
  BY <1>1, <1>3, WipesOut DEF Wiping, store, memory
<1>4. CASE Goto(c, "listeners")
  <2>1. PICK k : Proceeds(c, k, "listeners")
    BY <1>1, <1>4, ProceedsBy DEF AtWork
  <2>2. Destroys(c, k)
    BY <1>1, <1>2, <2>1 DEF Destroys, Proceeds, memory, Wiping
  <2> QED
    BY <2>2, DestroysHolds
<1> QED
  BY <1>3, <1>4 DEF WipeGuard

LEMMA DestroyedHolds == ASSUME IInv, EInv, NEW c \in Calls, Destroyed(c) PROVE EInv'
<1>1. Running(c, "listeners") /\ Finish(c, "true") /\ LockNow /\ UNCHANGED <<store, loose>>
  BY DEF Destroyed
<1>2. call[c].pc = "listeners" /\ disk = None
  BY <1>1, RunsAt DEF EInv, Ended, Wipes, Wiping
<1>3. PICK k : Settles(c, k, "true")
  BY <1>1, SettlesBy DEF Outcomes
<1>4. Destroys(c, k)
  BY <1>1, <1>2, <1>3 DEF Destroys, Settles, store, Wiping, LockNow
<1> QED
  BY <1>4, DestroysHolds

----------------------------------------------------------------------------
(* The mutations.                                                          *)

\* An undo puts back what is stored.
LEMMA MutationFailsHolds ==
    ASSUME IInv, EInv, NEW c \in Calls, NEW p \in {"read", "write"}, Running(c, p), MutationFails(c)
    PROVE  EInv'
<1>1. /\ Finish(c, "rejected") /\ loose' = {}
      /\ UNCHANGED <<disk, guard, held, scope>>
  BY DEF MutationFails
<1>2. call[c].pc = p /\ CallsOK /\ call[c] \in CallType /\ call[c].before \in Body
  BY RunsAt, RunningCall, CallFields DEF IInv, Carries
<1>3. PICK k : Settles(c, k, "rejected")
  BY <1>1, SettlesBy DEF Outcomes
<1>4. Goes(c, k) /\ Moved(c, k) /\ k.pc = "done" /\ k.out = "rejected"
  BY <1>3 DEF Settles, Goes
<1> DEFINE sel == IF SelectionCleared(c) THEN None ELSE call[c].before.active
           undone == [call[c].before EXCEPT !.active = sel]
<1>5. \/ payload' = payload /\ (payload = None \/ call[c].op = "setActive")
      \/ payload # None /\ payload' = undone
  BY DEF MutationFails
<1> HIDE DEF sel
<1>6. undone.accts = call[c].before.accts /\ undone.cacheKey = call[c].before.cacheKey
  BY <1>2 DEF Body
<1>7. undone # None
  <2>1. sel \in Accounts \cup {None}
    BY <1>2 DEF sel, Body
  <2>2. undone \in Body
    BY <1>2, <2>1 DEF Body
  <2> QED
    BY <2>2, NotNone
<1> HIDE DEF undone
<1>8. payload = None <=> payload' = None
  BY <1>5, <1>7
<1>9. Works(c, k)
  BY <1>1, <1>2, <1>4, <1>8 DEF Works, AtWork, Wiping
<1>10. ASSUME payload' # None, ~RejectedAfterWrite'
       PROVE  Synced(payload', disk', held')
  <2>1. payload # None /\ ~RejectedAfterWrite
    BY <1>2, <1>4, <1>8, <1>10, RejectedStays DEF Moved, EInv
  <2>2. Follows(call[c], disk, held, payload)
    BY <1>2, <1>4, <2>1, MatchedHead DEF EInv, Moved
  <2>3. /\ Synced(call[c].before, disk, held) /\ payload.cacheKey = call[c].before.cacheKey
        /\ call[c].op = "setActive" => payload.accts = call[c].before.accts
    BY <1>2, <2>2 DEF Follows
  <2>4. payload'.accts = call[c].before.accts /\ payload'.cacheKey = call[c].before.cacheKey
    BY <1>5, <1>6, <2>1, <2>3
  <2> QED
    BY <1>1, <2>3, <2>4 DEF Synced
<1>11. Matched'
  BY <1>2, <1>4, <1>10, CarriesNothing, MatchedMoved
<1> QED
  BY <1>9, <1>11, WorkHolds

LEMMA MutationReadHolds == ASSUME IInv, EInv, NEW c \in Calls, MutationRead(c) PROVE EInv'
<1>1. Running(c, "read")
  BY DEF MutationRead
<1>2. CASE MutationFails(c)
  BY <1>1, <1>2, MutationFailsHolds
<1>3. CASE ~MutationFails(c)
  <2> DEFINE w == [key |-> held, body |-> payload]
             k == Taking(call[c], "write", w)
  <2>1. ~Overtaken(c) /\ Continue(c, k) /\ UNCHANGED <<store, memory, spent>>
    BY <1>3 DEF MutationRead, Taking
  <2>2. w \in Record /\ w.key = held /\ w.body = payload
    BY <1>1, <2>1, RunningCall, RecordMade DEF InSession
  <2> HIDE DEF w
  <2>3. "write" \in AtWork /\ call[c] \in CallType /\ call[c].pc = "read" /\ CallsOK
    BY <1>1, RunningCall DEF AtWork, IInv
  <2>4. /\ k \in CallType /\ k.pc = "write" /\ k.write = w /\ k.op = call[c].op
        /\ k.rev = call[c].rev /\ k.out = call[c].out /\ k.before = call[c].before
    BY <2>2, <2>3, WriteTaken
  <2> HIDE DEF k
  <2>5. Goes(c, k)
    BY <1>1, <2>1, <2>3, <2>4 DEF Goes, Moved, Continue, Running
  <2>6. disk' = disk /\ held' = held /\ payload' = payload /\ scope' = scope /\ loose' = loose /\ guard' = guard
    BY <2>1 DEF store, memory
  <2>7. call[c].out = "none"
    BY <2>3 DEF EInv, Unsettled
  <2>8. Works(c, k)
    BY <2>3, <2>4, <2>5, <2>6, <2>7 DEF Works, AtWork, Wiping
  <2>9. Follows(call[c], disk, held, payload) => Follows(k, disk, held, payload)
    BY <2>2, <2>3, <2>4 DEF Follows, Alike
  <2>10. k.pc # "createGuard" /\ k.pc \in AtRisk /\ call[c].pc # "done" /\ Moved(c, k)
    BY <2>3, <2>4, <2>5 DEF AtRisk, Goes
  <2>11. Matched'
    BY <2>3, <2>6, <2>9, <2>10, Carried DEF EInv
  <2> QED
    BY <2>8, <2>11, WorkHolds
<1> QED
  BY <1>2, <1>3

LEMMA MutationWriteHolds == ASSUME IInv, EInv, NEW c \in Calls, MutationWrite(c) PROVE EInv'
<1>1. Running(c, "write")
  BY DEF MutationWrite
<1>2. CASE MutationFails(c)
  BY <1>1, <1>2, MutationFailsHolds
<1>3. CASE ~MutationFails(c)
  <2> DEFINE wrote == TRUE
  <2>1. /\ disk' = call[c].write /\ loose' = {} /\ FinishAs(c, "true", wrote)
        /\ guard' = guard /\ payload' = payload /\ held' = held /\ scope' = scope
        /\ wrote \in BOOLEAN /\ "true" \in Outcomes
    BY <1>3 DEF MutationWrite, Outcomes
  <2> HIDE DEF wrote
  <2>2. call[c].pc = "write" /\ CallsOK /\ call[c].write # None
    BY <1>1, RunningCall DEF IInv, Carries
  <2>3. PICK k \in CallType : /\ Moved(c, k) /\ k.pc = "done" /\ k.out = "true"
                              /\ k.op = call[c].op /\ k.rev = call[c].rev
    BY <1>1, <2>1, <2>2, FinishIs
  <2>4. Works(c, k)
    BY <2>1, <2>2, <2>3 DEF Works, Goes, AtWork, Wiping
  <2>5. ASSUME payload' # None, ~RejectedAfterWrite'
        PROVE  Synced(payload', disk', held')
    <3>1. payload # None /\ ~RejectedAfterWrite
      BY <2>1, <2>2, <2>3, <2>5, RejectedStays DEF Moved, EInv
    <3>2. Follows(call[c], disk, held, payload)
      BY <2>2, <2>3, <3>1, MatchedHead DEF EInv, Moved
    <3>3. Alike(call[c].write.body, payload) /\ call[c].write.key = held
      BY <2>2, <3>2 DEF Follows
    <3> QED
      BY <2>1, <2>2, <3>3 DEF Synced, Alike
  <2>6. Matched'
    BY <2>2, <2>3, <2>5, CarriesNothing, MatchedMoved
  <2> QED
    BY <2>4, <2>6, WorkHolds
<1> QED
  BY <1>2, <1>3

----------------------------------------------------------------------------
(* Calls are made.                                                         *)

LEMMA EnqueueHolds ==
    ASSUME IInv, EInv, NEW c \in Calls, NEW op \in AllOps, NEW a, NEW p, NEW r, Enqueue(c, op, a, p, r),
           loose' = loose, UNCHANGED <<scope, payload, held>> \/ LockNow,
           op = "destroy" => LockNow /\ r = revision + 1
    PROVE  EInv'
<1> DEFINE k == [IdleCall EXCEPT !.op = op, !.acct = a, !.pw = p, !.rev = r, !.pc = "queued"]
<1>1. /\ call' = [call EXCEPT ![c] = k] /\ lane' = Append(lane, c) /\ UNCHANGED <<disk, guard>>
      /\ call[c].pc = "idle"
  BY DEF Enqueue, store
<1>2. k.pc = "queued" /\ k.rev = r /\ k.op = op /\ k.out = "none"
  BY DEF IdleCall
<1> HIDE DEF k
<1>3. op # "none"
  BY DEF AllOps
<1>4. Entered(c, k)
  BY <1>1, <1>2, <1>3 DEF Entered
<1>5. k.op = "destroy" => payload' = None /\ k.rev = revision + 1
  BY <1>2 DEF LockNow
<1> QED
  BY <1>1, <1>2, <1>4, <1>5, EnteredHolds

LEMMA IssueHolds == ASSUME IInv, EInv, NEW c \in Calls, Issue(c) PROVE EInv'
<1>1. CASE IssueCreate(c)
  <2>1. PICK a, p : Enqueue(c, "create", a, p, revision + 1)
    BY <1>1 DEF IssueCreate
  <2>2. UNCHANGED <<scope, payload, held, loose>>
    BY <1>1 DEF IssueCreate
  <2> QED
    BY <2>1, <2>2, EnqueueHolds DEF AllOps
<1>2. CASE IssueDestroy(c)
  <2>1. Enqueue(c, "destroy", None, None, revision + 1) /\ LockNow /\ loose' = loose
    BY <1>2 DEF IssueDestroy, LockSession
  <2> QED
    BY <2>1, EnqueueHolds DEF AllOps
<1>3. ASSUME NEW op \in AllOps \ {"destroy"}, NEW a, NEW p, Enqueue(c, op, a, p, revision), UNCHANGED memory
      PROVE  EInv'
  BY <1>3, EnqueueHolds DEF memory
<1>4. CASE IssueUnlock(c)
  <2>1. PICK op \in {"unlock", "change"}, p \in scene.passwords :
             Enqueue(c, op, None, p, revision) /\ UNCHANGED memory
    BY <1>4 DEF IssueUnlock
  <2> QED
    BY <1>3, <2>1 DEF AllOps
<1>5. CASE IssueReEncrypt(c)
  <2>1. PICK p : Enqueue(c, "reEncrypt", None, p, revision) /\ UNCHANGED memory
    BY <1>5 DEF IssueReEncrypt
  <2> QED
    BY <1>3, <2>1 DEF AllOps
<1>6. CASE IssueOther(c)
  <2>1. PICK op \in {"add", "remove", "update", "setActive", "destroyIfEmpty"}, a \in scene.accounts :
             Enqueue(c, op, a, None, revision) /\ UNCHANGED memory
    BY <1>6 DEF IssueOther
  <2> QED
    BY <1>3, <2>1 DEF AllOps
<1> QED
  BY <1>1, <1>2, <1>4, <1>5, <1>6 DEF Issue

LEMMA RekeyHolds == ASSUME IInv, EInv, NEW c \in Calls, Rekey(c) PROVE EInv'
<1>1. call[c].pc = "rekey" /\ UNCHANGED <<store, memory, spent>> /\ call[c] \in CallType
  BY DEF Rekey, IInv, CallsOK
<1>2. UNCHANGED <<disk, guard, loose>> /\ UNCHANGED <<scope, payload, held>>
  BY <1>1 DEF store, memory
<1>3. call[c].op = "change"
  BY <1>1 DEF EInv, Unsettled
<1>4. CASE payload = None
  <2> DEFINE k == [call[c] EXCEPT !.pc = "done", !.out = "rejected"]
  <2>1. call' = [call EXCEPT ![c] = k] /\ lane' = lane
    BY <1>4 DEF Rekey, Continue
  <2>2. k.pc = "done" /\ k.out = "rejected" /\ k.op = "change"
    BY <1>1, <1>3 DEF CallType
  <2> HIDE DEF k
  <2>3. Entered(c, k)
    BY <1>1, <2>1, <2>2 DEF Entered
  <2> QED
    BY <1>2, <2>2, <2>3, EnteredHolds
<1>5. CASE payload # None
  <2>1. PICK p : /\ call' = [call EXCEPT ![c] = [IdleCall EXCEPT !.op = "reEncrypt", !.pw = p,
                                                   !.rev = revision, !.pc = "queued"]]
                 /\ lane' = Append(lane, c)
    BY <1>5 DEF Rekey
  <2> DEFINE k == [IdleCall EXCEPT !.op = "reEncrypt", !.pw = p, !.rev = revision, !.pc = "queued"]
  <2>2. k.pc = "queued" /\ k.op = "reEncrypt" /\ k.out = "none"
    BY DEF IdleCall
  <2>3. call' = [call EXCEPT ![c] = k]
    BY <2>1
  <2> HIDE DEF k
  <2>4. Entered(c, k)
    BY <1>1, <2>1, <2>2, <2>3 DEF Entered
  <2> QED
    BY <1>2, <2>2, <2>4, EnteredHolds
<1> QED
  BY <1>4, <1>5

----------------------------------------------------------------------------
(* What never queues.                                                      *)

LEMMA LockHolds == ASSUME IInv, EInv, Lock PROVE EInv'
<1>1. UNCHANGED <<disk, guard, lane, call, loose>> /\ LockNow
  BY DEF Lock, LockSession, store
<1> QED
  BY <1>1, StandsHolds

LEMMA ClearActiveHolds == ASSUME IInv, EInv, ClearActive PROVE EInv'
<1>1. UNCHANGED <<disk, guard, lane, call, loose, held, scope>>
  BY DEF ClearActive, store
<1>2. payload \in Body /\ payload # None /\ payload' = [payload EXCEPT !.active = None]
  BY DEF ClearActive, IInv, StateOK, StateType
<1>3. payload' \in Body /\ Alike(payload', payload)
  BY <1>2 DEF Body, Alike
<1>4. payload' # None
  BY <1>3, NotNone
<1>5. Lent'
  BY <1>1, <1>2, <1>4, LentMoved DEF EInv, Ended, IInv, StateOK, StateType
<1> QED
  BY <1>1, <1>2, <1>3, <1>4, <1>5, StandsHolds

\* A copy is lent from an open vault only, and given back before it settles.
LEMMA BeginHolds == ASSUME IInv, EInv, NEW s \in Scopes, Begin(s) PROVE EInv'
<1>1. UNCHANGED <<disk, guard, lane, call, loose, held, payload>> /\ payload # None
  BY DEF Begin, store
<1>2. Lent'
  <2>1. PICK a \in Present(payload) :
          scope' = [scope EXCEPT ![s] = [st |-> "running", acct |-> a,
                      stamp |-> payload.accts[a], rev |-> revision, live |-> TRUE]]
    BY DEF Begin
  <2>2. scope \in [Scopes -> ScopeType]
    BY DEF IInv, StateOK, StateType
  <2>3. ASSUME NEW t \in Scopes, scope'[t].live PROVE scope'[t].st = "running"
    BY <2>1, <2>2, <2>3 DEF EInv, Ended, Lent
  <2> QED
    BY <1>1, <2>3 DEF Lent
<1>3. Alike(payload', payload)
  BY <1>1 DEF Alike
<1> QED
  BY <1>1, <1>2, <1>3, StandsHolds

LEMMA EndHolds == ASSUME IInv, EInv, NEW s \in Scopes, End(s) PROVE EInv'
<1>1. UNCHANGED <<disk, guard, lane, call, loose, held, payload>>
  BY DEF End, store
<1>2. Lent'
  <2>1. scope \in [Scopes -> ScopeType]
    BY DEF IInv, StateOK, StateType
  <2> DEFINE out == IF scope[s].rev = revision THEN "returned" ELSE "voided"
  <2>2. scope' = [scope EXCEPT ![s] = [scope[s] EXCEPT !.live = FALSE, !.st = out]]
    BY DEF End
  <2> HIDE DEF out
  <2>3. ASSUME NEW t \in Scopes, t # s PROVE scope'[t] = scope[t]
    BY <2>1, <2>2, <2>3
  <2>4. ~scope'[s].live
    BY <2>1, <2>2 DEF ScopeType
  <2> QED
    BY <1>1, <2>3, <2>4 DEF EInv, Ended, Lent
<1>3. Alike(payload', payload)
  BY <1>1 DEF Alike
<1> QED
  BY <1>1, <1>2, <1>3, StandsHolds

LEMMA LockoutEndsHolds == ASSUME IInv, EInv, LockoutEnds PROVE EInv'
<1>1. UNCHANGED <<disk, lane, call, loose, held, payload, scope>>
  BY DEF LockoutEnds, memory
<1>2. guard'.failures = guard.failures /\ (guard'.shut => guard.shut)
  BY DEF LockoutEnds, IInv, StateOK, StateType
<1>3. Alike(payload', payload) /\ Lent'
  BY <1>1 DEF Alike, EInv, Ended, Lent
<1> QED
  BY <1>1, <1>2, <1>3, StandsHolds

\* A new process starts locked, with nothing in its lane.
LEMMA RestartHolds == ASSUME IInv, EInv, Restart PROVE EInv'
<1>1. payload' = None /\ loose' = {} /\ lane' = <<>> /\ disk' = disk /\ guard' = guard
  BY DEF Restart, store
<1>2. ASSUME NEW c \in Calls
      PROVE  /\ call[c].pc \in {"idle", "done"} => call'[c] = call[c]
             /\ call[c].pc \notin {"idle", "done"} => call'[c].pc = "done" /\ call'[c].out = "lost"
             /\ call'[c].op = call[c].op /\ call'[c].rev = call[c].rev
             /\ call'[c].pc \in {"idle", "done"}
  <2>1. CASE call[c].pc \in {"idle", "done"}
    BY <2>1 DEF Restart
  <2>2. CASE call[c].pc \notin {"idle", "done"}
    <3> DEFINE k == [IdleCall EXCEPT !.op = call[c].op, !.rev = call[c].rev, !.pc = "done", !.out = "lost"]
    <3>1. call'[c] = k
      BY <2>2 DEF Restart
    <3>2. k.pc = "done" /\ k.out = "lost" /\ k.op = call[c].op /\ k.rev = call[c].rev
      BY DEF IdleCall
    <3> HIDE DEF k
    <3> QED
      BY <2>2, <3>1, <3>2
  <2> QED
    BY <2>1, <2>2
<1>3. LaneOK'
  BY <1>1, <1>2 DEF LaneOK, Queued, AtWork
<1>4. \A c \in Calls : Unsettled(call'[c])
  BY <1>2 DEF EInv, Unsettled, AtWork, Wiping
<1>5. Guarded'
  <2>1. Wrong' = Wrong
    BY <1>2 DEF EInv, Unsettled, Wrong
  <2>2. (\A c \in Calls : Guesses(call'[c])) => \A c \in Calls : Guesses(call[c])
    BY <1>2 DEF Guesses
  <2>3. \A c \in Calls : call'[c].pc # "derive"
    BY <1>2
  <2> QED
    BY <1>1, <2>1, <2>2, <2>3 DEF EInv, Guarded
<1>6. Lent'
  <2>1. scope \in [Scopes -> ScopeType]
    BY DEF IInv, StateOK, StateType
  <2>2. ASSUME NEW s \in Scopes PROVE ~scope'[s].live
    <3>1. CASE scope[s].st = "running"
      <4>1. scope'[s] = [scope[s] EXCEPT !.st = "voided", !.live = FALSE]
        BY <3>1 DEF Restart
      <4> QED
        BY <2>1, <4>1 DEF ScopeType
    <3>2. CASE scope[s].st # "running"
      <4>1. scope'[s] = scope[s]
        BY <3>2 DEF Restart
      <4> QED
        BY <3>2, <4>1 DEF EInv, Ended, Lent
    <3> QED
      BY <3>1, <3>2
  <2> QED
    BY <2>2 DEF Lent
<1>7. Kept'
  BY <1>1 DEF Kept
<1>8. ASSUME NEW d \in Calls PROVE Awaits(d)' /\ Wipes(d)'
  BY <1>2 DEF Awaits, Wipes, Wiping
<1>9. ASSUME NEW d \in Calls PROVE Gone(d)'
  <2> SUFFICES ASSUME call'[d].op \in {"destroy", "destroyIfEmpty"}, call'[d].pc = "done",
                      call'[d].out = "true", Last(d)'
               PROVE  disk' = None /\ payload' = None /\ \A e \in Calls : call'[e].pc \in AtWork => call'[e].pc \in Wiping
    BY DEF Gone
  <2>1. call'[d] = call[d]
    BY <1>2
  <2>2. \A e \in Calls : call[e].op = "create" => call[e].rev < call[d].rev
    BY <1>2 DEF Last
  <2>3. disk = None
    BY <2>1, <2>2 DEF EInv, Ended, Gone, Last
  <2>4. \A e \in Calls : call'[e].pc \notin AtWork
    BY <1>2 DEF AtWork
  <2> QED
    BY <1>1, <2>3, <2>4
<1>10. Matched'
  BY <1>1, <1>2 DEF Matched
<1> QED
  BY <1>3, <1>4, <1>5, <1>6, <1>7, <1>8, <1>9, <1>10 DEF EInv, Ended, Unsettled

LEMMA StutterHolds == ASSUME IInv, EInv, UNCHANGED vars PROVE EInv'
<1>1. UNCHANGED <<disk, guard, lane, call, loose, held, payload, scope>>
  BY DEF vars
<1>2. Alike(payload', payload) /\ Lent'
  BY <1>1 DEF Alike, EInv, Ended, Lent
<1> QED
  BY <1>1, <1>2, StandsHolds

----------------------------------------------------------------------------
(* The theorems.                                                           *)

LEMMA InitHolds == ASSUME Init PROVE EInv
<1>1. /\ lane = <<>> /\ loose = {} /\ guard = FreshGuard
      /\ call = [c \in Calls |-> IdleCall] /\ scope = [s \in Scopes |-> IdleScope]
  BY DEF Init
<1>2. \A c \in Calls : /\ call[c].pc = "idle" /\ call[c].out = "none" /\ call[c].op = "none"
  BY <1>1 DEF IdleCall
<1>3. LaneOK
  BY <1>1, <1>2 DEF LaneOK, Queued, AtWork
<1>4. \A c \in Calls : Unsettled(call[c])
  BY <1>2 DEF Unsettled, AtWork, Wiping
<1>5. Guarded
  <2>1. Wrong = {}
    BY <1>2 DEF Wrong
  <2>2. guard.failures = 0 /\ \A c \in Calls : call[c].pc # "derive"
    BY <1>1, <1>2 DEF FreshGuard
  <2> QED
    BY <2>1, <2>2, FS_EmptySet DEF Guarded
<1>6. Ended
  <2>1. \A s \in Scopes : ~scope[s].live
    BY <1>1 DEF IdleScope
  <2> QED
    BY <1>1, <1>2, <2>1 DEF Ended, Lent, Kept, Awaits, Wipes, Wiping, Gone
<1>7. Matched
  <2>1. payload # None => Synced(payload, disk, held)
    BY DEF Init, Synced
  <2>2. \A c \in Calls : Follows(call[c], disk, held, payload) /\ call[c].pc # "createGuard"
    BY <1>2 DEF Follows
  <2> QED
    BY <2>1, <2>2 DEF Matched
<1> QED
  BY <1>3, <1>4, <1>5, <1>6, <1>7 DEF EInv

LEMMA NextHolds == ASSUME IInv, EInv, [Next]_vars PROVE EInv'
<1>1. ASSUME NEW c \in Calls, Work(c) PROVE EInv'
  <2>1. CASE UnlockStep(c)
    BY <2>1, StartUnlockHolds, DeriveWrongHolds, ChargeGuardHolds, DeriveRightHolds,
       ClearGuardHolds, RestoreHolds, MintReadHolds, MintWriteHolds, NotifyHolds
       DEF UnlockStep
  <2>2. CASE Rekey(c)
    BY <2>2, RekeyHolds
  <2>3. CASE ResealStep(c)
    BY <2>3, StartReEncryptHolds, ResealHolds, RewriteHolds DEF ResealStep
  <2>4. CASE CreateStep(c)
    BY <2>4, StartCreateHolds, SealHolds, CreateWriteHolds, CreateGuardHolds DEF CreateStep
  <2>5. CASE DestroyStep(c)
    BY <2>5, StartDestroyHolds, StartDestroyIfEmptyHolds, WipeHolds, WipeGuardHolds,
       DestroyedHolds DEF DestroyStep
  <2>6. CASE MutateStep(c)
    BY <2>6, StartMutationHolds, MutationReadHolds, MutationWriteHolds DEF MutateStep
  <2> QED
    BY <1>1, <2>1, <2>2, <2>3, <2>4, <2>5, <2>6 DEF Work
<1>2. ASSUME NEW c \in Calls, Issue(c) PROVE EInv'
  BY <1>2, IssueHolds
<1>3. ASSUME NEW s \in Scopes, Begin(s) \/ End(s) PROVE EInv'
  BY <1>3, BeginHolds, EndHolds
<1>4. CASE Lock \/ ClearActive \/ LockoutEnds \/ Restart
  BY <1>4, LockHolds, ClearActiveHolds, LockoutEndsHolds, RestartHolds
<1>5. CASE UNCHANGED vars
  BY <1>5, StutterHolds
<1> QED
  BY <1>1, <1>2, <1>3, <1>4, <1>5 DEF Next

\* The order of the lane, and what each call in it carries of the session and the record,
\* hold throughout every behaviour of the vault.
THEOREM SessionInvariant == Spec => []EInv
<1>1. Init => EInv
  BY InitHolds
<1>2. IInv /\ EInv /\ [Next]_vars => EInv'
  BY NextHolds
<1> QED
  BY <1>1, <1>2, VaultInvariant, PTL DEF Spec

\* The guard of guard.ts: while a lockout runs no password is stretched, and every wrong one
\* is counted, however the attempts interleave with locks.
THEOREM GuardAlwaysHolds == Spec => []GuardHolds
<1>1. EInv => GuardHolds
  <2> SUFFICES ASSUME EInv PROVE GuardHolds
    OBVIOUS
  <2>1. (\A c \in Calls : /\ call[c].op \in {"none", "unlock", "change"}
                          /\ \/ call[c].pc \in {"idle", "queued", "derive", "charge"}
                             \/ call[c].out = "wrong") => \A c \in Calls : Guesses(call[c])
    BY DEF Guesses
  <2> QED
    BY <2>1 DEF EInv, Guarded, Wrong, GuardHolds
<1> QED
  BY <1>1, SessionInvariant, PTL

\* lock() leaves no readable copy, a drained lane no detached secret, and a destroy() that
\* resolved neither a record nor a session, unless a later create() made them.
THEOREM NothingLeftBehind == Spec => []EndedIsGone
<1>1. EInv => EndedIsGone
  BY DEF EInv, Ended, Lent, Kept, Gone, Last, Idle, EndedIsGone
<1> QED
  BY <1>1, SessionInvariant, PTL

\* With the lane drained, an open session is the stored record: the held key opens it and the
\* payload has its secrets, unless a call reported a failure after its write had landed.
THEOREM SessionIsTheRecord == Spec => []SessionMatchesRecord
<1>1. EInv => SessionMatchesRecord
  <2> SUFFICES ASSUME EInv, payload # None, Idle, ~RejectedAfterWrite, held.strong,
                      disk # None => disk.body.cacheKey # "absent"
               PROVE  /\ disk # None /\ held = disk.key
                      /\ payload.accts = disk.body.accts /\ payload.cacheKey = disk.body.cacheKey
    BY DEF SessionMatchesRecord
  <2>1. \A c \in Calls : call[c].pc \notin AtRisk
    BY Kinds DEF EInv, LaneOK, Idle
  <2>2. Synced(payload, disk, held)
    BY <2>1 DEF EInv, Matched
  <2> QED
    BY <2>2 DEF Synced
<1> QED
  BY <1>1, SessionInvariant, PTL

----------------------------------------------------------------------------
(* What is reported is so: over IInv and EInv, what a running callback     *)
(* borrowed, what a mutation would undo, and what unlock() stands on.      *)

Borrowed(s) == payload.accts[scope[s].acct] = scope[s].stamp
\* A callback that would still be answered works on a secret of the open vault.
Copy(s) ==
    scope[s].st = "running" =>
        /\ scope[s].rev <= revision
        /\ scope[s].rev = revision =>
             /\ scope[s].live /\ payload # None
             /\ scope[s].acct \in Accounts /\ scope[s].stamp # "absent"
             /\ Borrowed(s) \/ Overruled(s)

\* A mutation between its application and its save keeps what it was applied to.
Brings(c, k) == CASE k.op \in {"add", "update"} -> [k.before.accts EXCEPT ![k.acct] = c]
                  [] k.op = "remove"            -> [k.before.accts EXCEPT ![k.acct] = "absent"]
                  [] OTHER                      -> k.before.accts
Undoes(c, k, P) == k.pc \in {"read", "write"} => /\ k.op \in Mutations
                                                 /\ P # None => P.accts = Brings(c, k)

\* An unlock() past its installation: the record D reproduces the session, but for a cache
\* key that is minted and not saved yet.
Opens == {"unlock", "change"}
Past == {"clear", "restore", "reseal", "rewrite", "mint", "mintWrite", "notify"}
Tells(k, D, H, P) ==
    k.op \in Opens /\ k.pc \in Past /\ P # None =>
        /\ D # None /\ H = D.key
        /\ P.cacheKey = D.body.cacheKey \/ (k.minted = TRUE /\ k.pc # "notify")
        /\ k.pc \in {"rewrite", "mintWrite"} => k.write.body.cacheKey = P.cacheKey
        /\ k.pc = "mintWrite" => k.write.key = H

CInv == /\ \A s \in Scopes : Copy(s)
        /\ \A c \in Calls : Undoes(c, call[c], payload)
        /\ \A c \in Calls : Tells(call[c], disk, held, payload)

\* The step of ReportsAreTrue.
Reproduces(D, H, P) == H = D.key /\ P.cacheKey = D.body.cacheKey
Truly ==
    /\ \A c \in Calls :
         Leaves(c, "true") /\ call[c].op = "unlock" /\ payload' # None => Reproduces(disk', held', payload')
    /\ \A s \in Scopes : Returns(s) => /\ scope[s].live /\ payload # None
                                       /\ Borrowed(s) \/ Overruled(s)

\* What a step may do to the callbacks it does not settle.
Undisturbed == \A s \in Scopes : /\ scope'[s].st \in {scope[s].st, "voided"}
                                 /\ scope'[s].rev = scope[s].rev
Persists(c, k) == /\ call' = [call EXCEPT ![c] = k] /\ call[c].pc # "done"
                  /\ call[c].op = "create" => k.op = "create" /\ k.rev = call[c].rev

LEMMA OverruledStays ==
    ASSUME IInv, EInv, NEW c \in Calls, NEW k, Persists(c, k), scope' = scope, NEW s \in Scopes, Overruled(s)
    PROVE  Overruled(s)'
<1>1. CallsOK /\ \A d \in Calls : Unsettled(call[d])
  BY DEF IInv, EInv
<1>2. call'[c] = k /\ \A d \in Calls : d # c => call'[d] = call[d]
  BY <1>1 DEF CallsOK, Persists
<1>3. call[c].out = "none"
  BY <1>1 DEF Unsettled, Persists
<1>4. CASE RejectedAfterWrite
  BY <1>1, <1>4, RejectedStays DEF Persists, Overruled
<1>5. CASE \E d \in Calls : call[d].op = "create" /\ call[d].rev = scope[s].rev
  <2>1. PICK d \in Calls : call[d].op = "create" /\ call[d].rev = scope[s].rev
    BY <1>5
  <2>2. call'[d].op = "create" /\ call'[d].rev = scope'[s].rev
    BY <1>2, <2>1 DEF Persists
  <2> QED
    BY <2>2 DEF Overruled
<1>6. CASE \E d \in Calls : call[d].op \in {"add", "update"} /\ call[d].out = "rejected" /\ scope[s].stamp = d
  <2>1. PICK d \in Calls : call[d].op \in {"add", "update"} /\ call[d].out = "rejected" /\ scope[s].stamp = d
    BY <1>6
  <2>2. call'[d] = call[d]
    BY <1>2, <1>3, <2>1
  <2> QED
    BY <2>1, <2>2 DEF Overruled
<1> QED
  BY <1>4, <1>5, <1>6 DEF Overruled

\* The session has moved on: no callback that runs will be answered.
LEMMA CopiesLeft ==
    ASSUME IInv, CInv, Undisturbed, revision' \in Nat, revision' > revision
    PROVE  \A s \in Scopes : Copy(s)'
<1>1. revision \in Nat /\ scope \in [Scopes -> ScopeType]
  BY DEF IInv, StateOK, StateType
<1>2. ASSUME NEW s \in Scopes, scope'[s].st = "running"
      PROVE  scope'[s].rev \in Nat /\ scope'[s].rev < revision'
  BY <1>1, <1>2 DEF Undisturbed, CInv, Copy, ScopeType
<1> QED
  BY <1>2 DEF Copy

\* There is no session, and then no callback that runs will be answered either.
LEMMA CopiesNone ==
    ASSUME IInv, CInv, Undisturbed, revision' = revision, payload = None
    PROVE  \A s \in Scopes : Copy(s)'
<1>1. revision \in Nat /\ scope \in [Scopes -> ScopeType]
  BY DEF IInv, StateOK, StateType
<1>2. ASSUME NEW s \in Scopes, scope'[s].st = "running"
      PROVE  scope'[s].rev <= revision' /\ scope'[s].rev # revision'
  BY <1>1, <1>2 DEF Undisturbed, CInv, Copy, ScopeType
<1> QED
  BY <1>2 DEF Copy

\* The session stays: the secrets that are borrowed do too, or something overrules them.
LEMMA CopiesStay ==
    ASSUME IInv, EInv, CInv, NEW c \in Calls, NEW k, Persists(c, k), scope' = scope, revision' = revision,
           payload # None => payload' # None,
           \A s \in Scopes : scope[s].st = "running" /\ Copy(s) /\ scope[s].rev = revision /\ Borrowed(s) =>
               payload'.accts[scope[s].acct] = scope[s].stamp \/ Overruled(s)'
    PROVE  \A s \in Scopes : Copy(s)'
<1>1. ASSUME NEW s \in Scopes, scope[s].st = "running", scope[s].rev = revision
      PROVE  /\ scope[s].live /\ payload' # None /\ scope[s].acct \in Accounts /\ scope[s].stamp # "absent"
             /\ payload'.accts[scope[s].acct] = scope[s].stamp \/ Overruled(s)'
  <2>1. Copy(s)
    BY DEF CInv
  <2>2. /\ scope[s].live /\ payload # None /\ scope[s].acct \in Accounts /\ scope[s].stamp # "absent"
        /\ Borrowed(s) \/ Overruled(s)
    BY <1>1, <2>1 DEF Copy
  <2> QED
    BY <1>1, <2>1, <2>2, OverruledStays
<1>2. ASSUME NEW s \in Scopes, scope[s].st = "running" PROVE scope[s].rev <= revision
  BY <1>2 DEF CInv, Copy
<1> QED
  BY <1>1, <1>2 DEF Copy, Borrowed

LEMMA CopiesSame ==
    ASSUME IInv, EInv, CInv, NEW c \in Calls, NEW k, Persists(c, k), scope' = scope, revision' = revision,
           payload # None => payload' # None /\ payload'.accts = payload.accts
    PROVE  \A s \in Scopes : Copy(s)'
<1>1. \A s \in Scopes : scope[s].st = "running" /\ Copy(s) /\ scope[s].rev = revision /\ Borrowed(s) =>
               payload'.accts[scope[s].acct] = scope[s].stamp
  BY DEF Copy, Borrowed
<1> QED
  BY <1>1, CopiesStay

----------------------------------------------------------------------------
(* A step of the call at the head of the lane.                             *)

Acts(c, k) ==
    /\ Moved(c, k) /\ call[c].pc # "done"
    /\ call[c].op = "create" => k.op = "create" /\ k.rev = call[c].rev
    /\ Undoes(c, k, payload') /\ Tells(k, disk', held', payload')
    /\ k.pc = "done" /\ k.out = "true" /\ call[c].op = "unlock" /\ payload' # None => Reproduces(disk', held', payload')

LEMMA ActsHold ==
    ASSUME IInv, EInv, CInv, NEW c \in Calls, NEW k, Acts(c, k), Undisturbed, \A s \in Scopes : Copy(s)'
    PROVE  CInv' /\ Truly
<1>1. /\ call'[c] = k /\ \A d \in Calls : d # c => call'[d] = call[d] /\ call[d].pc \notin AtWork
  BY MovedIs DEF Acts, IInv
<1>2. \A d \in Calls : Undoes(d, call'[d], payload') /\ Tells(call'[d], disk', held', payload')
  <2>1. ASSUME NEW d \in Calls, d # c
        PROVE  Undoes(d, call'[d], payload') /\ Tells(call'[d], disk', held', payload')
    BY <1>1, <2>1 DEF Undoes, Tells, AtWork, Past
  <2> QED
    BY <1>1, <2>1 DEF Acts
<1>3. CInv'
  <2>1. (\A d \in Calls : Undoes(d, call[d], payload))' <=> \A d \in Calls : Undoes(d, call'[d], payload')
    BY DEF Undoes, Brings
  <2>2. (\A d \in Calls : Tells(call[d], disk, held, payload))' <=> \A d \in Calls : Tells(call'[d], disk', held', payload')
    BY DEF Tells
  <2> QED
    BY <1>2, <2>1, <2>2 DEF CInv
<1>4. ASSUME NEW d \in Calls, Leaves(d, "true"), call[d].op = "unlock", payload' # None
      PROVE  Reproduces(disk', held', payload')
  <2>1. d = c /\ k.pc = "done" /\ k.out = "true"
    BY <1>1, <1>4 DEF Leaves
  <2> QED
    BY <1>4, <2>1 DEF Acts
<1>5. \A s \in Scopes : ~Returns(s)
  BY DEF Returns, Undisturbed
<1> QED
  BY <1>3, <1>4, <1>5 DEF Truly

LEMMA ActsPersist == ASSUME NEW c, NEW k, Acts(c, k) PROVE Persists(c, k)
  BY DEF Acts, Persists, Moved

\* One that leaves the session alone.
LEMMA ActsAlone ==
    ASSUME IInv, EInv, CInv, NEW c \in Calls, NEW k, Acts(c, k), UNCHANGED <<payload, revision, scope>>
    PROVE  CInv' /\ Truly
<1>1. Undisturbed
  BY DEF Undisturbed
<1>2. \A s \in Scopes : Copy(s)'
  BY ActsPersist, CopiesSame
<1> QED
  BY <1>1, <1>2, ActsHold

\* One that locks.
LEMMA LockDisturbs ==
    ASSUME IInv, LockNow
    PROVE  Undisturbed /\ payload' = None
  BY DEF IInv, StateOK, StateType, LockNow, Undisturbed, ScopeType

LEMMA ActsLocking ==
    ASSUME IInv, EInv, CInv, NEW c \in Calls, NEW k, Acts(c, k), LockSession
    PROVE  CInv' /\ Truly
<1>1. Undisturbed
  BY LockDisturbs DEF LockSession
<1>2. revision' \in Nat /\ revision' > revision
  BY DEF LockSession, IInv, StateOK, StateType
<1> QED
  BY <1>1, <1>2, CopiesLeft, ActsHold

\* Out of the lane, reporting no unlocked session.
LEMMA SettledActs ==
    ASSUME IInv, EInv, NEW c \in Calls, NEW k, Goes(c, k), k.pc = "done", call[c].pc # "done",
           k.out # "true" \/ call[c].op # "unlock"
    PROVE  Acts(c, k)
  BY DEF Goes, Acts, Undoes, Tells, Past

LEMMA FinishAlone ==
    ASSUME IInv, EInv, CInv, NEW c \in Calls, NEW p, p # "done", Running(c, p), NEW out \in Outcomes,
           NEW wrote \in BOOLEAN, FinishAs(c, out, wrote), out # "true" \/ call[c].op # "unlock",
           UNCHANGED <<payload, revision, scope>>
    PROVE  CInv' /\ Truly
<1>1. CallsOK /\ call[c].pc = p
  BY RunsAt DEF IInv
<1>2. PICK k \in CallType : /\ Moved(c, k) /\ k.pc = "done" /\ k.out = out
                            /\ k.op = call[c].op /\ k.rev = call[c].rev
  BY <1>1, FinishIs
<1>3. Acts(c, k)
  BY <1>1, <1>2, SettledActs DEF Goes
<1> QED
  BY <1>3, ActsAlone

LEMMA SettlesAlone ==
    ASSUME IInv, EInv, CInv, NEW c \in Calls, NEW p, p # "done", Running(c, p), NEW out \in Outcomes,
           Finish(c, out), out # "true" \/ call[c].op # "unlock", UNCHANGED <<payload, revision, scope>>
    PROVE  CInv' /\ Truly
<1>1. call[c].wrote \in BOOLEAN
  BY RunningCall
<1> QED
  BY <1>1, FinishAlone DEF Finish

LEMMA SettlesLocking ==
    ASSUME IInv, EInv, CInv, NEW c \in Calls, NEW p, p # "done", Running(c, p), NEW out \in Outcomes,
           Finish(c, out), out # "true" \/ call[c].op # "unlock", LockSession
    PROVE  CInv' /\ Truly
<1>1. PICK k : Settles(c, k, out)
  BY SettlesBy
<1>2. Acts(c, k)
  BY <1>1, RunsAt, SettledActs DEF Settles
<1> QED
  BY <1>2, ActsLocking

\* Onto an await that tells nothing of the session.
LEMMA GoesAlone ==
    ASSUME IInv, EInv, CInv, NEW c \in Calls, NEW k, Moved(c, k), k.op = call[c].op, k.rev = call[c].rev,
           call[c].pc # "done", k.pc \notin {"read", "write", "done"},
           k.pc \notin Past \/ call[c].op \notin Opens,
           UNCHANGED <<payload, revision, scope>>
    PROVE  CInv' /\ Truly
<1>1. Acts(c, k)
  BY DEF Acts, Undoes, Tells
<1> QED
  BY <1>1, ActsAlone

LEMMA GotoAlone ==
    ASSUME IInv, EInv, CInv, NEW c \in Calls, NEW p, p # "done", Running(c, p), NEW q \in AtWork, Goto(c, q),
           q \notin {"read", "write"}, q \notin Past \/ call[c].op \notin Opens,
           UNCHANGED <<payload, revision, scope>>
    PROVE  CInv' /\ Truly
<1>1. PICK k : Proceeds(c, k, q)
  BY ProceedsBy
<1>2. Moved(c, k) /\ k.op = call[c].op /\ k.rev = call[c].rev /\ k.pc = q /\ call[c].pc # "done" /\ q # "done"
  BY <1>1, RunsAt, Kinds DEF Proceeds, Goes
<1> QED
  BY <1>2, GoesAlone

----------------------------------------------------------------------------
(* unlock().                                                               *)

LEMMA StartUnlockTells == ASSUME IInv, EInv, CInv, NEW c \in Calls, StartUnlock(c) PROVE CInv' /\ Truly
<1>1. Running(c, "queued") /\ UNCHANGED <<payload, revision, scope>>
  BY DEF StartUnlock, memory
<1>2. CASE Goto(c, "derive")
  BY <1>1, <1>2, GotoAlone DEF AtWork, Past
<1>3. ASSUME NEW out \in {"overtaken", "rejected"}, Finish(c, out) PROVE CInv' /\ Truly
  BY <1>1, <1>3, SettlesAlone, Outs
<1> QED
  BY <1>2, <1>3 DEF StartUnlock

LEMMA DeriveWrongTells == ASSUME IInv, EInv, CInv, NEW c \in Calls, DeriveWrong(c) PROVE CInv' /\ Truly
<1>1. Running(c, "derive") /\ UNCHANGED <<payload, revision, scope>> /\ Goto(c, "charge")
  BY DEF DeriveWrong, memory
<1> QED
  BY <1>1, GotoAlone DEF AtWork, Past

LEMMA ChargeGuardTells == ASSUME IInv, EInv, CInv, NEW c \in Calls, ChargeGuard(c) PROVE CInv' /\ Truly
<1>1. Running(c, "charge") /\ UNCHANGED <<payload, revision, scope>>
  BY DEF ChargeGuard, memory
<1>2. ASSUME NEW out \in {"wrong", "rejected"}, Finish(c, out) PROVE CInv' /\ Truly
  BY <1>1, <1>2, SettlesAlone, Outs
<1> QED
  BY <1>2 DEF ChargeGuard

\* The session is installed out of the record, over one that was its copy or over none.
LEMMA DeriveRightTells == ASSUME IInv, EInv, CInv, NEW c \in Calls, DeriveRight(c) PROVE CInv' /\ Truly
<1>1. Running(c, "derive") /\ UNCHANGED <<store, spent>>
  BY DEF DeriveRight
<1>2. CASE Overtaken(c)
  <2>1. Finish(c, "overtaken") /\ UNCHANGED <<payload, revision, scope>>
    BY <1>2 DEF DeriveRight, memory
  <2> QED
    BY <1>1, <2>1, SettlesAlone, Outs
<1>3. CASE ~Overtaken(c)
  <2> DEFINE mint == disk.body.cacheKey = "absent"
             k == [call[c] EXCEPT !.pc = "clear", !.minted = mint]
  <2>1. Install(c, Opened(c), disk.key) /\ Continue(c, k)
    BY <1>3 DEF DeriveRight
  <2>2. disk \in Record /\ call[c] \in CallType /\ call[c].pc = "derive" /\ mint \in BOOLEAN /\ disk # None /\ CallsOK
    BY <1>1, RunningCall, NotNone DEF IInv
  <2>3. Opened(c) \in Body /\ disk.key \in Key /\ disk.body \in Body
    BY <2>2, OpenedType, RecordFields
  <2>4. mint => disk.body.cacheKey = "absent"
    OBVIOUS
  <2>5. ~mint => Opened(c).cacheKey = disk.body.cacheKey
    BY <2>3 DEF Opened, Body
  <2>6. Opened(c).accts = disk.body.accts
    BY <2>3 DEF Opened, Body
  <2>7. mint = TRUE \/ mint = FALSE
    OBVIOUS
  <2> HIDE DEF mint
  <2>8. k.pc = "clear" /\ k.op = call[c].op /\ k.rev = call[c].rev /\ k.minted = mint
    BY <2>2 DEF CallType
  <2> HIDE DEF k
  <2>9. Moved(c, k)
    BY <1>1, <2>1, <2>8 DEF Moved, Continue, Running, AtWork
  <2>10. payload' = Opened(c) /\ held' = disk.key /\ scope' = scope /\ revision' = revision /\ disk' = disk /\ payload' # None
    BY <1>1, <2>1, <2>3, NotNone DEF Install, store
  <2>11. Tells(k, disk', held', payload')
    BY <2>2, <2>5, <2>7, <2>8, <2>10 DEF Tells
  <2>12. Acts(c, k)
    BY <2>2, <2>8, <2>9, <2>11 DEF Acts, Undoes
  <2>13. Undisturbed
    BY <2>10 DEF Undisturbed
  <2>14. \A s \in Scopes : Copy(s)'
    <3>1. CASE payload = None
      BY <2>10, <2>13, <3>1, CopiesNone
    <3>2. CASE RejectedAfterWrite
      <4>1. RejectedAfterWrite'
        BY <2>2, <2>9, <3>2, RejectedStays DEF EInv, Moved
      <4>2. \A s \in Scopes : Overruled(s)'
        BY <4>1 DEF Overruled
      <4> QED
        BY <2>10, <2>12, <4>2, ActsPersist, CopiesStay
    <3>3. CASE payload # None /\ ~RejectedAfterWrite
      <4>1. Synced(payload, disk, held)
        BY <2>2, <2>9, <3>3, MatchedHead DEF EInv, Moved, AtRisk
      <4>2. payload'.accts = payload.accts
        BY <2>6, <2>10, <4>1 DEF Synced
      <4> QED
        BY <2>10, <2>12, <4>2, ActsPersist, CopiesSame
    <3> QED
      BY <3>1, <3>2, <3>3
  <2> QED
    BY <2>12, <2>13, <2>14, ActsHold
<1> QED
  BY <1>2, <1>3

\* What a call tells of the session it goes on telling, when nothing changes.
LEMMA TellsOn ==
    ASSUME IInv, EInv, CInv, NEW c \in Calls, NEW k, Goes(c, k), call[c].pc \in Past,
           k.pc \in {"restore", "reseal", "mint"} \/ (k.pc = "notify" /\ call[c].minted # TRUE),
           k.minted = call[c].minted,
           UNCHANGED <<disk, held, payload, revision, scope>>
    PROVE  CInv' /\ Truly
<1>1. Tells(call[c], disk, held, payload)
  BY DEF CInv
<1>2. Tells(k, disk', held', payload')
  BY <1>1 DEF Tells, Past, Goes
<1>3. Acts(c, k)
  BY <1>2 DEF Acts, Undoes, Goes, Past
<1> QED
  BY <1>3, ActsAlone

LEMMA GoesOnTelling ==
    ASSUME IInv, EInv, CInv, NEW c \in Calls, NEW p \in Past, Running(c, p), NEW q, Goto(c, q),
           q \in {"restore", "reseal", "mint"} \/ (q = "notify" /\ call[c].minted # TRUE),
           UNCHANGED <<disk, held, payload, revision, scope>>
    PROVE  CInv' /\ Truly
<1>1. CallsOK /\ q \in AtWork /\ call[c].pc = p
  BY RunsAt DEF IInv, AtWork
<1>2. PICK k \in CallType : Moved(c, k) /\ k.pc = q /\ k.minted = call[c].minted /\ k.op = call[c].op /\ k.rev = call[c].rev
  BY <1>1, GoesTo
<1> QED
  BY <1>1, <1>2, TellsOn DEF Goes

LEMMA ClearGuardTells == ASSUME IInv, EInv, CInv, NEW c \in Calls, ClearGuard(c) PROVE CInv' /\ Truly
<1>1. Running(c, "clear") /\ UNCHANGED <<disk, held, payload, revision, scope>>
  BY DEF ClearGuard, memory
<1>2. CASE Goto(c, "restore")
  BY <1>1, <1>2, GoesOnTelling DEF Past
<1>3. CASE Finish(c, "rejected")
  BY <1>1, <1>3, SettlesAlone, Outs
<1> QED
  BY <1>2, <1>3 DEF ClearGuard

LEMMA MintedIs == ASSUME NEW k \in CallType PROVE k.minted = TRUE \/ k.minted = FALSE
  BY Zenon DEF CallType

\* Out of the upgrade of the work factor: the mint, or the end of it.
LEMMA AfterResealTells ==
    ASSUME IInv, EInv, CInv, NEW c \in Calls, NEW p \in Past, Running(c, p), AfterReseal(c),
           UNCHANGED <<disk, held, payload, revision, scope>>
    PROVE  CInv' /\ Truly
<1>1. CASE Finish(c, "overtaken")
  BY <1>1, SettlesAlone, Outs DEF Past
<1>2. CASE Goto(c, "mint")
  BY <1>2, GoesOnTelling
<1>3. CASE Goto(c, "notify") /\ call[c].minted # TRUE
  BY <1>3, GoesOnTelling
<1>4. CASE call[c].minted = TRUE
  BY <1>1, <1>2, <1>4 DEF AfterReseal
<1>5. CASE call[c].minted = FALSE
  <2>1. Finish(c, "overtaken") \/ Goto(c, "notify")
    BY <1>5 DEF AfterReseal
  <2> QED
    BY <1>1, <1>3, <1>5, <2>1
<1>6. call[c] \in CallType
  BY DEF IInv, CallsOK
<1> QED
  BY <1>4, <1>5, <1>6, MintedIs

LEMMA RestoreTells == ASSUME IInv, EInv, CInv, NEW c \in Calls, Restore(c) PROVE CInv' /\ Truly
<1>1. Running(c, "restore") /\ UNCHANGED <<disk, held, payload, revision, scope>>
  BY DEF Restore, memory, store
<1>2. ASSUME NEW out \in {"overtaken", "rejected"}, Finish(c, out) PROVE CInv' /\ Truly
  BY <1>1, <1>2, SettlesAlone, Outs
<1>3. CASE call[c].op = "create" /\ Goto(c, "notify")
  BY <1>1, <1>3, GotoAlone DEF AtWork, Opens
<1>4. CASE Goto(c, "reseal")
  BY <1>1, <1>4, GoesOnTelling DEF Past
<1>5. CASE AfterReseal(c)
  BY <1>1, <1>5, AfterResealTells DEF Past
<1> QED
  BY <1>2, <1>3, <1>4, <1>5 DEF Restore

LEMMA MintFailsTells ==
    ASSUME IInv, EInv, CInv, NEW c \in Calls, NEW p \in {"mint", "mintWrite"}, Running(c, p), MintFails(c)
    PROVE  CInv' /\ Truly
<1>1. CASE Finish(c, "overtaken") /\ UNCHANGED memory
  BY <1>1, SettlesAlone, Outs DEF memory
<1>2. CASE Finish(c, "rejected") /\ LockSession
  BY <1>2, SettlesLocking, Outs
<1> QED
  BY <1>1, <1>2 DEF MintFails

LEMMA MintReadTells == ASSUME IInv, EInv, CInv, NEW c \in Calls, MintRead(c) PROVE CInv' /\ Truly
<1>1. Running(c, "mint")
  BY DEF MintRead
<1>2. CASE MintFails(c)
  BY <1>1, <1>2, MintFailsTells
<1>3. CASE Finish(c, "overtaken") /\ UNCHANGED <<store, memory, spent>>
  BY <1>1, <1>3, SettlesAlone, Outs DEF memory
<1>4. CASE ~Overtaken(c) /\ ~MintFails(c)
  <2> DEFINE w == [key |-> held, body |-> payload]
  <2>1. Continue(c, Taking(call[c], "mintWrite", w)) /\ UNCHANGED <<disk, held, payload, revision, scope>>
    BY <1>4 DEF MintRead, Taking, memory, store
  <2>2. w \in Record /\ w.key = held /\ w.body = payload
    BY <1>1, <1>4, RunningCall, RecordMade DEF InSession
  <2> HIDE DEF w
  <2>3. "mintWrite" \in AtWork /\ call[c] \in CallType /\ call[c].pc = "mint"
    BY <1>1, RunningCall DEF AtWork
  <2>4. PICK j : /\ Continue(c, j) /\ j \in CallType /\ j.pc = "mintWrite" /\ j.write = w /\ j.op = call[c].op
                 /\ j.rev = call[c].rev /\ j.minted = call[c].minted
    <3>1. Taking(call[c], "mintWrite", w).minted = call[c].minted
      BY <2>3 DEF Taking, CallType
    <3> QED
      BY <2>1, <2>2, <2>3, <3>1, WriteTaken
  <2>5. Moved(c, j)
    BY <1>1, <2>3, <2>4 DEF Moved, Continue, Running
  <2>6. Tells(call[c], disk, held, payload)
    BY DEF CInv
  <2>7. Tells(j, disk', held', payload')
    BY <2>1, <2>2, <2>3, <2>4, <2>6 DEF Tells, Past
  <2>8. Acts(c, j)
    BY <2>3, <2>4, <2>5, <2>7 DEF Acts, Undoes
  <2> QED
    BY <2>1, <2>8, ActsAlone
<1> QED
  BY <1>2, <1>3, <1>4 DEF MintRead

LEMMA MintWriteTells == ASSUME IInv, EInv, CInv, NEW c \in Calls, MintWrite(c) PROVE CInv' /\ Truly
<1>1. Running(c, "mintWrite")
  BY DEF MintWrite
<1>2. CASE MintFails(c)
  BY <1>1, <1>2, MintFailsTells
<1>3. CASE ~MintFails(c)
  <2>1. disk' = call[c].write /\ UNCHANGED <<held, payload, revision, scope>>
    BY <1>3 DEF MintWrite, memory
  <2>2. CASE Overtaken(c)
    <3> DEFINE wrote == TRUE
    <3>1. FinishAs(c, "overtaken", wrote) /\ wrote \in BOOLEAN
      BY <1>3, <2>2 DEF MintWrite
    <3> HIDE DEF wrote
    <3> QED
      BY <1>1, <2>1, <3>1, FinishAlone, Outs
  <2>3. CASE ~Overtaken(c)
    <3>1. Goto(c, "notify")
      BY <1>3, <2>3 DEF MintWrite
    <3>2. PICK k : Proceeds(c, k, "notify")
      BY <1>1, <3>1, ProceedsBy DEF AtWork
    <3>3. call[c].pc = "mintWrite" /\ call[c].write # None
      BY <1>1, RunningCall DEF Carries
    <3>4. Tells(call[c], disk, held, payload)
      BY DEF CInv
    <3>5. Tells(k, disk', held', payload')
      BY <2>1, <3>2, <3>3, <3>4 DEF Tells, Past, Proceeds, Goes
    <3>6. Acts(c, k)
      BY <3>2, <3>3, <3>5 DEF Acts, Undoes, Proceeds, Goes
    <3> QED
      BY <2>1, <3>6, ActsAlone
  <2> QED
    BY <2>2, <2>3
<1> QED
  BY <1>2, <1>3

\* unlock() reports success here, and here only.
LEMMA NotifyTells == ASSUME IInv, EInv, CInv, NEW c \in Calls, Notify(c) PROVE CInv' /\ Truly
<1>1. Running(c, "notify") /\ UNCHANGED <<disk, held, payload, revision, scope>>
  BY DEF Notify, memory, store
<1>2. call[c].pc = "notify"
  BY <1>1, RunsAt
<1>3. CASE call[c].op = "change"
  <2> DEFINE k == [IdleCall EXCEPT !.op = "change", !.rev = call[c].rev, !.pc = "rekey"]
  <2>1. call' = [call EXCEPT ![c] = k] /\ lane' = Tail(lane)
    BY <1>3 DEF Notify
  <2>2. k.op = "change" /\ k.rev = call[c].rev /\ k.pc = "rekey"
    BY DEF IdleCall
  <2> HIDE DEF k
  <2>3. Moved(c, k)
    BY <1>1, <2>1, <2>2 DEF Moved, Running
  <2> QED
    BY <1>1, <1>2, <1>3, <2>2, <2>3, GoesAlone DEF Past
<1>4. CASE call[c].op # "change"
  <2>1. Finish(c, "true")
    BY <1>4 DEF Notify
  <2>2. PICK k : Settles(c, k, "true")
    BY <1>1, <2>1, SettlesBy, Outs
  <2>3. Tells(call[c], disk, held, payload)
    BY DEF CInv
  <2>4. call[c].op = "unlock" /\ payload' # None => Reproduces(disk', held', payload')
    BY <1>1, <1>2, <2>3 DEF Tells, Past, Opens, Reproduces
  <2>5. Acts(c, k)
    BY <1>2, <2>2, <2>4 DEF Acts, Undoes, Tells, Past, Settles, Goes
  <2> QED
    BY <1>1, <2>5, ActsAlone
<1> QED
  BY <1>3, <1>4

----------------------------------------------------------------------------
(* The re-seal, create() and the destroys.                                 *)

LEMMA StartReEncryptTells == ASSUME IInv, EInv, CInv, NEW c \in Calls, StartReEncrypt(c) PROVE CInv' /\ Truly
<1>1. Running(c, "queued") /\ UNCHANGED <<payload, revision, scope>> /\ call[c].op = "reEncrypt"
  BY DEF StartReEncrypt, memory
<1>2. CASE Finish(c, "rejected")
  BY <1>1, <1>2, SettlesAlone, Outs
<1>3. CASE Goto(c, "reseal")
  BY <1>1, <1>3, GotoAlone DEF AtWork, Opens
<1> QED
  BY <1>2, <1>3 DEF StartReEncrypt

LEMMA ResealFailsTells ==
    ASSUME IInv, EInv, CInv, NEW c \in Calls, NEW p \in Past, Running(c, p), NEW wrote \in BOOLEAN,
           ResealFails(c, wrote), UNCHANGED <<disk, held, payload, revision, scope>>
    PROVE  CInv' /\ Truly
<1>1. CASE FinishAs(c, "rejected", wrote)
  BY <1>1, FinishAlone, Outs DEF Past
<1>2. CASE AfterReseal(c)
  BY <1>2, AfterResealTells
<1> QED
  BY <1>1, <1>2 DEF ResealFails

LEMMA ResealTells == ASSUME IInv, EInv, CInv, NEW c \in Calls, Reseal(c) PROVE CInv' /\ Truly
<1>1. Running(c, "reseal") /\ UNCHANGED <<disk, held, payload, revision, scope>>
  BY DEF Reseal, memory, store
<1>2. CASE ResealFails(c, FALSE)
  <2> DEFINE wrote == FALSE
  <2>1. ResealFails(c, wrote) /\ wrote \in BOOLEAN
    BY <1>2
  <2> HIDE DEF wrote
  <2> QED
    BY <1>1, <2>1, ResealFailsTells DEF Past
<1>3. CASE ~Overtaken(c) /\ ~ResealFails(c, FALSE)
  <2>1. /\ call[c].pc = "reseal" /\ call[c] \in CallType /\ call[c].pw \in Passwords /\ payload \in Body
    BY <1>1, <1>3, RunningCall, CallFields DEF Carries, InSession
  <2> DEFINE w == [key |-> [pw |-> call[c].pw, strong |-> TRUE], body |-> payload]
  <2>2. Continue(c, Taking(call[c], "rewrite", w))
    BY <1>3 DEF Reseal, Taking
  <2>3. w \in Record /\ w.body = payload
    <3>1. [pw |-> call[c].pw, strong |-> TRUE] \in Key
      BY <2>1 DEF Key
    <3> QED
      BY <2>1, <3>1, RecordMade
  <2> HIDE DEF w
  <2>4. PICK j : /\ Continue(c, j) /\ j \in CallType /\ j.pc = "rewrite" /\ j.write = w /\ j.op = call[c].op
                 /\ j.rev = call[c].rev /\ j.minted = call[c].minted
    <3>1. Taking(call[c], "rewrite", w).minted = call[c].minted
      BY <2>1 DEF Taking, CallType
    <3>2. "rewrite" \in AtWork
      BY DEF AtWork
    <3> QED
      BY <2>1, <2>2, <2>3, <3>1, <3>2, WriteTaken
  <2>5. Moved(c, j)
    BY <1>1, <2>4 DEF Moved, Continue, Running, AtWork
  <2>6. Tells(call[c], disk, held, payload)
    BY DEF CInv
  <2>7. Tells(j, disk', held', payload')
    BY <1>1, <2>1, <2>3, <2>4, <2>6 DEF Tells, Past
  <2>8. Acts(c, j)
    BY <2>1, <2>4, <2>5, <2>7 DEF Acts, Undoes
  <2> QED
    BY <1>1, <2>8, ActsAlone
<1> QED
  BY <1>2, <1>3 DEF Reseal

\* The new record and the key of the session change over in one step.
LEMMA RewriteTells == ASSUME IInv, EInv, CInv, NEW c \in Calls, Rewrite(c) PROVE CInv' /\ Truly
<1>1. Running(c, "rewrite") /\ UNCHANGED <<payload, revision, scope>>
  BY DEF Rewrite
<1>2. CASE ResealFails(c, FALSE) /\ UNCHANGED <<disk, held>>
  <2> DEFINE wrote == FALSE
  <2>1. ResealFails(c, wrote) /\ wrote \in BOOLEAN
    BY <1>2
  <2> HIDE DEF wrote
  <2> QED
    BY <1>1, <1>2, <2>1, ResealFailsTells DEF Past
<1>3. CASE disk' = call[c].write
  <2> DEFINE wrote == TRUE
  <2>0. wrote \in BOOLEAN
    OBVIOUS
  <2>1. call[c].pc = "rewrite" /\ call[c].write # None /\ call[c] \in CallType
    BY <1>1, RunningCall DEF Carries
  <2>2. ASSUME NEW out \in {"rejected", "true"}, FinishAs(c, out, wrote), out # "true" \/ call[c].op # "unlock"
        PROVE CInv' /\ Truly
    <3> HIDE DEF wrote
    <3> QED
      BY <1>1, <2>0, <2>2, FinishAlone, Outs
  <2>3. CASE Finish(c, "overtaken")
    BY <1>1, <2>3, SettlesAlone, Outs
  <2>4. CASE call[c].op = "reEncrypt"
    <3>1. FinishAs(c, "rejected", wrote) \/ FinishAs(c, "true", wrote) \/ FinishAs(c, "rejected", FALSE)
      BY <2>4 DEF Rewrite, ResealFails
    <3>2. CASE FinishAs(c, "rejected", FALSE)
      <4> DEFINE not == FALSE
      <4>1. not \in BOOLEAN /\ FinishAs(c, "rejected", not)
        BY <3>2
      <4> HIDE DEF not
      <4> QED
        BY <1>1, <4>1, FinishAlone, Outs
    <3> HIDE DEF wrote
    <3> QED
      BY <2>2, <2>4, <3>1, <3>2
  <2>5. CASE call[c].op # "reEncrypt" /\ ~Overtaken(c) /\ ~(ResealFails(c, FALSE) /\ UNCHANGED <<disk, held>>)
    <3>1. held' = call[c].write.key /\ AfterReseal(c)
      BY <2>5 DEF Rewrite
    <3>2. Tells(call[c], disk, held, payload)
      BY DEF CInv
    <3>3. call[c].op \in Opens /\ payload' # None => disk' # None /\ held' = disk'.key /\ payload'.cacheKey = disk'.body.cacheKey
      BY <1>1, <1>3, <2>1, <3>1, <3>2 DEF Tells, Past
    <3>4. PICK q \in {"mint", "notify"} : Goto(c, q)
      BY <2>5, <3>1 DEF AfterReseal
    <3>5. PICK k : Proceeds(c, k, q)
      BY <1>1, <3>4, ProceedsBy DEF AtWork
    <3>6. Tells(k, disk', held', payload')
      BY <3>3, <3>5 DEF Tells, Proceeds, Goes
    <3>7. Acts(c, k)
      BY <2>1, <3>5, <3>6 DEF Acts, Undoes, Proceeds, Goes
    <3> QED
      BY <1>1, <3>7, ActsAlone
  <2>6. CASE call[c].op # "reEncrypt" /\ Overtaken(c) /\ ~(ResealFails(c, FALSE) /\ UNCHANGED <<disk, held>>)
    BY <2>3, <2>6 DEF Rewrite, ResealFails, AfterReseal
  <2> QED
    BY <1>2, <2>4, <2>5, <2>6
<1> QED
  BY <1>2, <1>3 DEF Rewrite

LEMMA StartCreateTells == ASSUME IInv, EInv, CInv, NEW c \in Calls, StartCreate(c) PROVE CInv' /\ Truly
<1>1. Running(c, "queued") /\ UNCHANGED <<payload, revision, scope>> /\ call[c].op = "create"
  BY DEF StartCreate, memory
<1>2. CASE Finish(c, "rejected")
  BY <1>1, <1>2, SettlesAlone, Outs
<1>3. CASE ~Finish(c, "rejected")
  <2> DEFINE w == [key |-> [pw |-> call[c].pw, strong |-> TRUE], body |-> NewBody(c)]
             k == Taking(call[c], "seal", w)
  <2>1. Continue(c, k)
    BY <1>3 DEF StartCreate, Taking
  <2> HIDE DEF w
  <2>2. k.pc = "seal" /\ k.op = call[c].op /\ k.rev = call[c].rev /\ call[c].pc = "queued"
    BY <1>1, RunningCall DEF Taking, CallType
  <2> HIDE DEF k
  <2>3. Moved(c, k)
    BY <1>1, <2>1, <2>2 DEF Moved, Continue, Running, AtWork
  <2> QED
    BY <1>1, <2>2, <2>3, GoesAlone DEF Past
<1> QED
  BY <1>2, <1>3

LEMMA SealTells == ASSUME IInv, EInv, CInv, NEW c \in Calls, Seal(c) PROVE CInv' /\ Truly
<1>1. Running(c, "seal") /\ UNCHANGED <<payload, revision, scope>>
  BY DEF Seal, memory
<1>2. CASE Finish(c, "rejected")
  BY <1>1, <1>2, SettlesAlone, Outs
<1>3. CASE Goto(c, "createWrite")
  BY <1>1, <1>3, GotoAlone DEF AtWork, Past
<1> QED
  BY <1>2, <1>3 DEF Seal

LEMMA CreateWriteTells == ASSUME IInv, EInv, CInv, NEW c \in Calls, CreateWrite(c) PROVE CInv' /\ Truly
<1>1. Running(c, "createWrite") /\ UNCHANGED <<payload, revision, scope>>
  BY DEF CreateWrite, memory
<1>2. CASE Finish(c, "rejected")
  BY <1>1, <1>2, SettlesAlone, Outs
<1>3. CASE Continue(c, [call[c] EXCEPT !.pc = "createGuard", !.wrote = TRUE])
  <2> DEFINE k == [call[c] EXCEPT !.pc = "createGuard", !.wrote = TRUE]
  <2>1. k.pc = "createGuard" /\ k.op = call[c].op /\ k.rev = call[c].rev /\ call[c].pc = "createWrite"
    BY <1>1, RunningCall DEF CallType
  <2>2. Continue(c, k)
    BY <1>3
  <2> HIDE DEF k
  <2>3. Moved(c, k)
    BY <1>1, <2>1, <2>2 DEF Moved, Continue, Running, AtWork
  <2> QED
    BY <1>1, <2>1, <2>3, GoesAlone DEF Past
<1> QED
  BY <1>2, <1>3 DEF CreateWrite

\* A callback begun since create() was called keeps the old vault's secret over the new one.
LEMMA CreateGuardTells == ASSUME IInv, EInv, CInv, NEW c \in Calls, CreateGuard(c) PROVE CInv' /\ Truly
<1>1. Running(c, "createGuard")
  BY DEF CreateGuard
<1>2. CASE Finish(c, "rejected") /\ UNCHANGED memory
  BY <1>1, <1>2, SettlesAlone, Outs DEF memory
<1>3. CASE ~Overtaken(c) /\ Install(c, call[c].write.body, call[c].write.key) /\ Goto(c, "restore")
  <2>1. PICK k : Proceeds(c, k, "restore")
    BY <1>1, <1>3, ProceedsBy DEF AtWork
  <2>2. call[c].pc = "createGuard" /\ call[c].op = "create" /\ call[c].write \in Record
    BY <1>1, RunningCall, CallFields DEF Carries
  <2>3. call[c].write.body # None
    BY <2>2, RecordFields, NotNone
  <2>4. payload' # None /\ scope' = scope /\ revision' = revision
    BY <1>3, <2>3 DEF Install
  <2>5. Acts(c, k)
    BY <2>1, <2>2 DEF Acts, Undoes, Tells, Opens, Proceeds, Goes
  <2>6. Undisturbed
    BY <2>4 DEF Undisturbed
  <2>7. ASSUME NEW s \in Scopes, scope[s].rev = revision PROVE Overruled(s)'
    <3>1. call'[c] = k
      BY <2>1, MovedIs DEF Proceeds, Goes, IInv
    <3>2. call'[c].op = "create" /\ call'[c].rev = scope'[s].rev
      BY <1>3, <2>1, <2>2, <2>4, <2>7, <3>1 DEF Proceeds, Goes, Overtaken
    <3> QED
      BY <3>2 DEF Overruled
  <2>8. \A s \in Scopes : Copy(s)'
    BY <2>4, <2>5, <2>7, ActsPersist, CopiesStay
  <2> QED
    BY <2>5, <2>6, <2>8, ActsHold
<1> QED
  BY <1>2, <1>3 DEF CreateGuard

LEMMA StartDestroyTells == ASSUME IInv, EInv, CInv, NEW c \in Calls, StartDestroy(c) PROVE CInv' /\ Truly
<1>1. Running(c, "queued") /\ Goto(c, "wipe") /\ UNCHANGED <<payload, revision, scope>>
  BY DEF StartDestroy, memory
<1> QED
  BY <1>1, GotoAlone DEF AtWork, Past

LEMMA StartDestroyIfEmptyTells ==
    ASSUME IInv, EInv, CInv, NEW c \in Calls, StartDestroyIfEmpty(c) PROVE CInv' /\ Truly
<1>1. Running(c, "queued") /\ call[c].op = "destroyIfEmpty"
  BY DEF StartDestroyIfEmpty
<1>2. CASE Finish(c, "false") /\ UNCHANGED memory
  BY <1>1, <1>2, SettlesAlone, Outs DEF memory
<1>3. CASE Continue(c, [call[c] EXCEPT !.pc = "wipe", !.rev = revision + 1]) /\ LockSession
  <2> DEFINE k == [call[c] EXCEPT !.pc = "wipe", !.rev = revision + 1]
  <2>1. k.pc = "wipe" /\ k.op = call[c].op /\ call[c].pc = "queued"
    BY <1>1, RunningCall DEF CallType
  <2>2. Continue(c, k)
    BY <1>3
  <2> HIDE DEF k
  <2>3. Acts(c, k)
    BY <1>1, <2>1, <2>2 DEF Acts, Moved, Continue, Running, AtWork, Undoes, Tells, Past
  <2> QED
    BY <1>3, <2>3, ActsLocking
<1> QED
  BY <1>2, <1>3 DEF StartDestroyIfEmpty

LEMMA WipeTells == ASSUME IInv, EInv, CInv, NEW c \in Calls, Wipe(c) PROVE CInv' /\ Truly
<1>1. Running(c, "wipe") /\ UNCHANGED <<payload, revision, scope>>
  BY DEF Wipe, memory
<1>2. CASE Finish(c, "rejected")
  BY <1>1, <1>2, SettlesAlone, Outs
<1>3. CASE Goto(c, "wipeGuard")
  BY <1>1, <1>3, GotoAlone DEF AtWork, Past
<1> QED
  BY <1>2, <1>3 DEF Wipe

LEMMA WipeGuardTells == ASSUME IInv, EInv, CInv, NEW c \in Calls, WipeGuard(c) PROVE CInv' /\ Truly
<1>1. Running(c, "wipeGuard") /\ UNCHANGED <<payload, revision, scope>>
  BY DEF WipeGuard, memory
<1>2. CASE Finish(c, "rejected")
  BY <1>1, <1>2, SettlesAlone, Outs
<1>3. CASE Goto(c, "listeners")
  BY <1>1, <1>3, GotoAlone DEF AtWork, Past
<1> QED
  BY <1>2, <1>3 DEF WipeGuard

LEMMA DestroyedTells == ASSUME IInv, EInv, CInv, NEW c \in Calls, Destroyed(c) PROVE CInv' /\ Truly
<1>1. Running(c, "listeners") /\ Finish(c, "true") /\ LockNow /\ revision' = revision
  BY DEF Destroyed
<1>2. PICK k : Settles(c, k, "true")
  BY <1>1, SettlesBy, Outs
<1>3. call[c].pc = "listeners"
  BY <1>1, RunsAt
<1>4. payload = None /\ call[c].op # "unlock"
  BY <1>3 DEF EInv, Ended, Wipes, Wiping, Unsettled
<1>5. Acts(c, k)
  BY <1>2, <1>3, <1>4, SettledActs DEF Settles
<1>6. Undisturbed
  BY <1>1, LockDisturbs
<1> QED
  BY <1>1, <1>4, <1>5, <1>6, CopiesNone, ActsHold

----------------------------------------------------------------------------
(* The mutations.                                                          *)

\* What a mutation leaves borrowed: an account that is added was not there.
LEMMA AppliedBrings ==
    ASSUME NEW c \in Calls, payload \in Body, call[c].op \in Mutations, call[c].acct \in Accounts,
           ~Refused(c), NEW k, k.op = call[c].op, k.acct = call[c].acct, k.before = payload
    PROVE  /\ Applied(c).accts = Brings(c, k)
           /\ call[c].op \notin TouchSecrets =>
                \A a \in Accounts : payload.accts[a] # "absent" => Applied(c).accts[a] = payload.accts[a]
<1> DEFINE a == call[c].acct
           left == Present(payload) \ {a}
           next == IF payload.active # a THEN payload.active
                   ELSE IF left = {} THEN None ELSE CHOOSE b \in left : TRUE
<1>1. CASE call[c].op = "update"
  BY <1>1 DEF Applied, Body, Brings, TouchSecrets
<1>2. CASE call[c].op = "add"
  <2>1. payload.accts[a] = "absent"
    BY <1>2 DEF Refused, Present
  <2>2. Applied(c).accts = [payload.accts EXCEPT ![a] = c]
    BY <1>2 DEF Applied, Body
  <2> QED
    BY <1>2, <2>1, <2>2 DEF Brings, Body
<1>3. CASE call[c].op = "setActive"
  BY <1>3 DEF Applied, Body, Brings
<1>4. CASE call[c].op = "remove"
  <2>1. Applied(c) = [payload EXCEPT !.accts[a] = "absent", !.active = next]
    BY <1>4 DEF Applied
  <2> HIDE DEF next
  <2> QED
    BY <1>4, <2>1 DEF Body, Brings, TouchSecrets
<1> QED
  BY <1>1, <1>2, <1>3, <1>4 DEF Mutations

LEMMA StartMutationTells == ASSUME IInv, EInv, CInv, NEW c \in Calls, StartMutation(c) PROVE CInv' /\ Truly
<1>1. Running(c, "queued") /\ UNCHANGED <<store, spent>> /\ call[c].op \in Mutations /\ revision \in Nat
  BY RunningCall DEF StartMutation
<1>2. /\ call[c].pc = "queued" /\ CallsOK /\ call[c] \in CallType /\ call[c].acct \in Accounts
      /\ call[c].op \notin {"create", "unlock", "change"}
  BY <1>1, RunningCall, CallFields DEF IInv, Carries, Mutations
<1>3. CASE Overtaken(c) \/ payload = None
  <2>1. Finish(c, "rejected") /\ UNCHANGED <<payload, revision, scope>>
    BY <1>3 DEF StartMutation, memory
  <2> QED
    BY <1>1, <2>1, SettlesAlone, Outs
<1>4. CASE ~(Overtaken(c) \/ payload = None)
  <2> DEFINE rev == IF call[c].op \in TouchSecrets THEN revision + 1 ELSE revision
             k == [call[c] EXCEPT !.pc = "read", !.rev = rev, !.before = payload]
  <2>1. rev \in Nat /\ rev >= revision /\ (rev = revision => call[c].op \notin TouchSecrets)
    BY <1>1
  <2>2. /\ scope' = scope /\ revision' = rev
        /\ \/ /\ \E out \in {"rejected", "true"} : Finish(c, out)
              /\ UNCHANGED payload
           \/ /\ ~Refused(c) /\ Continue(c, k) /\ payload' = Applied(c)
    BY <1>4 DEF StartMutation
  <2> HIDE DEF rev
  <2>3. payload \in Body
    BY <1>4 DEF IInv, StateOK, StateType
  <2>4. Undisturbed
    BY <2>2 DEF Undisturbed
  <2>5. CASE UNCHANGED payload /\ \E out \in {"rejected", "true"} : Finish(c, out)
    <3>1. PICK out \in {"rejected", "true"} : Finish(c, out)
      BY <2>5
    <3>2. PICK j : Settles(c, j, out)
      BY <1>1, <3>1, SettlesBy, Outs
    <3>3. Acts(c, j)
      BY <1>2, <3>2, SettledActs DEF Settles
    <3>4. CASE revision' = revision
      BY <2>2, <2>5, <3>3, <3>4, ActsAlone
    <3>5. CASE revision' # revision
      <4>1. \A s \in Scopes : Copy(s)'
        BY <1>1, <2>1, <2>2, <2>4, <3>5, CopiesLeft
      <4> QED
        BY <2>4, <3>3, <4>1, ActsHold
    <3> QED
      BY <3>4, <3>5
  <2>6. CASE ~Refused(c) /\ Continue(c, k) /\ payload' = Applied(c)
    <3>1. payload' \in Body /\ payload' # None
      BY <1>1, <1>2, <2>3, <2>6, AppliedType, NotNone
    <3>2. k.pc = "read" /\ k.before = payload /\ k.op = call[c].op /\ k.acct = call[c].acct
      BY <1>2 DEF CallType
    <3>3. Continue(c, k)
      BY <2>6
    <3> HIDE DEF k
    <3>4. Moved(c, k)
      BY <1>1, <3>2, <3>3 DEF Moved, Continue, Running, AtWork
    <3>5. /\ payload'.accts = Brings(c, k)
          /\ call[c].op \notin TouchSecrets =>
               \A a \in Accounts : payload.accts[a] # "absent" => payload'.accts[a] = payload.accts[a]
      BY <1>1, <1>2, <2>3, <2>6, <3>2, AppliedBrings
    <3>6. Acts(c, k)
      BY <1>1, <1>2, <3>2, <3>4, <3>5 DEF Acts, Undoes, Tells, Opens
    <3>7. \A s \in Scopes : Copy(s)'
      <4>1. CASE revision' = revision
        <5>1. ASSUME NEW s \in Scopes, scope[s].st = "running", Copy(s), scope[s].rev = revision, Borrowed(s)
              PROVE  payload'.accts[scope[s].acct] = scope[s].stamp
          BY <2>1, <2>2, <3>5, <4>1, <5>1 DEF Copy, Borrowed
        <5> QED
          BY <2>2, <3>1, <3>6, <4>1, <5>1, ActsPersist, CopiesStay
      <4>2. CASE revision' # revision
        BY <1>1, <2>1, <2>2, <2>4, <4>2, CopiesLeft
      <4> QED
        BY <4>1, <4>2
    <3> QED
      BY <2>4, <3>6, <3>7, ActsHold
  <2> QED
    BY <2>2, <2>5, <2>6
<1> QED
  BY <1>3, <1>4

\* An undo takes back the secret the mutation brought, and moves no session.
LEMMA MutationFailsTells ==
    ASSUME IInv, EInv, CInv, NEW c \in Calls, NEW p \in {"read", "write"}, Running(c, p), MutationFails(c)
    PROVE  CInv' /\ Truly
<1>1. /\ Finish(c, "rejected") /\ scope' = scope /\ revision' = revision
  BY DEF MutationFails
<1>2. call[c].pc = p /\ CallsOK /\ call[c] \in CallType /\ call[c].before \in Body
  BY RunsAt, RunningCall, CallFields DEF IInv, Carries
<1>3. PICK k : Settles(c, k, "rejected")
  BY <1>1, SettlesBy, Outs
<1>4. Acts(c, k) /\ k.op = call[c].op /\ k.out = "rejected"
  BY <1>2, <1>3, SettledActs DEF Settles, Goes
<1> DEFINE sel == IF SelectionCleared(c) THEN None ELSE call[c].before.active
           undone == [call[c].before EXCEPT !.active = sel]
<1>5. \/ payload' = payload
      \/ payload # None /\ payload' = undone
  BY DEF MutationFails
<1>6. sel \in Accounts \cup {None}
  BY <1>2 DEF Body
<1> HIDE DEF sel
<1>7. undone \in Body /\ undone.accts = call[c].before.accts
  BY <1>2, <1>6 DEF Body
<1>8. undone # None
  BY <1>7, NotNone
<1> HIDE DEF undone
<1>9. Undoes(c, call[c], payload)
  BY DEF CInv
<1>10. call'[c] = k
  BY <1>3, MovedIs DEF Settles, Goes, IInv
<1>11. ASSUME NEW s \in Scopes, scope[s].st = "running", Copy(s), scope[s].rev = revision, Borrowed(s),
              payload # None, payload' = undone
       PROVE  payload'.accts[scope[s].acct] = scope[s].stamp \/ Overruled(s)'
  <2>1. scope[s].acct \in Accounts /\ scope[s].stamp # "absent"
    BY <1>11 DEF Copy
  <2>2. payload.accts = Brings(c, call[c]) /\ payload.accts[scope[s].acct] = scope[s].stamp
    <3>1. call[c].pc \in {"read", "write"}
      BY <1>2
    <3> QED
      BY <1>9, <1>11, <3>1 DEF Undoes, Borrowed
  <2>3. call[c].before.accts \in [Accounts -> Stamp \cup {"absent"}]
    BY <1>2 DEF Body
  <2>4. CASE call[c].op \in {"add", "update"} /\ scope[s].acct = call[c].acct
    <3>1. scope[s].stamp = c
      BY <2>1, <2>2, <2>3, <2>4 DEF Brings
    <3>2. call'[c].op \in {"add", "update"} /\ call'[c].out = "rejected" /\ scope'[s].stamp = c
      BY <1>1, <1>4, <1>10, <2>4, <3>1
    <3> QED
      BY <3>2 DEF Overruled
  <2>5. CASE ~(call[c].op \in {"add", "update"} /\ scope[s].acct = call[c].acct)
    <3>1. call[c].before.accts[scope[s].acct] = scope[s].stamp
      BY <2>1, <2>2, <2>3, <2>5 DEF Brings
    <3> QED
      BY <1>7, <1>11, <3>1
  <2> QED
    BY <2>4, <2>5
<1>12. \A s \in Scopes : Copy(s)'
  <2>1. CASE payload' = payload
    BY <1>1, <1>4, <2>1, ActsPersist, CopiesSame
  <2>2. CASE payload # None /\ payload' = undone
    BY <1>1, <1>4, <1>8, <1>11, <2>2, ActsPersist, CopiesStay
  <2> QED
    BY <1>5, <2>1, <2>2
<1>13. Undisturbed
  BY <1>1 DEF Undisturbed
<1> QED
  BY <1>4, <1>12, <1>13, ActsHold

LEMMA MutationReadTells == ASSUME IInv, EInv, CInv, NEW c \in Calls, MutationRead(c) PROVE CInv' /\ Truly
<1>1. Running(c, "read")
  BY DEF MutationRead
<1>2. CASE MutationFails(c)
  BY <1>1, <1>2, MutationFailsTells
<1>3. CASE ~MutationFails(c)
  <2> DEFINE w == [key |-> held, body |-> payload]
             k == Taking(call[c], "write", w)
  <2>1. Continue(c, k) /\ UNCHANGED <<payload, revision, scope>>
    BY <1>3 DEF MutationRead, Taking, memory
  <2> HIDE DEF w
  <2>2. call[c] \in CallType /\ call[c].pc = "read"
    BY <1>1, RunningCall
  <2>3. k.pc = "write" /\ k.op = call[c].op /\ k.rev = call[c].rev /\ k.acct = call[c].acct /\ k.before = call[c].before
    BY <2>2 DEF Taking, CallType
  <2> HIDE DEF k
  <2>4. Undoes(c, call[c], payload)
    BY DEF CInv
  <2>5. Undoes(c, k, payload')
    BY <2>1, <2>2, <2>3, <2>4 DEF Undoes, Brings
  <2>6. Acts(c, k)
    BY <1>1, <2>1, <2>2, <2>3, <2>5 DEF Acts, Moved, Continue, Running, AtWork, Tells, Past
  <2> QED
    BY <2>1, <2>6, ActsAlone
<1> QED
  BY <1>2, <1>3

LEMMA MutationWriteTells == ASSUME IInv, EInv, CInv, NEW c \in Calls, MutationWrite(c) PROVE CInv' /\ Truly
<1>1. Running(c, "write")
  BY DEF MutationWrite
<1>2. CASE MutationFails(c)
  BY <1>1, <1>2, MutationFailsTells
<1>3. CASE ~MutationFails(c)
  <2> DEFINE wrote == TRUE
  <2>1. FinishAs(c, "true", wrote) /\ UNCHANGED <<payload, revision, scope>> /\ wrote \in BOOLEAN
    BY <1>3 DEF MutationWrite
  <2> HIDE DEF wrote
  <2>2. call[c].op # "unlock"
    <3>1. call[c].pc = "write"
      BY <1>1, RunsAt
    <3>2. Undoes(c, call[c], payload)
      BY DEF CInv
    <3> QED
      BY <3>1, <3>2 DEF Undoes, Mutations
  <2> QED
    BY <1>1, <2>1, <2>2, FinishAlone, Outs
<1> QED
  BY <1>2, <1>3

----------------------------------------------------------------------------
(* Calls are made, and what never queues.                                  *)

\* A call that joins the lane, or settles without it.
Joins(c, k) == /\ call[c].pc \in {"idle", "rekey"}
               /\ k.pc = "queued" \/ (k.pc = "done" /\ k.out # "true")
               /\ call' = [call EXCEPT ![c] = k] /\ disk' = disk
               /\ (held' = held /\ payload' = payload) \/ payload' = None

LEMMA JoinsTells ==
    ASSUME IInv, EInv, CInv, NEW c \in Calls, NEW k, Joins(c, k), Undisturbed, \A s \in Scopes : Copy(s)'
    PROVE  CInv' /\ Truly
<1> USE DEF Joins
<1>1. call'[c] = k /\ \A d \in Calls : d # c => call'[d] = call[d]
  BY DEF IInv, CallsOK
<1>2. \A d \in Calls : Undoes(d, call[d], payload) /\ Tells(call[d], disk, held, payload)
  BY DEF CInv
<1>3. \A d \in Calls : Undoes(d, call'[d], payload') /\ Tells(call'[d], disk', held', payload')
  <2>1. Undoes(c, k, payload') /\ Tells(k, disk', held', payload')
    BY DEF Undoes, Tells, Past
  <2>2. ASSUME NEW d \in Calls, d # c
        PROVE  Undoes(d, call[d], payload') /\ Tells(call[d], disk', held', payload')
    BY <1>2, <2>2 DEF Undoes, Tells
  <2> QED
    BY <1>1, <2>1, <2>2
<1>4. \A d \in Calls : ~Leaves(d, "true")
  BY <1>1 DEF Leaves
<1>5. \A s \in Scopes : ~Returns(s)
  BY DEF Returns, Undisturbed
<1>6. CInv'
  BY <1>3 DEF CInv, Undoes, Brings, Tells
<1> QED
  BY <1>4, <1>5, <1>6 DEF Truly

LEMMA EnqueueTells ==
    ASSUME IInv, EInv, CInv, NEW c \in Calls, NEW op, NEW a, NEW p, NEW r, Enqueue(c, op, a, p, r),
           \/ scope' = scope /\ held' = held /\ payload' = payload /\ revision' \in {revision, revision + 1}
           \/ LockSession
    PROVE  CInv' /\ Truly
<1> DEFINE k == [IdleCall EXCEPT !.op = op, !.acct = a, !.pw = p, !.rev = r, !.pc = "queued"]
<1>1. call' = [call EXCEPT ![c] = k] /\ disk' = disk /\ call[c].pc = "idle"
  BY DEF Enqueue, store
<1>2. k.pc = "queued"
  BY DEF IdleCall
<1> HIDE DEF k
<1>3. revision \in Nat
  BY DEF IInv, StateOK, StateType
<1>4. Undisturbed /\ ((held' = held /\ payload' = payload) \/ payload' = None)
  <2>1. CASE scope' = scope /\ held' = held /\ payload' = payload
    BY <2>1 DEF Undisturbed
  <2>2. CASE LockSession
    BY <2>2, LockDisturbs DEF LockSession
  <2> QED
    BY <2>1, <2>2
<1>5. \A s \in Scopes : Copy(s)'
  <2>1. CASE revision' = revision + 1
    BY <1>3, <1>4, <2>1, CopiesLeft
  <2>2. CASE revision' = revision /\ ~LockSession
    <3>1. Persists(c, k)
      BY <1>1 DEF Persists, EInv, Unsettled
    <3> QED
      BY <2>2, <3>1, CopiesSame
  <2>3. LockSession => revision' = revision + 1
    BY DEF LockSession
  <2> QED
    BY <2>1, <2>2, <2>3
<1>6. Joins(c, k)
  BY <1>1, <1>2, <1>4 DEF Joins
<1> QED
  BY <1>4, <1>5, <1>6, JoinsTells

LEMMA IssueTells == ASSUME IInv, EInv, CInv, NEW c \in Calls, Issue(c) PROVE CInv' /\ Truly
<1>1. CASE IssueCreate(c)
  <2>1. PICK a, p : Enqueue(c, "create", a, p, revision + 1)
    BY <1>1 DEF IssueCreate
  <2>2. scope' = scope /\ payload' = payload /\ held' = held /\ revision' = revision + 1
    BY <1>1 DEF IssueCreate
  <2> QED
    BY <2>1, <2>2, EnqueueTells
<1>2. CASE IssueDestroy(c)
  <2>1. Enqueue(c, "destroy", None, None, revision + 1) /\ LockSession
    BY <1>2 DEF IssueDestroy
  <2> QED
    BY <2>1, EnqueueTells
<1>3. ASSUME NEW op, NEW a, NEW p, Enqueue(c, op, a, p, revision), UNCHANGED memory
      PROVE  CInv' /\ Truly
  BY <1>3, EnqueueTells DEF memory
<1>4. CASE IssueUnlock(c)
  BY <1>3, <1>4 DEF IssueUnlock
<1>5. CASE IssueReEncrypt(c)
  BY <1>3, <1>5 DEF IssueReEncrypt
<1>6. CASE IssueOther(c)
  BY <1>3, <1>6 DEF IssueOther
<1> QED
  BY <1>1, <1>2, <1>4, <1>5, <1>6 DEF Issue

LEMMA RekeyTells == ASSUME IInv, EInv, CInv, NEW c \in Calls, Rekey(c) PROVE CInv' /\ Truly
<1>1. call[c].pc = "rekey" /\ UNCHANGED <<disk, held, payload, scope, revision>> /\ call[c] \in CallType
  BY DEF Rekey, IInv, CallsOK, store, memory
<1>2. ASSUME NEW k, k.pc = "queued" \/ (k.pc = "done" /\ k.out # "true"), call' = [call EXCEPT ![c] = k]
      PROVE  CInv' /\ Truly
  <2>1. Persists(c, k)
    BY <1>1, <1>2 DEF Persists, EInv, Unsettled
  <2>2. Undisturbed /\ \A s \in Scopes : Copy(s)'
    BY <1>1, <2>1, CopiesSame DEF Undisturbed
  <2>3. Joins(c, k)
    BY <1>1, <1>2 DEF Joins
  <2> QED
    BY <2>2, <2>3, JoinsTells
<1>3. CASE payload = None
  <2> DEFINE k == [call[c] EXCEPT !.pc = "done", !.out = "rejected"]
  <2>1. call' = [call EXCEPT ![c] = k]
    BY <1>3 DEF Rekey, Continue
  <2>2. k.pc = "done" /\ k.out = "rejected"
    BY <1>1 DEF CallType
  <2> HIDE DEF k
  <2> QED
    BY <1>2, <2>1, <2>2
<1>4. CASE payload # None
  <2>1. PICK p : call' = [call EXCEPT ![c] = [IdleCall EXCEPT !.op = "reEncrypt", !.pw = p,
                                                   !.rev = revision, !.pc = "queued"]]
    BY <1>4 DEF Rekey
  <2> DEFINE k == [IdleCall EXCEPT !.op = "reEncrypt", !.pw = p, !.rev = revision, !.pc = "queued"]
  <2>2. k.pc = "queued" /\ call' = [call EXCEPT ![c] = k]
    BY <2>1 DEF IdleCall
  <2> HIDE DEF k
  <2> QED
    BY <1>2, <2>2
<1> QED
  BY <1>3, <1>4

\* A step of the user, the clock or a callback.
LEMMA StandsTells ==
    ASSUME IInv, EInv, CInv, UNCHANGED <<call, disk, held>> \/ (call' = call /\ payload' = None),
           payload' # None => payload # None /\ Alike(payload', payload),
           \A s \in Scopes : Copy(s)',
           \A s \in Scopes : Returns(s) => scope[s].live /\ payload # None /\ (Borrowed(s) \/ Overruled(s))
    PROVE  CInv' /\ Truly
<1>1. call' = call
  OBVIOUS
<1>2. \A d \in Calls : Undoes(d, call[d], payload) /\ Tells(call[d], disk, held, payload)
  BY DEF CInv
<1>3. ASSUME NEW d \in Calls
      PROVE  Undoes(d, call[d], payload') /\ Tells(call[d], disk', held', payload')
  <2>1. CASE payload' = None
    BY <1>2, <2>1 DEF Undoes, Tells
  <2>2. CASE payload' # None
    <3>1. disk' = disk /\ held' = held /\ payload # None /\ payload'.accts = payload.accts /\ payload'.cacheKey = payload.cacheKey
      BY <2>2 DEF Alike
    <3>2. Undoes(d, call[d], payload) /\ Tells(call[d], disk, held, payload)
      BY <1>2
    <3> QED
      BY <3>1, <3>2 DEF Undoes, Tells
  <2> QED
    BY <2>1, <2>2
<1>4. CInv'
  BY <1>1, <1>3 DEF CInv, Undoes, Brings, Tells
<1>5. \A d \in Calls : ~Leaves(d, "true")
  BY <1>1 DEF Leaves
<1> QED
  BY <1>4, <1>5 DEF Truly

LEMMA LockTells == ASSUME IInv, EInv, CInv, Lock PROVE CInv' /\ Truly
<1>1. call' = call /\ LockSession
  BY DEF Lock
<1>2. Undisturbed /\ payload' = None /\ revision' = revision + 1 /\ revision \in Nat
  BY <1>1, LockDisturbs DEF LockSession, IInv, StateOK, StateType
<1>3. \A s \in Scopes : Copy(s)'
  BY <1>2, CopiesLeft
<1>4. \A s \in Scopes : ~Returns(s)
  BY <1>2 DEF Returns, Undisturbed
<1> QED
  BY <1>1, <1>2, <1>3, <1>4, StandsTells

LEMMA ClearActiveTells == ASSUME IInv, EInv, CInv, ClearActive PROVE CInv' /\ Truly
<1>1. UNCHANGED <<call, disk, held, scope>> /\ revision' = revision + 1 /\ revision \in Nat
  BY DEF ClearActive, store, IInv, StateOK, StateType
<1>2. payload \in Body /\ payload # None /\ payload' = [payload EXCEPT !.active = None]
  BY DEF ClearActive, IInv, StateOK, StateType
<1>3. Alike(payload', payload)
  BY <1>2 DEF Body, Alike
<1>4. Undisturbed
  BY <1>1 DEF Undisturbed
<1>5. \A s \in Scopes : Copy(s)'
  BY <1>1, <1>4, CopiesLeft
<1>6. \A s \in Scopes : ~Returns(s)
  BY <1>1 DEF Returns
<1> QED
  BY <1>1, <1>2, <1>3, <1>5, <1>6, StandsTells

\* A callback that begins borrows what is there.
LEMMA BeginTells == ASSUME IInv, EInv, CInv, NEW s \in Scopes, Begin(s) PROVE CInv' /\ Truly
<1>1. UNCHANGED <<call, disk, held, payload, revision>> /\ payload # None /\ revision \in Nat
  BY DEF Begin, store, IInv, StateOK, StateType
<1>2. PICK a \in Present(payload) :
        scope' = [scope EXCEPT ![s] = [st |-> "running", acct |-> a,
                    stamp |-> payload.accts[a], rev |-> revision, live |-> TRUE]]
  BY DEF Begin
<1>3. scope \in [Scopes -> ScopeType]
  BY DEF IInv, StateOK, StateType
<1>4. \A t \in Scopes : t # s => scope'[t] = scope[t]
  BY <1>2, <1>3
<1>5. /\ scope'[s].st = "running" /\ scope'[s].acct = a /\ scope'[s].stamp = payload.accts[a]
      /\ scope'[s].rev = revision /\ scope'[s].live
  BY <1>2, <1>3
<1>6. a \in Accounts /\ payload.accts[a] # "absent"
  BY DEF Present
<1>7. ASSUME NEW t \in Scopes PROVE Copy(t)'
  <2>1. CASE t = s
    BY <1>1, <1>5, <1>6, <2>1 DEF Copy, Borrowed
  <2>2. CASE t # s
    <3>1. Copy(t) /\ scope'[t] = scope[t]
      BY <1>4, <2>2 DEF CInv
    <3> QED
      BY <1>1, <3>1 DEF Copy, Borrowed, Overruled, RejectedAfterWrite
  <2> QED
    BY <2>1, <2>2
<1>8. \A t \in Scopes : ~Returns(t)
  BY <1>4, <1>5 DEF Returns
<1>9. Alike(payload', payload)
  BY <1>1 DEF Alike
<1> QED
  BY <1>1, <1>7, <1>8, <1>9, StandsTells

\* A callback is answered under the session it began in, and there is what it worked on.
LEMMA EndTells == ASSUME IInv, EInv, CInv, NEW s \in Scopes, End(s) PROVE CInv' /\ Truly
<1>1. UNCHANGED <<call, disk, held, payload, revision>> /\ scope[s].st = "running"
  BY DEF End, store
<1>2. scope \in [Scopes -> ScopeType]
  BY DEF IInv, StateOK, StateType
<1> DEFINE out == IF scope[s].rev = revision THEN "returned" ELSE "voided"
<1>3. scope' = [scope EXCEPT ![s] = [scope[s] EXCEPT !.live = FALSE, !.st = out]]
  BY DEF End
<1>4. out = "returned" <=> scope[s].rev = revision
  OBVIOUS
<1>5. out # "running"
  OBVIOUS
<1> HIDE DEF out
<1>6. \A t \in Scopes : t # s => scope'[t] = scope[t]
  BY <1>2, <1>3
<1>7. scope'[s].st = out
  BY <1>2, <1>3 DEF ScopeType
<1>8. ASSUME NEW t \in Scopes PROVE Copy(t)'
  <2>1. CASE t = s
    BY <1>5, <1>7, <2>1 DEF Copy
  <2>2. CASE t # s
    <3>1. Copy(t) /\ scope'[t] = scope[t]
      BY <1>6, <2>2 DEF CInv
    <3> QED
      BY <1>1, <3>1 DEF Copy, Borrowed, Overruled, RejectedAfterWrite
  <2> QED
    BY <2>1, <2>2
<1>9. ASSUME NEW t \in Scopes, Returns(t)
      PROVE  scope[t].live /\ payload # None /\ (Borrowed(t) \/ Overruled(t))
  <2>1. t = s /\ scope[s].rev = revision
    BY <1>4, <1>6, <1>7, <1>9 DEF Returns
  <2> QED
    BY <1>1, <2>1 DEF CInv, Copy
<1>10. Alike(payload', payload)
  BY <1>1 DEF Alike
<1>11. payload' # None => payload # None
  BY <1>1
<1> QED
  BY <1>1, <1>8, <1>9, <1>10, <1>11, StandsTells

LEMMA UntouchedTells ==
    ASSUME IInv, EInv, CInv, UNCHANGED <<call, disk, held, payload, revision, scope>>
    PROVE  CInv' /\ Truly
<1>1. ASSUME NEW t \in Scopes PROVE Copy(t)'
  <2>1. Copy(t)
    BY DEF CInv
  <2> QED
    BY <2>1 DEF Copy, Borrowed, Overruled, RejectedAfterWrite
<1>2. Alike(payload', payload) /\ \A s \in Scopes : ~Returns(s)
  BY DEF Alike, Returns
<1> QED
  BY <1>1, <1>2, StandsTells

LEMMA RestartTells == ASSUME IInv, EInv, CInv, Restart PROVE CInv' /\ Truly
<1>1. payload' = None /\ revision' = revision + 1 /\ revision \in Nat
  BY DEF Restart, IInv, StateOK, StateType
<1>2. ASSUME NEW c \in Calls
      PROVE  (call'[c] = call[c] /\ call[c].pc \in {"idle", "done"}) \/ (call'[c].pc = "done" /\ call'[c].out = "lost")
  <2>1. CASE call[c].pc \in {"idle", "done"}
    BY <2>1 DEF Restart
  <2>2. CASE call[c].pc \notin {"idle", "done"}
    BY <2>2 DEF Restart, IdleCall
  <2> QED
    BY <2>1, <2>2
<1>3. Undisturbed
  <2>1. scope \in [Scopes -> ScopeType]
    BY DEF IInv, StateOK, StateType
  <2>2. ASSUME NEW s \in Scopes
        PROVE  scope'[s].st \in {scope[s].st, "voided"} /\ scope'[s].rev = scope[s].rev
    <3>1. CASE scope[s].st = "running"
      <4>1. scope'[s] = [scope[s] EXCEPT !.st = "voided", !.live = FALSE]
        BY <3>1 DEF Restart
      <4> QED
        BY <2>1, <4>1 DEF ScopeType
    <3>2. CASE scope[s].st # "running"
      BY <3>2 DEF Restart
    <3> QED
      BY <3>1, <3>2
  <2> QED
    BY <2>2 DEF Undisturbed
<1>4. \A s \in Scopes : Copy(s)'
  BY <1>1, <1>3, CopiesLeft
<1>5. CInv'
  <2>1. \A d \in Calls : Undoes(d, call'[d], payload') /\ Tells(call'[d], disk', held', payload')
    BY <1>1, <1>2 DEF Undoes, Tells
  <2> QED
    BY <1>4, <2>1 DEF CInv, Undoes, Brings, Tells
<1>6. \A d \in Calls : ~Leaves(d, "true")
  BY <1>2 DEF Leaves
<1>7. \A s \in Scopes : ~Returns(s)
  BY <1>3 DEF Returns, Undisturbed
<1> QED
  BY <1>5, <1>6, <1>7 DEF Truly

----------------------------------------------------------------------------
LEMMA InitTells == ASSUME Init PROVE CInv
<1>1. call = [c \in Calls |-> IdleCall] /\ scope = [s \in Scopes |-> IdleScope]
  BY DEF Init
<1>2. (\A c \in Calls : call[c].pc = "idle") /\ \A s \in Scopes : scope[s].st = "idle"
  BY <1>1 DEF IdleCall, IdleScope
<1> QED
  BY <1>2 DEF CInv, Copy, Undoes, Tells, Past

LEMMA NextTells == ASSUME IInv, EInv, CInv, [Next]_vars PROVE CInv' /\ (Next => Truly)
<1>1. ASSUME NEW c \in Calls, Work(c) PROVE CInv' /\ Truly
  <2>1. CASE UnlockStep(c)
    BY <2>1, StartUnlockTells, DeriveWrongTells, ChargeGuardTells, DeriveRightTells,
       ClearGuardTells, RestoreTells, MintReadTells, MintWriteTells, NotifyTells
       DEF UnlockStep
  <2>2. CASE Rekey(c)
    BY <2>2, RekeyTells
  <2>3. CASE ResealStep(c)
    BY <2>3, StartReEncryptTells, ResealTells, RewriteTells DEF ResealStep
  <2>4. CASE CreateStep(c)
    BY <2>4, StartCreateTells, SealTells, CreateWriteTells, CreateGuardTells DEF CreateStep
  <2>5. CASE DestroyStep(c)
    BY <2>5, StartDestroyTells, StartDestroyIfEmptyTells, WipeTells, WipeGuardTells,
       DestroyedTells DEF DestroyStep
  <2>6. CASE MutateStep(c)
    BY <2>6, StartMutationTells, MutationReadTells, MutationWriteTells DEF MutateStep
  <2> QED
    BY <1>1, <2>1, <2>2, <2>3, <2>4, <2>5, <2>6 DEF Work
<1>2. ASSUME NEW c \in Calls, Issue(c) PROVE CInv' /\ Truly
  BY <1>2, IssueTells
<1>3. ASSUME NEW s \in Scopes, Begin(s) \/ End(s) PROVE CInv' /\ Truly
  BY <1>3, BeginTells, EndTells
<1>4. CASE Lock \/ ClearActive \/ Restart
  BY <1>4, LockTells, ClearActiveTells, RestartTells
<1>5. CASE LockoutEnds
  BY <1>5, UntouchedTells DEF LockoutEnds, memory
<1>6. CASE UNCHANGED vars
  <2>1. CInv' /\ Truly
    BY <1>6, UntouchedTells DEF vars
  <2> QED
    BY <2>1
<1> QED
  BY <1>1, <1>2, <1>3, <1>4, <1>5, <1>6 DEF Next

\* unlock() that reports success left a session its record reproduces, and #scoped hands the
\* result of a callback back over a live copy of the secret the open vault holds, unless a
\* create(), a failed save or a write reported as failed overruled it.
THEOREM ReportsHold == Spec => ReportsAreTrue
<1>1. Init => CInv
  BY InitTells
<1>2. IInv /\ EInv /\ CInv /\ [Next]_vars => CInv' /\ [Truly]_vars
  BY NextTells
<1>3. Spec => [][Truly]_vars
  BY <1>1, <1>2, VaultInvariant, SessionInvariant, PTL DEF Spec
<1>4. [Truly]_vars =>
        [/\ \A c \in Calls :
              Leaves(c, "true") /\ call[c].op = "unlock" /\ payload' # None =>
                  held' = disk'.key /\ payload'.cacheKey = disk'.body.cacheKey
         /\ \A s \in Scopes : Returns(s) =>
              /\ scope[s].live /\ payload # None
              /\ payload.accts[scope[s].acct] = scope[s].stamp \/ Overruled(s)]_vars
  BY DEF Truly, Reproduces, Borrowed
<1> QED
  BY <1>3, <1>4, PTL DEF ReportsAreTrue
=============================================================================
