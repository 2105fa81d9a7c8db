---------------------------- MODULE SignerProofs ----------------------------
(***************************************************************************)
(* Proofs about SignerCore, for any requests, callers, accounts and        *)
(* bounds. First the queue: it keeps its caps, its keys and its silence    *)
(* after disposal, whoever uses it, and the pipeline uses it as            *)
(* ApprovalQueue specifies: whoever enters it has an account by then, and  *)
(* whoever resumes takes out its own entry.                                *)
(*                                                                         *)
(* What the user of the signing pipeline may count on, for any requests,   *)
(* callers, accounts and bounds: keys are used with consent, answers are   *)
(* for the account that is meant, what was cut off stays cut off, refusals *)
(* stand, and the queue holds who waits.                                   *)
(*                                                                         *)
(* The argument has two halves.  Each operator of the pipeline has a       *)
(* contract, its "Way": what a request becomes by it.  From the contracts, *)
(* each request is shown to fit its await (Fits), to have been shown what  *)
(* it is told (Told), to hold in its rules no more than the store allowed  *)
(* (RulesRead), and to know of the grant store what has since been changed *)
(* only by an edit or by another login (GrantLock, GrantKept).             *)
(***************************************************************************)
EXTENDS SignerCore, FiniteSetTheorems, TLAPS

----------------------------------------------------------------------------
(* The queue.                                                              *)

\* The invariant: what is queued is finite, or no cap could be compared with it.
QInv == QueueTypeOK /\ IsFiniteSet(queue) /\ Capped /\ OneEntryPerKey /\ DisposedEmpty

\* A set that some entry joins has at most one member more; what is taken out of a finite
\* set leaves no more than there was.
LEMMA AddOne == ASSUME NEW S, IsFiniteSet(S), NEW e
                PROVE  /\ IsFiniteSet(S \cup {e})
                       /\ Cardinality(S) \in Nat /\ Cardinality(S \cup {e}) \in Nat
                       /\ Cardinality(S \cup {e}) <= Cardinality(S) + 1
<1>1. IsFiniteSet(S \cup {e}) /\ \/ Cardinality(S \cup {e}) = Cardinality(S)
                                 \/ Cardinality(S \cup {e}) = Cardinality(S) + 1
  BY FS_AddElement
<1>2. Cardinality(S) \in Nat
  BY FS_CardinalityType
<1> QED BY <1>1, <1>2, SMT

LEMMA TakeSome == ASSUME NEW S, IsFiniteSet(S), NEW T, T \subseteq S
                  PROVE  /\ IsFiniteSet(T) /\ Cardinality(T) \in Nat
                         /\ Cardinality(T) <= Cardinality(S)
BY FS_Subset, FS_CardinalityType

\* An entry that track() lets in keeps the caps and has a key of its own.
LEMMA TrackKeeps == ASSUME QInv, NEW e \in Entry, Track(e) PROVE QInv'
<1> USE QueueAssumption
<1>1. queue' = queue \cup {e} /\ disposed' = disposed /\ ~disposed
  BY DEF Track, Admits
<1>2. QueueTypeOK'
  BY <1>1 DEF QInv, QueueTypeOK
<1>3. IsFiniteSet(queue)' /\ Cardinality(queue') <= MaxGlobal
  <2>1. IsFiniteSet(queue) /\ Cardinality(queue) < MaxGlobal
    BY DEF QInv, Track, Admits
  <2>2. /\ IsFiniteSet(queue \cup {e}) /\ Cardinality(queue) \in Nat
        /\ Cardinality(queue \cup {e}) \in Nat
        /\ Cardinality(queue \cup {e}) <= Cardinality(queue) + 1
    BY <2>1, AddOne
  <2> QED BY <1>1, <2>1, <2>2, SMT
<1>4. ASSUME NEW o \in Origins PROVE Cardinality(Of(o)') <= MaxOrigin
  <2>1. IsFiniteSet(Of(o)) /\ Cardinality(Of(o)) \in Nat /\ Cardinality(Of(o)) <= MaxOrigin
    BY TakeSome DEF QInv, Capped, Of
  <2>2. CASE e.origin = o
    <3>1. Of(o)' = Of(o) \cup {e}
      BY <1>1, <2>2 DEF Of
    <3>2. Cardinality(Of(o)) < MaxOrigin
      BY <2>2 DEF Track, Admits
    <3>3. /\ Cardinality(Of(o) \cup {e}) \in Nat
          /\ Cardinality(Of(o) \cup {e}) <= Cardinality(Of(o)) + 1
      BY <2>1, AddOne
    <3> QED BY <2>1, <3>1, <3>2, <3>3, SMT
  <2>3. CASE e.origin # o
    <3>1. Of(o)' = Of(o)
      BY <1>1, <2>3 DEF Of
    <3> QED BY <2>1, <3>1
  <2> QED BY <2>2, <2>3
<1>5. ASSUME NEW o \in Origins PROVE Cardinality(Prompts(o)') <= MaxPending
  <2>1. IsFiniteSet(Prompts(o)) /\ Cardinality(Prompts(o)) \in Nat
        /\ Cardinality(Prompts(o)) <= MaxPending
    BY TakeSome DEF QInv, Capped, Prompts, Of
  <2>2. CASE e.origin = o /\ e.kind = "approval"
    <3>1. Prompts(o)' = Prompts(o) \cup {e}
      BY <1>1, <2>2 DEF Prompts, Of
    <3>2. Cardinality(Prompts(o)) < MaxPending
      BY <2>2 DEF Track, Admits
    <3>3. /\ Cardinality(Prompts(o) \cup {e}) \in Nat
          /\ Cardinality(Prompts(o) \cup {e}) <= Cardinality(Prompts(o)) + 1
      BY <2>1, AddOne
    <3> QED BY <2>1, <3>1, <3>2, <3>3, SMT
  <2>3. CASE ~(e.origin = o /\ e.kind = "approval")
    <3>1. Prompts(o)' = Prompts(o)
      BY <1>1, <2>3 DEF Prompts, Of
    <3> QED BY <2>1, <3>1
  <2> QED BY <2>2, <2>3
<1>6. OneEntryPerKey'
  BY <1>1 DEF QInv, OneEntryPerKey, Track, Admits, Key
<1>7. DisposedEmpty'
  BY <1>1 DEF DisposedEmpty
<1> QED BY <1>2, <1>3, <1>4, <1>5, <1>6, <1>7 DEF QInv, Capped

\* Whatever is settled, and by whom: fewer entries keep every promise.
LEMMA FewerKeep == ASSUME QInv, queue' \subseteq queue, disposed' \in BOOLEAN,
                          disposed' => (disposed \/ queue' = {})
                   PROVE  QInv'
<1> USE QueueAssumption
<1>1. QueueTypeOK' /\ OneEntryPerKey' /\ DisposedEmpty'
  BY DEF QInv, QueueTypeOK, OneEntryPerKey, DisposedEmpty, Key
<1>2. IsFiniteSet(queue)' /\ Cardinality(queue') <= MaxGlobal
  <2>1. IsFiniteSet(queue) /\ Cardinality(queue) <= MaxGlobal
    BY DEF QInv, Capped
  <2>2. /\ IsFiniteSet(queue') /\ Cardinality(queue') \in Nat /\ Cardinality(queue) \in Nat
        /\ Cardinality(queue') <= Cardinality(queue)
    BY <2>1, TakeSome
  <2> QED BY <2>1, <2>2, SMT
<1>3. ASSUME NEW o \in Origins
      PROVE  Cardinality(Of(o)') <= MaxOrigin /\ Cardinality(Prompts(o)') <= MaxPending
  <2>1. Of(o)' \subseteq Of(o) /\ Prompts(o)' \subseteq Prompts(o)
    BY DEF Of, Prompts
  <2>2. IsFiniteSet(Of(o)) /\ IsFiniteSet(Prompts(o))
    BY TakeSome DEF QInv, Of, Prompts
  <2>3. Cardinality(Of(o)) <= MaxOrigin /\ Cardinality(Prompts(o)) <= MaxPending
    BY DEF QInv, Capped
  <2>4. Cardinality(Of(o)') <= Cardinality(Of(o)) /\ Cardinality(Of(o)') \in Nat
        /\ Cardinality(Of(o)) \in Nat
    BY <2>1, <2>2, TakeSome
  <2>5. Cardinality(Prompts(o)') <= Cardinality(Prompts(o)) /\ Cardinality(Prompts(o)') \in Nat
        /\ Cardinality(Prompts(o)) \in Nat
    BY <2>1, <2>2, TakeSome
  <2> QED BY <2>3, <2>4, <2>5, SMT
<1> QED BY <1>1, <1>2, <1>3 DEF QInv, Capped

LEMMA QueueStarts == QueueInit => QInv
<1> SUFFICES ASSUME QueueInit PROVE QInv
  OBVIOUS
<1>1. queue = {} /\ disposed = FALSE
  BY DEF QueueInit
<1>2. IsFiniteSet({}) /\ Cardinality({}) = 0
  BY FS_EmptySet
<1>3. \A o \in Origins : Of(o) = {} /\ Prompts(o) = {}
  BY <1>1 DEF Of, Prompts
<1>4. Capped
  <2>1. Cardinality(queue) = 0 /\ \A o \in Origins : Cardinality(Of(o)) = 0 /\ Cardinality(Prompts(o)) = 0
    BY <1>1, <1>2, <1>3
  <2> QED BY <2>1, QueueAssumption, SMT DEF Capped
<1>5. QueueTypeOK /\ IsFiniteSet(queue) /\ OneEntryPerKey /\ DisposedEmpty
  BY <1>1, <1>2 DEF QueueTypeOK, OneEntryPerKey, DisposedEmpty
<1> QED BY <1>4, <1>5 DEF QInv

LEMMA QueueStep == QInv /\ [QueueNext]_queueVars => QInv'
<1> SUFFICES ASSUME QInv, [QueueNext]_queueVars PROVE QInv'
  OBVIOUS
<1>0. disposed \in BOOLEAN
  BY DEF QInv, QueueTypeOK
<1>1. CASE UNCHANGED queueVars
  <2> queue' \subseteq queue /\ disposed' = disposed
    BY <1>1 DEF queueVars
  <2> QED BY <1>0, FewerKeep
<1>2. CASE \E e \in Entry : Track(e)
  BY <1>2, TrackKeeps
<1>3. ASSUME NEW gone, Settle(gone) PROVE QInv'
  <2> queue' \subseteq queue /\ disposed' = disposed
    BY <1>3 DEF Settle
  <2> QED BY <1>0, FewerKeep
<1>4. CASE Dispose
  <2> queue' \subseteq queue /\ disposed' \in BOOLEAN /\ queue' = {}
    BY <1>4 DEF Dispose
  <2> QED BY FewerKeep
<1> QED BY <1>1, <1>2, <1>3, <1>4 DEF QueueNext

\* Any use of the queue keeps its invariant.
THEOREM QueueInvariant == QueueSpec => []QInv
<1> QED BY QueueStarts, QueueStep, PTL DEF QueueSpec

\* queue.ts, the caps: however entries come and go, no caller holds more prompts or entries
\* than its caps allow, and all callers together no more than the global one.
THEOREM QueueCapped == QueueSpec => []Capped
<1>1. QInv => Capped
  BY DEF QInv
<1> QED BY <1>1, QueueInvariant, PTL

\* queue.ts, key(): two pending entries never share an origin, a kind and an id.
THEOREM QueueKeys == QueueSpec => []OneEntryPerKey
<1>1. QInv => OneEntryPerKey
  BY DEF QInv
<1> QED BY <1>1, QueueInvariant, PTL

\* queue.ts, dispose(): nothing is pending in a disposed signer, ever again.
THEOREM QueueDisposed == QueueSpec => []DisposedEmpty
<1>1. QInv => DisposedEmpty
  BY DEF QInv
<1> QED BY <1>1, QueueInvariant, PTL

----------------------------------------------------------------------------
(* The pipeline.                                                           *)

\* A request that may enter the queue: it has a caller, an id and an account.
Ready(k) == /\ k \in CallType /\ k.m \in AllMethods
            /\ k.o \in Origins /\ k.i \in Ids /\ k.acct \in Accounts

\* Where the user's answer is about to be remembered, there is one.
Keeping == {"approved", "save"}

\* How much of that holds where a request is.
Located(k) == /\ k.pc \notin {"idle", "done"} => k.m \in AllMethods /\ k.o \in Origins /\ k.i \in Ids
              /\ k.pc \notin {"idle", "account", "record", "done"} => k.acct \in Accounts
              /\ k.pc \in Keeping => k.keep \in Decisions


Calls == call \in [Requests -> CallType] /\ \A r \in Requests : Located(call[r])

\* What a step leaves: located requests, and the queue one step of its own further.
Stays == Calls' /\ [QueueNext]_queueVars

SInv == TypeOK /\ Calls

----------------------------------------------------------------------------
(* Requests keep their shape.                                              *)

LEMMA ReadyCall == ASSUME NEW r \in Requests, Calls,
                          call[r].pc \notin {"idle", "account", "record", "done"}
                   PROVE  Ready(call[r])
BY DEF Calls, Located, Ready

\* A field at a time, where the value has the field's type.
LEMMA ReadyMoves == ASSUME NEW k, Ready(k), NEW p \in Pcs \ Keeping
                    PROVE  LET j == [k EXCEPT !.pc = p]
                           IN  Ready(j) /\ Located(j) /\ j \in CallType
BY DEF Ready, CallType, Located, Keeping

LEMMA OutStays == ASSUME NEW k \in CallType, Located(k), k.pc \notin {"idle", "done"},
                         NEW code \in Codes
                  PROVE  Out(k, code) \in CallType /\ Located(Out(k, code))
<1> DEFINE j == Out(k, code)
<1>1. j \in CallType /\ j.pc = "record" /\ j.m = k.m /\ j.o = k.o /\ j.i = k.i
  BY DEF CallType, Out, Pcs
<1> HIDE DEF j
<1>2. Located(j)
  BY <1>1 DEF Located, Keeping
<1> QED BY <1>1, <1>2 DEF j

LEMMA ReadyOut == ASSUME NEW k, Ready(k), NEW code \in Codes
                  PROVE  LET j == Out(k, code)
                         IN  Ready(j) /\ Located(j) /\ j \in CallType
<1> DEFINE j == Out(k, code)
<1>1. j \in CallType
  BY DEF Ready, CallType, Out, Pcs
<1>2. j.pc = "record" /\ j.m = k.m /\ j.o = k.o /\ j.i = k.i /\ j.acct = k.acct
  BY DEF Ready, CallType, Out
<1> HIDE DEF j
<1>3. Ready(j) /\ Located(j)
  BY <1>1, <1>2 DEF Ready, Located, Keeping
<1> QED BY <1>1, <1>3 DEF j

----------------------------------------------------------------------------
(* The ways a request moves.                                               *)

LEMMA PutKeeps == ASSUME Calls, NEW r \in Requests, NEW k \in CallType, Located(k), Put(r, k)
                  PROVE  Calls'
BY DEF Calls, Put

LEMMA GoKeeps == ASSUME Calls, NEW r \in Requests, NEW k \in CallType, Located(k), Go(r, k)
                 PROVE  Stays
BY PutKeeps DEF Go, Stays

LEMMA RefuseKeeps == ASSUME Calls, NEW r \in Requests, NEW code \in Codes,
                            call[r].pc \notin {"idle", "done"}, Refuse(r, code)
                     PROVE  Stays
<1>1. call[r] \in CallType /\ Located(call[r])
  BY DEF Calls
<1> QED BY <1>1, OutStays, GoKeeps DEF Refuse

LEMMA EntryTyped == ASSUME NEW k, Ready(k), NEW kind \in Kinds
                    PROVE  Pending(k, kind) \in Entry
BY DEF Ready, Pending, Entry

\* Whatever track() refuses with is one of its codes.
LEMMA RefusalCode == ASSUME NEW e PROVE Refusal(e) \in Codes
BY DEF Refusal, Codes

LEMMA EnterKeeps == ASSUME Calls, NEW r \in Requests, NEW k, Ready(k),
                           NEW pc \in DOMAIN KindAt, Enter(r, k, pc)
                    PROVE  Stays
<1> DEFINE e == Pending(k, KindAt[pc])
<1>0. pc \in Pcs \ Keeping
  BY DEF Pcs, KindAt, Keeping
<1>1. KindAt[pc] \in Kinds
  BY DEF KindAt, Kinds
<1>2. CASE Admits(e)
  <2>1. Track(e) /\ Put(r, [k EXCEPT !.pc = pc])
    BY <1>2 DEF Enter
  <2>2. e \in Entry
    BY <1>1, EntryTyped
  <2> QED BY <1>0, <2>1, <2>2, ReadyMoves, PutKeeps DEF Stays, QueueNext
<1>3. CASE ~Admits(e)
  <2>1. Go(r, Out(k, Refusal(e)))
    BY <1>3 DEF Enter
  <2>2. Refusal(e) \in Codes
    BY RefusalCode
  <2> HIDE DEF e
  <2> QED BY <2>1, <2>2, ReadyOut, GoKeeps
<1> QED BY <1>2, <1>3

LEMMA SettleOne == ASSUME NEW k, Ready(k), k.pc \in DOMAIN KindAt, Settle({EntryOf(k)})
                   PROVE  [QueueNext]_queueVars
<1>1. KindAt[k.pc] \in Kinds
  BY DEF KindAt, Kinds
<1>2. EntryOf(k) \in Entry
  BY <1>1, EntryTyped DEF EntryOf
<1>3. CASE EntryOf(k) \in queue
  BY <1>2, <1>3 DEF QueueNext
<1>4. CASE EntryOf(k) \notin queue
  BY <1>4 DEF Settle, queueVars
<1> QED BY <1>3, <1>4

LEMMA ResumeKeeps == ASSUME Calls, NEW r \in Requests, Waiting(call[r]),
                            NEW k \in CallType, Located(k), Resume(r, k)
                     PROVE  Stays
<1>1. call[r].pc \notin {"idle", "account", "record", "done"}
  BY DEF Waiting, KindAt
<1>2. Ready(call[r])
  BY <1>1, ReadyCall
<1> QED BY <1>2, SettleOne, PutKeeps DEF Resume, Stays, Waiting

----------------------------------------------------------------------------
(* The shared tails of the pipeline.                                       *)

LEMMA ReadyGo == ASSUME Calls, NEW r \in Requests, NEW k, Ready(k), NEW p \in Pcs \ Keeping,
                        Go(r, [k EXCEPT !.pc = p])
                 PROVE  Stays
BY ReadyMoves, GoKeeps

LEMMA ReadyGoOut == ASSUME Calls, NEW r \in Requests, NEW k, Ready(k), NEW code \in Codes,
                           Go(r, Out(k, code))
                    PROVE  Stays
BY ReadyOut, GoKeeps

LEMMA ToUnlockKeeps == ASSUME Calls, NEW r \in Requests, NEW k, Ready(k), ToUnlock(r, k)
                       PROVE  Stays
<1>1. "still" \in Pcs \ Keeping /\ "unlock" \in DOMAIN KindAt
  BY DEF Pcs, KindAt, Keeping
<1> QED BY <1>1, ReadyGo, EnterKeeps DEF ToUnlock

LEMMA ItemDoneReady == ASSUME NEW k, Ready(k), NEW result \in Codes
                       PROVE  LET j == ItemDone(k, result)
                              IN  j \in CallType /\ Located(j)
<1> DEFINE a == [k EXCEPT !.results = Append(@, result)]
<1>1. Ready(a)
  <2>1. k.results \in Seq(Codes)
    BY DEF Ready, CallType
  <2>2. Append(k.results, result) \in Seq(Codes)
    BY <2>1
  <2> QED BY <2>2 DEF Ready, CallType
<1>2. ItemDone(k, result) = IF Len(a.results) = Len(BatchItems) THEN Out(a, "ok")
                            ELSE [a EXCEPT !.pc = "gap"]
  BY DEF ItemDone
<1>3. "gap" \in Pcs \ Keeping /\ "ok" \in Codes
  BY DEF Pcs, Codes, Keeping
<1> HIDE DEF a
<1> QED BY <1>1, <1>2, <1>3, ReadyOut, ReadyMoves

LEMMA SignLocallyReady == ASSUME NEW k, Ready(k), epoch \in Nat
                          PROVE  LET j == SignLocally(k)
                                 IN  j \in CallType /\ Located(j)
<1>1. "vault_locked" \in Codes
  BY DEF Codes
<1>2. CASE ~locked
  <2>1. SignLocally(k) = [k EXCEPT !.pc = "sign", !.epoch = epoch]
    BY <1>2 DEF SignLocally
  <2> QED BY <2>1 DEF Ready, CallType, Located, Keeping, Pcs
<1>3. CASE locked
  BY <1>1, <1>3, ItemDoneReady, ReadyOut DEF SignLocally
<1> QED BY <1>2, <1>3

LEMMA ExecuteKeeps == ASSUME Calls, NEW r \in Requests, NEW k, Ready(k), epoch \in Nat,
                             Execute(r, k)
                      PROVE  Stays
<1>1. "answered" \in Pcs \ Keeping /\ "remote" \in DOMAIN KindAt
  BY DEF Pcs, KindAt, Keeping
<1> QED BY <1>1, ReadyGo, EnterKeeps, SignLocallyReady, GoKeeps DEF Execute

LEMMA RevalidateReady == ASSUME NEW k, Ready(k), NEW n \in {1, 2}
                         PROVE  LET j == Revalidate(k, n)
                                IN  j \in CallType /\ Located(j)
<1>1. "shutdown" \in Codes
  BY DEF Codes
<1>2. CASE disposed
  BY <1>1, <1>2, ReadyOut DEF Revalidate
<1>3. CASE ~disposed
  <2>1. Revalidate(k, n) = [k EXCEPT !.pc = "rule", !.round = n]
    BY <1>3 DEF Revalidate
  <2> QED BY <2>1 DEF Ready, CallType, Located, Keeping, Pcs
<1> QED BY <1>2, <1>3

LEMMA AskKeeps == ASSUME Calls, NEW r \in Requests, NEW k, Ready(k), Ask(r, k)
                  PROVE  Stays
<1>1. "prompt" \in DOMAIN KindAt
  BY DEF KindAt
<1> QED BY <1>1, EnterKeeps, ToUnlockKeeps DEF Ask

\* The cooldown that is left when a request has asked: the one there was, or one less.
LEMMA AskCooldown == ASSUME cooldown \in [Origins -> Accounts \cup {None}],
                            NEW r \in Requests, NEW k, Ready(k), Ask(r, k)
                     PROVE  cooldown' \in [Origins -> Accounts \cup {None}]
BY DEF Ask, Ready

LEMMA FailKeeps == ASSUME Calls, NEW gone, NEW code \in Codes, Fail(gone, code)
                   PROVE  Calls'
<1> SUFFICES ASSUME NEW r \in Requests PROVE call'[r] \in CallType /\ Located(call'[r])
  BY DEF Fail, Calls
<1>1. call[r] \in CallType /\ Located(call[r])
  BY DEF Calls
<1>2. CASE Waiting(call[r]) /\ EntryOf(call[r]) \in gone
  <2>1. call'[r] = Out(call[r], code) /\ call[r].pc \notin {"idle", "done"}
    BY <1>2 DEF Fail, Waiting, KindAt
  <2> QED BY <1>1, <2>1, OutStays
<1>3. CASE ~(Waiting(call[r]) /\ EntryOf(call[r]) \in gone)
  BY <1>1, <1>3 DEF Fail
<1> QED BY <1>2, <1>3

----------------------------------------------------------------------------
(* The rest of the state, which the queue and the requests leave alone.    *)

HostOK  == /\ active \in Accounts \cup {None}
           /\ told \in {<<>>} \cup {<<a>> : a \in Accounts \cup {None}}
           /\ locked \in BOOLEAN /\ epoch \in Nat
           /\ spent \in SpentType
TrustOK == /\ rules \in [Origins \X Accounts \X Rules -> Decisions]
           /\ grants \in [Origins \X Accounts -> Decisions]
           /\ cooldown \in [Origins -> Accounts \cup {None}]
           /\ serial \in Nat /\ revoked \in [Origins -> Nat]
           /\ shared \subseteq Origins \X Accounts

LEMMA Parts == TypeOK <=> QueueTypeOK /\ call \in [Requests -> CallType] /\ HostOK /\ TrustOK
BY DEF TypeOK, HostOK, TrustOK

LEMMA QueueTyped == QueueTypeOK /\ [QueueNext]_queueVars => QueueTypeOK'
BY DEF QueueTypeOK, QueueNext, queueVars, Track, Settle, Dispose, Admits

\* A step that stays keeps the invariant once the rest is in order.
LEMMA Together == SInv /\ Stays /\ HostOK' /\ TrustOK' => SInv' /\ [QueueNext]_queueVars
<1> SUFFICES ASSUME SInv, Stays, HostOK', TrustOK' PROVE SInv' /\ [QueueNext]_queueVars
  OBVIOUS
<1>1. QueueTypeOK'
  BY QueueTyped, Parts DEF SInv, Stays
<1>2. TypeOK'
  <2>1. (QueueTypeOK /\ call \in [Requests -> CallType] /\ HostOK /\ TrustOK)'
    BY <1>1 DEF Stays, Calls
  <2>2. (QueueTypeOK /\ call \in [Requests -> CallType] /\ HostOK /\ TrustOK)' => TypeOK'
    BY DEF TypeOK, HostOK, TrustOK
  <2> QED BY <2>1, <2>2
<1> QED BY <1>2 DEF SInv, Stays

\* A step of a request that leaves the stores alone.
LEMMA Quiet == SInv /\ Stays /\ UNCHANGED <<host, spent, trust, shared>>
                  => SInv' /\ [QueueNext]_queueVars
<1> SUFFICES ASSUME SInv, Stays, UNCHANGED <<host, spent, trust, shared>>
             PROVE  SInv' /\ [QueueNext]_queueVars
  OBVIOUS
<1>1. HostOK' /\ TrustOK'
  BY Parts DEF SInv, HostOK, TrustOK, host, trust
<1> QED BY <1>1, Together

LEMMA NoCallTyped == NoCall \in CallType /\ Located(NoCall)
<1>1. <<>> \in Seq(Codes)
  OBVIOUS
<1> QED BY <1>1 DEF NoCall, CallType, Located, Keeping, Pcs, Codes, Decisions

\* The scene that is played is one of those the assumption is about.
LEMMA Played == ASSUME spent \in SpentType
                PROVE  /\ scene \in Scenes /\ scene.methods \subseteq AllMethods
                       /\ scene.ids \subseteq Ids /\ scene.accounts \subseteq Accounts
BY SignerAssumption DEF SpentType, scene, Scene

LEMMA SignerStarts == Init => SInv /\ QueueInit
<1> SUFFICES ASSUME Init PROVE SInv /\ QueueInit
  OBVIOUS
<1> USE SignerAssumption
<1>1. QueueInit /\ QueueTypeOK
  BY DEF Init, QueueInit, QueueTypeOK
<1>2. NoCall \in CallType /\ Located(NoCall)
  BY NoCallTyped
<1>3. Calls
  BY <1>2 DEF Init, Calls
<1>0. PICK s \in Scenes :
        /\ active \in s.accounts
        /\ \E d \in s.rules : rules = [x \in Origins \X Accounts \X Rules |-> d]
        /\ \E d \in s.grants : grants = [x \in Origins \X Accounts |-> d]
        /\ spent = [scene |-> s, switches |-> 0, locks |-> 0, revokes |-> 0, edits |-> 0,
                    faults |-> 0]
  BY DEF Init
<1>6. s.accounts \subseteq Accounts /\ s.rules \subseteq Decisions /\ s.grants \subseteq Decisions
  BY DEF Scene
<1>4. HostOK
  BY <1>0, <1>6 DEF Init, HostOK, SpentType
<1>5. TrustOK
  <2>1. rules \in [Origins \X Accounts \X Rules -> Decisions]
    BY <1>0, <1>6
  <2>2. grants \in [Origins \X Accounts -> Decisions]
    BY <1>0, <1>6
  <2> QED BY <2>1, <2>2 DEF Init, TrustOK
<1> QED BY <1>1, <1>3, <1>4, <1>5, Parts DEF SInv, Calls

----------------------------------------------------------------------------
(* The steps of a request, in the order of the pipeline.                   *)

LEMMA SInvFacts == ASSUME SInv
                   PROVE  /\ Calls /\ HostOK /\ TrustOK /\ epoch \in Nat /\ serial \in Nat
                          /\ revoked \in [Origins -> Nat]
                          /\ cooldown \in [Origins -> Accounts \cup {None}]
BY Parts DEF SInv, HostOK, TrustOK

LEMMA ItemRule == ASSUME NEW k, k.m \in AllMethods, NEW n \in DOMAIN Items(k)
                  PROVE  RuleOf(Items(k)[n]) \in Rules
<1>1. CASE k.m = "batch"
  <2>1. Items(k)[n] \in {"sign", "attest"}
    BY <1>1, SignerAssumption DEF Items
  <2> QED BY <2>1 DEF RuleOf, Rules
<1>2. CASE k.m # "batch"
  <2>1. Items(k)[n] = k.m
    BY <1>2 DEF Items
  <2> QED BY <1>2, <2>1 DEF AllMethods, RuleOf, Rules
<1> QED BY <1>1, <1>2

LEMMA RequestKeeps == ASSUME SInv, NEW r \in Requests, Request(r) PROVE Stays
<1>0. Calls /\ serial \in Nat
  BY SInvFacts
<1>2. scene.methods \subseteq AllMethods /\ scene.ids \subseteq Ids
  BY SInvFacts, Played DEF HostOK
<1>1. PICK m \in AllMethods, o \in Origins, i \in Ids :
        LET k == [NoCall EXCEPT !.m = m, !.o = o, !.i = i, !.since = serial]
        IN  Go(r, IF disposed THEN [k EXCEPT !.pc = "done", !.out = "shutdown"]
                  ELSE [k EXCEPT !.pc = "account"])
  BY <1>2 DEF Request
<1> DEFINE k == [NoCall EXCEPT !.m = m, !.o = o, !.i = i, !.since = serial]
<1>3. k \in CallType /\ k.m = m /\ k.o = o /\ k.i = i
  <2>1. <<>> \in Seq(Codes)
    OBVIOUS
  <2> QED BY <1>0, <1>2, <2>1 DEF NoCall, CallType, Pcs, Codes, Decisions
<1> HIDE DEF k
<1>4. CASE disposed
  <2> DEFINE j == [k EXCEPT !.pc = "done", !.out = "shutdown"]
  <2>0. "done" \in Pcs /\ "shutdown" \in Codes
    BY DEF Pcs, Codes
  <2>1. j \in CallType /\ Located(j)
    <3>1. j \in CallType /\ j.pc = "done"
      BY <1>3, <2>0 DEF CallType
    <3> HIDE DEF j
    <3> QED BY <3>1 DEF Located, Keeping
  <2>2. Go(r, j)
    BY <1>1, <1>4 DEF k
  <2> HIDE DEF j
  <2> QED BY <1>0, <2>1, <2>2, GoKeeps
<1>5. CASE ~disposed
  <2> DEFINE j == [k EXCEPT !.pc = "account"]
  <2>0. "account" \in Pcs
    BY DEF Pcs
  <2>1. j \in CallType /\ Located(j)
    <3>1. j \in CallType /\ j.pc = "account" /\ j.m = m /\ j.o = o /\ j.i = i
      BY <1>3, <2>0 DEF CallType
    <3> HIDE DEF j
    <3> QED BY <1>2, <3>1 DEF Located, Keeping
  <2>2. Go(r, j)
    BY <1>1, <1>5 DEF k
  <2> HIDE DEF j
  <2> QED BY <1>0, <2>1, <2>2, GoKeeps
<1> QED BY <1>4, <1>5

LEMMA AccountKeeps == ASSUME SInv, NEW r \in Requests, Account(r) PROVE Stays
<1>0. Calls /\ active \in Accounts \cup {None}
  BY SInvFacts DEF HostOK
<1>1. call[r].pc = "account" /\ call[r] \in CallType /\ Located(call[r])
  BY <1>0 DEF Account, Calls
<1>2. CASE active = None
  <2>1. Refuse(r, "no_account") /\ "no_account" \in Codes
    BY <1>2 DEF Account, Codes
  <2> QED BY <1>0, <1>1, <2>1, RefuseKeeps
<1>3. CASE active # None
  <2> DEFINE t == {RuleOf(Items(call[r])[n]) : n \in DOMAIN Items(call[r])}
  <2>1. t \subseteq Rules
    <3>1. call[r].m \in AllMethods
      BY <1>1 DEF Located
    <3> QED BY <3>1, ItemRule
  <2>2. Go(r, [call[r] EXCEPT !.acct = active, !.pc = "check", !.todo = t])
    BY <1>3 DEF Account
  <2> HIDE DEF t
  <2> DEFINE j == [call[r] EXCEPT !.acct = active, !.pc = "check", !.todo = t]
  <2>3. j \in CallType /\ Located(j)
    BY <1>0, <1>1, <1>3, <2>1 DEF CallType, Located, Keeping, Pcs
  <2> HIDE DEF j
  <2>4. Go(r, j)
    BY <2>2 DEF j
  <2> QED BY <1>0, <2>3, <2>4, GoKeeps
<1> QED BY <1>2, <1>3

LEMMA PermittedKeeps == ASSUME SInv, NEW r \in Requests, NEW k, Ready(k), Permitted(r, k)
                        PROVE  Stays /\ cooldown' \in [Origins -> Accounts \cup {None}]
<1>0. Calls /\ cooldown \in [Origins -> Accounts \cup {None}]
  BY SInvFacts
<1>1. /\ "unsupported" \in Codes /\ {"stored", "stillEarly"} \subseteq Pcs \ Keeping
      /\ "unlockEarly" \in DOMAIN KindAt
  BY DEF Codes, Pcs, KindAt, Keeping
<1>2. Stays
  BY <1>0, <1>1, ReadyGoOut, ReadyGo, EnterKeeps, AskKeeps DEF Permitted
<1>3. cooldown' \in [Origins -> Accounts \cup {None}]
  BY <1>0, AskCooldown DEF Permitted
<1> QED BY <1>2, <1>3

LEMMA CheckKeeps == ASSUME SInv, NEW r \in Requests, Check(r)
                    PROVE  Stays /\ cooldown' \in [Origins -> Accounts \cup {None}]
<1>0. Calls /\ cooldown \in [Origins -> Accounts \cup {None}]
  BY SInvFacts
<1>1. Ready(call[r]) /\ call[r].pc = "check"
  BY <1>0, ReadyCall DEF Check
<1>2. PICK rule \in call[r].todo :
        LET d == rules[call[r].o, call[r].acct, rule]
            k == [call[r] EXCEPT !.todo = @ \ {rule},
                                 !.asked = IF d = "ask" THEN @ \cup {rule} ELSE @]
        IN  IF d = "deny" THEN Refuse(r, "permission_denied") /\ UNCHANGED cooldown
            ELSE IF k.todo # {} THEN Go(r, k) /\ UNCHANGED cooldown
            ELSE Permitted(r, k)
  BY DEF Check
<1> DEFINE d == rules[call[r].o, call[r].acct, rule]
           k == [call[r] EXCEPT !.todo = @ \ {rule},
                                !.asked = IF d = "ask" THEN @ \cup {rule} ELSE @]
<1> HIDE DEF d
<1>3. Ready(k) /\ Located(k) /\ k \in CallType
  <2>1. call[r].todo \ {rule} \in SUBSET Rules
    BY <1>1 DEF Ready, CallType
  <2>2. (IF d = "ask" THEN call[r].asked \cup {rule} ELSE call[r].asked) \in SUBSET Rules
    BY <1>1 DEF Ready, CallType
  <2> QED BY <1>1, <2>1, <2>2 DEF Ready, CallType, Located, Keeping
<1>4. IF d = "deny" THEN Refuse(r, "permission_denied") /\ UNCHANGED cooldown
      ELSE IF k.todo # {} THEN Go(r, k) /\ UNCHANGED cooldown
      ELSE Permitted(r, k)
  BY <1>2 DEF d
<1> HIDE DEF k
<1>5. CASE d = "deny"
  <2>1. "permission_denied" \in Codes
    BY DEF Codes
  <2> QED BY <1>0, <1>1, <1>4, <1>5, <2>1, RefuseKeeps
<1>6. CASE d # "deny" /\ k.todo # {}
  BY <1>0, <1>3, <1>4, <1>6, GoKeeps
<1>7. CASE d # "deny" /\ k.todo = {}
  BY <1>3, <1>4, <1>7, PermittedKeeps
<1> QED BY <1>5, <1>6, <1>7

LEMMA StoredKeeps == ASSUME SInv, NEW r \in Requests, Stored(r)
                     PROVE  Stays /\ cooldown' \in [Origins -> Accounts \cup {None}]
<1>0. Calls /\ cooldown \in [Origins -> Accounts \cup {None}]
  BY SInvFacts
<1>1. Ready(call[r]) /\ call[r].pc = "stored"
  BY <1>0, ReadyCall DEF Stored
<1>2. ASSUME NEW c \in {"self", "grant", "none"}
      PROVE  Ready([call[r] EXCEPT !.consent = c])
  BY <1>1 DEF Ready, CallType
<1>3. \/ Refuse(r, "permission_denied") /\ UNCHANGED cooldown
      \/ \E c \in {"self", "grant", "none"} : Ask(r, [call[r] EXCEPT !.consent = c])
  BY DEF Stored
<1>4. "permission_denied" \in Codes
  BY DEF Codes
<1> QED BY <1>0, <1>1, <1>2, <1>3, <1>4, RefuseKeeps, AskKeeps, AskCooldown

LEMMA StillEarlyKeeps == ASSUME SInv, NEW r \in Requests, StillEarly(r) PROVE Stays
<1>0. Calls /\ epoch \in Nat
  BY SInvFacts
<1>1. Ready(call[r]) /\ call[r].pc = "stillEarly"
  BY <1>0, ReadyCall DEF StillEarly
<1> DEFINE j == [call[r] EXCEPT !.pc = "build", !.epoch = epoch]
<1>2. j \in CallType /\ Located(j)
  BY <1>0, <1>1 DEF Ready, CallType, Located, Keeping, Pcs
<1>3. Refuse(r, "account_switched") \/ Refuse(r, "vault_locked") \/ Go(r, j)
  BY DEF StillEarly
<1> HIDE DEF j
<1>4. {"account_switched", "vault_locked"} \subseteq Codes
  BY DEF Codes
<1> QED BY <1>0, <1>1, <1>2, <1>3, <1>4, RefuseKeeps, GoKeeps

LEMMA BuildKeeps == ASSUME SInv, NEW r \in Requests, Build(r)
                    PROVE  Stays /\ cooldown' \in [Origins -> Accounts \cup {None}]
<1>0. Calls /\ cooldown \in [Origins -> Accounts \cup {None}]
  BY SInvFacts
<1>1. Ready(call[r]) /\ call[r].pc = "build" /\ "vault_locked" \in Codes
  BY <1>0, ReadyCall DEF Build, Codes
<1> QED BY <1>0, <1>1, RefuseKeeps, AskKeeps, AskCooldown DEF Build

LEMMA AnswerKeeps == ASSUME SInv, NEW r \in Requests, Answer(r) PROVE Stays
<1>0. Calls /\ serial \in Nat
  BY SInvFacts
<1>1. Ready(call[r]) /\ call[r].pc = "prompt" /\ Waiting(call[r])
  BY <1>0, ReadyCall DEF Answer, Waiting, KindAt
<1>2. PICK allow \in BOOLEAN, remember \in BOOLEAN, scope \in {"none", "once", "site"},
           kept \in {{}, call[r].asked} :
        Resume(r, Outcome([call[r] EXCEPT !.todo = kept], allow, remember, scope))
  BY DEF Answer
<1> DEFINE k == [call[r] EXCEPT !.todo = kept]
           denied == [k EXCEPT !.pc = "save", !.keep = "deny"]
           granted == [k EXCEPT !.pc = "approved", !.keep = "allow",
                                !.consent = scope, !.said = TRUE, !.at = serial]
           j == Outcome(k, allow, remember, scope)
<1>3. Ready(k)
  BY <1>1 DEF Ready, CallType
<1>4. Resume(r, j)
  BY <1>2
<1> HIDE DEF k
<1>5. denied \in CallType /\ Located(denied)
  BY <1>3 DEF Ready, CallType, Located, Keeping, Pcs, Decisions
<1>6. granted \in CallType /\ Located(granted)
  BY <1>0, <1>3 DEF Ready, CallType, Located, Keeping, Pcs, Decisions
<1>7. "rejected" \in Codes /\ "denyCheck" \in Pcs \ Keeping
  BY DEF Codes, Pcs, Keeping
<1>8. j \in CallType /\ Located(j)
  <2>1. \/ j = Out(k, "rejected") \/ j = [k EXCEPT !.pc = "denyCheck"]
        \/ j = denied \/ j = granted
    <3>1. CASE allow /\ IsLogin(k) /\ scope \notin Offered(k)
      BY <3>1 DEF Outcome
    <3>2. CASE allow /\ ~(IsLogin(k) /\ scope \notin Offered(k))
      BY <3>2 DEF Outcome
    <3>3. CASE ~allow
      BY <3>3 DEF Outcome
    <3> QED BY <3>1, <3>2, <3>3
  <2> HIDE DEF j, denied, granted
  <2> QED BY <1>3, <1>5, <1>6, <1>7, <2>1, ReadyOut, ReadyMoves
<1> HIDE DEF j
<1> QED BY <1>0, <1>1, <1>4, <1>8, ResumeKeeps

LEMMA ApprovedKeeps == ASSUME SInv, NEW r \in Requests, Approved(r)
                       PROVE  /\ Stays /\ cooldown' \in [Origins -> Accounts \cup {None}]
                              /\ shared' \subseteq Origins \X Accounts
<1>0. Calls /\ cooldown \in [Origins -> Accounts \cup {None}] /\ shared \subseteq Origins \X Accounts
  BY SInvFacts DEF TrustOK
<1>1. Ready(call[r]) /\ call[r].pc = "approved"
  BY <1>0, ReadyCall DEF Approved
<1>2. "account_switched" \in Codes
  BY DEF Codes
<1>3. Stays
  <2> DEFINE j == [call[r] EXCEPT !.pc = "save"]
  <2>1. call[r].keep \in Decisions
    BY <1>0, <1>1 DEF Calls, Located, Keeping
  <2>2. j \in CallType /\ Located(j)
    BY <1>1, <2>1 DEF Ready, CallType, Located, Keeping, Pcs
  <2>3. Refuse(r, "account_switched") \/ Go(r, j) \/ ToUnlock(r, call[r])
    BY DEF Approved
  <2> HIDE DEF j
  <2> QED BY <1>0, <1>1, <1>2, <2>2, <2>3, RefuseKeeps, GoKeeps, ToUnlockKeeps
<1>4. cooldown' \in [Origins -> Accounts \cup {None}]
  BY <1>0, <1>1 DEF Approved, GrantCooldown, Ready
<1>5. shared' \subseteq Origins \X Accounts
  BY <1>0, <1>1 DEF Approved, Ready
<1> QED BY <1>3, <1>4, <1>5

LEMMA SaveKeeps == ASSUME SInv, NEW r \in Requests, Save(r)
                   PROVE  /\ Stays /\ cooldown' \in [Origins -> Accounts \cup {None}]
                          /\ rules' \in [Origins \X Accounts \X Rules -> Decisions]
<1>0. /\ Calls /\ cooldown \in [Origins -> Accounts \cup {None}]
      /\ rules \in [Origins \X Accounts \X Rules -> Decisions]
  BY SInvFacts DEF TrustOK
<1>1. Ready(call[r]) /\ call[r].pc = "save"
  BY <1>0, ReadyCall DEF Save
<1>2. PICK rule \in call[r].todo :
        LET k == [call[r] EXCEPT !.todo = @ \ {rule}]
        IN  /\ rules' = [rules EXCEPT ![<<k.o, k.acct, rule>>] = k.keep]
            /\ IF k.todo # {} THEN Go(r, k) /\ UNCHANGED cooldown
               ELSE IF k.keep = "deny" THEN Go(r, Out(k, "rejected")) /\ UNCHANGED cooldown
               ELSE ToUnlock(r, k) /\ cooldown' = GrantCooldown(k)
  BY DEF Save
<1> DEFINE k == [call[r] EXCEPT !.todo = @ \ {rule}]
<1>3. Ready(k) /\ Located(k) /\ k \in CallType /\ k.keep \in Decisions
  <2>1. call[r].keep \in Decisions
    BY <1>0, <1>1 DEF Calls, Located, Keeping
  <2> QED BY <1>1, <2>1 DEF Ready, CallType, Located
<1> HIDE DEF k
<1>4. /\ rules' = [rules EXCEPT ![<<k.o, k.acct, rule>>] = k.keep]
      /\ IF k.todo # {} THEN Go(r, k) /\ UNCHANGED cooldown
         ELSE IF k.keep = "deny" THEN Go(r, Out(k, "rejected")) /\ UNCHANGED cooldown
         ELSE ToUnlock(r, k) /\ cooldown' = GrantCooldown(k)
  BY <1>2 DEF k
<1>5. "rejected" \in Codes
  BY DEF Codes
<1>6. Stays
  BY <1>0, <1>3, <1>4, <1>5, GoKeeps, ReadyGoOut, ToUnlockKeeps
<1>7. cooldown' \in [Origins -> Accounts \cup {None}]
  BY <1>0, <1>3, <1>4 DEF GrantCooldown, Ready
<1>8. rules' \in [Origins \X Accounts \X Rules -> Decisions]
  <2>1. rule \in Rules /\ <<k.o, k.acct, rule>> \in Origins \X Accounts \X Rules
    BY <1>1, <1>3 DEF Ready, CallType
  <2> QED BY <1>0, <1>3, <1>4, <2>1
<1> QED BY <1>6, <1>7, <1>8

LEMMA UnlockedKeeps == ASSUME SInv, NEW r \in Requests, Unlocked(r) PROVE Stays
<1>0. Calls
  BY SInvFacts
<1>1. Ready(call[r]) /\ call[r].pc \in {"unlock", "unlockEarly"} /\ Waiting(call[r])
  BY <1>0, ReadyCall DEF Unlocked, Waiting, KindAt
<1>2. \/ Resume(r, Out(call[r], "vault_locked"))
      \/ Resume(r, [call[r] EXCEPT !.pc = "still"])
      \/ Resume(r, [call[r] EXCEPT !.pc = "stillEarly"])
  BY <1>1 DEF Unlocked
<1>3. "vault_locked" \in Codes /\ {"still", "stillEarly"} \subseteq Pcs \ Keeping
  BY DEF Codes, Pcs, Keeping
<1>4. ASSUME NEW j \in CallType, Located(j), Resume(r, j) PROVE Stays
  BY <1>0, <1>1, <1>4, ResumeKeeps
<1> QED BY <1>1, <1>2, <1>3, <1>4, ReadyOut, ReadyMoves

LEMMA StillKeeps == ASSUME SInv, NEW r \in Requests, Still(r) PROVE Stays
<1>0. Calls /\ serial \in Nat /\ epoch \in Nat
  BY SInvFacts
<1>1. Ready(call[r]) /\ call[r].pc = "still"
  BY <1>0, ReadyCall DEF Still
<1> DEFINE k == [call[r] EXCEPT !.since = IF call[r].m = "batch" THEN serial ELSE @]
<1>2. Ready(k)
  BY <1>0, <1>1 DEF Ready, CallType
<1>3. \/ Refuse(r, "account_switched") \/ Go(r, Revalidate(k, 1)) \/ Execute(r, k)
  BY DEF Still
<1> HIDE DEF k
<1>4. "account_switched" \in Codes
  BY DEF Codes
<1> QED BY <1>0, <1>1, <1>2, <1>3, <1>4, RefuseKeeps, RevalidateReady, GoKeeps, ExecuteKeeps

LEMMA RecheckRuleKeeps == ASSUME SInv, NEW r \in Requests, RecheckRule(r) PROVE Stays
<1>0. Calls
  BY SInvFacts
<1>1. Ready(call[r]) /\ call[r].pc = "rule"
  BY <1>0, ReadyCall DEF RecheckRule
<1>2. "permission_denied" \in Codes /\ "wanted" \in Pcs \ Keeping
  BY DEF Codes, Pcs, Keeping
<1> QED BY <1>0, <1>1, <1>2, RefuseKeeps, ReadyGo DEF RecheckRule

LEMMA RecheckWantedKeeps == ASSUME SInv, NEW r \in Requests, RecheckWanted(r) PROVE Stays
<1>0. Calls
  BY SInvFacts
<1>1. Ready(call[r]) /\ call[r].pc = "wanted"
  BY <1>0, ReadyCall DEF RecheckWanted
<1>2. /\ {"account_switched", "rejected", "shutdown", "vault_locked"} \subseteq Codes
      /\ "regrant" \in Pcs \ Keeping
  BY DEF Codes, Pcs, Keeping
<1> QED BY <1>0, <1>1, <1>2, RefuseKeeps, ReadyGo DEF RecheckWanted

LEMMA RecheckGrantKeeps == ASSUME SInv, NEW r \in Requests, RecheckGrant(r) PROVE Stays
<1>0. Calls /\ epoch \in Nat
  BY SInvFacts
<1>1. Ready(call[r]) /\ call[r].pc = "regrant"
  BY <1>0, ReadyCall DEF RecheckGrant
<1>2. {"permission_denied", "ok"} \subseteq Codes /\ "grantCheck" \in Pcs \ Keeping
  BY DEF Codes, Pcs, Keeping
<1>3. \/ Refuse(r, "permission_denied") \/ Go(r, Out(call[r], "ok"))
      \/ Go(r, [call[r] EXCEPT !.pc = "grantCheck"]) \/ Execute(r, call[r])
  BY DEF RecheckGrant
<1> QED BY <1>0, <1>1, <1>2, <1>3, RefuseKeeps, ReadyGo, ReadyGoOut, ExecuteKeeps

LEMMA SaveGrantCheckKeeps == ASSUME SInv, NEW r \in Requests, SaveGrantCheck(r) PROVE Stays
<1>0. Calls
  BY SInvFacts
<1>1. Ready(call[r]) /\ call[r].pc \in {"grantCheck", "denyCheck"}
  BY <1>0, ReadyCall DEF SaveGrantCheck
<1>2. /\ {"account_switched", "permission_denied"} \subseteq Codes
      /\ {"denyWrite", "grantWrite"} \subseteq Pcs \ Keeping
  BY DEF Codes, Pcs, Keeping
<1>3. \/ Refuse(r, "account_switched") \/ Refuse(r, "permission_denied")
      \/ Go(r, [call[r] EXCEPT !.pc = "denyWrite"]) \/ Go(r, [call[r] EXCEPT !.pc = "grantWrite"])
  BY DEF SaveGrantCheck
<1> QED BY <1>0, <1>1, <1>2, <1>3, RefuseKeeps, ReadyGo

LEMMA SaveGrantKeeps == ASSUME SInv, NEW r \in Requests, SaveGrant(r)
                        PROVE  Stays /\ grants' \in [Origins \X Accounts -> Decisions]
<1>0. Calls /\ epoch \in Nat /\ grants \in [Origins \X Accounts -> Decisions]
  BY SInvFacts DEF TrustOK
<1>1. Ready(call[r]) /\ call[r].pc \in {"grantWrite", "denyWrite"} /\ "rejected" \in Codes
  BY <1>0, ReadyCall DEF SaveGrant, Codes
<1> DEFINE d == IF call[r].pc = "grantWrite" THEN "allow" ELSE "deny"
           k == [call[r] EXCEPT !.wrote = d]
<1>2. d \in Decisions
  BY DEF Decisions
<1>3. /\ grants' = [grants EXCEPT ![<<k.o, k.acct>>] = k.wrote]
      /\ Execute(r, k) \/ Go(r, Out(k, "rejected"))
  BY DEF SaveGrant
<1> HIDE DEF d
<1>4. Ready(k) /\ k.o = call[r].o /\ k.acct = call[r].acct /\ k.wrote = d
  BY <1>1, <1>2 DEF Ready, CallType
<1> HIDE DEF k
<1>5. Stays
  BY <1>0, <1>1, <1>3, <1>4, ReadyGoOut, ExecuteKeeps
<1>6. grants' \in [Origins \X Accounts -> Decisions]
  BY <1>0, <1>1, <1>2, <1>3, <1>4 DEF Ready
<1> QED BY <1>5, <1>6

LEMMA UsedReady == ASSUME SInv, NEW k, Ready(k) PROVE Ready(Used(k))
<1>0. revoked \in [Origins -> Nat] /\ grants \in [Origins \X Accounts -> Decisions]
  BY SInvFacts DEF TrustOK
<1> DEFINE cut == revoked[k.o] > k.since
           stored == grants[<<k.o, k.acct>>]
           away == ~StillActive(k)
<1>1. cut \in BOOLEAN
  OBVIOUS
<1>2. away \in BOOLEAN
  OBVIOUS
<1>3. stored \in Decisions
  BY <1>0 DEF Ready
<1>4. Used(k) = [k EXCEPT !.cut = cut, !.stored = stored, !.away = away]
  BY DEF Used
<1> HIDE DEF cut, stored, away
<1> QED BY <1>1, <1>2, <1>3, <1>4 DEF Ready, CallType

LEMMA SignKeeps == ASSUME SInv, NEW r \in Requests, Sign(r) PROVE Stays
<1>0. Calls
  BY SInvFacts
<1>1. Ready(call[r]) /\ call[r].pc = "sign"
  BY <1>0, ReadyCall DEF Sign
<1> DEFINE k == Used(call[r])
<1>2. Ready(k)
  BY <1>1, UsedReady
<1>3. \E result \in {"ok", "vault_locked"} :
        \/ Go(r, ItemDone(k, result)) \/ Go(r, [k EXCEPT !.pc = "answered"])
        \/ Go(r, Out(k, result))
  BY DEF Sign
<1> HIDE DEF k
<1>4. {"ok", "vault_locked"} \subseteq Codes /\ "answered" \in Pcs \ Keeping
  BY DEF Codes, Pcs, Keeping
<1> QED BY <1>0, <1>2, <1>3, <1>4, ItemDoneReady, GoKeeps, ReadyGo, ReadyGoOut

LEMMA RemoteAnswerKeeps == ASSUME SInv, NEW r \in Requests, RemoteAnswer(r) PROVE Stays
<1>0. Calls
  BY SInvFacts
<1>1. Ready(call[r]) /\ call[r].pc = "remote" /\ Waiting(call[r])
  BY <1>0, ReadyCall DEF RemoteAnswer, Waiting, KindAt
<1>2. Ready(Used(call[r])) /\ "answered" \in Pcs \ Keeping
  BY <1>1, UsedReady DEF Pcs, Keeping
<1> QED BY <1>0, <1>1, <1>2, ReadyMoves, ResumeKeeps DEF RemoteAnswer

\* The same outcome for every item that is left.
LEMMA RestTyped == ASSUME NEW m \in Int, NEW code \in Codes
                   PROVE  [n \in 1..m |-> code] \in Seq(Codes)
<1>1. CASE m >= 0
  BY <1>1
<1>2. CASE m < 0
  <2>1. [n \in 1..m |-> code] = [n \in 1..0 |-> code]
    BY <1>2
  <2>2. [n \in 1..0 |-> code] \in Seq(Codes)
    OBVIOUS
  <2> QED BY <2>1, <2>2
<1> QED BY <1>1, <1>2

LEMMA GapKeeps == ASSUME SInv, NEW r \in Requests, Gap(r) PROVE Stays
<1>0. Calls
  BY SInvFacts
<1>1. Ready(call[r]) /\ call[r].pc = "gap"
  BY <1>0, ReadyCall DEF Gap
<1>2. PICK stop \in {"account_switched", "rejected", "none"} :
        LET rest == [n \in 1..(Len(BatchItems) - Len(call[r].results)) |-> stop]
        IN  \/ Go(r, [call[r] EXCEPT !.pc = "yield"])
            \/ Go(r, Out([call[r] EXCEPT !.results = @ \o rest], "ok"))
  BY DEF Gap
<1> DEFINE m == Len(BatchItems) - Len(call[r].results)
           rest == [n \in 1..m |-> stop]
           k == [call[r] EXCEPT !.results = @ \o rest]
<1>3. Ready(k)
  <2>1. call[r].results \in Seq(Codes)
    BY <1>1 DEF Ready, CallType
  <2>2. m \in Int
    BY <2>1, SignerAssumption
  <2> HIDE DEF m
  <2>3. stop \in Codes
    BY DEF Codes
  <2>4. rest \in Seq(Codes)
    BY <2>2, <2>3, RestTyped
  <2> HIDE DEF rest
  <2>5. call[r].results \o rest \in Seq(Codes)
    BY <2>1, <2>4
  <2> QED BY <1>1, <2>5 DEF Ready, CallType
<1>4. Go(r, [call[r] EXCEPT !.pc = "yield"]) \/ Go(r, Out(k, "ok"))
  BY <1>2
<1> HIDE DEF k, rest, m
<1>5. "ok" \in Codes /\ "yield" \in Pcs \ Keeping
  BY DEF Codes, Pcs, Keeping
<1> QED BY <1>0, <1>1, <1>3, <1>4, <1>5, ReadyGo, ReadyGoOut

LEMMA YieldKeeps == ASSUME SInv, NEW r \in Requests, Yield(r) PROVE Stays
<1>0. Calls /\ epoch \in Nat
  BY SInvFacts
<1>1. Ready(call[r])
  BY <1>0, ReadyCall DEF Yield
<1> QED BY <1>0, <1>1, SignLocallyReady, GoKeeps DEF Yield

LEMMA AnsweredKeeps == ASSUME SInv, NEW r \in Requests, Answered(r) PROVE Stays
<1>0. Calls
  BY SInvFacts
<1>1. Ready(call[r]) /\ call[r].pc = "answered"
  BY <1>0, ReadyCall DEF Answered
<1>2. {"account_switched", "ok"} \subseteq Codes
  BY DEF Codes
<1>3. \/ Refuse(r, "account_switched") \/ Go(r, Revalidate(call[r], 2)) \/ Go(r, Out(call[r], "ok"))
  BY DEF Answered
<1> QED BY <1>0, <1>1, <1>2, <1>3, RefuseKeeps, RevalidateReady, GoKeeps, ReadyGoOut

LEMMA RecordKeeps == ASSUME SInv, NEW r \in Requests, Record(r) PROVE Stays
<1>0. Calls
  BY SInvFacts
<1>1. call[r] \in CallType
  BY <1>0 DEF Calls
<1> DEFINE k == call[r]
           j == [NoCall EXCEPT !.m = k.m, !.o = k.o, !.acct = k.acct, !.pc = "done",
                   !.out = k.out, !.asked = k.asked, !.keep = k.keep, !.consent = k.consent,
                   !.results = k.results, !.said = k.said, !.cut = k.cut,
                   !.stored = k.stored, !.away = k.away, !.wrote = k.wrote]
<1>2. Go(r, j)
  BY DEF Record
<1>3. j \in CallType /\ Located(j)
  <2> DEFINE h == [NoCall EXCEPT !.m = k.m, !.o = k.o, !.acct = k.acct, !.pc = "done",
                     !.out = k.out, !.asked = k.asked, !.keep = k.keep]
  <2>1. h \in CallType /\ h.pc = "done"
    <3> DEFINE g == [NoCall EXCEPT !.m = k.m, !.o = k.o, !.acct = k.acct, !.pc = "done"]
    <3>0. k \in CallType /\ NoCall \in CallType /\ "done" \in Pcs
      BY <1>1, NoCallTyped DEF Pcs
    <3> HIDE DEF k
    <3>1. g \in CallType /\ g.pc = "done"
      BY <3>0 DEF CallType
    <3>2. h = [g EXCEPT !.out = k.out, !.asked = k.asked, !.keep = k.keep]
      OBVIOUS
    <3> HIDE DEF g, h
    <3> QED BY <3>0, <3>1, <3>2 DEF CallType
  <2>2. j = [h EXCEPT !.consent = k.consent, !.results = k.results, !.said = k.said,
               !.cut = k.cut, !.stored = k.stored, !.away = k.away, !.wrote = k.wrote]
    OBVIOUS
  <2> HIDE DEF h, j
  <2>3. j \in CallType /\ j.pc = "done"
    BY <1>1, <2>1, <2>2 DEF CallType
  <2> QED BY <2>3 DEF Located, Keeping
<1> HIDE DEF j
<1> QED BY <1>0, <1>2, <1>3, GoKeeps

\* Every step a request takes keeps the invariant and is a step of the queue, or none.
LEMMA RequestSteps == ASSUME SInv, NEW r \in Requests, Request(r) \/ Step(r) \/ Reply(r),
                             UNCHANGED <<host, spent>>
                      PROVE  SInv' /\ [QueueNext]_queueVars
<1>0. HostOK' /\ TrustOK
  BY SInvFacts DEF HostOK, host
<1>1. ASSUME Stays, UNCHANGED <<trust, shared>> PROVE SInv' /\ [QueueNext]_queueVars
  BY <1>1, Quiet
<1>2. ASSUME Stays, UNCHANGED <<rules, grants, serial, revoked, shared>>,
             cooldown' \in [Origins -> Accounts \cup {None}]
      PROVE  SInv' /\ [QueueNext]_queueVars
  <2>1. TrustOK'
    BY <1>0, <1>2 DEF TrustOK
  <2> QED BY <1>0, <1>2, <2>1, Together
<1>3. CASE Request(r)
  BY <1>1, <1>3, RequestKeeps DEF Request
<1>4. CASE Account(r)
  BY <1>1, <1>4, AccountKeeps DEF Account
<1>5. CASE Check(r)
  BY <1>2, <1>5, CheckKeeps DEF Check
<1>6. CASE Stored(r)
  BY <1>2, <1>6, StoredKeeps DEF Stored
<1>7. CASE StillEarly(r)
  BY <1>1, <1>7, StillEarlyKeeps DEF StillEarly
<1>8. CASE Build(r)
  BY <1>2, <1>8, BuildKeeps DEF Build
<1>9. CASE Answer(r)
  BY <1>1, <1>9, AnswerKeeps DEF Answer
<1>10. CASE Approved(r)
  <2>1. TrustOK'
    BY <1>0, <1>10, ApprovedKeeps DEF Approved, TrustOK
  <2> QED BY <1>0, <1>10, <2>1, ApprovedKeeps, Together
<1>11. CASE Save(r)
  <2>1. TrustOK'
    BY <1>0, <1>11, SaveKeeps DEF Save, TrustOK
  <2> QED BY <1>0, <1>11, <2>1, SaveKeeps, Together
<1>12. CASE Unlocked(r)
  BY <1>1, <1>12, UnlockedKeeps DEF Unlocked
<1>13. CASE Still(r)
  BY <1>1, <1>13, StillKeeps DEF Still
<1>14. CASE RecheckRule(r)
  BY <1>1, <1>14, RecheckRuleKeeps DEF RecheckRule
<1>15. CASE RecheckWanted(r)
  BY <1>1, <1>15, RecheckWantedKeeps DEF RecheckWanted
<1>16. CASE RecheckGrant(r)
  BY <1>1, <1>16, RecheckGrantKeeps DEF RecheckGrant
<1>17. CASE SaveGrantCheck(r)
  BY <1>1, <1>17, SaveGrantCheckKeeps DEF SaveGrantCheck
<1>18. CASE SaveGrant(r)
  <2>1. TrustOK'
    BY <1>0, <1>18, SaveGrantKeeps DEF SaveGrant, TrustOK
  <2> QED BY <1>0, <1>18, <2>1, SaveGrantKeeps, Together
<1>19. CASE Sign(r)
  BY <1>1, <1>19, SignKeeps DEF Sign
<1>20. CASE RemoteAnswer(r)
  BY <1>1, <1>20, RemoteAnswerKeeps DEF RemoteAnswer
<1>21. CASE Gap(r)
  BY <1>1, <1>21, GapKeeps DEF Gap
<1>22. CASE Yield(r)
  BY <1>1, <1>22, YieldKeeps DEF Yield
<1>23. CASE Answered(r)
  BY <1>1, <1>23, AnsweredKeeps DEF Answered
<1>24. CASE Record(r)
  BY <1>1, <1>24, RecordKeeps DEF Record
<1> QED BY <1>3, <1>4, <1>5, <1>6, <1>7, <1>8, <1>9, <1>10, <1>11, <1>12, <1>13, <1>14, <1>15,
           <1>16, <1>17, <1>18, <1>19, <1>20, <1>21, <1>22, <1>23, <1>24 DEF Step, Reply

----------------------------------------------------------------------------
(* What the user, the host, the timers and the ports do.                   *)

LEMMA SpendTyped == ASSUME HostOK, NEW what \in {"switches", "locks", "revokes", "edits", "faults"},
                           Spend(what)
                    PROVE  spent' \in SpentType
BY DEF HostOK, Spend, SpentType

LEMMA PortFailsKeeps == ASSUME SInv, NEW r \in Requests, PortFails(r)
                        PROVE  SInv' /\ [QueueNext]_queueVars
<1>0. Calls /\ HostOK /\ TrustOK
  BY SInvFacts
<1>1. call[r] \in CallType /\ Located(call[r]) /\ call[r].pc \notin {"idle", "record", "done"}
  BY <1>0 DEF PortFails, Calls
<1>2. HostOK' /\ TrustOK'
  <2>1. spent' \in SpentType
    BY <1>0, SpendTyped DEF PortFails
  <2> QED BY <1>0, <2>1 DEF PortFails, HostOK, TrustOK, host, trust
<1>3. "failed" \in Codes
  BY DEF Codes
<1>4. CASE Waiting(call[r])
  BY <1>0, <1>1, <1>2, <1>3, <1>4, OutStays, ResumeKeeps, Together DEF PortFails
<1>5. CASE ~Waiting(call[r]) /\ call[r].pc = "sign" /\ call[r].m = "batch"
  <2>1. Ready(call[r])
    BY <1>0, <1>5, ReadyCall
  <2> QED BY <1>0, <1>2, <1>3, <1>5, <2>1, ItemDoneReady, GoKeeps, Together DEF PortFails
<1>6. CASE ~Waiting(call[r]) /\ ~(call[r].pc = "sign" /\ call[r].m = "batch")
  <2>1. Go(r, Out(call[r], "failed"))
    BY <1>6 DEF PortFails
  <2> QED BY <1>0, <1>1, <1>2, <1>3, <2>1, OutStays, GoKeeps, Together
<1> QED BY <1>4, <1>5, <1>6

\* Settling what one of the queue's own selections finds, or nothing.
LEMMA FailStays == ASSUME Calls, NEW gone, NEW code \in Codes, Fail(gone, code),
                          Settle(gone) => [QueueNext]_queueVars
                   PROVE  Stays
BY FailKeeps DEF Fail, Stays

LEMMA TimeoutKeeps == ASSUME SInv, NEW r \in Requests, Timeout(r)
                      PROVE  SInv' /\ [QueueNext]_queueVars
<1>0. Calls
  BY SInvFacts
<1>1. Ready(call[r]) /\ call[r].pc \in DOMAIN KindAt
  BY <1>0, ReadyCall DEF Timeout, Waiting, KindAt
<1>2. Settle({EntryOf(call[r])}) => [QueueNext]_queueVars
  BY <1>1, SettleOne
<1>3. "timeout" \in Codes
  BY DEF Codes
<1>4. Stays
  BY <1>0, <1>2, <1>3, FailStays DEF Timeout
<1> QED BY <1>4, Quiet DEF Timeout

LEMMA CancelKeeps == ASSUME SInv, NEW o \in Origins, NEW i \in Ids, Cancel(o, i)
                     PROVE  SInv' /\ [QueueNext]_queueVars
<1>1. Settle(Matching(o, i)) => [QueueNext]_queueVars
  BY DEF QueueNext
<1>2. Calls /\ "rejected" \in Codes
  BY SInvFacts DEF Codes
<1>3. Stays
  BY <1>1, <1>2, FailStays DEF Cancel
<1> QED BY <1>3, Quiet DEF Cancel

\* The steps that touch neither the queue nor a request.
LEMMA AloneKeeps == ASSUME SInv, UNCHANGED <<queueVars, call>>, HostOK', TrustOK'
                    PROVE  SInv' /\ [QueueNext]_queueVars
<1>1. Calls' /\ UNCHANGED queueVars
  BY SInvFacts DEF Calls, queueVars
<1>2. Stays
  BY <1>1 DEF Stays
<1> QED BY <1>2, Together

LEMMA SwitchKeeps == ASSUME SInv, Switch PROVE SInv' /\ [QueueNext]_queueVars
<1>0. HostOK /\ TrustOK
  BY SInvFacts
<1>1. spent' \in SpentType
  BY <1>0, SpendTyped DEF Switch
<1>3. scene.accounts \subseteq Accounts
  BY <1>0, Played DEF HostOK
<1>2. HostOK' /\ TrustOK'
  BY <1>0, <1>1, <1>3 DEF Switch, HostOK, TrustOK, trust
<1> QED BY <1>2, AloneKeeps DEF Switch

LEMMA LockKeeps == ASSUME SInv, Lock PROVE SInv' /\ [QueueNext]_queueVars
<1>0. HostOK /\ TrustOK
  BY SInvFacts
<1>1. spent' \in SpentType
  BY <1>0, SpendTyped DEF Lock
<1>2. HostOK' /\ TrustOK'
  BY <1>0, <1>1 DEF Lock, HostOK, TrustOK, trust
<1> QED BY <1>2, AloneKeeps DEF Lock

LEMMA UnlockKeeps == ASSUME SInv, Unlock PROVE SInv' /\ [QueueNext]_queueVars
<1>0. HostOK /\ TrustOK
  BY SInvFacts
<1>1. HostOK' /\ TrustOK'
  BY <1>0 DEF Unlock, HostOK, TrustOK, trust
<1> QED BY <1>1, AloneKeeps DEF Unlock

LEMMA CooldownEndsKeeps == ASSUME SInv, NEW o \in Origins, CooldownEnds(o)
                           PROVE  SInv' /\ [QueueNext]_queueVars
<1>0. HostOK /\ TrustOK
  BY SInvFacts
<1>1. HostOK' /\ TrustOK'
  BY <1>0 DEF CooldownEnds, HostOK, TrustOK, host
<1> QED BY <1>1, AloneKeeps DEF CooldownEnds

LEMMA TellKeeps == ASSUME SInv, Tell PROVE SInv' /\ [QueueNext]_queueVars
<1>0. Calls /\ HostOK /\ TrustOK /\ "account_switched" \in Codes
  BY SInvFacts DEF Codes
<1> DEFINE gone == IF told[1] = None THEN {} ELSE OnAccount(told[1])
<1>1. PICK a \in Accounts \cup {None} : told = <<a>>
  BY <1>0 DEF Tell, HostOK
<1>2. Settle(gone) => [QueueNext]_queueVars
  <2>1. CASE a = None
    BY <1>1, <2>1 DEF Settle, queueVars
  <2>2. CASE a # None
    BY <1>1, <2>2 DEF QueueNext
  <2> QED BY <2>1, <2>2
<1>3. Stays
  <2>1. Fail(gone, "account_switched")
    BY DEF Tell
  <2> HIDE DEF gone
  <2> QED BY <1>0, <1>2, <2>1, FailStays
<1>4. HostOK' /\ TrustOK'
  BY <1>0 DEF Tell, HostOK, TrustOK
<1> QED BY <1>3, <1>4, Together

LEMMA RevokeKeeps == ASSUME SInv, NEW o \in Origins, Revoke(o)
                     PROVE  SInv' /\ [QueueNext]_queueVars
<1>0. Calls /\ HostOK /\ TrustOK /\ "rejected" \in Codes
  BY SInvFacts DEF Codes
<1>1. Settle(Of(o)) => [QueueNext]_queueVars
  BY DEF QueueNext
<1>2. Stays
  BY <1>0, <1>1, FailStays DEF Revoke
<1>3. spent' \in SpentType
  BY <1>0, SpendTyped DEF Revoke
<1>4. HostOK' /\ TrustOK'
  BY <1>0, <1>3 DEF Revoke, HostOK, TrustOK, host
<1> QED BY <1>2, <1>4, Together

LEMMA EditKeeps == ASSUME SInv, Edit PROVE SInv' /\ [QueueNext]_queueVars
<1>0. HostOK /\ TrustOK
  BY SInvFacts
<1>1. spent' \in SpentType
  BY <1>0, SpendTyped DEF Edit
<1>2. HostOK'
  BY <1>0, <1>1 DEF Edit, HostOK, host
<1>3. PICK o \in Origins, a \in Accounts, d \in Decisions :
        \/ /\ \E rule : rules' = [rules EXCEPT ![<<o, a, rule>>] = d]
           /\ UNCHANGED grants
        \/ grants' = [grants EXCEPT ![<<o, a>>] = d] /\ UNCHANGED rules
  <2>1. scene.accounts \subseteq Accounts
    BY <1>0, Played DEF HostOK
  <2> QED BY <2>1 DEF Edit
<1>4. TrustOK'
  <2>1. CASE grants' = [grants EXCEPT ![<<o, a>>] = d] /\ UNCHANGED rules
    BY <1>0, <2>1 DEF Edit, TrustOK
  <2>2. ASSUME NEW rule, rules' = [rules EXCEPT ![<<o, a, rule>>] = d], UNCHANGED grants
        PROVE  TrustOK'
    BY <1>0, <2>2 DEF Edit, TrustOK
  <2> QED BY <1>3, <2>1, <2>2
<1> QED BY <1>2, <1>4, AloneKeeps DEF Edit

LEMMA DisposeKeeps == ASSUME SInv, DisposeSigner PROVE SInv' /\ [QueueNext]_queueVars
<1>0. Calls /\ HostOK /\ TrustOK /\ "shutdown" \in Codes
  BY SInvFacts DEF Codes
<1>1. Calls'
  <2> SUFFICES ASSUME NEW r \in Requests PROVE call'[r] \in CallType /\ Located(call'[r])
    BY DEF DisposeSigner, Calls
  <2>1. call[r] \in CallType /\ Located(call[r])
    BY <1>0 DEF Calls
  <2>2. CASE Waiting(call[r])
    <3>1. call'[r] = Out(call[r], "shutdown") /\ call[r].pc \notin {"idle", "done"}
      BY <2>2 DEF DisposeSigner, Waiting, KindAt
    <3> QED BY <1>0, <2>1, <3>1, OutStays
  <2>3. CASE ~Waiting(call[r])
    BY <2>1, <2>3 DEF DisposeSigner
  <2> QED BY <2>2, <2>3
<1>2. Stays
  BY <1>1 DEF Stays, DisposeSigner, QueueNext
<1>3. HostOK' /\ TrustOK'
  BY <1>0 DEF DisposeSigner, HostOK, TrustOK, host
<1> QED BY <1>2, <1>3, Together

LEMMA SignerStep == SInv /\ [Next]_vars => SInv' /\ [QueueNext]_queueVars
<1> SUFFICES ASSUME SInv, [Next]_vars PROVE SInv' /\ [QueueNext]_queueVars
  OBVIOUS
<1>1. CASE UNCHANGED vars
  <2>1. HostOK' /\ TrustOK'
    BY <1>1, SInvFacts DEF vars, host, trust, HostOK, TrustOK
  <2> QED BY <1>1, <2>1, AloneKeeps DEF vars
<1>2. ASSUME NEW r \in Requests, Request(r) \/ Step(r) \/ Reply(r), UNCHANGED <<host, spent>>
      PROVE  SInv' /\ [QueueNext]_queueVars
  BY <1>2, RequestSteps
<1>3. ASSUME NEW r \in Requests, PortFails(r) \/ Timeout(r) PROVE SInv' /\ [QueueNext]_queueVars
  BY <1>3, PortFailsKeeps, TimeoutKeeps
<1>4. ASSUME NEW o \in Origins, Revoke(o) \/ CooldownEnds(o) \/ \E i \in Ids : Cancel(o, i)
      PROVE  SInv' /\ [QueueNext]_queueVars
  BY <1>4, RevokeKeeps, CooldownEndsKeeps, CancelKeeps
<1>5. CASE Switch \/ Tell \/ Lock \/ Unlock \/ Edit \/ DisposeSigner
  BY <1>5, SwitchKeeps, TellKeeps, LockKeeps, UnlockKeeps, EditKeeps, DisposeKeeps
<1> QED BY <1>1, <1>2, <1>3, <1>4, <1>5 DEF Next

----------------------------------------------------------------------------
(* The theorems.                                                           *)

\* Every request is located: from the moment it has an account until it is recorded, and
\* from the moment it is made, its caller and id are what the queue can key it by.
THEOREM SignerInvariant == Spec => []SInv
<1>1. Init => SInv
  BY SignerStarts
<1>2. SInv /\ [Next]_vars => SInv'
  BY SignerStep
<1> QED BY <1>1, <1>2, PTL DEF Spec

\* core.ts: every variable, and every request the pipeline carries across an await, keeps
\* its type.
THEOREM SignerTypeCorrect == Spec => []TypeOK
<1>1. SInv => TypeOK
  BY DEF SInv
<1> QED BY <1>1, SignerInvariant, PTL

\* core.ts over queue.ts: whatever the pipeline does to its queue, requests, answers, timers,
\* cancellations, switches, revocations, disposal, is an operation of the queue.
THEOREM SignerUsesQueue == Spec => QueueSpec
<1>1. Init => QueueInit
  BY SignerStarts
<1>2. SInv /\ [Next]_vars => [QueueNext]_queueVars
  BY SignerStep
<1> QED BY <1>1, <1>2, SignerInvariant, PTL DEF Spec, QueueSpec

\* So no caller of the pipeline holds more prompts or entries than its caps allow, whatever
\* the order in which its requests are made, answered, timed out and revoked.
THEOREM SignerCapped == Spec => []Capped
BY SignerUsesQueue, QueueCapped, PTL

\* And two pending requests of one caller never share an id for the same kind of wait.
THEOREM SignerKeys == Spec => []OneEntryPerKey
BY SignerUsesQueue, QueueKeys, PTL

----------------------------------------------------------------------------
(* What the user may count on.                                             *)

----------------------------------------------------------------------------
(* How a request moves: what changes in it, and what does not.             *)

Bad == Codes \ {"none", "ok"}

Same(k, j) == /\ j.m = k.m /\ j.o = k.o /\ j.acct = k.acct
              /\ j.asked = k.asked /\ j.keep = k.keep /\ j.consent = k.consent /\ j.said = k.said
              /\ j.cut = k.cut /\ j.stored = k.stored /\ j.away = k.away /\ j.wrote = k.wrote

\* On to another await, out with a refusal, or one item of a batch further.
Went(k, j, p) == /\ Same(k, j) /\ j.results = k.results /\ j.since = k.since
                 /\ j.pc = p /\ j.out = k.out /\ j.round = k.round /\ j.todo = k.todo
Gone(k, j)    == /\ Same(k, j) /\ j.results = k.results /\ j.since = k.since
                 /\ j.pc = "record" /\ j.out \in Bad
Itemised(k, j) ==
    /\ Same(k, j) /\ j.since = k.since /\ k.m = "batch"
    /\ \E c \in {"ok", "vault_locked", "failed"} : j.results = Append(k.results, c)
    /\ (j.pc = "gap" /\ j.out = k.out) \/ (j.pc = "record" /\ j.out = "ok")

Goes(k, j, S)  == Gone(k, j) \/ \E p \in S : Went(k, j, p)
Sought(k, j)   == Gone(k, j) \/ Went(k, j, "prompt")
                  \/ (~NeedsPrompt(k) /\ Goes(k, j, {"unlock", "still"}))
Executed(k, j) == \/ ~NeedsKey(k) /\ Goes(k, j, {"answered"})
                  \/ Goes(k, j, {"remote", "sign"})
                  \/ Itemised(k, j)
Opened(k, j)   == Goes(k, j, {"sign"}) \/ Itemised(k, j)

\* Request r becomes j; the others stay.
Own(r, j) == call'[r] = j /\ \A q \in Requests \ {r} : call'[q] = call[q]

LEMMA PutOwn == ASSUME Calls, NEW r \in Requests, NEW j, Put(r, j) PROVE Own(r, j)
BY DEF Calls, Put, Own

LEMMA PcWent == ASSUME NEW k \in CallType, NEW p PROVE Went(k, [k EXCEPT !.pc = p], p)
BY DEF CallType, Went, Same

LEMMA OutGone == ASSUME NEW k \in CallType, NEW code \in Bad PROVE Gone(k, Out(k, code))
BY DEF CallType, Gone, Same, Out

LEMMA BadCodes == /\ \A e : Refusal(e) \in Bad
                  /\ {"shutdown", "no_account", "permission_denied", "unsupported", "rejected",
                      "account_switched", "vault_locked", "timeout", "failed"} \subseteq Bad
BY DEF Refusal, Bad, Codes

LEMMA EnterGoes == ASSUME Calls, NEW r \in Requests, NEW k \in CallType,
                          NEW p, Enter(r, k, p)
                   PROVE  \E j : Own(r, j) /\ Goes(k, j, {p})
<1> DEFINE e == Pending(k, KindAt[p])
<1>1. CASE Admits(e)
  <2>1. Put(r, [k EXCEPT !.pc = p])
    BY <1>1 DEF Enter
  <2> QED BY <2>1, PutOwn, PcWent DEF Goes
<1>2. CASE ~Admits(e)
  <2>1. Put(r, Out(k, Refusal(e))) /\ Refusal(e) \in Bad
    BY <1>2, BadCodes DEF Enter, Go
  <2> HIDE DEF e
  <2> QED BY <2>1, PutOwn, OutGone DEF Goes
<1> QED BY <1>1, <1>2

LEMMA GoOut == ASSUME Calls, NEW r \in Requests, NEW k \in CallType, NEW code \in Bad,
                      Go(r, Out(k, code)), NEW S
               PROVE  \E j : Own(r, j) /\ Goes(k, j, S)
BY PutOwn, OutGone DEF Go, Goes

LEMMA GoTo == ASSUME Calls, NEW r \in Requests, NEW k \in CallType, NEW S, NEW p \in S,
                     Go(r, [k EXCEPT !.pc = p])
              PROVE  \E j : Own(r, j) /\ Goes(k, j, S)
BY PutOwn, PcWent DEF Go, Goes

LEMMA RefuseGoes == ASSUME Calls, NEW r \in Requests, NEW code \in Bad, Refuse(r, code)
                    PROVE  \E j : Own(r, j) /\ Gone(call[r], j)
BY PutOwn, OutGone DEF Go, Refuse, Calls

LEMMA ToUnlockGoes == ASSUME Calls, NEW r \in Requests, NEW k \in CallType, ToUnlock(r, k)
                      PROVE  \E j : Own(r, j) /\ Goes(k, j, {"unlock", "still"})
<1>1. CASE Enter(r, k, "unlock")
  BY <1>1, EnterGoes DEF Goes
<1>2. CASE Go(r, [k EXCEPT !.pc = "still"])
  BY <1>2, GoTo
<1> QED BY <1>1, <1>2 DEF ToUnlock

LEMMA AskSeeks == ASSUME Calls, NEW r \in Requests, NEW k \in CallType, Ask(r, k)
                  PROVE  \E j : Own(r, j) /\ Sought(k, j)
<1>1. CASE NeedsPrompt(k)
  <2>1. Enter(r, k, "prompt")
    BY <1>1 DEF Ask
  <2> QED BY <2>1, EnterGoes DEF Goes, Sought
<1>2. CASE ~NeedsPrompt(k)
  BY <1>2, ToUnlockGoes DEF Ask, Sought
<1> QED BY <1>1, <1>2

LEMMA ItemOwn == ASSUME NEW k \in CallType, k.m = "batch",
                        NEW c \in {"ok", "vault_locked", "failed"}
                 PROVE  Itemised(k, ItemDone(k, c))
<1> DEFINE a == [k EXCEPT !.results = Append(@, c)]
<1>1. /\ Same(k, a) /\ a.since = k.since /\ a.results = Append(k.results, c) /\ a.out = k.out
      /\ a \in CallType
  <2>1. k.results \in Seq(Codes) /\ c \in Codes
    BY DEF CallType, Codes
  <2>2. Append(k.results, c) \in Seq(Codes)
    BY <2>1
  <2> QED BY <2>2 DEF CallType, Same
<1>2. \/ ItemDone(k, c) = Out(a, "ok") \/ ItemDone(k, c) = [a EXCEPT !.pc = "gap"]
  BY DEF ItemDone
<1> HIDE DEF a
<1>3. ASSUME NEW j, Same(a, j), j.since = a.since, j.results = a.results,
             (j.pc = "gap" /\ j.out = a.out) \/ (j.pc = "record" /\ j.out = "ok")
      PROVE  Itemised(k, j)
  BY <1>1, <1>3 DEF Itemised, Same
<1>4. LET j == [a EXCEPT !.pc = "gap"] IN Same(a, j) /\ j.since = a.since /\ j.results = a.results
                                          /\ j.pc = "gap" /\ j.out = a.out
  BY <1>1 DEF CallType, Same
<1>5. LET j == Out(a, "ok") IN Same(a, j) /\ j.since = a.since /\ j.results = a.results
                               /\ j.pc = "record" /\ j.out = "ok"
  BY <1>1 DEF CallType, Same, Out
<1> QED BY <1>2, <1>3, <1>4, <1>5

LEMMA SignLocallyOpens == ASSUME NEW k \in CallType PROVE Opened(k, SignLocally(k))
<1>1. CASE ~locked
  <2>1. SignLocally(k) = [k EXCEPT !.pc = "sign", !.epoch = epoch]
    BY <1>1 DEF SignLocally
  <2>2. Went(k, SignLocally(k), "sign")
    BY <2>1 DEF CallType, Went, Same
  <2> QED BY <2>2 DEF Opened, Goes
<1>2. CASE locked /\ k.m = "batch"
  BY <1>2, ItemOwn DEF SignLocally, Opened
<1>3. CASE locked /\ k.m # "batch"
  BY <1>3, OutGone, BadCodes DEF SignLocally, Opened, Goes
<1> QED BY <1>1, <1>2, <1>3

LEMMA ExecuteGoes == ASSUME Calls, NEW r \in Requests, NEW k \in CallType, Execute(r, k)
                     PROVE  \E j : Own(r, j) /\ Executed(k, j)
<1>1. CASE ~NeedsKey(k) /\ Go(r, [k EXCEPT !.pc = "answered"])
  <2>1. \E j : Own(r, j) /\ Goes(k, j, {"answered"})
    BY <1>1, GoTo
  <2> QED BY <1>1, <2>1 DEF Executed
<1>2. CASE Enter(r, k, "remote")
  <2>1. \E j : Own(r, j) /\ Goes(k, j, {"remote"})
    BY <1>2, EnterGoes
  <2> QED BY <2>1 DEF Executed, Goes
<1>3. CASE Go(r, SignLocally(k))
  BY <1>3, SignLocallyOpens, PutOwn DEF Go, Executed, Opened, Goes
<1> QED BY <1>1, <1>2, <1>3 DEF Execute

----------------------------------------------------------------------------
(* The steps of a request, in the order of the pipeline, as such moves.    *)

RulesOf(k) == {RuleOf(Items(k)[n]) : n \in DOMAIN Items(k)}

\* A request that has just been made.
Fresh(j) == /\ j.acct = None /\ j.asked = {} /\ j.keep = "none" /\ j.consent = "none"
            /\ j.said = FALSE /\ j.cut = FALSE /\ j.stored = "ask" /\ j.away = FALSE
            /\ j.wrote = "ask" /\ j.results = <<>> /\ j.since = serial
            /\ (j.pc = "account" /\ j.out = "none") \/ (j.pc = "done" /\ j.out = "shutdown")

LEMMA RequestWay == ASSUME SInv, NEW r \in Requests, Request(r)
                    PROVE  \E j : Own(r, j) /\ Fresh(j)
<1>0. Calls
  BY SInvFacts
<1>1. PICK m, o, i :
        LET k == [NoCall EXCEPT !.m = m, !.o = o, !.i = i, !.since = serial]
        IN  Go(r, IF disposed THEN [k EXCEPT !.pc = "done", !.out = "shutdown"]
                  ELSE [k EXCEPT !.pc = "account"])
  BY DEF Request
<1> DEFINE k == [NoCall EXCEPT !.m = m, !.o = o, !.i = i, !.since = serial]
<1>2. Go(r, IF disposed THEN [k EXCEPT !.pc = "done", !.out = "shutdown"]
            ELSE [k EXCEPT !.pc = "account"])
  BY <1>1
<1>3. Fresh([k EXCEPT !.pc = "done", !.out = "shutdown"])
  BY DEF Fresh, NoCall
<1>4. Fresh([k EXCEPT !.pc = "account"])
  BY DEF Fresh, NoCall
<1> HIDE DEF k
<1>5. CASE disposed
  BY <1>0, <1>2, <1>3, <1>5, PutOwn DEF Go
<1>6. CASE ~disposed
  BY <1>0, <1>2, <1>4, <1>6, PutOwn DEF Go
<1> QED BY <1>5, <1>6

\* It has the active account, and every one of its rules to look at.
Aimed(k, j) == /\ j.m = k.m /\ j.o = k.o /\ j.acct = active /\ active # None
               /\ j.asked = k.asked /\ j.keep = k.keep /\ j.consent = k.consent /\ j.said = k.said
               /\ j.cut = k.cut /\ j.stored = k.stored /\ j.away = k.away /\ j.wrote = k.wrote
               /\ j.results = k.results /\ j.since = k.since /\ j.out = k.out
               /\ j.pc = "check" /\ j.todo = RulesOf(k)

LEMMA AccountWay == ASSUME SInv, NEW r \in Requests, Account(r)
                    PROVE  /\ call[r].pc = "account"
                           /\ \E j : Own(r, j) /\ (Gone(call[r], j) \/ Aimed(call[r], j))
<1>0. Calls /\ call[r] \in CallType
  BY SInvFacts DEF Calls
<1>1. CASE active = None
  <2>1. Refuse(r, "no_account")
    BY <1>1 DEF Account
  <2> QED BY <1>0, <2>1, RefuseGoes, BadCodes DEF Account
<1>2. CASE active # None
  <2> DEFINE t == RulesOf(call[r])
             j == [call[r] EXCEPT !.acct = active, !.pc = "check", !.todo = t]
  <2>1. Go(r, j)
    BY <1>2 DEF Account, RulesOf
  <2> HIDE DEF t
  <2>2. /\ j.m = call[r].m /\ j.o = call[r].o /\ j.acct = active /\ j.asked = call[r].asked
        /\ j.keep = call[r].keep /\ j.consent = call[r].consent /\ j.said = call[r].said
        /\ j.cut = call[r].cut /\ j.stored = call[r].stored /\ j.away = call[r].away
        /\ j.wrote = call[r].wrote /\ j.results = call[r].results /\ j.since = call[r].since
        /\ j.out = call[r].out /\ j.pc = "check" /\ j.todo = t
    BY <1>0 DEF CallType
  <2> HIDE DEF j
  <2>3. Aimed(call[r], j)
    BY <1>2, <2>2 DEF Aimed, t
  <2> QED BY <1>0, <2>1, <2>3, PutOwn DEF Go, Account
<1> QED BY <1>1, <1>2

\* One rule further: it was not a deny, and an ask is kept in mind.
Read1(k, h, rule) ==
    LET d == rules[<<k.o, k.acct, rule>>]
    IN  /\ h.m = k.m /\ h.o = k.o /\ h.acct = k.acct /\ h.keep = k.keep /\ h.consent = k.consent
        /\ h.said = k.said /\ h.cut = k.cut /\ h.stored = k.stored /\ h.away = k.away
        /\ h.wrote = k.wrote /\ h.results = k.results /\ h.since = k.since /\ h.out = k.out
        /\ h.pc = k.pc /\ rule \in k.todo /\ h.todo = k.todo \ {rule} /\ d # "deny"
        /\ h.asked = IF d = "ask" THEN k.asked \cup {rule} ELSE k.asked

\* All rules read: to the grant store, the vault, or the question.
Admitted(k, j) == \/ Goes(k, j, {"stored", "unlockEarly", "stillEarly"})
                  \/ Sought(k, j)

LEMMA PermittedGoes == ASSUME Calls, NEW r \in Requests, NEW k \in CallType, Permitted(r, k)
                       PROVE  \E j : Own(r, j) /\ Admitted(k, j)
<1> DEFINE S == {"stored", "unlockEarly", "stillEarly"}
<1>1. CASE Go(r, Out(k, "unsupported"))
  <2>1. \E j : Own(r, j) /\ Goes(k, j, S)
    BY <1>1, GoOut, BadCodes
  <2> QED BY <2>1 DEF Admitted
<1>2. ASSUME NEW p \in S, Go(r, [k EXCEPT !.pc = p]) PROVE \E j : Own(r, j) /\ Admitted(k, j)
  <2>1. \E j : Own(r, j) /\ Goes(k, j, S)
    <3> HIDE DEF S
    <3> QED BY <1>2, GoTo
  <2> QED BY <2>1 DEF Admitted
<1>3. CASE Enter(r, k, "unlockEarly")
  <2>1. \E j : Own(r, j) /\ Goes(k, j, {"unlockEarly"})
    BY <1>3, EnterGoes
  <2> QED BY <2>1 DEF Admitted, Goes
<1>4. CASE Ask(r, k)
  BY <1>4, AskSeeks DEF Admitted
<1>5. \/ Go(r, Out(k, "unsupported")) \/ Go(r, [k EXCEPT !.pc = "stored"])
      \/ Enter(r, k, "unlockEarly") \/ Go(r, [k EXCEPT !.pc = "stillEarly"]) \/ Ask(r, k)
  BY DEF Permitted
<1> QED BY <1>1, <1>2, <1>3, <1>4, <1>5

LEMMA CheckWay == ASSUME SInv, NEW r \in Requests, Check(r)
                  PROVE  /\ call[r].pc = "check"
                         /\ \/ \E j : Own(r, j) /\ Gone(call[r], j)
                            \/ \E rule, h, j : /\ h \in CallType /\ Read1(call[r], h, rule)
                                               /\ Own(r, j)
                                               /\ \/ j = h
                                                  \/ h.todo = {} /\ Admitted(h, j)
<1>0. Calls /\ call[r] \in CallType /\ call[r].pc = "check"
  BY SInvFacts DEF Calls, Check
<1>2. PICK rule \in call[r].todo :
        LET d == rules[<<call[r].o, call[r].acct, rule>>]
            k == [call[r] EXCEPT !.todo = @ \ {rule},
                                 !.asked = IF d = "ask" THEN @ \cup {rule} ELSE @]
        IN  IF d = "deny" THEN Refuse(r, "permission_denied") /\ UNCHANGED cooldown
            ELSE IF k.todo # {} THEN Go(r, k) /\ UNCHANGED cooldown
            ELSE Permitted(r, k)
  BY DEF Check
<1> DEFINE d == rules[<<call[r].o, call[r].acct, rule>>]
           a == IF d = "ask" THEN call[r].asked \cup {rule} ELSE call[r].asked
           t == call[r].todo \ {rule}
           k == [call[r] EXCEPT !.todo = t, !.asked = a]
<1>3. IF d = "deny" THEN Refuse(r, "permission_denied")
      ELSE IF k.todo # {} THEN Go(r, k) ELSE Permitted(r, k)
  BY <1>2
<1>4. a \in SUBSET Rules /\ t \in SUBSET Rules
  BY <1>0 DEF CallType
<1>5. ASSUME d # "deny" PROVE Read1(call[r], k, rule) /\ k \in CallType
  <2>0. d = rules[<<call[r].o, call[r].acct, rule>>]
    OBVIOUS
  <2>1. a = IF d = "ask" THEN call[r].asked \cup {rule} ELSE call[r].asked
    OBVIOUS
  <2> HIDE DEF a, d
  <2>2. k \in CallType /\ k.asked = a /\ k.todo = t
    BY <1>0, <1>4 DEF CallType
  <2>3. /\ k.m = call[r].m /\ k.o = call[r].o /\ k.acct = call[r].acct /\ k.keep = call[r].keep
        /\ k.consent = call[r].consent /\ k.said = call[r].said /\ k.cut = call[r].cut
        /\ k.stored = call[r].stored /\ k.away = call[r].away /\ k.wrote = call[r].wrote
        /\ k.results = call[r].results /\ k.since = call[r].since /\ k.out = call[r].out
        /\ k.pc = call[r].pc
    BY <1>0 DEF CallType
  <2> HIDE DEF k
  <2> QED BY <1>5, <2>0, <2>1, <2>2, <2>3 DEF Read1
<1> HIDE DEF k, d
<1>6. CASE d = "deny"
  BY <1>0, <1>3, <1>6, RefuseGoes, BadCodes
<1>7. CASE d # "deny" /\ k.todo # {}
  BY <1>0, <1>3, <1>5, <1>7, PutOwn DEF Go
<1>8. CASE d # "deny" /\ k.todo = {}
  BY <1>0, <1>3, <1>5, <1>8, PermittedGoes
<1> QED BY <1>6, <1>7, <1>8

\* The consent it brings along from the grant store.
Reminded(k, h) == /\ h.m = k.m /\ h.o = k.o /\ h.acct = k.acct /\ h.keep = k.keep
                  /\ h.asked = k.asked /\ h.said = k.said /\ h.cut = k.cut /\ h.stored = k.stored
                  /\ h.away = k.away /\ h.wrote = k.wrote /\ h.results = k.results
                  /\ h.since = k.since /\ h.out = k.out /\ h.pc = k.pc /\ h.todo = k.todo

LEMMA StoredWay == ASSUME SInv, NEW r \in Requests, Stored(r)
                   PROVE  /\ call[r].pc = "stored"
                          /\ \/ \E j : Own(r, j) /\ Gone(call[r], j)
                             \/ \E h, j : Reminded(call[r], h) /\ Own(r, j) /\ Sought(h, j)
<1>0. Calls /\ call[r] \in CallType /\ call[r].pc = "stored"
  BY SInvFacts DEF Calls, Stored
<1>2. ASSUME NEW c \in {"self", "grant", "none"}
      PROVE  LET h == [call[r] EXCEPT !.consent = c] IN h \in CallType /\ Reminded(call[r], h)
  BY <1>0 DEF CallType, Reminded
<1>3. \/ Refuse(r, "permission_denied")
      \/ \E c \in {"self", "grant", "none"} : Ask(r, [call[r] EXCEPT !.consent = c])
  BY DEF Stored
<1> QED BY <1>0, <1>2, <1>3, RefuseGoes, BadCodes, AskSeeks

LEMMA StillEarlyWay == ASSUME SInv, NEW r \in Requests, StillEarly(r)
                       PROVE  /\ call[r].pc = "stillEarly"
                              /\ \E j : Own(r, j) /\ Goes(call[r], j, {"build"})
<1>0. Calls /\ call[r] \in CallType /\ call[r].pc = "stillEarly"
  BY SInvFacts DEF Calls, StillEarly
<1> DEFINE j == [call[r] EXCEPT !.pc = "build", !.epoch = epoch]
<1>1. Went(call[r], j, "build")
  BY <1>0 DEF CallType, Went, Same
<1>2. Refuse(r, "account_switched") \/ Refuse(r, "vault_locked") \/ Go(r, j)
  BY DEF StillEarly
<1> HIDE DEF j
<1> QED BY <1>0, <1>1, <1>2, RefuseGoes, BadCodes, PutOwn DEF Go, Goes

LEMMA BuildWay == ASSUME SInv, NEW r \in Requests, Build(r)
                  PROVE  /\ call[r].pc = "build"
                         /\ \E j : Own(r, j) /\ Sought(call[r], j)
<1>0. Calls /\ call[r] \in CallType
  BY SInvFacts DEF Calls
<1>1. Refuse(r, "vault_locked") \/ Ask(r, call[r])
  BY DEF Build
<1> QED BY <1>0, <1>1, RefuseGoes, BadCodes, AskSeeks DEF Build, Sought

\* What the user said: no; never; or yes, and to what.
Replied(k, j) ==
    /\ j.m = k.m /\ j.o = k.o /\ j.acct = k.acct /\ j.asked = k.asked /\ j.cut = k.cut
    /\ j.stored = k.stored /\ j.away = k.away /\ j.wrote = k.wrote /\ j.results = k.results
    /\ j.since = k.since /\ j.out = k.out /\ j.todo \in {{}, k.asked}
    /\ \/ j.pc = "denyCheck" /\ j.keep = k.keep
       \/ j.pc = "save" /\ j.keep = "deny"
       \/ j.pc = "approved" /\ j.keep = "allow" /\ j.said = TRUE /\ j.consent # "grant"

LEMMA AnswerWay == ASSUME SInv, NEW r \in Requests, Answer(r)
                   PROVE  /\ call[r].pc = "prompt"
                          /\ \E j : Own(r, j) /\ (Gone(call[r], j) \/ Replied(call[r], j))
<1>0. Calls /\ call[r] \in CallType /\ call[r].pc = "prompt"
  BY SInvFacts DEF Calls, Answer
<1>1. PICK allow \in BOOLEAN, remember \in BOOLEAN, scope \in {"none", "once", "site"},
           kept \in {{}, call[r].asked} :
        Resume(r, Outcome([call[r] EXCEPT !.todo = kept], allow, remember, scope))
  BY DEF Answer
<1> DEFINE k == [call[r] EXCEPT !.todo = kept]
           j == Outcome(k, allow, remember, scope)
           denied == [k EXCEPT !.pc = "save", !.keep = "deny"]
           granted == [k EXCEPT !.pc = "approved", !.keep = "allow",
                                !.consent = scope, !.said = TRUE, !.at = serial]
<1>2. /\ k.m = call[r].m /\ k.o = call[r].o /\ k.acct = call[r].acct /\ k.asked = call[r].asked
      /\ k.keep = call[r].keep /\ k.consent = call[r].consent /\ k.said = call[r].said
      /\ k.cut = call[r].cut /\ k.stored = call[r].stored /\ k.away = call[r].away
      /\ k.wrote = call[r].wrote /\ k.results = call[r].results /\ k.since = call[r].since
      /\ k.out = call[r].out /\ k.todo = kept /\ k \in CallType
  <2>1. kept \in SUBSET Rules
    BY <1>0 DEF CallType
  <2> QED BY <1>0, <2>1 DEF CallType
<1>3. Put(r, j)
  BY <1>1 DEF Resume
<1> HIDE DEF k
<1>4. \/ j = Out(k, "rejected") \/ j = [k EXCEPT !.pc = "denyCheck"]
      \/ j = denied \/ j = granted
  <2>1. CASE allow /\ IsLogin(k) /\ scope \notin Offered(k)
    BY <2>1 DEF Outcome
  <2>2. CASE allow /\ ~(IsLogin(k) /\ scope \notin Offered(k))
    BY <2>2 DEF Outcome
  <2>3. CASE ~allow
    BY <2>3 DEF Outcome
  <2> QED BY <2>1, <2>2, <2>3
<1> HIDE DEF j
<1>5. CASE j = Out(k, "rejected")
  <2>1. Gone(k, j)
    BY <1>2, <1>5, OutGone, BadCodes
  <2>2. Gone(call[r], j)
    BY <1>2, <2>1 DEF Gone, Same
  <2> QED BY <1>0, <1>3, <2>2, PutOwn
<1>6. CASE j = [k EXCEPT !.pc = "denyCheck"]
  <2>1. Went(k, j, "denyCheck")
    BY <1>2, <1>6, PcWent
  <2>2. Replied(call[r], j)
    BY <1>2, <2>1 DEF Went, Same, Replied
  <2> QED BY <1>0, <1>3, <2>2, PutOwn
<1>7. CASE j = denied
  <2>1. /\ j.m = k.m /\ j.o = k.o /\ j.acct = k.acct /\ j.asked = k.asked /\ j.cut = k.cut
        /\ j.stored = k.stored /\ j.away = k.away /\ j.wrote = k.wrote /\ j.results = k.results
        /\ j.since = k.since /\ j.out = k.out /\ j.todo = k.todo /\ j.pc = "save" /\ j.keep = "deny"
    BY <1>2, <1>7 DEF CallType
  <2>2. Replied(call[r], j)
    BY <1>2, <2>1 DEF Replied
  <2> QED BY <1>0, <1>3, <2>2, PutOwn
<1>8. CASE j = granted
  <2>1. /\ j.m = k.m /\ j.o = k.o /\ j.acct = k.acct /\ j.asked = k.asked /\ j.cut = k.cut
        /\ j.stored = k.stored /\ j.away = k.away /\ j.wrote = k.wrote /\ j.results = k.results
        /\ j.since = k.since /\ j.out = k.out /\ j.todo = k.todo /\ j.pc = "approved"
        /\ j.keep = "allow" /\ j.said = TRUE /\ j.consent = scope
    BY <1>2, <1>8 DEF CallType
  <2>2. Replied(call[r], j)
    BY <1>2, <2>1 DEF Replied
  <2> QED BY <1>0, <1>3, <2>2, PutOwn
<1> QED BY <1>4, <1>5, <1>6, <1>7, <1>8

\* The account that was approved has been shown to the caller, and may earn it a cooldown.
LEMMA ApprovedWay ==
    ASSUME SInv, NEW r \in Requests, Approved(r)
    PROVE  /\ call[r].pc = "approved"
           /\ \E j : /\ Own(r, j)
                     /\ \/ Gone(call[r], j) /\ UNCHANGED cooldown
                        \/ /\ Goes(call[r], j, {"save", "unlock", "still"})
                           /\ call[r].m = "getPublicKey" => <<call[r].o, call[r].acct>> \in shared'
                           /\ cooldown' \in {cooldown, GrantCooldown(call[r])}
           /\ shared \subseteq shared'
<1>0. Calls /\ call[r] \in CallType /\ call[r].pc = "approved"
  BY SInvFacts DEF Calls, Approved
<1>1. CASE ~StillActive(call[r])
  BY <1>0, <1>1, RefuseGoes, BadCodes DEF Approved
<1>2. CASE StillActive(call[r])
  <2>1. /\ call[r].m = "getPublicKey" => <<call[r].o, call[r].acct>> \in shared'
        /\ shared \subseteq shared' /\ cooldown' \in {cooldown, GrantCooldown(call[r])}
        /\ Go(r, [call[r] EXCEPT !.pc = "save"]) \/ ToUnlock(r, call[r])
    BY <1>2 DEF Approved
  <2> DEFINE S == {"save", "unlock", "still"}
  <2>2. \E j : Own(r, j) /\ Goes(call[r], j, S)
    <3>1. CASE Go(r, [call[r] EXCEPT !.pc = "save"])
      BY <1>0, <3>1, GoTo
    <3>2. CASE ToUnlock(r, call[r])
      BY <1>0, <3>2, ToUnlockGoes DEF Goes
    <3> QED BY <2>1, <3>1, <3>2
  <2> QED BY <1>0, <2>1, <2>2
<1> QED BY <1>1, <1>2

\* One rule of those asked about is written.
Kept(k, h) == /\ Same(k, h) /\ h.results = k.results /\ h.since = k.since
              /\ h.pc = k.pc /\ h.out = k.out /\ h.todo \subseteq k.todo

LEMMA SaveWay ==
    ASSUME SInv, NEW r \in Requests, Save(r)
    PROVE  /\ call[r].pc = "save"
           /\ \E rule \in call[r].todo :
                rules' = [rules EXCEPT ![<<call[r].o, call[r].acct, rule>>] = call[r].keep]
           /\ \E h, j : /\ Kept(call[r], h) /\ Own(r, j)
                        /\ \/ j = h /\ UNCHANGED cooldown
                           \/ Gone(h, j) /\ UNCHANGED cooldown
                           \/ /\ h.keep # "deny" /\ Goes(h, j, {"unlock", "still"})
                              /\ cooldown' = GrantCooldown(h)
<1>0. Calls /\ call[r] \in CallType /\ call[r].pc = "save"
  BY SInvFacts DEF Calls, Save
<1>1. PICK rule \in call[r].todo :
        LET k == [call[r] EXCEPT !.todo = @ \ {rule}]
        IN  /\ rules' = [rules EXCEPT ![<<k.o, k.acct, rule>>] = k.keep]
            /\ IF k.todo # {} THEN Go(r, k) /\ UNCHANGED cooldown
               ELSE IF k.keep = "deny" THEN Go(r, Out(k, "rejected")) /\ UNCHANGED cooldown
               ELSE ToUnlock(r, k) /\ cooldown' = GrantCooldown(k)
  BY DEF Save
<1> DEFINE h == [call[r] EXCEPT !.todo = @ \ {rule}]
<1>2. Kept(call[r], h) /\ h \in CallType
  BY <1>0 DEF CallType, Kept, Same
<1>3. /\ rules' = [rules EXCEPT ![<<h.o, h.acct, rule>>] = h.keep]
      /\ IF h.todo # {} THEN Go(r, h) /\ UNCHANGED cooldown
         ELSE IF h.keep = "deny" THEN Go(r, Out(h, "rejected")) /\ UNCHANGED cooldown
         ELSE ToUnlock(r, h) /\ cooldown' = GrantCooldown(h)
  BY <1>1
<1> HIDE DEF h
<1>4. rules' = [rules EXCEPT ![<<call[r].o, call[r].acct, rule>>] = call[r].keep]
  BY <1>2, <1>3 DEF Kept, Same
<1>5. \E j : /\ Own(r, j)
             /\ \/ j = h /\ UNCHANGED cooldown
                \/ Gone(h, j) /\ UNCHANGED cooldown
                \/ /\ h.keep # "deny" /\ Goes(h, j, {"unlock", "still"})
                   /\ cooldown' = GrantCooldown(h)
  <2>1. CASE h.todo # {}
    BY <1>0, <1>3, <2>1, PutOwn DEF Go
  <2>2. CASE h.todo = {} /\ h.keep = "deny"
    BY <1>0, <1>2, <1>3, <2>2, PutOwn, OutGone, BadCodes DEF Go
  <2>3. CASE h.todo = {} /\ h.keep # "deny"
    BY <1>0, <1>2, <1>3, <2>3, ToUnlockGoes
  <2> QED BY <2>1, <2>2, <2>3
<1> QED BY <1>0, <1>2, <1>4, <1>5

LEMMA UnlockedWay == ASSUME SInv, NEW r \in Requests, Unlocked(r)
                     PROVE  \E j : /\ Own(r, j)
                                   /\ \/ call[r].pc = "unlock" /\ Goes(call[r], j, {"still"})
                                      \/ call[r].pc = "unlockEarly"
                                         /\ Goes(call[r], j, {"stillEarly"})
<1>0. Calls /\ call[r] \in CallType /\ call[r].pc \in {"unlock", "unlockEarly"}
  BY SInvFacts DEF Calls, Unlocked
<1>1. \/ Put(r, Out(call[r], "vault_locked"))
      \/ call[r].pc = "unlock" /\ Put(r, [call[r] EXCEPT !.pc = "still"])
      \/ call[r].pc = "unlockEarly" /\ Put(r, [call[r] EXCEPT !.pc = "stillEarly"])
  BY DEF Unlocked, Resume
<1> QED BY <1>0, <1>1, PutOwn, OutGone, PcWent, BadCodes DEF Goes

\* A batch counts its revocations from here.
Counted(k, h) == /\ Same(k, h) /\ h.results = k.results /\ h.pc = k.pc /\ h.out = k.out
                 /\ h.since \in {k.since, serial} /\ (k.m # "batch" => h.since = k.since)

\* Into the revalidation, for the first or the second time.
Rechecked(k, j, n) == /\ Same(k, j) /\ j.results = k.results /\ j.since = k.since
                      /\ j.pc = "rule" /\ j.out = k.out /\ j.round = n

LEMMA RevalidateWay == ASSUME NEW k \in CallType, NEW n
                       PROVE  LET j == Revalidate(k, n)
                              IN  Gone(k, j) \/ (Rechecked(k, j, n) /\ ~disposed)
<1>1. CASE disposed
  BY <1>1, OutGone, BadCodes DEF Revalidate
<1>2. CASE ~disposed
  <2>1. Revalidate(k, n) = [k EXCEPT !.pc = "rule", !.round = n]
    BY <1>2 DEF Revalidate
  <2> QED BY <1>2, <2>1 DEF CallType, Rechecked, Same
<1> QED BY <1>1, <1>2

LEMMA StillWay == ASSUME SInv, NEW r \in Requests, Still(r)
                  PROVE  /\ call[r].pc = "still"
                         /\ \/ \E j : Own(r, j) /\ Gone(call[r], j)
                            \/ \E h, j : /\ h \in CallType /\ Counted(call[r], h) /\ Own(r, j)
                                         /\ \/ IsLogin(h) /\ (Gone(h, j) \/ Rechecked(h, j, 1))
                                            \/ ~IsLogin(h) /\ Executed(h, j)
<1>0. Calls /\ call[r] \in CallType /\ call[r].pc = "still" /\ serial \in Nat
  BY SInvFacts DEF Calls, Still
<1> DEFINE s == IF call[r].m = "batch" THEN serial ELSE call[r].since
           h == [call[r] EXCEPT !.since = s]
<1>1. \/ Refuse(r, "account_switched")
      \/ IsLogin(h) /\ Go(r, Revalidate(h, 1))
      \/ ~IsLogin(h) /\ Execute(r, h)
  BY DEF Still
<1>2. s \in Nat /\ s \in {call[r].since, serial} /\ (call[r].m # "batch" => s = call[r].since)
  BY <1>0 DEF CallType
<1> HIDE DEF s
<1>3. h \in CallType /\ Counted(call[r], h)
  BY <1>0, <1>2 DEF CallType, Counted, Same
<1> HIDE DEF h
<1>4. CASE Refuse(r, "account_switched")
  BY <1>0, <1>4, RefuseGoes, BadCodes
<1>5. CASE IsLogin(h) /\ Go(r, Revalidate(h, 1))
  BY <1>0, <1>3, <1>5, RevalidateWay, PutOwn DEF Go
<1>6. CASE ~IsLogin(h) /\ Execute(r, h)
  BY <1>0, <1>3, <1>6, ExecuteGoes
<1> QED BY <1>1, <1>4, <1>5, <1>6

LEMMA RecheckRuleWay == ASSUME SInv, NEW r \in Requests, RecheckRule(r)
                        PROVE  /\ call[r].pc = "rule"
                               /\ \E j : Own(r, j) /\ Goes(call[r], j, {"wanted"})
<1>0. Calls /\ call[r] \in CallType /\ call[r].pc = "rule"
  BY SInvFacts DEF Calls, RecheckRule
<1>1. Refuse(r, "permission_denied") \/ Go(r, [call[r] EXCEPT !.pc = "wanted"])
  BY DEF RecheckRule
<1>2. CASE Refuse(r, "permission_denied")
  BY <1>0, <1>2, RefuseGoes, BadCodes DEF Goes
<1>3. CASE Go(r, [call[r] EXCEPT !.pc = "wanted"])
  BY <1>0, <1>3, GoTo
<1> QED BY <1>0, <1>1, <1>2, <1>3

LEMMA RecheckWantedWay == ASSUME SInv, NEW r \in Requests, RecheckWanted(r)
                          PROVE  /\ call[r].pc = "wanted"
                                 /\ \E j : /\ Own(r, j)
                                           /\ \/ Gone(call[r], j)
                                              \/ /\ Went(call[r], j, "regrant") /\ disposed # TRUE
                                                 /\ ~(revoked[call[r].o] > call[r].since)
<1>0. Calls /\ call[r] \in CallType /\ call[r].pc = "wanted"
  BY SInvFacts DEF Calls, RecheckWanted
<1>1. \/ \E code \in {"account_switched", "rejected", "shutdown", "vault_locked"} : Refuse(r, code)
      \/ /\ Go(r, [call[r] EXCEPT !.pc = "regrant"]) /\ ~disposed
         /\ ~(revoked[call[r].o] > call[r].since)
  BY DEF RecheckWanted
<1>2. ASSUME NEW code \in {"account_switched", "rejected", "shutdown", "vault_locked"},
             Refuse(r, code)
      PROVE  \E j : Own(r, j) /\ Gone(call[r], j)
  BY <1>0, <1>2, RefuseGoes, BadCodes
<1>3. ASSUME Go(r, [call[r] EXCEPT !.pc = "regrant"])
      PROVE  \E j : Own(r, j) /\ Went(call[r], j, "regrant")
  BY <1>0, <1>3, PutOwn, PcWent DEF Go
<1> QED BY <1>0, <1>1, <1>2, <1>3

\* Out with an answer.
Served(k, j) == /\ Same(k, j) /\ j.results = k.results /\ j.since = k.since
                /\ j.pc = "record" /\ j.out = "ok"

LEMMA OutServed == ASSUME NEW k \in CallType PROVE Served(k, Out(k, "ok"))
BY DEF CallType, Served, Same, Out

LEMMA RecheckGrantWay ==
    ASSUME SInv, NEW r \in Requests, RecheckGrant(r)
    PROVE  /\ call[r].pc = "regrant"
           /\ \E j : /\ Own(r, j)
                     /\ \/ Gone(call[r], j)
                        \/ /\ grants[<<call[r].o, call[r].acct>>] # "deny"
                           /\ call[r].consent = "grant"
                                => grants[<<call[r].o, call[r].acct>>] = "allow"
                           /\ \/ call[r].round = 2 /\ Served(call[r], j)
                              \/ /\ call[r].round # 2 /\ call[r].consent = "site"
                                 /\ Went(call[r], j, "grantCheck")
                              \/ call[r].round # 2 /\ Executed(call[r], j)
<1>0. Calls /\ call[r] \in CallType /\ call[r].pc = "regrant"
  BY SInvFacts DEF Calls, RecheckGrant
<1> DEFINE g == grants[<<call[r].o, call[r].acct>>]
           open == g # "deny" /\ (call[r].consent = "grant" => g = "allow")
<1>1. \/ Refuse(r, "permission_denied")
      \/ open /\ call[r].round = 2 /\ Go(r, Out(call[r], "ok"))
      \/ /\ open /\ call[r].round # 2 /\ call[r].consent = "site"
         /\ Go(r, [call[r] EXCEPT !.pc = "grantCheck"])
      \/ open /\ call[r].round # 2 /\ Execute(r, call[r])
  BY DEF RecheckGrant
<1>6. open => g # "deny" /\ (call[r].consent = "grant" => g = "allow")
  OBVIOUS
<1> HIDE DEF open, g
<1>2. CASE Refuse(r, "permission_denied")
  BY <1>0, <1>2, RefuseGoes, BadCodes
<1>3. CASE open /\ call[r].round = 2 /\ Go(r, Out(call[r], "ok"))
  BY <1>0, <1>3, <1>6, OutServed, PutOwn DEF Go, g
<1>4. CASE /\ open /\ call[r].round # 2 /\ call[r].consent = "site"
           /\ Go(r, [call[r] EXCEPT !.pc = "grantCheck"])
  BY <1>0, <1>4, <1>6, PcWent, PutOwn DEF Go, g
<1>5. CASE open /\ call[r].round # 2 /\ Execute(r, call[r])
  BY <1>0, <1>5, <1>6, ExecuteGoes DEF g
<1> QED BY <1>1, <1>2, <1>3, <1>4, <1>5

LEMMA SaveGrantCheckWay ==
    ASSUME SInv, NEW r \in Requests, SaveGrantCheck(r)
    PROVE  /\ GrantsFree
           /\ \E j : /\ Own(r, j)
                     /\ \/ Gone(call[r], j) /\ call[r].pc \in {"grantCheck", "denyCheck"}
                        \/ call[r].pc = "denyCheck" /\ Went(call[r], j, "denyWrite")
                        \/ /\ call[r].pc = "grantCheck" /\ Went(call[r], j, "grantWrite")
                           /\ grants[<<call[r].o, call[r].acct>>] # "deny"
<1>0. Calls /\ call[r] \in CallType /\ call[r].pc \in {"grantCheck", "denyCheck"} /\ GrantsFree
  BY SInvFacts DEF Calls, SaveGrantCheck
<1>1. \/ Refuse(r, "account_switched") \/ Refuse(r, "permission_denied")
      \/ call[r].pc = "denyCheck" /\ Go(r, [call[r] EXCEPT !.pc = "denyWrite"])
      \/ /\ call[r].pc = "grantCheck" /\ Go(r, [call[r] EXCEPT !.pc = "grantWrite"])
         /\ grants[<<call[r].o, call[r].acct>>] # "deny"
  BY <1>0 DEF SaveGrantCheck
<1>2. CASE Refuse(r, "account_switched") \/ Refuse(r, "permission_denied")
  BY <1>0, <1>2, RefuseGoes, BadCodes
<1>3. CASE call[r].pc = "denyCheck" /\ Go(r, [call[r] EXCEPT !.pc = "denyWrite"])
  BY <1>0, <1>3, PcWent, PutOwn DEF Go
<1>4. CASE /\ call[r].pc = "grantCheck" /\ Go(r, [call[r] EXCEPT !.pc = "grantWrite"])
           /\ grants[<<call[r].o, call[r].acct>>] # "deny"
  BY <1>0, <1>4, PcWent, PutOwn DEF Go
<1> QED BY <1>1, <1>2, <1>3, <1>4

\* Its answer is written down, and it is where the key is used next.
Wrote(k, h, d) ==
    /\ h.m = k.m /\ h.o = k.o /\ h.acct = k.acct /\ h.asked = k.asked /\ h.keep = k.keep
    /\ h.consent = k.consent /\ h.said = k.said /\ h.cut = k.cut /\ h.stored = k.stored
    /\ h.away = k.away /\ h.results = k.results /\ h.since = k.since /\ h.out = k.out
    /\ h.wrote = d

LEMMA SaveGrantWay ==
    ASSUME SInv, NEW r \in Requests, SaveGrant(r)
    PROVE  \E d, h, j :
             /\ Own(r, j) /\ Wrote(call[r], h, d) /\ h \in CallType
             /\ grants' = [grants EXCEPT ![<<call[r].o, call[r].acct>>] = d]
             /\ \/ call[r].pc = "grantWrite" /\ d = "allow" /\ Executed(h, j)
                \/ call[r].pc = "denyWrite" /\ d = "deny" /\ Gone(h, j)
<1>0. Calls /\ call[r] \in CallType /\ call[r].pc \in {"grantWrite", "denyWrite"}
  BY SInvFacts DEF Calls, SaveGrant
<1> DEFINE d == IF call[r].pc = "grantWrite" THEN "allow" ELSE "deny"
           h == [call[r] EXCEPT !.wrote = d]
<1>1. /\ grants' = [grants EXCEPT ![<<h.o, h.acct>>] = h.wrote]
      /\ IF call[r].pc = "grantWrite" THEN Execute(r, h) ELSE Go(r, Out(h, "rejected"))
  BY DEF SaveGrant
<1>2. d \in Decisions /\ (call[r].pc = "grantWrite" => d = "allow")
      /\ (call[r].pc = "denyWrite" => d = "deny")
  BY DEF Decisions
<1> HIDE DEF d
<1>3. Wrote(call[r], h, d) /\ h \in CallType
  BY <1>0, <1>2 DEF CallType, Wrote
<1> HIDE DEF h
<1>4. grants' = [grants EXCEPT ![<<call[r].o, call[r].acct>>] = d]
  BY <1>1, <1>3 DEF Wrote
<1>5. CASE call[r].pc = "grantWrite"
  <2>1. PICK j : Own(r, j) /\ Executed(h, j)
    BY <1>0, <1>1, <1>3, <1>5, ExecuteGoes
  <2> QED BY <1>2, <1>3, <1>4, <1>5, <2>1
<1>6. CASE call[r].pc = "denyWrite"
  <2>1. PICK j : Own(r, j) /\ Gone(h, j)
    BY <1>0, <1>1, <1>3, <1>6, OutGone, BadCodes, PutOwn DEF Go
  <2> QED BY <1>2, <1>3, <1>4, <1>6, <2>1
<1> QED BY <1>0, <1>5, <1>6

\* What held when the key was used.
Marked(k, h) ==
    /\ h.m = k.m /\ h.o = k.o /\ h.acct = k.acct /\ h.asked = k.asked /\ h.keep = k.keep
    /\ h.consent = k.consent /\ h.said = k.said /\ h.wrote = k.wrote /\ h.results = k.results
    /\ h.since = k.since /\ h.out = k.out
    /\ h.cut = TRUE => revoked[k.o] > k.since
    /\ h.stored = grants[<<k.o, k.acct>>]
    /\ h.away = TRUE => active # k.acct

LEMMA UsedMarked == ASSUME SInv, NEW k, Ready(k) PROVE Marked(k, Used(k)) /\ Used(k) \in CallType
<1>0. revoked \in [Origins -> Nat] /\ grants \in [Origins \X Accounts -> Decisions]
  BY SInvFacts DEF TrustOK
<1> DEFINE cut == revoked[k.o] > k.since
           stored == grants[<<k.o, k.acct>>]
           away == ~StillActive(k)
<1>1. cut \in BOOLEAN /\ (cut = TRUE => revoked[k.o] > k.since)
  OBVIOUS
<1>2. away \in BOOLEAN /\ (away = TRUE => active # k.acct)
  BY DEF StillActive
<1>3. stored \in Decisions /\ stored = grants[<<k.o, k.acct>>]
  BY <1>0 DEF Ready
<1>4. Used(k) = [k EXCEPT !.cut = cut, !.stored = stored, !.away = away]
  BY DEF Used
<1> HIDE DEF cut, stored, away
<1>5. LET h == Used(k)
      IN  /\ h.m = k.m /\ h.o = k.o /\ h.acct = k.acct /\ h.asked = k.asked /\ h.keep = k.keep
          /\ h.consent = k.consent /\ h.said = k.said /\ h.wrote = k.wrote
          /\ h.results = k.results /\ h.since = k.since /\ h.out = k.out
          /\ h.cut = cut /\ h.stored = stored /\ h.away = away
  BY <1>4 DEF Ready, CallType
<1>6. Used(k) \in CallType
  BY <1>1, <1>2, <1>3, <1>4 DEF Ready, CallType
<1>7. Marked(k, Used(k))
  BY <1>1, <1>2, <1>3, <1>5 DEF Marked
<1> QED BY <1>6, <1>7

LEMMA SignWay ==
    ASSUME SInv, NEW r \in Requests, Sign(r)
    PROVE  /\ call[r].pc = "sign"
           /\ \E h, j : /\ Own(r, j) /\ Marked(call[r], h) /\ h \in CallType
                        /\ Goes(h, j, {"answered"}) \/ Itemised(h, j)
<1>0. Calls /\ call[r].pc = "sign"
  BY SInvFacts DEF Sign
<1>1. Ready(call[r])
  BY <1>0, ReadyCall
<1> DEFINE h == Used(call[r])
<1>2. h \in CallType /\ Marked(call[r], h)
  BY <1>1, UsedMarked
<1>3. \/ \E c \in {"ok", "vault_locked"} : h.m = "batch" /\ Go(r, ItemDone(h, c))
      \/ Go(r, [h EXCEPT !.pc = "answered"])
      \/ Go(r, Out(h, "vault_locked"))
  BY DEF Sign
<1> HIDE DEF h
<1>4. ASSUME NEW c \in {"ok", "vault_locked"}, h.m = "batch", Go(r, ItemDone(h, c))
      PROVE  \E j : Own(r, j) /\ Itemised(h, j)
  BY <1>0, <1>2, <1>4, ItemOwn, PutOwn DEF Go
<1>5. CASE Go(r, [h EXCEPT !.pc = "answered"])
  BY <1>0, <1>2, <1>5, PcWent, PutOwn DEF Go, Goes
<1>6. CASE Go(r, Out(h, "vault_locked"))
  BY <1>0, <1>2, <1>6, OutGone, BadCodes, PutOwn DEF Go, Goes
<1> QED BY <1>0, <1>2, <1>3, <1>4, <1>5, <1>6

LEMMA RemoteAnswerWay ==
    ASSUME SInv, NEW r \in Requests, RemoteAnswer(r)
    PROVE  /\ call[r].pc = "remote"
           /\ \E h \in CallType : \E j : Own(r, j) /\ Marked(call[r], h) /\ Went(h, j, "answered")
<1>0. Calls /\ call[r].pc = "remote"
  BY SInvFacts DEF RemoteAnswer
<1>1. Ready(call[r])
  BY <1>0, ReadyCall
<1>2. Used(call[r]) \in CallType /\ Marked(call[r], Used(call[r]))
  BY <1>1, UsedMarked
<1>3. Put(r, [Used(call[r]) EXCEPT !.pc = "answered"])
  BY DEF RemoteAnswer, Resume
<1> QED BY <1>0, <1>2, <1>3, PcWent, PutOwn

\* The rest of a batch, refused by the name of what stopped it.
StoppedBy(k, j) ==
    /\ Same(k, j) /\ j.since = k.since /\ j.pc = "record" /\ j.out = "ok"
    /\ \E stop \in Stops, m \in Int : j.results = k.results \o [n \in 1..m |-> stop]

LEMMA GapWay == ASSUME SInv, NEW r \in Requests, Gap(r)
                PROVE  /\ call[r].pc = "gap"
                       /\ \E j : /\ Own(r, j)
                                 /\ Went(call[r], j, "yield") \/ StoppedBy(call[r], j)
<1>0. Calls /\ call[r] \in CallType /\ call[r].pc = "gap"
  BY SInvFacts DEF Calls, Gap
<1>1. PICK stop \in {"account_switched", "rejected", "none"} :
        LET rest == [n \in 1..(Len(BatchItems) - Len(call[r].results)) |-> stop]
        IN  \/ stop = "none" /\ Go(r, [call[r] EXCEPT !.pc = "yield"])
            \/ stop # "none" /\ Go(r, Out([call[r] EXCEPT !.results = @ \o rest], "ok"))
  BY DEF Gap
<1> DEFINE m == Len(BatchItems) - Len(call[r].results)
           rest == [n \in 1..m |-> stop]
           k == [call[r] EXCEPT !.results = @ \o rest]
           j == Out(k, "ok")
<1>2. CASE stop = "none"
  <2>1. Go(r, [call[r] EXCEPT !.pc = "yield"])
    BY <1>1, <1>2
  <2> QED BY <1>0, <2>1, PcWent, PutOwn DEF Go
<1>3. CASE stop # "none"
  <2>1. stop \in Stops
    BY <1>3 DEF Stops
  <2>2. m \in Int
    <3>1. call[r].results \in Seq(Codes)
      BY <1>0 DEF CallType
    <3> QED BY <3>1, SignerAssumption
  <2>3. Go(r, j)
    BY <1>1, <1>3
  <2> HIDE DEF m
  <2>6. rest = [n \in 1..m |-> stop]
    OBVIOUS
  <2> HIDE DEF rest
  <2>4. /\ Same(call[r], j) /\ j.since = call[r].since /\ j.pc = "record" /\ j.out = "ok"
        /\ j.results = call[r].results \o rest
    BY <1>0 DEF CallType, Same, Out
  <2> HIDE DEF j
  <2>5. StoppedBy(call[r], j)
    BY <2>1, <2>2, <2>4, <2>6 DEF StoppedBy
  <2> QED BY <1>0, <2>3, <2>5, PutOwn DEF Go
<1> QED BY <1>2, <1>3

LEMMA YieldWay == ASSUME SInv, NEW r \in Requests, Yield(r)
                  PROVE  call[r].pc = "yield" /\ \E j : Own(r, j) /\ Opened(call[r], j)
BY SInvFacts, SignLocallyOpens, PutOwn DEF Yield, Calls, Go

LEMMA AnsweredWay ==
    ASSUME SInv, NEW r \in Requests, Answered(r)
    PROVE  /\ call[r].pc = "answered"
           /\ \E j : /\ Own(r, j)
                     /\ \/ Gone(call[r], j)
                        \/ /\ active = call[r].acct
                           /\ \/ IsLogin(call[r]) /\ Rechecked(call[r], j, 2)
                              \/ ~IsLogin(call[r]) /\ Served(call[r], j)
<1>0. Calls /\ call[r] \in CallType /\ call[r].pc = "answered"
  BY SInvFacts DEF Calls, Answered
<1>1. \/ Refuse(r, "account_switched")
      \/ active = call[r].acct /\ IsLogin(call[r]) /\ Go(r, Revalidate(call[r], 2))
      \/ active = call[r].acct /\ ~IsLogin(call[r]) /\ Go(r, Out(call[r], "ok"))
  BY DEF Answered, StillActive
<1>2. CASE Refuse(r, "account_switched")
  BY <1>0, <1>2, RefuseGoes, BadCodes
<1>3. CASE active = call[r].acct /\ IsLogin(call[r]) /\ Go(r, Revalidate(call[r], 2))
  BY <1>0, <1>3, RevalidateWay, PutOwn DEF Go
<1>4. CASE active = call[r].acct /\ ~IsLogin(call[r]) /\ Go(r, Out(call[r], "ok"))
  BY <1>0, <1>4, OutServed, PutOwn DEF Go
<1> QED BY <1>0, <1>1, <1>2, <1>3, <1>4

\* Recorded, with the histories it carries.
Closed(k, j) == /\ Same(k, j) /\ j.results = k.results /\ j.since = 0
                /\ j.pc = "done" /\ j.out = k.out

LEMMA RecordWay == ASSUME SInv, NEW r \in Requests, Record(r)
                   PROVE  call[r].pc = "record" /\ \E j : Own(r, j) /\ Closed(call[r], j)
<1>0. Calls /\ call[r].pc = "record"
  BY SInvFacts DEF Record
<1> DEFINE k == call[r]
           j == [NoCall EXCEPT !.m = k.m, !.o = k.o, !.acct = k.acct, !.pc = "done",
                   !.out = k.out, !.asked = k.asked, !.keep = k.keep, !.consent = k.consent,
                   !.results = k.results, !.said = k.said, !.cut = k.cut,
                   !.stored = k.stored, !.away = k.away, !.wrote = k.wrote]
<1>1. Put(r, j)
  BY DEF Record, Go
<1>2. Closed(k, j)
  BY DEF NoCall, Closed, Same
<1> HIDE DEF j
<1> QED BY <1>0, <1>1, <1>2, PutOwn

\* A port throws: the request is out, or one item of a batch further.
LEMMA PortFailsWay ==
    ASSUME SInv, NEW r \in Requests, PortFails(r)
    PROVE  /\ call[r].pc \notin {"idle", "record", "done"}
           /\ \E j : /\ Own(r, j)
                     /\ Gone(call[r], j) \/ (call[r].pc = "sign" /\ Itemised(call[r], j))
<1>0. Calls /\ call[r] \in CallType /\ call[r].pc \notin {"idle", "record", "done"}
  BY SInvFacts DEF Calls, PortFails
<1>1. \/ Put(r, Out(call[r], "failed"))
      \/ call[r].pc = "sign" /\ call[r].m = "batch" /\ Put(r, ItemDone(call[r], "failed"))
  BY DEF PortFails, Resume, Go
<1> QED BY <1>0, <1>1, OutGone, ItemOwn, BadCodes, PutOwn

\* Requests that are failed from outside are out with a refusal; the others stay.
Failed == \A r \in Requests :
              \/ call'[r] = call[r]
              \/ /\ Gone(call[r], call'[r])
                 /\ call[r].pc \notin {"idle", "record", "done"} /\ Waiting(call[r])

LEMMA FailWay == ASSUME SInv, NEW gone, NEW code \in Bad, Fail(gone, code) PROVE Failed
<1> SUFFICES ASSUME NEW r \in Requests
             PROVE  \/ call'[r] = call[r]
                    \/ /\ Gone(call[r], call'[r])
                       /\ call[r].pc \notin {"idle", "record", "done"} /\ Waiting(call[r])
  BY DEF Failed
<1>0. call[r] \in CallType
  BY SInvFacts DEF Calls
<1>1. \/ call'[r] = call[r]
      \/ Waiting(call[r]) /\ call'[r] = Out(call[r], code)
  BY DEF Fail
<1> QED BY <1>0, <1>1, OutGone DEF Waiting, KindAt

----------------------------------------------------------------------------
(* What every request keeps, wherever it is.                               *)

\* Past the question whether to ask: what comes after a yes, or instead of one.
Past == {"unlock", "approved", "still", "rule", "wanted", "regrant", "grantCheck", "grantWrite",
         "sign", "remote", "gap", "yield", "answered"}

\* How far a request has got shows in what it carries: an outcome when it is out, an account
\* when it has looked, results while a batch runs, a refusal of the user's only on its way
\* out, and an answer written down only after its turn at the grant store.
Shape(k) ==
    /\ k.out # "none" <=> k.pc \in {"record", "done"}
    /\ k.pc \in {"idle", "account"} => k.acct = None
    /\ k.results # <<>> => /\ k.m = "batch"
                           /\ k.pc \in {"sign", "gap", "yield", "answered", "record", "done"}
    /\ k.pc \in {"gap", "yield"} => k.m = "batch"
    /\ k.keep = "deny" => k.pc \in {"save", "record", "done"}
    /\ k.pc \in {"approved", "save"} => k.todo \subseteq k.asked
    /\ k.wrote # "ask" => \/ k.pc \in {"sign", "remote", "gap", "yield", "answered", "record", "done"}
                          \/ k.pc \in {"rule", "wanted", "regrant"} /\ k.round = 2
    /\ k.since <= serial

\* It has been let past the question, or is out with an answer.
LetBy(k) == \/ k.pc \in Past \/ (k.pc = "save" /\ k.keep # "deny")
            \/ k.results # <<>> \/ k.out = "ok"

\* A local key's request that is let by was said yes to, or had nothing to ask.
Asked(k) == /\ k.m \in {"sign", "attest", "batch"} /\ k.acct \notin Remote /\ LetBy(k)
            => k.said = TRUE \/ k.asked = {}

\* A key that is told has been shown, and so has every account a cooldown stands for.
Seen(k, s) == /\ k.m = "getPublicKey" /\ k.asked # {} /\ k.pc # "approved" /\ LetBy(k)
              => <<k.o, k.acct>> \in s

CooldownShown == \A o \in Origins : cooldown[o] # None => <<o, cooldown[o]>> \in shared

\* Where the user has been: a request's account was active when it looked.
Wandered(k) ==
    /\ k.acct # None /\ k.acct # active => spent.switches >= 1
    /\ k.away = TRUE => k.acct # None
    /\ k.away = TRUE /\ k.acct = active => spent.switches >= 2
    /\ k.away = TRUE /\ k.m # "batch" => \/ k.pc = "answered" \/ k.out \notin {"none", "ok"}
                                         \/ spent.switches >= 2

\* A login cut off before its signature has a second look ahead of it.
CutAhead(k) ==
    IsLogin(k) /\ k.cut = TRUE /\ k.out \in {"none", "ok"}
        => /\ k.pc \in {"answered", "rule", "wanted"}
           /\ disposed = TRUE \/ revoked[k.o] > k.since

\* What a batch was stopped by is all that follows, and it is out.
Stopped(k) == \A n \in DOMAIN k.results :
                 k.results[n] \in Stops =>
                     /\ k.pc \in {"record", "done"}
                     /\ \A j \in DOMAIN k.results : j > n => k.results[j] = k.results[n]

Fit(k) == Shape(k) /\ Asked(k) /\ Wandered(k) /\ CutAhead(k) /\ Stopped(k)

LEMMA GoneFit == ASSUME NEW k, NEW j, Fit(k), Gone(k, j), k.pc \notin {"idle", "record", "done"}
                 PROVE  Fit(j)
BY DEF Fit, Shape, Asked, Wandered, CutAhead, Stopped, LetBy, Past, Gone, Same, IsLogin, Bad

\* An item more is no stop, and a stop is no reason for another item.
LEMMA ItemFit == ASSUME NEW k, NEW j, Fit(k), k.results \in Seq(Codes), k.out = "none",
                        Itemised(k, j), k.pc \notin {"idle", "account", "record", "done"}, LetBy(k),
                        k.keep # "deny"
                 PROVE  Fit(j)
<1>1. PICK c \in {"ok", "vault_locked", "failed"} : j.results = Append(k.results, c)
  BY DEF Itemised
<1>2. c \notin Stops
  BY DEF Stops
<1>3. Stopped(j)
  <2>1. ASSUME NEW n \in DOMAIN j.results PROVE j.results[n] \notin Stops
    <3>1. DOMAIN j.results = 1..(Len(k.results) + 1)
      BY <1>1
    <3>2. CASE n \in 1..Len(k.results)
      <4>1. j.results[n] = k.results[n] /\ n \in DOMAIN k.results
        BY <1>1, <3>2
      <4> QED BY <4>1 DEF Fit, Stopped
    <3>3. CASE n = Len(k.results) + 1
      BY <1>1, <1>2, <3>3
    <3> QED BY <3>1, <3>2, <3>3
  <2> QED BY <2>1 DEF Stopped
<1>4. Shape(j) /\ Asked(j) /\ Wandered(j) /\ CutAhead(j)
  BY DEF Fit, Shape, Asked, Wandered, CutAhead, LetBy, Past, Itemised, Same, IsLogin
<1> QED BY <1>3, <1>4 DEF Fit

LEMMA FreshFit == ASSUME serial \in Nat, NEW j, Fresh(j) PROVE Fit(j)
BY DEF Fit, Shape, Asked, Wandered, CutAhead, Stopped, LetBy, Past, Fresh, IsLogin

LEMMA AimedFit == ASSUME NEW k, NEW j, Fit(k), k.pc = "account", Aimed(k, j) PROVE Fit(j)
BY DEF Fit, Shape, Asked, Wandered, CutAhead, Stopped, LetBy, Past, Aimed, IsLogin

LEMMA Read1Fit == ASSUME NEW k, NEW h, NEW rule, Fit(k), k.pc = "check", Read1(k, h, rule)
                  PROVE  Fit(h) /\ h.pc = "check"
BY DEF Fit, Shape, Asked, Wandered, CutAhead, Stopped, LetBy, Past, Read1, IsLogin

LEMMA RemindedFit == ASSUME NEW k, NEW h, Fit(k), k.pc = "stored", Reminded(k, h)
                     PROVE  Fit(h) /\ h.pc = "stored"
BY DEF Fit, Shape, Asked, Wandered, CutAhead, Stopped, LetBy, Past, Reminded, IsLogin

\* Who does not have to ask: nothing was asked for, or the cooldown answers.
LEMMA Unprompted == ASSUME NEW k, ~NeedsPrompt(k)
                    PROVE  /\ k.m \in {"sign", "attest", "batch"} /\ k.acct \notin Remote
                              => k.asked = {}
                           /\ k.m = "getPublicKey" => k.asked = {} \/ cooldown[k.o] = k.acct
<1>1. CASE k.m \in {"sign", "attest", "batch"}
  <2>1. ~IsLogin(k) /\ k.m # "getRelays" /\ k.m # "getPublicKey"
    BY <1>1 DEF IsLogin
  <2>2. NeedsPrompt(k) <=> (k.asked # {} /\ (k.m = "batch" \/ k.acct \notin Remote))
    BY <1>1, <2>1 DEF NeedsPrompt
  <2> QED BY <1>1, <2>2
<1>2. CASE k.m = "getPublicKey"
  <2>1. ~IsLogin(k)
    BY <1>2 DEF IsLogin
  <2> QED BY <1>2, <2>1 DEF NeedsPrompt
<1> QED BY <1>1, <1>2

LEMMA SoughtFit == ASSUME NEW k, NEW j, Fit(k), k.pc \in {"check", "stored", "build"}, Sought(k, j)
                   PROVE  Fit(j)
<1>1. CASE Gone(k, j)
  BY <1>1, GoneFit
<1>2. CASE Went(k, j, "prompt")
  BY <1>2 DEF Fit, Shape, Asked, Wandered, CutAhead, Stopped, LetBy, Past, Went, Same, IsLogin
<1>3. CASE ~NeedsPrompt(k) /\ (Went(k, j, "unlock") \/ Went(k, j, "still"))
  <2>1. k.m \in {"sign", "attest", "batch"} /\ k.acct \notin Remote => k.asked = {}
    BY <1>3, Unprompted
  <2> QED BY <1>3, <2>1 DEF Fit, Shape, Asked, Wandered, CutAhead, Stopped, LetBy, Past,
                            Went, Same, IsLogin
<1> QED BY <1>1, <1>2, <1>3 DEF Sought, Goes

LEMMA AdmittedFit == ASSUME NEW k, NEW j, Fit(k), k.pc = "check", Admitted(k, j) PROVE Fit(j)
<1>1. CASE Gone(k, j)
  BY <1>1, GoneFit
<1>2. CASE \E p \in {"stored", "unlockEarly", "stillEarly"} : Went(k, j, p)
  BY <1>2 DEF Fit, Shape, Asked, Wandered, CutAhead, Stopped, LetBy, Past, Went, Same, IsLogin
<1>3. CASE Sought(k, j)
  BY <1>3, SoughtFit
<1> QED BY <1>1, <1>2, <1>3 DEF Admitted, Goes

LEMMA RepliedFit == ASSUME NEW k, NEW j, Fit(k), k.pc = "prompt", Replied(k, j) PROVE Fit(j)
BY DEF Fit, Shape, Asked, Wandered, CutAhead, Stopped, LetBy, Past, Replied, IsLogin

LEMMA KeptFit == ASSUME NEW k, NEW h, Fit(k), k.pc = "save", Kept(k, h) PROVE Fit(h) /\ h.pc = "save"
BY DEF Fit, Shape, Asked, Wandered, CutAhead, Stopped, LetBy, Past, Kept, Same, IsLogin

LEMMA CountedFit == ASSUME serial \in Nat, NEW k, NEW h, Fit(k), k.pc = "still", Counted(k, h)
                    PROVE  Fit(h) /\ h.pc = "still"
BY DEF Fit, Shape, Asked, Wandered, CutAhead, Stopped, LetBy, Past, Counted, Same, IsLogin

LEMMA RecheckedFit == ASSUME NEW k, NEW j, Fit(k),
                             \/ k.pc = "still" /\ Rechecked(k, j, 1)
                             \/ /\ k.pc = "answered" /\ active = k.acct /\ IsLogin(k)
                                /\ Rechecked(k, j, 2)
                      PROVE  Fit(j)
BY DEF Fit, Shape, Asked, Wandered, CutAhead, Stopped, LetBy, Past, Rechecked, Same, IsLogin

\* The key is used by whoever was let by, and never by what is out.
LEMMA ExecutedFit == ASSUME NEW k \in CallType, NEW j, Fit(k), Executed(k, j),
                            k.pc \in {"still", "regrant", "sign"}, k.results = <<>>
                     PROVE  Fit(j)
<1>1. CASE Gone(k, j)
  BY <1>1, GoneFit
<1>2. CASE \E p \in {"answered", "remote", "sign"} : Went(k, j, p)
  BY <1>2 DEF Fit, Shape, Asked, Wandered, CutAhead, Stopped, LetBy, Past, Went, Same, IsLogin
<1>3. CASE Itemised(k, j)
  <2>1. k.results \in Seq(Codes) /\ k.out = "none" /\ LetBy(k) /\ k.keep # "deny"
    BY DEF CallType, Fit, Shape, LetBy, Past
  <2> QED BY <1>3, <2>1, ItemFit
<1> QED BY <1>1, <1>2, <1>3 DEF Executed, Goes

LEMMA OpenedFit == ASSUME NEW k \in CallType, NEW j, Fit(k), Opened(k, j), k.pc = "yield"
                   PROVE  Fit(j)
<1>1. CASE Gone(k, j)
  BY <1>1, GoneFit
<1>2. CASE Went(k, j, "sign")
  BY <1>2 DEF Fit, Shape, Asked, Wandered, CutAhead, Stopped, LetBy, Past, Went, Same, IsLogin
<1>3. CASE Itemised(k, j)
  <2>1. k.results \in Seq(Codes) /\ k.out = "none" /\ LetBy(k) /\ k.keep # "deny"
    BY DEF CallType, Fit, Shape, LetBy, Past
  <2> QED BY <1>3, <2>1, ItemFit
<1> QED BY <1>1, <1>2, <1>3 DEF Opened, Goes

LEMMA WroteFit == ASSUME NEW k, NEW h \in CallType, NEW j, Fit(k), k.pc = "grantWrite",
                         Wrote(k, h, "allow"), Executed(h, j)
                  PROVE  Fit(j)
<1> DEFINE g == [h EXCEPT !.pc = "sign"]
<1>1. g \in CallType /\ Went(h, g, "sign")
  BY PcWent DEF CallType, Pcs
<1> HIDE DEF g
<1>2. Fit(g)
  BY <1>1 DEF Fit, Shape, Asked, Wandered, CutAhead, Stopped, LetBy, Past, Wrote, Went, Same, IsLogin
<1>3. Executed(g, j)
  BY <1>1 DEF Executed, Goes, Gone, Went, Itemised, Same, NeedsKey
<1>4. g.results = <<>> /\ g.pc = "sign"
  BY <1>1 DEF Fit, Shape, Wrote, Went
<1> QED BY <1>1, <1>2, <1>3, <1>4, ExecutedFit

LEMMA RefusedFit == ASSUME NEW k, NEW h, NEW j, Fit(k), k.pc = "denyWrite", Wrote(k, h, "deny"),
                           Gone(h, j)
                    PROVE  Fit(j)
BY DEF Fit, Shape, Asked, Wandered, CutAhead, Stopped, LetBy, Past, Wrote, Gone, Same, IsLogin, Bad

LEMMA MarkedFit == ASSUME NEW k, NEW h \in CallType, NEW j, Fit(k), k.pc \in {"sign", "remote"},
                          k.acct # active => spent.switches >= 1, k.acct # None,
                          Marked(k, h), Goes(h, j, {"answered"}) \/ Itemised(h, j)
                   PROVE  Fit(j)
<1> DEFINE g == [h EXCEPT !.pc = "answered"]
<1>1. g \in CallType /\ Went(h, g, "answered")
  BY PcWent DEF CallType, Pcs
<1> HIDE DEF g
<1>2. Fit(g)
  BY <1>1 DEF Fit, Shape, Asked, Wandered, CutAhead, Stopped, LetBy, Past, Marked, Went, Same, IsLogin
<1>3. CASE Gone(h, j)
  <2>1. Gone(g, j) /\ g.pc = "answered"
    BY <1>1, <1>3 DEF Gone, Went, Same
  <2> QED BY <1>2, <2>1, GoneFit
<1>5. CASE Went(h, j, "answered")
  <2>1. Went(g, j, "answered") /\ g.pc = "answered"
    BY <1>1, <1>5 DEF Went, Same
  <2> QED BY <1>2, <2>1 DEF Fit, Shape, Asked, Wandered, CutAhead, Stopped, LetBy, Past, Went, Same,
                            IsLogin
<1>4. CASE Itemised(h, j)
  <2>1. Itemised(g, j)
    BY <1>1, <1>4 DEF Went, Itemised, Same
  <2>2. g.results \in Seq(Codes) /\ g.out = "none" /\ LetBy(g) /\ g.keep # "deny"
        /\ g.pc \notin {"idle", "account", "record", "done"}
    BY <1>1, <1>2 DEF CallType, Fit, Shape, LetBy, Past, Went
  <2> QED BY <1>2, <2>1, <2>2, ItemFit
<1> QED BY <1>3, <1>4, <1>5 DEF Goes

LEMMA StoppedFit == ASSUME NEW k \in CallType, NEW j, Fit(k), k.pc = "gap", StoppedBy(k, j)
                    PROVE  Fit(j)
<1>1. PICK stop \in Stops, m \in Int : j.results = k.results \o [n \in 1..m |-> stop]
  BY DEF StoppedBy
<1> DEFINE rest == [n \in 1..m |-> stop]
           len == Len(k.results)
<1>2. k.results \in Seq(Codes) /\ len \in Nat /\ DOMAIN k.results = 1..len
  BY DEF CallType
<1>3. stop \in Codes /\ rest \in Seq(Codes)
  <2>1. stop \in Codes
    BY DEF Stops, Codes
  <2> QED BY <2>1, RestTyped
<1>4. /\ DOMAIN j.results = 1..(len + Len(rest))
      /\ \A n \in 1..len : j.results[n] = k.results[n]
      /\ \A n \in DOMAIN j.results : n > len => j.results[n] = rest[n - len] /\ n - len \in DOMAIN rest
  <2>1. j.results = k.results \o rest
    BY <1>1
  <2> HIDE DEF rest
  <2>2. Len(rest) \in Nat /\ DOMAIN rest = 1..Len(rest)
    BY <1>3
  <2> QED BY <1>2, <1>3, <2>1, <2>2
<1>5. \A n \in DOMAIN j.results : n > len => j.results[n] = stop
  BY <1>2, <1>4
<1>6. \A n \in 1..len : j.results[n] \notin Stops
  BY <1>2, <1>4 DEF Fit, Stopped
<1> HIDE DEF rest
<1>7. Stopped(j)
  <2> SUFFICES ASSUME NEW n \in DOMAIN j.results, j.results[n] \in Stops
               PROVE  /\ j.pc \in {"record", "done"}
                      /\ \A i \in DOMAIN j.results : i > n => j.results[i] = j.results[n]
    BY DEF Stopped
  <2>1. n > len
    <3>1. n \notin 1..len
      BY <1>6
    <3> QED BY <1>2, <1>3, <1>4, <3>1
  <2>2. \A i \in DOMAIN j.results : i > n => i > len
    BY <1>2, <1>3, <1>4, <2>1
  <2> QED BY <1>5, <2>1, <2>2 DEF StoppedBy
<1>8. Shape(j) /\ Asked(j) /\ Wandered(j) /\ CutAhead(j)
  BY DEF Fit, Shape, Asked, Wandered, CutAhead, LetBy, Past, StoppedBy, Same, IsLogin
<1> QED BY <1>7, <1>8 DEF Fit

LEMMA ServedFit == ASSUME NEW k, NEW j, Fit(k), Served(k, j),
                          \/ k.pc = "answered" /\ active = k.acct /\ ~IsLogin(k)
                          \/ k.pc = "regrant" /\ k.round = 2
                   PROVE  Fit(j)
BY DEF Fit, Shape, Asked, Wandered, CutAhead, Stopped, LetBy, Past, Served, Same, IsLogin

LEMMA ClosedFit == ASSUME serial \in Nat, NEW k, NEW j, Fit(k), k.pc = "record", Closed(k, j) PROVE Fit(j)
BY DEF Fit, Shape, Asked, Wandered, CutAhead, Stopped, LetBy, Past, Closed, Same, IsLogin

\* The plain moves: to the next await of those a request may go to.
LEMMA WentFit ==
    ASSUME NEW k, NEW j, Fit(k),
           \/ k.pc = "stillEarly" /\ Goes(k, j, {"build"})
           \/ k.pc = "approved" /\ Goes(k, j, {"save", "unlock", "still"})
           \/ k.pc = "save" /\ k.keep # "deny" /\ Goes(k, j, {"unlock", "still"})
           \/ k.pc = "unlock" /\ Goes(k, j, {"still"})
           \/ k.pc = "unlockEarly" /\ Goes(k, j, {"stillEarly"})
           \/ k.pc = "rule" /\ Goes(k, j, {"wanted"})
           \/ k.pc = "grantCheck" /\ Goes(k, j, {"grantWrite"})
           \/ k.pc = "denyCheck" /\ Goes(k, j, {"denyWrite"})
           \/ k.pc = "regrant" /\ k.round # 2 /\ Went(k, j, "grantCheck")
           \/ k.pc = "gap" /\ Went(k, j, "yield")
    PROVE  Fit(j)
<1>1. CASE Gone(k, j)
  BY <1>1, GoneFit
<1>2. ASSUME NEW p, Went(k, j, p),
             \/ k.pc = "stillEarly" /\ p = "build"
             \/ k.pc = "approved" /\ p \in {"save", "unlock", "still"}
             \/ k.pc = "save" /\ k.keep # "deny" /\ p \in {"unlock", "still"}
             \/ k.pc = "unlock" /\ p = "still"
             \/ k.pc = "unlockEarly" /\ p = "stillEarly"
             \/ k.pc = "rule" /\ p = "wanted"
             \/ k.pc = "grantCheck" /\ p = "grantWrite"
             \/ k.pc = "denyCheck" /\ p = "denyWrite"
             \/ k.pc = "regrant" /\ k.round # 2 /\ p = "grantCheck"
             \/ k.pc = "gap" /\ p = "yield"
      PROVE  Fit(j)
  BY <1>2 DEF Fit, Shape, Asked, Wandered, CutAhead, Stopped, LetBy, Past, Went, Same, IsLogin
<1> QED BY <1>1, <1>2 DEF Goes

\* The second look finds what was cut off.
LEMMA WantedFit == ASSUME NEW k, NEW j, Fit(k), k.pc = "wanted", Went(k, j, "regrant"),
                          disposed # TRUE, ~(revoked[k.o] > k.since)
                   PROVE  Fit(j)
BY DEF Fit, Shape, Asked, Wandered, CutAhead, Stopped, LetBy, Past, Went, Same, IsLogin

LEMMA FitMoves ==
    ASSUME SInv, NEW r \in Requests, Fit(call[r]), Request(r) \/ Step(r) \/ Reply(r)
    PROVE  \E j : Own(r, j) /\ Fit(j)
<1>0. serial \in Nat /\ call[r] \in CallType
  BY SInvFacts DEF Calls
<1> DEFINE k == call[r]
<1>1. CASE Request(r)
  BY <1>0, <1>1, RequestWay, FreshFit
<1>2. CASE Account(r)
  BY <1>2, AccountWay, AimedFit, GoneFit
<1>3. CASE Check(r)
  <2>1. k.pc = "check"
    BY <1>3, CheckWay
  <2>2. CASE \E j : Own(r, j) /\ Gone(k, j)
    BY <2>1, <2>2, GoneFit
  <2>3. ASSUME NEW rule, NEW h, NEW j, Read1(k, h, rule), Own(r, j), j = h \/ Admitted(h, j)
        PROVE  \E i : Own(r, i) /\ Fit(i)
    <3>1. Fit(h) /\ h.pc = "check"
      BY <2>1, <2>3, Read1Fit
    <3> QED BY <2>3, <3>1, AdmittedFit
  <2> QED BY <1>3, <2>2, <2>3, CheckWay
<1>4. CASE Stored(r)
  <2>1. k.pc = "stored"
    BY <1>4, StoredWay
  <2>2. ASSUME NEW h, NEW j, Reminded(k, h), Own(r, j), Sought(h, j)
        PROVE  \E i : Own(r, i) /\ Fit(i)
    BY <2>1, <2>2, RemindedFit, SoughtFit
  <2> QED BY <1>4, <2>1, <2>2, StoredWay, GoneFit
<1>5. CASE StillEarly(r)
  BY <1>5, StillEarlyWay, WentFit
<1>6. CASE Build(r)
  BY <1>6, BuildWay, SoughtFit
<1>7. CASE Answer(r)
  BY <1>7, AnswerWay, RepliedFit, GoneFit
<1>8. CASE Approved(r)
  BY <1>8, ApprovedWay, WentFit, GoneFit
<1>9. CASE Save(r)
  <2>1. k.pc = "save"
    BY <1>9, SaveWay
  <2>2. PICK h, j : /\ Kept(k, h) /\ Own(r, j)
                    /\ j = h \/ Gone(h, j) \/ (h.keep # "deny" /\ Goes(h, j, {"unlock", "still"}))
    BY <1>9, SaveWay
  <2>3. Fit(h) /\ h.pc = "save"
    BY <2>1, <2>2, KeptFit
  <2> QED BY <2>2, <2>3, WentFit, GoneFit
<1>10. CASE Unlocked(r)
  BY <1>10, UnlockedWay, WentFit
<1>11. CASE Still(r)
  <2>1. k.pc = "still"
    BY <1>11, StillWay
  <2>2. ASSUME NEW h \in CallType, NEW j, Counted(k, h), Own(r, j),
               Gone(h, j) \/ Rechecked(h, j, 1) \/ Executed(h, j)
        PROVE  \E i : Own(r, i) /\ Fit(i)
    <3>1. Fit(h) /\ h.pc = "still"
      BY <1>0, <2>1, <2>2, CountedFit
    <3>2. h.results = <<>>
      BY <3>1 DEF Fit, Shape
    <3> QED BY <2>2, <3>1, <3>2, GoneFit, RecheckedFit, ExecutedFit
  <2> QED BY <1>11, <2>1, <2>2, StillWay, GoneFit
<1>12. CASE RecheckRule(r)
  BY <1>12, RecheckRuleWay, WentFit
<1>13. CASE RecheckWanted(r)
  BY <1>13, RecheckWantedWay, WantedFit, GoneFit
<1>14. CASE RecheckGrant(r)
  <2>1. k.pc = "regrant" /\ k.results = <<>>
    BY <1>14, RecheckGrantWay DEF Fit, Shape
  <2>2. PICK j : /\ Own(r, j)
                 /\ \/ Gone(k, j) \/ (k.round = 2 /\ Served(k, j))
                    \/ (k.round # 2 /\ (Went(k, j, "grantCheck") \/ Executed(k, j)))
    BY <1>14, RecheckGrantWay
  <2> QED BY <1>0, <2>1, <2>2, GoneFit, ServedFit, ExecutedFit, WentFit
<1>15. CASE SaveGrantCheck(r)
  <2>1. PICK j : /\ Own(r, j)
                 /\ \/ Gone(k, j) /\ k.pc \in {"grantCheck", "denyCheck"}
                    \/ k.pc = "denyCheck" /\ Went(k, j, "denyWrite")
                    \/ k.pc = "grantCheck" /\ Went(k, j, "grantWrite")
    BY <1>15, SaveGrantCheckWay
  <2>2. Fit(j)
    BY <2>1, GoneFit, WentFit DEF Goes
  <2> QED BY <2>1, <2>2
<1>16. CASE SaveGrant(r)
  <2>1. PICK d, h, j :
             /\ Own(r, j) /\ Wrote(k, h, d) /\ h \in CallType
             /\ \/ k.pc = "grantWrite" /\ d = "allow" /\ Executed(h, j)
                \/ k.pc = "denyWrite" /\ d = "deny" /\ Gone(h, j)
    BY <1>16, SaveGrantWay
  <2> QED BY <2>1, WroteFit, RefusedFit
<1>17. ASSUME k.pc \in {"sign", "remote"}
       PROVE  (k.acct # active => spent.switches >= 1) /\ k.acct # None
  <2>1. k.acct \in Accounts
    BY <1>0, <1>17, SInvFacts DEF Calls, Located
  <2> QED BY <2>1, SignerAssumption DEF Fit, Wandered
<1>18. CASE Sign(r)
  BY <1>17, <1>18, SignWay, MarkedFit
<1>19. CASE RemoteAnswer(r)
  <2>1. PICK h, j : Own(r, j) /\ h \in CallType /\ Marked(k, h) /\ Went(h, j, "answered")
    BY <1>19, RemoteAnswerWay
  <2> QED BY <1>17, <1>19, <2>1, RemoteAnswerWay, MarkedFit DEF Goes
<1>20. CASE Gap(r)
  BY <1>0, <1>20, GapWay, WentFit, StoppedFit
<1>21. CASE Yield(r)
  BY <1>0, <1>21, YieldWay, OpenedFit
<1>22. CASE Answered(r)
  BY <1>22, AnsweredWay, GoneFit, RecheckedFit, ServedFit
<1>23. CASE Record(r)
  BY <1>0, <1>23, RecordWay, ClosedFit
<1> QED BY <1>1, <1>2, <1>3, <1>4, <1>5, <1>6, <1>7, <1>8, <1>9, <1>10, <1>11, <1>12, <1>13,
           <1>14, <1>15, <1>16, <1>18, <1>19, <1>20, <1>21, <1>22, <1>23 DEF Step, Reply


----------------------------------------------------------------------------
(* The rest of the world, seen by one request.                             *)

\* What a request's own steps leave alone, and what they only add to.
StepLeaves == /\ UNCHANGED <<serial, revoked, disposed>> /\ shared \subseteq shared'

LEMMA EnterLeaves == ASSUME NEW r, NEW k, NEW p, Enter(r, k, p) PROVE UNCHANGED disposed
BY DEF Enter, Track, Go, queueVars

LEMMA ToUnlockLeaves == ASSUME NEW r, NEW k, ToUnlock(r, k) PROVE UNCHANGED disposed
BY EnterLeaves DEF ToUnlock, Go, queueVars

LEMMA AskLeaves == ASSUME NEW r, NEW k, Ask(r, k) PROVE UNCHANGED disposed
BY EnterLeaves, ToUnlockLeaves DEF Ask

LEMMA ExecuteLeaves == ASSUME NEW r, NEW k, Execute(r, k) PROVE UNCHANGED disposed
BY EnterLeaves DEF Execute, Go, queueVars

LEMMA PermittedLeaves == ASSUME NEW r, NEW k, Permitted(r, k) PROVE UNCHANGED disposed
BY EnterLeaves, AskLeaves DEF Permitted, Go, queueVars

LEMMA StepsLeave == ASSUME NEW r \in Requests, Request(r) \/ Step(r) \/ Reply(r) PROVE StepLeaves
<1>1. CASE Request(r)
  BY <1>1 DEF Request, Go, queueVars, trust, StepLeaves
<1>2. CASE Account(r)
  BY <1>2 DEF Account, Refuse, Go, queueVars, trust, StepLeaves
<1>3. CASE Check(r)
  BY <1>3, PermittedLeaves DEF Check, Refuse, Go, queueVars, StepLeaves
<1>4. CASE Stored(r)
  BY <1>4, AskLeaves DEF Stored, Refuse, Go, queueVars, StepLeaves
<1>5. CASE StillEarly(r)
  BY <1>5 DEF StillEarly, Refuse, Go, queueVars, trust, StepLeaves
<1>6. CASE Build(r)
  BY <1>6, AskLeaves DEF Build, Refuse, Go, queueVars, StepLeaves
<1>7. CASE Answer(r)
  BY <1>7 DEF Answer, Resume, Settle, trust, StepLeaves
<1>8. CASE Approved(r)
  BY <1>8, ToUnlockLeaves DEF Approved, Refuse, Go, queueVars, StepLeaves
<1>9. CASE Save(r)
  BY <1>9, ToUnlockLeaves DEF Save, Go, queueVars, StepLeaves
<1>10. CASE Unlocked(r)
  BY <1>10 DEF Unlocked, Resume, Settle, trust, StepLeaves
<1>11. CASE Still(r)
  BY <1>11, ExecuteLeaves DEF Still, Refuse, Go, queueVars, trust, StepLeaves
<1>12. CASE RecheckRule(r)
  BY <1>12 DEF RecheckRule, Refuse, Go, queueVars, trust, StepLeaves
<1>13. CASE RecheckWanted(r)
  BY <1>13 DEF RecheckWanted, Refuse, Go, queueVars, trust, StepLeaves
<1>14. CASE RecheckGrant(r)
  BY <1>14, ExecuteLeaves DEF RecheckGrant, Refuse, Go, queueVars, trust, StepLeaves
<1>15. CASE SaveGrantCheck(r)
  BY <1>15 DEF SaveGrantCheck, Refuse, Go, queueVars, trust, StepLeaves
<1>16. CASE SaveGrant(r)
  BY <1>16, ExecuteLeaves DEF SaveGrant, Go, queueVars, StepLeaves
<1>17. CASE Sign(r)
  BY <1>17 DEF Sign, Go, queueVars, trust, StepLeaves
<1>18. CASE RemoteAnswer(r)
  BY <1>18 DEF RemoteAnswer, Resume, Settle, trust, StepLeaves
<1>19. CASE Gap(r)
  BY <1>19 DEF Gap, Go, queueVars, trust, StepLeaves
<1>20. CASE Yield(r)
  BY <1>20 DEF Yield, Go, queueVars, trust, StepLeaves
<1>21. CASE Answered(r)
  BY <1>21 DEF Answered, Refuse, Go, queueVars, trust, StepLeaves
<1>22. CASE Record(r)
  BY <1>22 DEF Record, Go, queueVars, trust, StepLeaves
<1> QED BY <1>1, <1>2, <1>3, <1>4, <1>5, <1>6, <1>7, <1>8, <1>9, <1>10, <1>11, <1>12, <1>13,
           <1>14, <1>15, <1>16, <1>17, <1>18, <1>19, <1>20, <1>21, <1>22 DEF Step, Reply

\* Time only goes on: revocations are counted up, and a disposed signer stays it.
Onward == /\ serial' \in Nat /\ serial' >= serial /\ revoked' \in [Origins -> Nat]
          /\ \/ disposed' = TRUE
             \/ /\ disposed' = disposed
                /\ \A o \in Origins : revoked'[o] = revoked[o] \/ revoked'[o] > serial

\* Nor does the user move, but in a step that is theirs alone.
Stands == active' = active /\ spent'.switches = spent.switches

LEMMA FitStands ==
    ASSUME serial \in Nat, NEW r, NEW j \in CallType, Located(j), Fit(j), call'[r] = j,
           Onward, Stands
    PROVE  Fit(call[r])'
<1>1. j.since \in Nat
  BY DEF CallType
<1>2. Shape(call[r])'
  BY <1>1 DEF Fit, Shape, Onward
<1>3. Asked(call[r])' /\ Stopped(call[r])'
  BY DEF Fit, Asked, LetBy, Stopped
<1>4. Wandered(call[r])'
  BY DEF Fit, Wandered, Stands
<1>5. CutAhead(call[r])'
  <2>1. SUFFICES ASSUME IsLogin(j), j.cut = TRUE, j.out \in {"none", "ok"}
                 PROVE  /\ j.pc \in {"answered", "rule", "wanted"}
                        /\ disposed' = TRUE \/ revoked'[j.o] > j.since
    BY DEF CutAhead, IsLogin
  <2>2. /\ j.pc \in {"answered", "rule", "wanted"}
        /\ disposed = TRUE \/ revoked[j.o] > j.since
        /\ j.o \in Origins /\ j.since <= serial
    BY <2>1 DEF Fit, CutAhead, Shape, Located
  <2>3. CASE disposed' = TRUE
    BY <2>2, <2>3
  <2>4. CASE disposed' = disposed /\ revoked'[j.o] = revoked[j.o]
    BY <2>2, <2>4
  <2>5. CASE disposed' = disposed /\ revoked'[j.o] > serial
    <3>1. revoked'[j.o] \in Nat
      BY <2>2 DEF Onward
    <3> QED BY <1>1, <2>2, <2>5, <3>1
  <2> QED BY <2>2, <2>3, <2>4, <2>5 DEF Onward
<1> QED BY <1>2, <1>3, <1>4, <1>5 DEF Fit

\* The user moves: whoever had an account has been left once more.
LEMMA FitWanders ==
    ASSUME serial \in Nat, NEW r, NEW j, Fit(j), call'[r] = j, spent.switches \in Nat,
           UNCHANGED <<serial, revoked, disposed>>,
           active' # active, spent'.switches = spent.switches + 1
    PROVE  Fit(call[r])'
<1>1. Shape(call[r])' /\ Asked(call[r])' /\ Stopped(call[r])' /\ CutAhead(call[r])'
  BY DEF Fit, Shape, Asked, LetBy, Stopped, CutAhead, IsLogin
<1>2. Wandered(call[r])'
  BY DEF Fit, Wandered
<1> QED BY <1>1, <1>2 DEF Fit

LEMMA PortFailsFit == ASSUME SInv, NEW r \in Requests, Fit(call[r]), PortFails(r)
                      PROVE  \E j : Own(r, j) /\ Fit(j)
<1>1. PICK j : /\ Own(r, j)
               /\ Gone(call[r], j) \/ (call[r].pc = "sign" /\ Itemised(call[r], j))
  BY PortFailsWay
<1>2. call[r].pc \notin {"idle", "record", "done"} /\ call[r] \in CallType
  BY PortFailsWay, SInvFacts DEF Calls
<1>3. CASE call[r].pc = "sign" /\ Itemised(call[r], j)
  <2>1. call[r].results \in Seq(Codes) /\ call[r].out = "none" /\ LetBy(call[r])
        /\ call[r].keep # "deny"
    BY <1>2, <1>3 DEF CallType, Fit, Shape, LetBy, Past
  <2> QED BY <1>1, <1>2, <1>3, <2>1, ItemFit
<1> QED BY <1>1, <1>2, <1>3, GoneFit

LEMMA DisposeWay == ASSUME SInv, DisposeSigner PROVE Failed
<1> SUFFICES ASSUME NEW r \in Requests
             PROVE  \/ call'[r] = call[r]
                    \/ /\ Gone(call[r], call'[r])
                       /\ call[r].pc \notin {"idle", "record", "done"} /\ Waiting(call[r])
  BY DEF Failed
<1>0. call[r] \in CallType /\ "shutdown" \in Bad
  BY SInvFacts, BadCodes DEF Calls
<1>1. \/ call'[r] = call[r]
      \/ Waiting(call[r]) /\ call'[r] = Out(call[r], "shutdown")
  BY DEF DisposeSigner
<1> QED BY <1>0, <1>1, OutGone DEF Waiting, KindAt

\* Whoever fails requests fails them so.
LEMMA FailersWay == ASSUME SInv,
                           \/ \E r \in Requests : Timeout(r)
                           \/ \E o \in Origins, i \in Ids : Cancel(o, i)
                           \/ \E o \in Origins : Revoke(o)
                           \/ Tell
                           \/ DisposeSigner
                    PROVE  Failed
<1>1. {"timeout", "rejected", "account_switched"} \subseteq Bad
  BY BadCodes
<1>2. \/ DisposeSigner
      \/ \E gone : \E code \in {"timeout", "rejected", "account_switched"} : Fail(gone, code)
  BY DEF Timeout, Cancel, Revoke, Tell
<1> QED BY <1>1, <1>2, FailWay, DisposeWay

\* What each of the others does to time and to the user.
LEMMA Elapses == ASSUME SInv, SInv', Next
                 PROVE  /\ Onward
                        /\ Stands \/ Switch
<1>0. /\ serial \in Nat /\ serial' \in Nat /\ revoked' \in [Origins -> Nat]
      /\ revoked \in [Origins -> Nat] /\ spent \in SpentType
  BY DEF SInv, TypeOK
<1>1. ASSUME UNCHANGED <<serial, revoked, disposed>> PROVE Onward
  BY <1>0, <1>1 DEF Onward
<1>2. ASSUME UNCHANGED <<host, spent>> PROVE Stands
  BY <1>2 DEF Stands, host
<1>3. ASSUME NEW r \in Requests, Request(r) \/ Step(r) \/ Reply(r), UNCHANGED <<host, spent>>
      PROVE  Onward /\ Stands
  BY <1>1, <1>2, <1>3, StepsLeave DEF StepLeaves
<1>4. ASSUME NEW r \in Requests, PortFails(r) PROVE Onward /\ Stands
  <2>1. UNCHANGED <<serial, revoked, disposed, active>>
    BY <1>4 DEF PortFails, Resume, Settle, Go, queueVars, host, trust
  <2>2. spent'.switches = spent.switches
    BY <1>0, <1>4 DEF PortFails, Spend, SpentType
  <2> QED BY <1>1, <2>1, <2>2 DEF Stands
<1>5. ASSUME NEW r \in Requests, Timeout(r) PROVE Onward /\ Stands
  BY <1>1, <1>2, <1>5 DEF Timeout, Fail, Settle, trust
<1>6. ASSUME NEW o \in Origins, Revoke(o) PROVE Onward /\ Stands
  <2>1. /\ serial' = serial + 1 /\ UNCHANGED <<disposed, active>>
        /\ revoked' = [revoked EXCEPT ![o] = serial + 1]
    BY <1>6 DEF Revoke, Fail, Settle, host
  <2>2. spent'.switches = spent.switches
    BY <1>0, <1>6 DEF Revoke, Spend, SpentType
  <2> QED BY <1>0, <2>1, <2>2 DEF Onward, Stands
<1>7. ASSUME NEW o \in Origins, CooldownEnds(o) PROVE Onward /\ Stands
  BY <1>1, <1>2, <1>7 DEF CooldownEnds, queueVars
<1>8. ASSUME NEW o \in Origins, NEW i \in Ids, Cancel(o, i) PROVE Onward /\ Stands
  BY <1>1, <1>2, <1>8 DEF Cancel, Fail, Settle, trust
<1>9. CASE Switch
  BY <1>1, <1>9 DEF Switch, queueVars, trust
<1>10. CASE Tell
  BY <1>1, <1>10 DEF Tell, Fail, Settle, Stands
<1>11. CASE Lock
  <2>1. spent'.switches = spent.switches
    BY <1>0, <1>11 DEF Lock, Spend, SpentType
  <2> QED BY <1>1, <1>11, <2>1 DEF Lock, queueVars, trust, Stands
<1>12. CASE Unlock
  BY <1>1, <1>12 DEF Unlock, queueVars, trust, Stands
<1>13. CASE Edit
  <2>1. spent'.switches = spent.switches
    BY <1>0, <1>13 DEF Edit, Spend, SpentType
  <2> QED BY <1>1, <1>13, <2>1 DEF Edit, queueVars, host, Stands
<1>14. CASE DisposeSigner
  BY <1>0, <1>2, <1>14 DEF DisposeSigner, Dispose, Onward
<1> QED BY <1>3, <1>4, <1>5, <1>6, <1>7, <1>8, <1>9, <1>10, <1>11, <1>12, <1>13, <1>14 DEF Next

\* How each request leaves a step: by its own, failed from outside, or as it was.
LEMMA FitGoesOn ==
    ASSUME SInv, Next, NEW r \in Requests, \A q \in Requests : Fit(call[q])
    PROVE  Fit(call'[r])
<1>1. ASSUME NEW q \in Requests, \E j : Own(q, j) /\ Fit(j) PROVE Fit(call'[r])
  BY <1>1 DEF Own
<1>2. CASE Failed
  BY <1>2, GoneFit DEF Failed
<1>3. CASE UNCHANGED call
  BY <1>3
<1>4. CASE \E q \in Requests : Request(q) \/ Step(q) \/ Reply(q) \/ PortFails(q)
  BY <1>1, <1>4, FitMoves, PortFailsFit
<1>5. CASE \/ \E q \in Requests : Timeout(q)
           \/ \E o \in Origins, i \in Ids : Cancel(o, i)
           \/ \E o \in Origins : Revoke(o)
           \/ Tell
           \/ DisposeSigner
  BY <1>2, <1>5, FailersWay
<1>6. CASE (\E o \in Origins : CooldownEnds(o)) \/ Switch \/ Lock \/ Unlock \/ Edit
  BY <1>3, <1>6 DEF CooldownEnds, Switch, Lock, Unlock, Edit
<1> QED BY <1>4, <1>5, <1>6 DEF Next

Fits == \A r \in Requests : Fit(call[r])

LEMMA FitsKept == ASSUME SInv, SInv', Fits, [Next]_vars PROVE Fits'
<1>1. CASE UNCHANGED vars
  BY <1>1 DEF vars, host, trust, queueVars, Fits, Fit, Shape, Asked, LetBy, Wandered, CutAhead,
              IsLogin, Stopped
<1>2. CASE Next
  <2>1. SUFFICES ASSUME NEW r \in Requests PROVE Fit(call[r])'
    BY DEF Fits
  <2> DEFINE j == call'[r]
  <2>2. Fit(j)
    BY <1>2, FitGoesOn DEF Fits
  <2>3. j \in CallType /\ Located(j) /\ serial \in Nat /\ spent.switches \in Nat
    BY SInvFacts DEF Calls, HostOK, SpentType, SInv, Located
  <2>4. j = call'[r]
    OBVIOUS
  <2> HIDE DEF j
  <2>5. CASE Onward /\ Stands
    BY <2>2, <2>3, <2>4, <2>5, FitStands
  <2>6. CASE Switch
    <3>1. /\ UNCHANGED <<serial, revoked, disposed>>
          /\ active' # active /\ spent'.switches = spent.switches + 1
      BY <2>6, SInvFacts DEF Switch, Spend, queueVars, trust, HostOK, SpentType
    <3> QED BY <2>2, <2>3, <2>4, <3>1, FitWanders
  <2> QED BY <1>2, <2>5, <2>6, Elapses
<1> QED BY <1>1, <1>2

LEMMA FitsStart == ASSUME Init PROVE Fits
BY DEF Init, Fits, Fit, Shape, Asked, LetBy, Past, Wandered, CutAhead, IsLogin, Stopped, NoCall

----------------------------------------------------------------------------
(* Who is told a key has been shown it.                                    *)

Alike(k, j) == j.m = k.m /\ j.o = k.o /\ j.acct = k.acct /\ j.asked = k.asked

\* Whoever was let by, or still is not, has seen no less.
LEMMA SeenOn == ASSUME NEW k, NEW j, NEW s, Seen(k, s), Alike(k, j), k.pc # "approved",
                       LetBy(j) => LetBy(k)
                PROVE  Seen(j, s)
BY DEF Seen, Alike

LEMMA SeenGone == ASSUME NEW k, NEW j, NEW s, Fit(k), Gone(k, j) PROVE Seen(j, s)
BY DEF Seen, Fit, Shape, Gone, LetBy, Past, Same, Bad

LEMMA SeenSought ==
    ASSUME NEW k, NEW j, Fit(k), k.pc \notin {"idle", "record", "done"}, k.o \in Origins, k.acct # None,
           CooldownShown, Sought(k, j)
    PROVE  Seen(j, shared)
<1>1. CASE Gone(k, j)
  BY <1>1, SeenGone
<1>2. CASE Went(k, j, "prompt")
  BY <1>2 DEF Seen, Fit, Shape, LetBy, Past, Went, Same
<1>3. CASE ~NeedsPrompt(k) /\ \E p \in {"unlock", "still"} : Went(k, j, p)
  <2>1. k.m = "getPublicKey" => k.asked = {} \/ cooldown[k.o] = k.acct
    BY <1>3, Unprompted
  <2> QED BY <1>3, <2>1 DEF Seen, CooldownShown, Went, Same
<1> QED BY <1>1, <1>2, <1>3 DEF Sought, Goes

\* Nobody who was let by before, and is no further than that now, needs another look.
Further(k, j) == /\ Alike(k, j) /\ k.pc # "approved"
                 /\ LetBy(k) \/ (j.pc \notin Past \cup {"save"} /\ k.results = <<>>
                                 /\ j.results = <<>> /\ j.out # "ok")

LEMMA SeenFurther == ASSUME NEW k, NEW j, NEW s, Seen(k, s), Further(k, j) PROVE Seen(j, s)
BY DEF Seen, Further, Alike, LetBy

LEMMA SeenGoes ==
    ASSUME NEW k, NEW j, NEW s, NEW S, Fit(k), k.pc \notin {"idle", "record", "done"},
           Seen(k, s), Goes(k, j, S), k.pc \in Past \ {"approved"} \/ S \cap (Past \cup {"save"}) = {}
    PROVE  Seen(j, s) \/ k.pc = "approved"
<1>1. CASE Gone(k, j)
  BY <1>1, SeenGone
<1>2. ASSUME NEW p \in S, Went(k, j, p), k.pc # "approved" PROVE Seen(j, s)
  <2>1. Further(k, j)
    BY <1>2 DEF Further, Alike, Went, Same, LetBy, Fit, Shape
  <2> QED BY <2>1, SeenFurther
<1> QED BY <1>1, <1>2 DEF Goes

\* Past the question, all that follows is of the same account.
LEMMA SeenPast ==
    ASSUME NEW k, NEW j, NEW s, Seen(k, s), k.pc \in Past \ {"approved"}, Alike(k, j)
    PROVE  Seen(j, s)
BY SeenOn DEF LetBy

LEMMA SeenExecuted ==
    ASSUME NEW k, NEW j, NEW s, Seen(k, s), k.pc \in Past \ {"approved"}, Executed(k, j)
    PROVE  Seen(j, s)
<1>1. Alike(k, j)
  BY DEF Executed, Goes, Gone, Went, Itemised, Same, Alike
<1> QED BY <1>1, SeenPast

LEMMA SeenMoves ==
    ASSUME SInv, NEW r \in Requests, Fit(call[r]), Seen(call[r], shared), CooldownShown,
           Request(r) \/ Step(r) \/ Reply(r)
    PROVE  Seen(call'[r], shared')
<1> DEFINE k == call[r]
<1>0. shared \subseteq shared'
  BY StepsLeave DEF StepLeaves
<1>a. SUFFICES ASSUME ~Approved(r) PROVE \E j : Own(r, j) /\ Seen(j, shared)
  <2>1. CASE Approved(r)
    <3>1. PICK j : /\ Own(r, j)
                   /\ \/ Gone(k, j)
                      \/ /\ Goes(k, j, {"save", "unlock", "still"})
                         /\ k.m = "getPublicKey" => <<k.o, k.acct>> \in shared'
      BY <2>1, ApprovedWay
    <3>2. CASE Gone(k, j)
      BY <3>1, <3>2, SeenGone DEF Own
    <3>3. ASSUME NEW p, Went(k, j, p) PROVE Seen(j, shared')
      BY <3>1, <3>3, SeenGone DEF Seen, Goes, Went, Same
    <3> QED BY <3>1, <3>2, <3>3 DEF Goes, Own
  <2>2. ASSUME NEW j, Seen(j, shared) PROVE Seen(j, shared')
    BY <1>0, <2>2 DEF Seen
  <2> QED BY <2>1, <2>2 DEF Own
<1>b. /\ k \in CallType
      /\ k.pc \notin {"idle", "account", "record", "done"} => k.o \in Origins /\ k.acct # None
  BY SInvFacts, SignerAssumption DEF Calls, Located
<1>1. CASE Request(r)
  <2>1. PICK j : Own(r, j) /\ Fresh(j)
    BY <1>1, RequestWay
  <2> QED BY <2>1 DEF Fresh, Seen
<1>2. CASE Account(r)
  <2>1. PICK j : k.pc = "account" /\ Own(r, j) /\ (Gone(k, j) \/ Aimed(k, j))
    BY <1>2, AccountWay
  <2>2. CASE Aimed(k, j)
    BY <2>1, <2>2 DEF Aimed, Seen, LetBy, Past, Fit, Shape
  <2> QED BY <2>1, <2>2, SeenGone
<1>3. CASE Check(r)
  <2>1. k.pc = "check"
    BY <1>3, CheckWay
  <2>2. CASE \E j : Own(r, j) /\ Gone(k, j)
    BY <2>1, <2>2, SeenGone
  <2>3. ASSUME NEW rule, NEW h, NEW j, Read1(k, h, rule), Own(r, j), j = h \/ Admitted(h, j)
        PROVE  Seen(j, shared)
    <3>1. Fit(h) /\ h.pc = "check"
      BY <2>1, <2>3, Read1Fit
    <3>2. h.o \in Origins /\ h.acct # None
      BY <1>b, <2>1, <2>3 DEF Read1
    <3>3. Seen(h, shared)
      BY <3>1 DEF Seen, LetBy, Past, Fit, Shape
    <3>4. CASE Goes(h, j, {"stored", "unlockEarly", "stillEarly"})
      <4>1. {"stored", "unlockEarly", "stillEarly"} \cap (Past \cup {"save"}) = {}
        BY DEF Past
      <4> QED BY <3>1, <3>3, <3>4, <4>1, SeenGoes
    <3>5. CASE Sought(h, j)
      BY <3>1, <3>2, <3>5, SeenSought
    <3> QED BY <2>3, <3>3, <3>4, <3>5 DEF Admitted
  <2> QED BY <1>3, <2>2, <2>3, CheckWay
<1>4. CASE Stored(r)
  <2>1. k.pc = "stored"
    BY <1>4, StoredWay
  <2>2. ASSUME NEW h, NEW j, Reminded(k, h), Own(r, j), Sought(h, j)
        PROVE  Seen(j, shared)
    <3>1. Fit(h) /\ h.pc = "stored"
      BY <2>1, <2>2, RemindedFit
    <3>2. h.o \in Origins /\ h.acct # None
      BY <1>b, <2>1, <2>2 DEF Reminded
    <3> QED BY <2>2, <3>1, <3>2, SeenSought
  <2> QED BY <1>4, <2>1, <2>2, StoredWay, SeenGone
<1>5. CASE StillEarly(r)
  <2>1. {"build"} \cap (Past \cup {"save"}) = {}
    BY DEF Past
  <2> QED BY <1>5, <2>1, StillEarlyWay, SeenGoes
<1>6. CASE Build(r)
  BY <1>b, <1>6, BuildWay, SeenSought
<1>7. CASE Answer(r)
  <2>1. PICK j : k.pc = "prompt" /\ Own(r, j) /\ (Gone(k, j) \/ Replied(k, j))
    BY <1>7, AnswerWay
  <2>2. CASE Replied(k, j)
    BY <2>1, <2>2 DEF Replied, Seen, LetBy, Past, Fit, Shape
  <2> QED BY <2>1, <2>2, SeenGone
<1>9. CASE Save(r)
  <2>1. k.pc = "save"
    BY <1>9, SaveWay
  <2>2. PICK h, j : /\ Kept(k, h) /\ Own(r, j)
                    /\ j = h \/ Gone(h, j) \/ (h.keep # "deny" /\ Goes(h, j, {"unlock", "still"}))
    BY <1>9, SaveWay
  <2>3. Fit(h) /\ h.pc = "save" /\ h.keep = k.keep /\ Alike(k, h)
    BY <2>1, <2>2, KeptFit DEF Kept, Same, Alike
  <2>4. Seen(h, shared)
    BY <2>1, <2>2, <2>3 DEF Seen, Alike, LetBy, Kept
  <2>5. ASSUME NEW p, Went(h, j, p), h.keep # "deny" PROVE Seen(j, shared)
    BY <2>3, <2>4, <2>5 DEF Seen, Went, Same, LetBy
  <2> QED BY <2>2, <2>3, <2>4, <2>5, SeenGone DEF Goes
<1>10. CASE Unlocked(r)
  <2>1. {"stillEarly"} \cap (Past \cup {"save"}) = {} /\ "unlock" \in Past
    BY DEF Past
  <2> QED BY <1>10, <2>1, UnlockedWay, SeenGoes
<1>11. CASE Still(r)
  <2>1. k.pc = "still"
    BY <1>11, StillWay
  <2>2. ASSUME NEW h, NEW j, Counted(k, h), Own(r, j),
               Gone(h, j) \/ Rechecked(h, j, 1) \/ Executed(h, j)
        PROVE  Seen(j, shared)
    <3>1. Alike(k, h) /\ Alike(h, j)
      BY <2>2 DEF Counted, Executed, Goes, Gone, Went, Itemised, Rechecked, Same, Alike
    <3> QED BY <2>1, <3>1, SeenPast DEF Alike, Past
  <2>3. CASE \E j : Own(r, j) /\ Gone(k, j)
    BY <2>3, SeenGone
  <2> QED BY <1>11, <2>2, <2>3, StillWay
<1>12. CASE RecheckRule(r)
  BY <1>12, RecheckRuleWay, SeenGoes DEF Past
<1>13. CASE RecheckWanted(r)
  <2>1. PICK j : k.pc = "wanted" /\ Own(r, j) /\ (Gone(k, j) \/ Went(k, j, "regrant"))
    BY <1>13, RecheckWantedWay
  <2> QED BY <2>1, SeenPast DEF Gone, Went, Same, Alike, Past
<1>14. CASE RecheckGrant(r)
  <2>1. PICK j : /\ k.pc = "regrant" /\ Own(r, j)
                 /\ Gone(k, j) \/ Served(k, j) \/ Went(k, j, "grantCheck") \/ Executed(k, j)
    BY <1>14, RecheckGrantWay
  <2> QED BY <2>1, SeenPast, SeenExecuted DEF Gone, Went, Served, Same, Alike, Past
<1>15. CASE SaveGrantCheck(r)
  <2>1. PICK j : /\ Own(r, j)
                 /\ \/ Gone(k, j)
                    \/ k.pc = "denyCheck" /\ Went(k, j, "denyWrite")
                    \/ k.pc = "grantCheck" /\ Went(k, j, "grantWrite")
    BY <1>15, SaveGrantCheckWay
  <2>2. {"denyWrite"} \cap (Past \cup {"save"}) = {}
    BY DEF Past
  <2>3. CASE k.pc = "denyCheck" /\ Went(k, j, "denyWrite")
    BY <2>1, <2>2, <2>3, SeenGoes DEF Goes
  <2> QED BY <2>1, <2>3, SeenGone, SeenPast DEF Went, Same, Alike, Past
<1>16. CASE SaveGrant(r)
  <2>1. PICK d, h, j :
             /\ Own(r, j) /\ Wrote(k, h, d)
             /\ \/ k.pc = "grantWrite" /\ Executed(h, j)
                \/ k.pc = "denyWrite" /\ Gone(h, j)
    BY <1>16, SaveGrantWay
  <2>2. CASE k.pc = "grantWrite" /\ Executed(h, j)
    <3>1. Alike(k, j)
      BY <2>1, <2>2 DEF Executed, Goes, Gone, Went, Itemised, Same, Wrote, Alike
    <3> QED BY <2>1, <2>2, <3>1, SeenPast DEF Past
  <2>3. CASE k.pc = "denyWrite" /\ Gone(h, j)
    BY <2>1, <2>3 DEF Seen, LetBy, Gone, Same, Wrote, Fit, Shape, Past, Bad
  <2> QED BY <2>1, <2>2, <2>3
<1>18. CASE Sign(r)
  <2>1. PICK h, j : /\ k.pc = "sign" /\ Own(r, j) /\ Marked(k, h)
                    /\ Goes(h, j, {"answered"}) \/ Itemised(h, j)
    BY <1>18, SignWay
  <2>2. Alike(k, j)
    BY <2>1 DEF Marked, Goes, Gone, Went, Itemised, Same, Alike
  <2> QED BY <2>1, <2>2, SeenPast DEF Past
<1>19. CASE RemoteAnswer(r)
  <2>1. PICK h, j : k.pc = "remote" /\ Own(r, j) /\ Marked(k, h) /\ Went(h, j, "answered")
    BY <1>19, RemoteAnswerWay
  <2>2. Alike(k, j)
    BY <2>1 DEF Marked, Went, Same, Alike
  <2> QED BY <2>1, <2>2, SeenPast DEF Past
<1>20. CASE Gap(r)
  <2>1. PICK j : k.pc = "gap" /\ Own(r, j) /\ (Went(k, j, "yield") \/ StoppedBy(k, j))
    BY <1>20, GapWay
  <2> QED BY <2>1, SeenPast DEF Went, StoppedBy, Same, Alike, Past
<1>21. CASE Yield(r)
  <2>1. PICK j : k.pc = "yield" /\ Own(r, j) /\ Opened(k, j)
    BY <1>21, YieldWay
  <2>2. Alike(k, j)
    BY <2>1 DEF Opened, Goes, Gone, Went, Itemised, Same, Alike
  <2> QED BY <2>1, <2>2, SeenPast DEF Past
<1>22. CASE Answered(r)
  <2>1. PICK j : k.pc = "answered" /\ Own(r, j) /\ (Gone(k, j) \/ Rechecked(k, j, 2) \/ Served(k, j))
    BY <1>22, AnsweredWay
  <2> QED BY <2>1, SeenPast DEF Gone, Rechecked, Served, Same, Alike, Past
<1>23. CASE Record(r)
  <2>1. PICK j : k.pc = "record" /\ Own(r, j) /\ Closed(k, j)
    BY <1>23, RecordWay
  <2> QED BY <2>1 DEF Closed, Same, Seen, LetBy, Past
<1> QED BY <1>a, <1>1, <1>2, <1>3, <1>4, <1>5, <1>6, <1>7, <1>9, <1>10, <1>11, <1>12, <1>13,
           <1>14, <1>15, <1>16, <1>18, <1>19, <1>20, <1>21, <1>22, <1>23 DEF Step, Reply

\* A cooldown only ends, or stands for an account that has been shown.
Cools == \A o \in Origins : cooldown'[o] # None =>
             cooldown'[o] = cooldown[o] \/ <<o, cooldown'[o]>> \in shared'

LEMMA StayCool == ASSUME UNCHANGED cooldown PROVE Cools
BY DEF Cools

LEMMA AskCools == ASSUME cooldown \in [Origins -> Accounts \cup {None}], NEW r, NEW k, Ask(r, k)
                  PROVE  Cools
BY DEF Ask, Cools

LEMMA StoredCools == ASSUME SInv, NEW r \in Requests, Stored(r) PROVE Cools
<1>1. UNCHANGED cooldown \/ \E k : Ask(r, k)
  BY DEF Stored, Refuse, Go
<1>0. cooldown \in [Origins -> Accounts \cup {None}]
  BY SInvFacts
<1> QED BY <1>0, <1>1, AskCools, StayCool DEF Stored

LEMMA EarnCools == ASSUME SInv, NEW k \in CallType,
                          k.m = "getPublicKey" => <<k.o, k.acct>> \in shared',
                          cooldown' \in {cooldown, GrantCooldown(k)}
                   PROVE  Cools
<1>0. cooldown \in [Origins -> Accounts \cup {None}]
  BY SInvFacts
<1> QED BY <1>0 DEF Cools, GrantCooldown

LEMMA CheckCools == ASSUME SInv, NEW r \in Requests, Check(r) PROVE Cools
<1>0. cooldown \in [Origins -> Accounts \cup {None}]
  BY SInvFacts
<1>1. UNCHANGED cooldown \/ \E k : Permitted(r, k)
  BY DEF Check, Refuse, Go
<1>2. ASSUME NEW k, Permitted(r, k) PROVE UNCHANGED cooldown \/ Ask(r, k)
  BY <1>2 DEF Permitted
<1> QED BY <1>0, <1>1, <1>2, AskCools, StayCool

LEMMA StepsCool ==
    ASSUME SInv, NEW r \in Requests, Fit(call[r]), Seen(call[r], shared),
           Request(r) \/ Step(r) \/ Reply(r)
    PROVE  Cools
<1>0. cooldown \in [Origins -> Accounts \cup {None}] /\ shared \subseteq shared' /\ call[r] \in CallType
  BY SInvFacts, StepsLeave DEF StepLeaves, Calls
<1>1. CASE UNCHANGED cooldown
  BY <1>1, StayCool
<1>2. CASE Check(r)
  BY <1>2, CheckCools
<1>3. CASE Stored(r)
  BY <1>3, StoredCools
<1>4. CASE Build(r)
  BY <1>0, <1>1, <1>4, AskCools DEF Build
<1>5. CASE Approved(r)
  BY <1>0, <1>1, <1>5, ApprovedWay, EarnCools
<1>6. CASE Save(r)
  <2>1. call[r].pc = "save" /\ call[r].todo # {}
    BY <1>6, SaveWay
  <2>2. call[r].asked # {}
    BY <2>1 DEF Fit, Shape
  <2>3. PICK h, j : /\ Kept(call[r], h)
                    /\ \/ UNCHANGED cooldown
                       \/ h.keep # "deny" /\ cooldown' = GrantCooldown(h)
    BY <1>6, SaveWay
  <2>4. CASE h.keep # "deny" /\ cooldown' = GrantCooldown(h)
    <3>1. GrantCooldown(h) = GrantCooldown(call[r]) /\ call[r].keep # "deny"
      BY <2>3, <2>4 DEF GrantCooldown, Kept, Same
    <3>2. call[r].m = "getPublicKey" => <<call[r].o, call[r].acct>> \in shared
      BY <2>1, <2>2, <3>1 DEF Seen, LetBy
    <3> QED BY <1>0, <2>4, <3>1, <3>2, EarnCools
  <2> QED BY <1>1, <2>3, <2>4
<1> QED BY <1>1, <1>2, <1>3, <1>4, <1>5, <1>6
    DEF Step, Reply, Request, Account, StillEarly, Answer, Unlocked, Still, RecheckRule,
        RecheckWanted, RecheckGrant, SaveGrantCheck, SaveGrant, Sign, RemoteAnswer, Gap, Yield,
        Answered, Record, trust

Told == CooldownShown /\ \A r \in Requests : Seen(call[r], shared)

LEMMA NextCools == ASSUME SInv, Fits, Told, Next PROVE Cools /\ shared \subseteq shared'
<1>1. ASSUME NEW r \in Requests, Request(r) \/ Step(r) \/ Reply(r)
      PROVE  Cools /\ shared \subseteq shared'
  BY <1>1, StepsCool, StepsLeave DEF Fits, Told, StepLeaves
<1>2. ASSUME UNCHANGED <<cooldown, shared>> PROVE Cools /\ shared \subseteq shared'
  BY <1>2, StayCool
<1>3. cooldown \in [Origins -> Accounts \cup {None}]
  BY SInvFacts
<1>4. ASSUME NEW o \in Origins, Revoke(o) \/ CooldownEnds(o) PROVE Cools /\ shared \subseteq shared'
  BY <1>3, <1>4 DEF Revoke, CooldownEnds, Cools
<1>5. CASE Tell \/ DisposeSigner
  BY <1>3, <1>5 DEF Tell, DisposeSigner, Cools
<1> QED BY <1>1, <1>2, <1>4, <1>5 DEF Next, PortFails, Timeout, Cancel, Switch, Lock, Unlock, Edit, trust

LEMMA ToldGoesOn == ASSUME SInv, Fits, Told, Next, NEW r \in Requests PROVE Seen(call'[r], shared')
<1>0. shared \subseteq shared' /\ Fit(call[r]) /\ Seen(call[r], shared)
  BY NextCools DEF Fits, Told
<1>1. ASSUME NEW q \in Requests, Request(q) \/ Step(q) \/ Reply(q) PROVE Seen(call'[r], shared')
  <2>1. CASE q = r
    BY <1>0, <1>1, <2>1, SeenMoves DEF Told
  <2>2. CASE q # r
    <3>1. call'[r] = call[r]
      <4>1. \E j : Own(q, j)
        BY <1>1, FitMoves DEF Fits
      <4> QED BY <2>2, <4>1 DEF Own
    <3> QED BY <1>0, <3>1 DEF Seen
  <2> QED BY <2>1, <2>2
<1>2. ASSUME NEW q \in Requests, PortFails(q) PROVE Seen(call'[r], shared')
  <2>1. PICK j : /\ Own(q, j)
                 /\ Gone(call[q], j) \/ (call[q].pc = "sign" /\ Itemised(call[q], j))
    BY <1>2, PortFailsWay
  <2>2. CASE q # r
    BY <1>0, <2>1, <2>2 DEF Own, Seen
  <2>3. CASE q = r /\ Gone(call[q], j)
    BY <1>0, <2>1, <2>3, SeenGone DEF Own
  <2>4. CASE q = r /\ Itemised(call[q], j)
    BY <2>1, <2>4 DEF Own, Seen, Itemised, Same
  <2> QED BY <2>1, <2>2, <2>3, <2>4
<1>3. CASE Failed
  <2>1. CASE call'[r] = call[r]
    BY <1>0, <2>1 DEF Seen
  <2>2. CASE Gone(call[r], call'[r])
    BY <1>0, <2>2, SeenGone
  <2> QED BY <1>3, <2>1, <2>2 DEF Failed
<1>4. CASE UNCHANGED call
  BY <1>0, <1>4 DEF Seen
<1>5. CASE \/ \E q \in Requests : Timeout(q)
           \/ \E o \in Origins, i \in Ids : Cancel(o, i)
           \/ \E o \in Origins : Revoke(o)
           \/ Tell
           \/ DisposeSigner
  BY <1>3, <1>5, FailersWay
<1>6. CASE (\E o \in Origins : CooldownEnds(o)) \/ Switch \/ Lock \/ Unlock \/ Edit
  BY <1>4, <1>6 DEF CooldownEnds, Switch, Lock, Unlock, Edit
<1> QED BY <1>1, <1>2, <1>5, <1>6 DEF Next

LEMMA ToldKept == ASSUME SInv, Fits, Told, [Next]_vars PROVE Told'
<1>1. CASE UNCHANGED vars
  BY <1>1 DEF vars, host, trust, Told, CooldownShown, Seen, LetBy
<1>2. CASE Next
  <2>1. CooldownShown'
    BY <1>2, NextCools DEF Told, CooldownShown, Cools
  <2>2. ASSUME NEW r \in Requests PROVE Seen(call[r], shared)'
    <3> DEFINE j == call'[r]
    <3>1. Seen(j, shared')
      BY <1>2, ToldGoesOn
    <3> QED BY <3>1 DEF Seen, LetBy
  <2> QED BY <2>1, <2>2 DEF Told
<1> QED BY <1>1, <1>2

LEMMA ToldStarts == ASSUME Init PROVE Told
BY DEF Init, Told, CooldownShown, Seen, LetBy, Past, NoCall

AnsweredRightly == SInv /\ Fits /\ Told

LEMMA MeantFollows == ASSUME AnsweredRightly PROVE AccountIsMeant
<1>1. SUFFICES ASSUME NEW r \in Requests, call[r].out = "ok"
               PROVE  /\ call[r].m = "getPublicKey" /\ call[r].asked # {}
                           => <<call[r].o, call[r].acct>> \in shared
                      /\ call[r].away /\ call[r].m # "batch" => spent.switches > 1
  BY DEF AccountIsMeant
<1>2. Fit(call[r]) /\ Seen(call[r], shared) /\ call[r] \in CallType /\ spent.switches \in Nat
  BY SInvFacts DEF AnsweredRightly, Fits, Told, Calls, HostOK, SpentType
<1>3. call[r].pc \in {"record", "done"}
  BY <1>1, <1>2 DEF Fit, Shape
<1>4. call[r].m = "getPublicKey" /\ call[r].asked # {} => <<call[r].o, call[r].acct>> \in shared
  BY <1>1, <1>2, <1>3 DEF Seen, LetBy
<1>5. ASSUME call[r].away = TRUE, call[r].m # "batch" PROVE spent.switches > 1
  BY <1>1, <1>2, <1>3, <1>5 DEF Fit, Wandered
<1>6. call[r].away \in BOOLEAN
  BY <1>2 DEF CallType
<1>7. call[r].away => call[r].away = TRUE
  BY <1>6
<1> QED BY <1>4, <1>5, <1>7

----------------------------------------------------------------------------
(* What a request keeps once it has read its rules.                        *)

Writing(k) == k.pc \in {"grantWrite", "denyWrite"}

\* It is still for the same caller, account and rules; and a "never" is not taken back.
Stable(k, j) == /\ Alike(k, j) /\ j.pc # "check"
                /\ k.keep = "deny" => j.keep = "deny"
                /\ k.wrote # "ask" => j.wrote = k.wrote
                /\ Writing(j) => k.pc \in {"grantCheck", "denyCheck"}

\* All that can become of a request in one step, its own or anybody's.
Becomes(k, j) ==
    \/ j = k
    \/ k.pc = "idle" /\ Fresh(j)
    \/ k.pc \notin {"idle", "record", "done"} /\ Gone(k, j)
    \/ k.pc = "account" /\ Aimed(k, j)
    \/ /\ k.pc = "check"
       /\ \E rule, h : /\ h \in CallType /\ Read1(k, h, rule)
                       /\ \/ j = h
                          \/ h.todo = {} /\ Admitted(h, j)
    \/ k.pc \notin {"idle", "account", "check", "record", "done"} /\ Stable(k, j)
    \/ k.pc = "record" /\ Closed(k, j)

LEMMA MovesBecome == ASSUME SInv, NEW r \in Requests, Fit(call[r]), Request(r) \/ Step(r) \/ Reply(r)
                     PROVE  \E j : Own(r, j) /\ Becomes(call[r], j)
<1> DEFINE k == call[r]
<1>1. CASE Request(r)
  BY <1>1, RequestWay DEF Request, Becomes
<1>2. CASE Account(r)
  BY <1>2, AccountWay DEF Becomes
<1>3. CASE Check(r)
  BY <1>3, CheckWay DEF Becomes
<1>a. ASSUME k.pc \notin {"idle", "account", "check", "record", "done"}, \E j : Own(r, j) /\ Stable(k, j)
      PROVE  \E j : Own(r, j) /\ Becomes(k, j)
  BY <1>a DEF Becomes
<1>b. ASSUME NEW j, Gone(k, j) \/ Itemised(k, j) \/ Served(k, j) \/ StoppedBy(k, j)
                    \/ Rechecked(k, j, 1) \/ Rechecked(k, j, 2)
      PROVE  Stable(k, j)
  BY <1>b DEF Gone, Itemised, Served, StoppedBy, Rechecked, Same, Stable, Alike, Writing
<1>c. ASSUME NEW j, NEW p, Went(k, j, p), p \notin {"check", "grantWrite", "denyWrite"} PROVE Stable(k, j)
  BY <1>c DEF Went, Same, Stable, Alike, Writing
<1>d. ASSUME NEW j, Executed(k, j) \/ Opened(k, j) \/ Sought(k, j) PROVE Stable(k, j)
  BY <1>b, <1>c, <1>d DEF Executed, Opened, Sought, Goes
<1>4. CASE Stored(r)
  <2>1. k.pc = "stored"
    BY <1>4, StoredWay
  <2>2. ASSUME NEW h, NEW j, Reminded(k, h), Own(r, j), Sought(h, j) PROVE Stable(k, j)
    BY <2>2 DEF Reminded, Sought, Goes, Gone, Went, Same, Stable, Alike, Writing
  <2> QED BY <1>4, <1>a, <1>b, <2>1, <2>2, StoredWay
<1>5. CASE StillEarly(r)
  BY <1>5, <1>a, <1>b, <1>c, StillEarlyWay DEF Goes
<1>6. CASE Build(r)
  BY <1>6, <1>a, <1>d, BuildWay
<1>7. CASE Answer(r)
  <2>1. PICK j : k.pc = "prompt" /\ Own(r, j) /\ (Gone(k, j) \/ Replied(k, j))
    BY <1>7, AnswerWay
  <2>2. ASSUME Replied(k, j) PROVE Stable(k, j)
    BY <2>1, <2>2 DEF Replied, Stable, Alike, Writing, Fit, Shape
  <2>3. Stable(k, j)
    BY <1>b, <2>1, <2>2
  <2> QED BY <1>a, <2>1, <2>3
<1>8. CASE Approved(r)
  <2>1. PICK j : /\ k.pc = "approved" /\ Own(r, j)
                 /\ Gone(k, j) \/ Goes(k, j, {"save", "unlock", "still"})
    BY <1>8, ApprovedWay
  <2> QED BY <1>a, <1>b, <1>c, <2>1 DEF Goes
<1>9. CASE Save(r)
  <2>1. k.pc = "save"
    BY <1>9, SaveWay
  <2>2. PICK h, j : /\ Kept(k, h) /\ Own(r, j)
                    /\ j = h \/ Gone(h, j) \/ Goes(h, j, {"unlock", "still"})
    BY <1>9, SaveWay
  <2>3. Stable(k, j)
    BY <2>1, <2>2 DEF Kept, Goes, Gone, Went, Same, Stable, Alike, Writing
  <2> QED BY <1>a, <2>1, <2>2, <2>3
<1>10. CASE Unlocked(r)
  BY <1>10, <1>a, <1>b, <1>c, UnlockedWay DEF Goes
<1>11. CASE Still(r)
  <2>1. k.pc = "still"
    BY <1>11, StillWay
  <2>2. ASSUME NEW h, NEW j, Counted(k, h), Own(r, j),
               Gone(h, j) \/ Rechecked(h, j, 1) \/ Executed(h, j)
        PROVE  Stable(k, j)
    BY <2>2 DEF Counted, Executed, Goes, Gone, Went, Itemised, Rechecked, Same, Stable, Alike, Writing
  <2> QED BY <1>11, <1>a, <1>b, <2>1, <2>2, StillWay
<1>12. CASE RecheckRule(r)
  BY <1>12, <1>a, <1>b, <1>c, RecheckRuleWay DEF Goes
<1>13. CASE RecheckWanted(r)
  BY <1>13, <1>a, <1>b, <1>c, RecheckWantedWay
<1>14. CASE RecheckGrant(r)
  BY <1>14, <1>a, <1>b, <1>c, <1>d, RecheckGrantWay
<1>15. CASE SaveGrantCheck(r)
  <2>1. PICK j : /\ Own(r, j) /\ k.pc \in {"grantCheck", "denyCheck"}
                 /\ Gone(k, j) \/ Went(k, j, "denyWrite") \/ Went(k, j, "grantWrite")
    BY <1>15, SaveGrantCheckWay
  <2>2. Stable(k, j)
    BY <2>1 DEF Gone, Went, Same, Stable, Alike
  <2> QED BY <1>a, <2>1, <2>2
<1>16. CASE SaveGrant(r)
  <2>1. PICK d, h, j :
             /\ Own(r, j) /\ Wrote(k, h, d) /\ k.pc \in {"grantWrite", "denyWrite"}
             /\ Executed(h, j) \/ Gone(h, j)
    BY <1>16, SaveGrantWay
  <2>2. Stable(k, j)
    <3>1. k.wrote = "ask"
      BY <2>1 DEF Fit, Shape
    <3> QED BY <2>1, <3>1 DEF Wrote, Executed, Goes, Gone, Went, Itemised, Same, Stable, Alike,
                              Writing
  <2> QED BY <1>a, <2>1, <2>2
<1>18. CASE Sign(r)
  <2>1. PICK h, j : /\ k.pc = "sign" /\ Own(r, j) /\ Marked(k, h)
                    /\ Goes(h, j, {"answered"}) \/ Itemised(h, j)
    BY <1>18, SignWay
  <2>2. Stable(k, j)
    BY <2>1 DEF Marked, Goes, Gone, Went, Itemised, Same, Stable, Alike, Writing
  <2> QED BY <1>a, <2>1, <2>2
<1>19. CASE RemoteAnswer(r)
  <2>1. PICK h, j : k.pc = "remote" /\ Own(r, j) /\ Marked(k, h) /\ Went(h, j, "answered")
    BY <1>19, RemoteAnswerWay
  <2>2. Stable(k, j)
    BY <2>1 DEF Marked, Went, Same, Stable, Alike, Writing
  <2> QED BY <1>a, <2>1, <2>2
<1>20. CASE Gap(r)
  BY <1>20, <1>a, <1>b, <1>c, GapWay
<1>21. CASE Yield(r)
  BY <1>21, <1>a, <1>d, YieldWay
<1>22. CASE Answered(r)
  BY <1>22, <1>a, <1>b, AnsweredWay
<1>23. CASE Record(r)
  BY <1>23, RecordWay DEF Becomes
<1> QED BY <1>1, <1>2, <1>3, <1>4, <1>5, <1>6, <1>7, <1>8, <1>9, <1>10, <1>11, <1>12, <1>13,
           <1>14, <1>15, <1>16, <1>18, <1>19, <1>20, <1>21, <1>22, <1>23 DEF Step, Reply

LEMMA AllBecome == ASSUME SInv, Fits, Next, NEW r \in Requests PROVE Becomes(call[r], call'[r])
<1>0. Becomes(call[r], call[r])
  BY DEF Becomes
<1>1. ASSUME NEW q \in Requests, \E j : Own(q, j) /\ Becomes(call[q], j)
      PROVE  Becomes(call[r], call'[r])
  BY <1>0, <1>1 DEF Own
<1>2. CASE Failed
  BY <1>0, <1>2 DEF Failed, Becomes
<1>3. CASE UNCHANGED call
  BY <1>0, <1>3
<1>4. ASSUME NEW q \in Requests, PortFails(q) PROVE \E j : Own(q, j) /\ Becomes(call[q], j)
  <2>1. PICK j : /\ Own(q, j) /\ call[q].pc \notin {"idle", "record", "done"}
                 /\ Gone(call[q], j) \/ (call[q].pc = "sign" /\ Itemised(call[q], j))
    BY <1>4, PortFailsWay
  <2>2. Becomes(call[q], j)
    BY <2>1 DEF Becomes, Stable, Alike, Itemised, Same, Writing
  <2> QED BY <2>1, <2>2
<1>5. ASSUME NEW q \in Requests, Request(q) \/ Step(q) \/ Reply(q)
      PROVE  \E j : Own(q, j) /\ Becomes(call[q], j)
  BY <1>5, MovesBecome DEF Fits
<1>6. CASE \/ \E q \in Requests : Timeout(q)
           \/ \E o \in Origins, i \in Ids : Cancel(o, i)
           \/ \E o \in Origins : Revoke(o)
           \/ Tell
           \/ DisposeSigner
  BY <1>2, <1>6, FailersWay
<1>7. CASE (\E o \in Origins : CooldownEnds(o)) \/ Switch \/ Lock \/ Unlock \/ Edit
  BY <1>3, <1>7 DEF CooldownEnds, Switch, Lock, Unlock, Edit
<1> QED BY <1>1, <1>4, <1>5, <1>6, <1>7 DEF Next

\* A "never" stays what it was.
LEMMA NeverStays == ASSUME SInv, Fits, Next, NEW q \in Requests, call[q].keep = "deny"
                    PROVE  Alike(call[q], call'[q]) /\ call'[q].keep = "deny"
<1>1. Becomes(call[q], call'[q])
  BY AllBecome
<1>2. call[q].pc \in {"save", "record", "done"}
  BY DEF Fits, Fit, Shape
<1> QED BY <1>1, <1>2 DEF Becomes, Gone, Closed, Same, Stable, Alike, Writing

----------------------------------------------------------------------------
(* A rule that was not asked about was allowed.                            *)

\* It still is, but for an edit, or a "never" that another request was given.
Free(o, a, r) ==
    {rule \in Rules : \/ spent.edits > 0
                      \/ rules[<<o, a, rule>>] = "allow"
                      \/ \E q \in Requests \ {r} : /\ call[q].o = o /\ call[q].acct = a
                                                  /\ rule \in call[q].asked
                                                  /\ call[q].keep = "deny"}

\* Every rule is still to be read, was asked about, or is free.
Reading(k) == \/ k.pc \notin {"idle", "account", "record", "done"}
              \/ k.results # <<>> \/ k.out = "ok"
Clear(k, free) == Reading(k) => \A rule \in RulesOf(k) : \/ k.pc = "check" /\ rule \in k.todo
                                                        \/ rule \in k.asked
                                                        \/ rule \in free

RulesRead == \A r \in Requests : Clear(call[r], Free(call[r].o, call[r].acct, r))

LEMMA SameRules == ASSUME NEW k, NEW j, j.m = k.m PROVE RulesOf(j) = RulesOf(k)
BY DEF RulesOf, Items

\* All rules read, what follows adds none.
LEMMA ClearOn == ASSUME NEW k, NEW j, NEW free, Clear(k, free), Reading(j) => Reading(k),
                        k.pc = "check" => k.todo = {}, j.m = k.m, j.asked = k.asked
                 PROVE  Clear(j, free)
BY SameRules DEF Clear

LEMMA ClearRead1 ==
    ASSUME SInv, NEW r, NEW k \in CallType, k.pc = "check", NEW h, NEW rule,
           Clear(k, Free(k.o, k.acct, r)), Read1(k, h, rule),
           rules[<<k.o, k.acct, rule>>] \in Decisions
    PROVE  Clear(h, Free(k.o, k.acct, r))
<1>1. h.m = k.m /\ h.pc = "check" /\ h.todo = k.todo \ {rule} /\ rule \in k.todo /\ k.asked \subseteq h.asked
  BY DEF Read1
<1>2. CASE rules[<<k.o, k.acct, rule>>] = "ask"
  <2>1. rule \in h.asked
    BY <1>2 DEF Read1
  <2> QED BY <1>1, <2>1, SameRules DEF Clear, Reading
<1>3. CASE rules[<<k.o, k.acct, rule>>] = "allow"
  <2>1. rule \in Free(k.o, k.acct, r)
    BY <1>1, <1>3 DEF Free, CallType
  <2> QED BY <1>1, <2>1, SameRules DEF Clear, Reading
<1>4. rules[<<k.o, k.acct, rule>>] # "deny"
  BY DEF Read1
<1> QED BY <1>2, <1>3, <1>4 DEF Decisions

\* Nothing to read yet; or the same caller and account, and as much asked about.
LEMMA ClearBecomes ==
    ASSUME SInv, NEW r \in Requests, Fit(call[r]), NEW j, Becomes(call[r], j),
           Clear(call[r], Free(call[r].o, call[r].acct, r))
    PROVE  \/ Clear(j, {})
           \/ /\ j.o = call[r].o /\ j.acct = call[r].acct /\ call[r].asked \subseteq j.asked
              /\ Clear(j, Free(call[r].o, call[r].acct, r))
<1> DEFINE k == call[r]
           free == Free(k.o, k.acct, r)
<1>0. k \in CallType
  BY SInvFacts DEF Calls
<1>h. Clear(k, free)
  OBVIOUS
<1>k. k = call[r] /\ free = Free(k.o, k.acct, r)
  OBVIOUS
<1> HIDE DEF free
<1>1. CASE j = k
  BY <1>1, <1>h, <1>k
<1>2. CASE Fresh(j)
  BY <1>2 DEF Fresh, Clear, Reading
<1>4. CASE k.pc \notin {"idle", "record", "done"} /\ Gone(k, j)
  <2>0. j.pc = "record" /\ j.out # "ok" /\ Same(k, j) /\ j.results = k.results
    BY <1>4 DEF Gone, Bad
  <2>1. CASE k.results = <<>>
    BY <2>0, <2>1 DEF Clear, Reading
  <2>2. CASE k.results # <<>>
    <3>1. k.pc \notin {"check", "account"}
      BY <2>2 DEF Fit, Shape
    <3> QED BY <2>2, <3>1, <2>0, <1>h, <1>k, ClearOn DEF Reading, Same
  <2> QED BY <2>1, <2>2
<1>5. CASE k.pc = "account" /\ Aimed(k, j)
  BY <1>5, SameRules DEF Aimed, Clear
<1>6. ASSUME k.pc = "check", NEW rule, NEW h, h \in CallType, Read1(k, h, rule),
             j = h \/ (h.todo = {} /\ Admitted(h, j))
      PROVE  \/ Clear(j, {})
             \/ j.o = k.o /\ j.acct = k.acct /\ k.asked \subseteq j.asked /\ Clear(j, free)
  <2>1. rules[<<k.o, k.acct, rule>>] \in Decisions
    <3>1. k.o \in Origins /\ k.acct \in Accounts /\ rule \in Rules
      BY <1>0, <1>6, SInvFacts DEF Calls, Located, Read1, CallType
    <3> QED BY <3>1, SInvFacts DEF TrustOK
  <2>2. Clear(h, free)
    BY <1>0, <1>6, <1>h, <1>k, <2>1, ClearRead1
  <2>3. h.o = k.o /\ h.acct = k.acct /\ k.asked \subseteq h.asked /\ h.pc = "check"
    BY <1>6 DEF Read1
  <2>4. CASE h.todo = {} /\ Admitted(h, j)
    <3>1. j.o = h.o /\ j.acct = h.acct /\ j.asked = h.asked /\ j.m = h.m
      BY <2>4 DEF Admitted, Sought, Goes, Gone, Went, Same
    <3>2. Reading(h)
      BY <2>3 DEF Reading
    <3>3. Clear(j, free)
      BY <2>2, <2>4, <3>1, <3>2, ClearOn
    <3> QED BY <2>3, <3>1, <3>3
  <2> QED BY <1>6, <2>2, <2>3, <2>4
<1>7. CASE k.pc \notin {"idle", "account", "check", "record", "done"} /\ Stable(k, j)
  <2>1. j.o = k.o /\ j.acct = k.acct /\ j.asked = k.asked /\ j.m = k.m
    BY <1>7 DEF Stable, Alike
  <2>2. Reading(k)
    BY <1>7 DEF Reading
  <2>3. Clear(j, free)
    BY <1>7, <1>h, <1>k, <2>1, <2>2, ClearOn
  <2> QED BY <2>1, <2>3, <1>k
<1>8. CASE k.pc = "record" /\ Closed(k, j)
  <2>1. j.o = k.o /\ j.acct = k.acct /\ j.asked = k.asked /\ j.m = k.m
    BY <1>8 DEF Closed, Same
  <2>2. Reading(j) => Reading(k)
    BY <1>8 DEF Reading, Closed
  <2>3. Clear(j, free)
    BY <1>8, <1>h, <1>k, <2>1, <2>2, ClearOn
  <2> QED BY <2>1, <2>3, <1>k
<1> QED BY <1>1, <1>2, <1>4, <1>5, <1>6, <1>7, <1>8, <1>k DEF Becomes

\* Where two lines of rules are written: by the user, or by a request that asked about them.
LEMMA StepWrites == ASSUME SInv, NEW q \in Requests, Request(q) \/ Step(q) \/ Reply(q), ~Save(q)
                    PROVE  UNCHANGED rules
BY DEF Step, Reply, Request, Account, Check, Stored, StillEarly, Build, Approved, Answer, Unlocked,
       Still, RecheckRule, RecheckWanted, RecheckGrant, SaveGrantCheck, SaveGrant, Sign,
       RemoteAnswer, Gap, Yield, Answered, Record, trust

RuleWrite == \/ UNCHANGED rules
             \/ spent'.edits > 0
             \/ \E q \in Requests, rule \in Rules :
                  /\ rule \in call[q].asked /\ call[q].keep \in {"allow", "deny"}
                  /\ rules' = [rules EXCEPT ![<<call[q].o, call[q].acct, rule>>] = call[q].keep]

LEMMA SaveWrites == ASSUME SInv, NEW q \in Requests, Fit(call[q]), Save(q) PROVE RuleWrite
<1>1. PICK rule \in call[q].todo :
        rules' = [rules EXCEPT ![<<call[q].o, call[q].acct, rule>>] = call[q].keep]
  BY SaveWay
<1>2. call[q].pc = "save" /\ call[q] \in CallType /\ Located(call[q])
  BY SaveWay, SInvFacts DEF Calls
<1>3. rule \in call[q].asked /\ rule \in Rules
  BY <1>2 DEF Fit, Shape, CallType
<1>4. call[q].keep \in {"allow", "deny"}
  BY <1>2 DEF Located, Keeping, Decisions, CallType
<1> QED BY <1>1, <1>3, <1>4 DEF RuleWrite

LEMMA EditsCount == ASSUME SInv, Next
                    PROVE  \/ spent'.edits = spent.edits
                           \/ spent'.edits = spent.edits + 1 /\ Edit
<1>0. spent \in SpentType
  BY SInvFacts DEF HostOK
<1>1. ASSUME NEW what \in {"switches", "locks", "revokes", "faults"}, Spend(what)
      PROVE  spent'.edits = spent.edits
  BY <1>0, <1>1 DEF Spend, SpentType
<1>2. ASSUME Spend("edits") PROVE spent'.edits = spent.edits + 1
  BY <1>0, <1>2 DEF Spend, SpentType
<1> QED BY <1>1, <1>2 DEF Next, PortFails, Timeout, Revoke, CooldownEnds, Cancel, Switch, Tell,
                          Lock, Unlock, Edit, DisposeSigner

LEMMA RulesWritten == ASSUME SInv, Fits, Next PROVE RuleWrite
<1>0. spent.edits \in Nat
  BY SInvFacts DEF HostOK, SpentType
<1>1. ASSUME NEW q \in Requests, Request(q) \/ Step(q) \/ Reply(q) PROVE RuleWrite
  BY <1>1, StepWrites, SaveWrites DEF Fits, RuleWrite
<1>2. CASE Edit
  <2>1. spent'.edits = spent.edits + 1
    BY <1>2, SInvFacts DEF Edit, Spend, HostOK, SpentType
  <2> QED BY <1>0, <2>1 DEF RuleWrite
<1>3. CASE UNCHANGED rules
  BY <1>3 DEF RuleWrite
<1> QED BY <1>1, <1>2, <1>3 DEF Next, PortFails, Timeout, Revoke, CooldownEnds, Cancel, Switch, Tell,
                               Lock, Unlock, DisposeSigner, trust

\* What is free stays free, but for what the request itself was asked about.
LEMMA FreeStays ==
    ASSUME SInv, Fits, Next, NEW r \in Requests, NEW o, NEW a, o = call[r].o, a = call[r].acct,
           NEW rule \in Free(o, a, r), rule \notin call[r].asked
    PROVE  /\ rule \in Rules
           /\ \/ spent'.edits > 0
              \/ rules'[<<o, a, rule>>] = "allow"
              \/ \E q \in Requests \ {r} : /\ call'[q].o = o /\ call'[q].acct = a
                                          /\ rule \in call'[q].asked /\ call'[q].keep = "deny"
<1>0. rule \in Rules /\ spent.edits \in Nat
  BY SInvFacts DEF Free, HostOK, SpentType
<1>1. CASE spent.edits > 0
  BY <1>0, <1>1, EditsCount
<1>2. ASSUME NEW q \in Requests \ {r}, call[q].o = o, call[q].acct = a, rule \in call[q].asked,
             call[q].keep = "deny"
      PROVE  /\ call'[q].o = o /\ call'[q].acct = a
             /\ rule \in call'[q].asked /\ call'[q].keep = "deny"
  <2>1. Alike(call[q], call'[q]) /\ call'[q].keep = "deny"
    BY <1>2, NeverStays
  <2> QED BY <1>2, <2>1 DEF Alike
<1>3. CASE rules[<<o, a, rule>>] = "allow"
  <2>1. CASE UNCHANGED rules \/ spent'.edits > 0
    BY <1>0, <1>3, <2>1
  <2>2. ASSUME NEW q \in Requests, NEW w \in Rules, w \in call[q].asked,
               call[q].keep \in {"allow", "deny"},
               rules' = [rules EXCEPT ![<<call[q].o, call[q].acct, w>>] = call[q].keep]
        PROVE  \/ rules'[<<o, a, rule>>] = "allow"
               \/ /\ q # r /\ call[q].o = o /\ call[q].acct = a
                  /\ rule \in call[q].asked /\ call[q].keep = "deny"
    <3>0. rules \in [Origins \X Accounts \X Rules -> Decisions]
      BY SInvFacts DEF TrustOK
    <3>1. CASE <<call[q].o, call[q].acct, w>> = <<o, a, rule>>
      <4>1. call[q].o = o /\ call[q].acct = a /\ w = rule
        BY <3>1
      <4>2. CASE call[q].keep = "deny"
        BY <2>2, <4>1, <4>2
      <4>3. CASE call[q].keep = "allow"
        <5>1. CASE <<o, a, rule>> \in DOMAIN rules
          BY <2>2, <3>1, <4>3, <5>1
        <5>2. CASE <<o, a, rule>> \notin DOMAIN rules
          BY <1>3, <2>2, <3>1, <5>2, <3>0
        <5> QED BY <5>1, <5>2
      <4> QED BY <2>2, <4>2, <4>3
    <3>2. CASE <<call[q].o, call[q].acct, w>> # <<o, a, rule>>
      BY <1>3, <2>2, <3>0, <3>2
    <3> QED BY <3>1, <3>2
  <2> QED BY <1>0, <1>2, <2>1, <2>2, RulesWritten DEF RuleWrite
<1> QED BY <1>0, <1>1, <1>2, <1>3 DEF Free

LEMMA RulesReadKept == ASSUME SInv, Fits, RulesRead, [Next]_vars PROVE RulesRead'
<1>1. CASE UNCHANGED vars
  BY <1>1 DEF vars, host, trust, RulesRead, Clear, Reading, Free, RulesOf, Items
<1>2. CASE Next
  <2>1. SUFFICES ASSUME NEW r \in Requests PROVE Clear(call[r], Free(call[r].o, call[r].acct, r))'
    BY DEF RulesRead
  <2> DEFINE j == call'[r]
             new == Free(call[r].o, call[r].acct, r)'
  <2>2. \/ Clear(j, {})
        \/ /\ j.o = call[r].o /\ j.acct = call[r].acct /\ call[r].asked \subseteq j.asked
           /\ Clear(j, Free(call[r].o, call[r].acct, r))
    BY <1>2, AllBecome, ClearBecomes DEF Fits, RulesRead
  <2>3. ASSUME j.o = call[r].o, j.acct = call[r].acct, call[r].asked \subseteq j.asked,
               NEW rule \in Free(call[r].o, call[r].acct, r), rule \notin j.asked
        PROVE  rule \in new
    <3>1. rule \notin call[r].asked
      BY <2>3
    <3>2. /\ rule \in Rules
          /\ \/ spent'.edits > 0
             \/ rules'[<<j.o, j.acct, rule>>] = "allow"
             \/ \E q \in Requests \ {r} : /\ call'[q].o = j.o /\ call'[q].acct = j.acct
                                         /\ rule \in call'[q].asked /\ call'[q].keep = "deny"
      BY <1>2, <2>3, <3>1, FreeStays
    <3> QED BY <3>2 DEF Free
  <2> HIDE DEF new
  <2>4. Clear(j, new)
    <3>1. CASE Clear(j, {})
      BY <3>1 DEF Clear
    <3>2. CASE /\ j.o = call[r].o /\ j.acct = call[r].acct /\ call[r].asked \subseteq j.asked
               /\ Clear(j, Free(call[r].o, call[r].acct, r))
      BY <2>3, <3>2 DEF Clear
    <3> QED BY <2>2, <3>1, <3>2
  <2>5. new = Free(call[r].o, call[r].acct, r)'
    BY DEF new
  <2> QED BY <2>4, <2>5 DEF Clear, Reading, RulesOf, Items
<1> QED BY <1>1, <1>2

LEMMA RulesReadStart == ASSUME Init PROVE RulesRead
BY DEF Init, RulesRead, Clear, Reading, NoCall

LEMMA ConsentFollows == ASSUME SInv, Fits, RulesRead PROVE KeyUsedWithConsent
<1>1. SUFFICES ASSUME NEW r \in Requests,
                      call[r].m \in {"sign", "attest", "batch"}, call[r].acct \notin Remote,
                      spent.edits = 0,
                      call[r].pc = "sign" \/ call[r].results # <<>> \/ call[r].out = "ok"
               PROVE  \/ call[r].said
                      \/ \A n \in DOMAIN Items(call[r]) :
                           LET rule == RuleOf(Items(call[r])[n])
                           IN  \/ rules[<<call[r].o, call[r].acct, rule>>] = "allow"
                               \/ ForbiddenSince(r, rule)
  BY DEF KeyUsedWithConsent
<1> DEFINE k == call[r]
<1>2. Fit(k) /\ Clear(k, Free(k.o, k.acct, r)) /\ k \in CallType
  BY SInvFacts DEF Fits, RulesRead, Calls
<1>3. LetBy(k) /\ Reading(k) /\ k.pc # "check"
  BY <1>1, <1>2 DEF LetBy, Past, Reading, Fit, Shape
<1>4. k.said = TRUE \/ k.asked = {}
  BY <1>1, <1>2, <1>3 DEF Fit, Asked
<1>5. CASE k.said = TRUE
  BY <1>5
<1>6. ASSUME k.asked = {}, NEW n \in DOMAIN Items(k)
      PROVE  LET rule == RuleOf(Items(k)[n])
             IN  rules[<<k.o, k.acct, rule>>] = "allow" \/ ForbiddenSince(r, rule)
  <2> DEFINE rule == RuleOf(Items(k)[n])
  <2>1. rule \in RulesOf(k)
    BY DEF RulesOf
  <2> HIDE DEF rule
  <2>2. rule \in Free(k.o, k.acct, r)
    BY <1>2, <1>3, <1>6, <2>1 DEF Clear
  <2>3. rules[<<k.o, k.acct, rule>>] = "allow" \/ ForbiddenSince(r, rule)
    BY <1>1, <2>2 DEF Free, ForbiddenSince
  <2> QED BY <2>3 DEF rule
<1> QED BY <1>4, <1>5, <1>6

----------------------------------------------------------------------------
(* The grant store's lock: one writer, and an allow over no refusal.       *)

GrantLock ==
    /\ \A r, q \in Requests : Writing(call[r]) /\ Writing(call[q]) => r = q
    /\ \A r \in Requests : call[r].pc = "grantWrite" => grants[<<call[r].o, call[r].acct>>] # "deny"

\* Only a writer and the user write; the user not while somebody has the lock.
LEMMA GrantWrites == ASSUME Next
                     PROVE  \/ UNCHANGED grants
                            \/ Edit /\ GrantsFree /\ UNCHANGED call
                            \/ \E q \in Requests : SaveGrant(q)
<1>1. ASSUME NEW r \in Requests, Request(r) \/ Step(r) \/ Reply(r), ~SaveGrant(r)
      PROVE  UNCHANGED grants
  BY <1>1 DEF Step, Reply, Request, Account, Check, Stored, StillEarly, Build, Approved, Save,
              Answer, Unlocked, Still, RecheckRule, RecheckWanted, RecheckGrant, SaveGrantCheck,
              Sign, RemoteAnswer, Gap, Yield, Answered, Record, trust
<1>2. CASE Edit
  BY <1>2 DEF Edit
<1> QED BY <1>1, <1>2 DEF Next, PortFails, Timeout, Revoke, CooldownEnds, Cancel, Switch, Tell,
                          Lock, Unlock, DisposeSigner, trust

\* A request that writes now did so before, or has just found the lock free.
LEMMA WriterSteps ==
    ASSUME SInv, Fits, Next, NEW r \in Requests, Writing(call'[r])
    PROVE  call'[r] = call[r] \/ SaveGrantCheck(r)
<1>1. Becomes(call[r], call'[r])
  BY AllBecome
<1>2. call'[r] = call[r] \/ call[r].pc \in {"grantCheck", "denyCheck"}
  <2>1. ASSUME NEW h, Admitted(h, call'[r]) PROVE FALSE
    BY <2>1 DEF Admitted, Sought, Goes, Gone, Went, Writing
  <2> QED BY <1>1, <2>1 DEF Becomes, Fresh, Gone, Aimed, Read1, Stable, Closed, Writing
<1>3. CASE call[r].pc \in {"grantCheck", "denyCheck"}
  <2>1. ASSUME NEW q \in Requests \ {r}, Request(q) \/ Step(q) \/ Reply(q) \/ PortFails(q)
        PROVE  call'[r] = call[r]
    <3>1. \E j : Own(q, j)
      BY <2>1, FitMoves, PortFailsFit DEF Fits
    <3> QED BY <3>1 DEF Own
  <2>2. ASSUME Request(r) \/ Step(r) \/ Reply(r) PROVE SaveGrantCheck(r)
    BY <1>3, <2>2 DEF Step, Reply, Request, Account, Check, Stored, StillEarly, Build, Approved,
                      Save, Answer, Unlocked, Still, RecheckRule, RecheckWanted, RecheckGrant,
                      SaveGrant, Sign, RemoteAnswer, Gap, Yield, Answered, Record
  <2>3. ~PortFails(r)
    <3>1. ASSUME PortFails(r) PROVE FALSE
      <4>1. PICK j : /\ Own(r, j)
                     /\ Gone(call[r], j) \/ (call[r].pc = "sign" /\ Itemised(call[r], j))
        BY <3>1, PortFailsWay
      <4> QED BY <1>3, <4>1 DEF Own, Gone, Writing
    <3> QED BY <3>1
  <2>4. CASE Failed
    BY <2>4 DEF Failed, Gone, Writing
  <2>5. CASE UNCHANGED call
    BY <2>5
  <2>6. CASE \/ \E q \in Requests : Timeout(q)
             \/ \E o \in Origins, i \in Ids : Cancel(o, i)
             \/ \E o \in Origins : Revoke(o)
             \/ Tell
             \/ DisposeSigner
    BY <2>4, <2>6, FailersWay
  <2>7. CASE (\E o \in Origins : CooldownEnds(o)) \/ Switch \/ Lock \/ Unlock \/ Edit
    BY <2>5, <2>7 DEF CooldownEnds, Switch, Lock, Unlock, Edit
  <2>8. ASSUME NEW q \in Requests, Request(q) \/ Step(q) \/ Reply(q) \/ PortFails(q)
        PROVE  call'[r] = call[r] \/ SaveGrantCheck(r)
    BY <2>1, <2>2, <2>3, <2>8
  <2> QED BY <2>6, <2>7, <2>8 DEF Next
<1> QED BY <1>2, <1>3

\* Who has written is no writer any more.
LEMMA WriterLeaves == ASSUME SInv, NEW q \in Requests, SaveGrant(q)
                      PROVE  Writing(call[q]) /\ ~Writing(call'[q])
<1>1. PICK d, h, j : Own(q, j) /\ (Executed(h, j) \/ Gone(h, j))
  BY SaveGrantWay
<1>2. call'[q] = j /\ ~Writing(j)
  BY <1>1 DEF Own, Executed, Goes, Gone, Went, Itemised, Writing
<1> QED BY <1>2 DEF SaveGrant, Writing

LEMMA LockKept == ASSUME SInv, Fits, GrantLock, Next PROVE GrantLock'
<1>1. ASSUME NEW r \in Requests, SaveGrantCheck(r), Writing(call'[r])
      PROVE  /\ \A q \in Requests \ {r} : ~Writing(call'[q])
             /\ UNCHANGED grants
             /\ call'[r].pc = "grantWrite" => grants[<<call'[r].o, call'[r].acct>>] # "deny"
  <2>1. PICK j : /\ GrantsFree /\ Own(r, j)
                 /\ \/ Gone(call[r], j)
                    \/ Went(call[r], j, "denyWrite")
                    \/ /\ Went(call[r], j, "grantWrite")
                       /\ grants[<<call[r].o, call[r].acct>>] # "deny"
    BY <1>1, SaveGrantCheckWay
  <2>2. call'[r] = j /\ \A q \in Requests \ {r} : ~Writing(call'[q])
    BY <2>1 DEF Own, GrantsFree, Writing
  <2>3. j.pc = "grantWrite" => grants[<<j.o, j.acct>>] # "deny"
    BY <2>1 DEF Gone, Went, Same
  <2> QED BY <1>1, <2>2, <2>3 DEF SaveGrantCheck, trust
<1>2. ASSUME NEW r \in Requests, NEW q \in Requests, Writing(call'[r]), Writing(call'[q]) PROVE r = q
  <2>1. call'[r] = call[r] \/ SaveGrantCheck(r)
    BY <1>2, WriterSteps
  <2>2. call'[q] = call[q] \/ SaveGrantCheck(q)
    BY <1>2, WriterSteps
  <2>3. CASE SaveGrantCheck(r) \/ SaveGrantCheck(q)
    BY <1>1, <1>2, <2>3
  <2>4. CASE call'[r] = call[r] /\ call'[q] = call[q]
    BY <1>2, <2>4 DEF GrantLock
  <2> QED BY <2>1, <2>2, <2>3, <2>4
<1>3. ASSUME NEW r \in Requests, call'[r].pc = "grantWrite"
      PROVE  grants'[<<call'[r].o, call'[r].acct>>] # "deny"
  <2>0. Writing(call'[r])
    BY <1>3 DEF Writing
  <2>1. CASE SaveGrantCheck(r)
    BY <1>1, <1>3, <2>0, <2>1
  <2>2. CASE call'[r] = call[r]
    <3>1. ASSUME NEW q \in Requests PROVE ~SaveGrant(q)
      <4>1. ASSUME SaveGrant(q) PROVE FALSE
        BY <2>0, <2>2, <4>1, WriterLeaves DEF GrantLock
      <4> QED BY <4>1
    <3>2. ~GrantsFree
      BY <2>0, <2>2 DEF GrantsFree, Writing
    <3>3. UNCHANGED grants
      BY <3>1, <3>2, GrantWrites
    <3> QED BY <1>3, <2>2, <3>3 DEF GrantLock
  <2> QED BY <2>0, <2>1, <2>2, WriterSteps
<1> QED BY <1>2, <1>3 DEF GrantLock, Writing

LEMMA LockStarts == ASSUME Init PROVE GrantLock
BY DEF Init, GrantLock, Writing, NoCall

\* So a refusal is overwritten by the user alone.
LEMMA RefusalsStand ==
    ASSUME SInv, Fits, GrantLock, Next, NEW o \in Origins, NEW a \in Accounts,
           grants[<<o, a>>] = "deny", spent'.edits = spent.edits
    PROVE  grants'[<<o, a>>] = "deny"
<1>1. ~Edit
  BY SInvFacts DEF Edit, Spend, HostOK, SpentType
<1>2. ASSUME NEW q \in Requests, SaveGrant(q) PROVE grants'[<<o, a>>] = "deny"
  <2>0. grants \in [Origins \X Accounts -> Decisions]
    BY SInvFacts DEF TrustOK
  <2>1. PICK d : /\ grants' = [grants EXCEPT ![<<call[q].o, call[q].acct>>] = d]
                 /\ d = "deny" \/ call[q].pc = "grantWrite"
    BY <1>2, SaveGrantWay
  <2>2. CASE <<call[q].o, call[q].acct>> = <<o, a>>
    <3>1. d = "deny"
      BY <2>1, <2>2 DEF GrantLock
    <3> QED BY <2>0, <2>1, <2>2, <3>1
  <2> QED BY <2>0, <2>1, <2>2
<1> QED BY <1>1, <1>2, GrantWrites

----------------------------------------------------------------------------
(* What the grant store said to a login, and what has become of it since.  *)

\* A login that is signed, and one that is past its first revalidation.
Signed(k) == k.pc = "answered" \/ (k.pc \in {"rule", "wanted", "regrant"} /\ k.round = 2)
Passed(k) == Signed(k) \/ k.pc \in {"grantCheck", "grantWrite", "sign", "remote"}

\* What other logins of its caller to its account wrote.
Others(k, r) == {d \in {"allow", "deny"} :
                   \E q \in Requests \ {r} : /\ call[q].o = k.o /\ call[q].acct = k.acct
                                            /\ call[q].wrote = d}

\* With g in the store, e edits made and w written by others: whatever differs from what the
\* login was told when it passed is an edit's doing or another login's refusal; and whatever
\* differed already when it was signed has been changed back by as much again.
Fallen(g, e, w) == e >= 1 \/ (g = "deny" /\ "deny" \in w)
Back(e, w, ds)  == e >= 2 \/ (e >= 1 /\ w \cap ds # {})
Keeps(k, g, e, w) ==
    IsLogin(k) =>
        /\ Passed(k) /\ g = "deny" => Fallen(g, e, w)
        /\ Passed(k) /\ k.consent = "grant" /\ g # "allow" => Fallen(g, e, w)
        /\ Signed(k) /\ k.stored = "deny" => \/ g = "deny" /\ Fallen(g, e, w)
                                             \/ Back(e, w, {"deny"})
        /\ Signed(k) /\ k.consent = "grant" /\ k.stored # "allow" =>
              \/ g # "allow" /\ Fallen(g, e, w)
              \/ Back(e, w, {"allow", "deny"})
        /\ k.out = "ok" /\ k.stored = "deny" => Back(e, w, {"deny"})
        /\ k.out = "ok" /\ k.consent = "grant" /\ k.stored # "allow"
              => Back(e, w, {"allow", "deny"})

Store(k) == grants[<<k.o, k.acct>>]
GrantKept == \A r \in Requests : Keeps(call[r], Store(call[r]), spent.edits, Others(call[r], r))

\* More written by others changes nothing about that.
LEMMA KeepsMore == ASSUME NEW k, NEW g, NEW e \in Nat, NEW w, NEW v, Keeps(k, g, e, w), w \subseteq v
                   PROVE  Keeps(k, g, e, v)
BY DEF Keeps, Fallen, Back

LEMMA KeepsEdit == ASSUME NEW k, NEW g, NEW e \in Nat, NEW w, Keeps(k, g, e, w), NEW f
                   PROVE  Keeps(k, f, e + 1, w)
BY DEF Keeps, Fallen, Back

\* Another login writes: an allow, over no refusal, or a refusal.
LEMMA KeepsAllow == ASSUME NEW k, NEW g, NEW e \in Nat, NEW w, Keeps(k, g, e, w), g # "deny"
                    PROVE  Keeps(k, "allow", e, w \cup {"allow"})
BY DEF Keeps, Fallen, Back

LEMMA KeepsDeny == ASSUME NEW k, NEW g, NEW e \in Nat, NEW w, Keeps(k, g, e, w)
                   PROVE  Keeps(k, "deny", e, w \cup {"deny"})
BY DEF Keeps, Fallen, Back

\* What is neither past its revalidation nor answered keeps it anyhow.
LEMMA KeepsUnpassed == ASSUME NEW k, NEW g, NEW e, NEW w, IsLogin(k) => ~Passed(k) /\ k.out # "ok"
                       PROVE  Keeps(k, g, e, w)
BY DEF Keeps, Passed

\* Past it, moves among the awaits that follow keep it.
LEMMA KeepsOn == ASSUME NEW k, NEW j, NEW g, NEW e, NEW w, Keeps(k, g, e, w), j.m = k.m,
                        j.consent = k.consent, j.stored = k.stored,
                        Passed(j) => Passed(k), Signed(j) => Signed(k), j.out = "ok" => k.out = "ok"
                 PROVE  Keeps(j, g, e, w)
BY DEF Keeps, IsLogin

\* A login passes where the store has no refusal, and the grant it rides on.
LEMMA KeepsPassing == ASSUME NEW k, NEW j, NEW e, NEW w, NEW g, j.consent = k.consent,
                             g # "deny", k.consent = "grant" => g = "allow",
                             ~Signed(j), j.out # "ok"
                      PROVE  Keeps(j, g, e, w)
BY DEF Keeps

\* It is signed for what the store says.
LEMMA KeepsSigning == ASSUME NEW k, NEW j, NEW g, NEW e, NEW w, Keeps(k, g, e, w), Passed(k),
                             j.m = k.m, j.consent = k.consent, j.stored = g, j.out # "ok"
                      PROVE  Keeps(j, g, e, w)
BY DEF Keeps, IsLogin

\* And answered if the store says so still.
LEMMA KeepsServing == ASSUME NEW k, NEW j, NEW g, NEW e, NEW w, Keeps(k, g, e, w), Signed(k),
                             g # "deny", k.consent = "grant" => g = "allow",
                             j.m = k.m, j.consent = k.consent, j.stored = k.stored, ~Passed(j)
                      PROVE  Keeps(j, g, e, w)
BY DEF Keeps, IsLogin, Passed

\* Not a login, or one the store has not been asked about.
Unbound(j) == IsLogin(j) => ~Passed(j) /\ j.out # "ok"

LEMMA GoneUnbound == ASSUME NEW k, NEW j, Gone(k, j) PROVE Unbound(j)
BY DEF Gone, Unbound, Passed, Signed, Bad

LEMMA NoLogin == ASSUME NEW k, NEW j, j.m = k.m, ~IsLogin(k) PROVE Unbound(j)
BY DEF Unbound, IsLogin

LEMMA WentUnbound == ASSUME NEW k, NEW j, NEW p, Went(k, j, p), k.out = "none",
                            p \in {"prompt", "unlock", "still", "stored", "unlockEarly", "stillEarly",
                                   "build", "save", "approved", "denyWrite"}
                     PROVE  Unbound(j)
BY DEF Went, Unbound, Passed, Signed

LEMMA SoughtUnbound == ASSUME NEW k, NEW j, Sought(k, j), k.out = "none" PROVE Unbound(j)
BY GoneUnbound, WentUnbound DEF Sought, Goes

LEMMA ExecutedLogin == ASSUME NEW k, NEW j, Executed(k, j)
                       PROVE  \/ Unbound(j)
                              \/ Went(k, j, "remote") \/ Went(k, j, "sign")
<1>1. CASE Gone(k, j)
  BY <1>1, GoneUnbound
<1>2. CASE ~NeedsKey(k) /\ Goes(k, j, {"answered"})
  <2>1. ~IsLogin(k)
    BY <1>2 DEF NeedsKey, IsLogin
  <2>2. j.m = k.m
    BY <1>2 DEF Goes, Gone, Went, Same
  <2> QED BY <2>1, <2>2, NoLogin
<1>3. CASE Itemised(k, j)
  BY <1>3, NoLogin DEF Itemised, Same, IsLogin
<1> QED BY <1>1, <1>2, <1>3 DEF Executed, Goes

LEMMA KeepsMoves ==
    ASSUME SInv, NEW r \in Requests, Fit(call[r]), NEW e, NEW w,
           Keeps(call[r], Store(call[r]), e, w),
           Request(r) \/ Step(r) \/ Reply(r) \/ PortFails(r), ~SaveGrant(r)
    PROVE  \E j : Own(r, j) /\ (Unbound(j) \/ Keeps(j, Store(call[r]), e, w))
<1> DEFINE k == call[r]
           g == Store(call[r])
<1>0. Keeps(k, g, e, w)
  OBVIOUS
<1>g. g = grants[<<k.o, k.acct>>]
  BY DEF Store
<1>n. k.pc \notin {"record", "done"} => k.out = "none"
  BY DEF Fit, Shape
<1> HIDE DEF g
<1>a. SUFFICES \E j : Own(r, j) /\ (Unbound(j) \/ Keeps(j, g, e, w))
  BY DEF g
<1>1. CASE Request(r)
  <2>1. PICK j : Own(r, j) /\ Fresh(j)
    BY <1>1, RequestWay
  <2> QED BY <2>1 DEF Fresh, Unbound, Passed, Signed
<1>2. CASE Account(r)
  <2>1. PICK j : k.pc = "account" /\ Own(r, j) /\ (Gone(k, j) \/ Aimed(k, j))
    BY <1>2, AccountWay
  <2>2. ASSUME Aimed(k, j) PROVE Unbound(j)
    BY <1>n, <2>1, <2>2 DEF Aimed, Unbound, Passed, Signed
  <2> QED BY <2>1, <2>2, GoneUnbound
<1>3. CASE Check(r)
  <2>1. k.pc = "check"
    BY <1>3, CheckWay
  <2>3. ASSUME NEW rule, NEW h, NEW j, Read1(k, h, rule), j = h \/ Admitted(h, j)
        PROVE  Unbound(j)
    <3>1. h.pc = "check" /\ h.out = "none"
      BY <1>n, <2>1, <2>3 DEF Read1
    <3>2. Unbound(h)
      BY <3>1 DEF Unbound, Passed, Signed
    <3> QED BY <2>3, <3>1, <3>2, SoughtUnbound, GoneUnbound, WentUnbound DEF Admitted, Goes
  <2> QED BY <1>3, <2>3, CheckWay, GoneUnbound
<1>4. CASE Stored(r)
  <2>2. ASSUME NEW h, NEW j, Reminded(k, h), Sought(h, j), k.pc = "stored" PROVE Unbound(j)
    <3>1. h.out = "none"
      BY <1>n, <2>2 DEF Reminded
    <3> QED BY <2>2, <3>1, SoughtUnbound
  <2> QED BY <1>4, <2>2, StoredWay, GoneUnbound
<1>5. CASE StillEarly(r)
  BY <1>5, <1>n, StillEarlyWay, GoneUnbound, WentUnbound DEF Goes
<1>6. CASE Build(r)
  BY <1>6, <1>n, BuildWay, SoughtUnbound
<1>7. CASE Answer(r)
  <2>1. PICK j : k.pc = "prompt" /\ Own(r, j) /\ (Gone(k, j) \/ Replied(k, j))
    BY <1>7, AnswerWay
  <2>2. ASSUME Replied(k, j) PROVE Unbound(j)
    BY <1>n, <2>1, <2>2 DEF Replied, Unbound, Passed, Signed
  <2> QED BY <2>1, <2>2, GoneUnbound
<1>8. CASE Approved(r)
  <2>1. PICK j : /\ k.pc = "approved" /\ Own(r, j)
                 /\ Gone(k, j) \/ Goes(k, j, {"save", "unlock", "still"})
    BY <1>8, ApprovedWay
  <2> QED BY <1>n, <2>1, GoneUnbound, WentUnbound DEF Goes
<1>9. CASE Save(r)
  <2>1. k.pc = "save"
    BY <1>9, SaveWay
  <2>2. PICK h, j : /\ Kept(k, h) /\ Own(r, j)
                    /\ j = h \/ Gone(h, j) \/ Goes(h, j, {"unlock", "still"})
    BY <1>9, SaveWay
  <2>3. h.out = "none" /\ h.pc = "save"
    BY <1>n, <2>1, <2>2 DEF Kept
  <2>4. Unbound(h)
    BY <2>3 DEF Unbound, Passed, Signed
  <2> QED BY <2>2, <2>3, <2>4, GoneUnbound, WentUnbound DEF Goes
<1>10. CASE Unlocked(r)
  <2>1. PICK j : /\ Own(r, j) /\ k.pc \in {"unlock", "unlockEarly"}
                 /\ Goes(k, j, {"still"}) \/ Goes(k, j, {"stillEarly"})
    BY <1>10, UnlockedWay
  <2> QED BY <1>n, <2>1, GoneUnbound, WentUnbound DEF Goes
<1>11. CASE Still(r)
  <2>1. k.pc = "still"
    BY <1>11, StillWay
  <2>2. ASSUME NEW h, NEW j, Counted(k, h), IsLogin(h) => Gone(h, j) \/ Rechecked(h, j, 1),
               ~IsLogin(h) => Executed(h, j)
        PROVE  Unbound(j)
    <3>1. CASE IsLogin(h) /\ Rechecked(h, j, 1)
      BY <1>n, <2>1, <2>2, <3>1 DEF Counted, Rechecked, Unbound, Passed, Signed
    <3>2. CASE ~IsLogin(h)
      <4>1. j.m = h.m
        BY <2>2, <3>2 DEF Executed, Goes, Gone, Went, Itemised, Same
      <4> QED BY <3>2, <4>1, NoLogin
    <3> QED BY <2>2, <3>1, <3>2, GoneUnbound
  <2> QED BY <1>11, <2>2, StillWay, GoneUnbound
<1>12. CASE RecheckRule(r)
  <2>1. PICK j : k.pc = "rule" /\ Own(r, j) /\ (Gone(k, j) \/ Went(k, j, "wanted"))
    BY <1>12, RecheckRuleWay DEF Goes
  <2>2. ASSUME Went(k, j, "wanted") PROVE Keeps(j, g, e, w)
    <3>1. /\ j.m = k.m /\ j.consent = k.consent /\ j.stored = k.stored /\ j.out = k.out
          /\ Passed(j) => Passed(k)
          /\ Signed(j) => Signed(k)
      BY <2>1, <2>2 DEF Went, Same, Passed, Signed
    <3> QED BY <1>0, <3>1, KeepsOn
  <2> QED BY <2>1, <2>2, GoneUnbound
<1>13. CASE RecheckWanted(r)
  <2>1. PICK j : k.pc = "wanted" /\ Own(r, j) /\ (Gone(k, j) \/ Went(k, j, "regrant"))
    BY <1>13, RecheckWantedWay
  <2>2. ASSUME Went(k, j, "regrant") PROVE Keeps(j, g, e, w)
    <3>1. /\ j.m = k.m /\ j.consent = k.consent /\ j.stored = k.stored /\ j.out = k.out
          /\ Passed(j) => Passed(k)
          /\ Signed(j) => Signed(k)
      BY <2>1, <2>2 DEF Went, Same, Passed, Signed
    <3> QED BY <1>0, <3>1, KeepsOn
  <2> QED BY <2>1, <2>2, GoneUnbound
<1>14. CASE RecheckGrant(r)
  <2>1. PICK j : /\ k.pc = "regrant" /\ Own(r, j)
                 /\ \/ Gone(k, j)
                    \/ /\ g # "deny"
                       /\ k.consent = "grant" => g = "allow"
                       /\ \/ k.round = 2 /\ Served(k, j)
                          \/ k.round # 2 /\ Went(k, j, "grantCheck")
                          \/ k.round # 2 /\ Executed(k, j)
    BY <1>14, <1>g, RecheckGrantWay
  <2>2. ASSUME g # "deny", k.consent = "grant" => g = "allow", k.round = 2, Served(k, j)
        PROVE  Keeps(j, g, e, w)
    <3>1. Signed(k) /\ ~Passed(j) /\ j.m = k.m /\ j.consent = k.consent /\ j.stored = k.stored
      BY <2>1, <2>2 DEF Served, Same, Passed, Signed
    <3> QED BY <1>0, <2>2, <3>1, KeepsServing
  <2>3. ASSUME g # "deny", k.consent = "grant" => g = "allow",
               NEW p \in {"grantCheck", "remote", "sign"}, Went(k, j, p)
        PROVE  Keeps(j, g, e, w)
    <3>1. ~Signed(j) /\ j.out # "ok" /\ j.consent = k.consent
      BY <1>n, <2>1, <2>3 DEF Went, Same, Signed
    <3> QED BY <2>3, <3>1, KeepsPassing
  <2> QED BY <2>1, <2>2, <2>3, GoneUnbound, ExecutedLogin
<1>15. CASE SaveGrantCheck(r)
  <2>1. PICK j : /\ Own(r, j)
                 /\ \/ Gone(k, j)
                    \/ k.pc = "denyCheck" /\ Went(k, j, "denyWrite")
                    \/ k.pc = "grantCheck" /\ Went(k, j, "grantWrite")
    BY <1>15, SaveGrantCheckWay
  <2>2. ASSUME k.pc = "grantCheck", Went(k, j, "grantWrite") PROVE Keeps(j, g, e, w)
    <3>1. /\ j.m = k.m /\ j.consent = k.consent /\ j.stored = k.stored /\ j.out = k.out
          /\ Passed(k) /\ ~Signed(j)
      BY <2>2 DEF Went, Same, Passed, Signed
    <3> QED BY <1>0, <3>1, KeepsOn
  <2> QED BY <1>n, <2>1, <2>2, GoneUnbound, WentUnbound
<1>18. CASE Sign(r)
  <2>1. PICK h, j : /\ k.pc = "sign" /\ Own(r, j) /\ Marked(k, h)
                    /\ Goes(h, j, {"answered"}) \/ Itemised(h, j)
    BY <1>18, SignWay
  <2>2. ASSUME Went(h, j, "answered") PROVE Keeps(j, g, e, w)
    <3>1. Passed(k) /\ j.m = k.m /\ j.consent = k.consent /\ j.stored = g /\ j.out # "ok"
      BY <1>g, <1>n, <2>1, <2>2 DEF Marked, Went, Same, Passed
    <3> QED BY <1>0, <3>1, KeepsSigning
  <2>3. ASSUME Itemised(h, j) PROVE Unbound(j)
    BY <2>3, NoLogin DEF Itemised, Same, IsLogin
  <2> QED BY <2>1, <2>2, <2>3, GoneUnbound DEF Goes
<1>19. CASE RemoteAnswer(r)
  <2>1. PICK h, j : k.pc = "remote" /\ Own(r, j) /\ Marked(k, h) /\ Went(h, j, "answered")
    BY <1>19, RemoteAnswerWay
  <2>2. Passed(k) /\ j.m = k.m /\ j.consent = k.consent /\ j.stored = g /\ j.out # "ok"
    BY <1>g, <1>n, <2>1 DEF Marked, Went, Same, Passed
  <2> QED BY <1>0, <2>1, <2>2, KeepsSigning
<1>20. CASE Gap(r)
  <2>1. PICK j : k.pc = "gap" /\ Own(r, j) /\ (Went(k, j, "yield") \/ StoppedBy(k, j))
    BY <1>20, GapWay
  <2>2. j.m = k.m /\ ~IsLogin(k)
    BY <2>1 DEF Went, StoppedBy, Same, Fit, Shape, IsLogin
  <2> QED BY <2>1, <2>2, NoLogin
<1>21. CASE Yield(r)
  <2>1. PICK j : k.pc = "yield" /\ Own(r, j) /\ Opened(k, j)
    BY <1>21, YieldWay
  <2>2. j.m = k.m /\ ~IsLogin(k)
    BY <2>1 DEF Opened, Goes, Gone, Went, Itemised, Same, Fit, Shape, IsLogin
  <2> QED BY <2>1, <2>2, NoLogin
<1>22. CASE Answered(r)
  <2>1. PICK j : /\ k.pc = "answered" /\ Own(r, j)
                 /\ Gone(k, j) \/ Rechecked(k, j, 2) \/ (~IsLogin(k) /\ Served(k, j))
    BY <1>22, AnsweredWay
  <2>2. ASSUME Rechecked(k, j, 2) PROVE Keeps(j, g, e, w)
    <3>1. /\ j.m = k.m /\ j.consent = k.consent /\ j.stored = k.stored /\ j.out = k.out
          /\ Passed(k) /\ Signed(k)
      BY <2>1, <2>2 DEF Rechecked, Same, Passed, Signed
    <3> QED BY <1>0, <3>1, KeepsOn
  <2>3. ASSUME ~IsLogin(k), Served(k, j) PROVE Unbound(j)
    BY <2>3, NoLogin DEF Served, Same
  <2> QED BY <2>1, <2>2, <2>3, GoneUnbound
<1>23. CASE Record(r)
  <2>1. PICK j : k.pc = "record" /\ Own(r, j) /\ Closed(k, j)
    BY <1>23, RecordWay
  <2>2. /\ j.m = k.m /\ j.consent = k.consent /\ j.stored = k.stored /\ j.out = k.out
        /\ ~Passed(j) /\ ~Signed(j)
    BY <2>1 DEF Closed, Same, Passed, Signed
  <2>3. Keeps(j, g, e, w)
    BY <1>0, <2>2, KeepsOn
  <2> QED BY <2>1, <2>3
<1>24. CASE PortFails(r)
  <2>1. PICK j : /\ Own(r, j)
                 /\ Gone(call[r], j) \/ (call[r].pc = "sign" /\ Itemised(call[r], j))
    BY <1>24, PortFailsWay
  <2>2. ASSUME Itemised(k, j) PROVE Unbound(j)
    BY <2>2, NoLogin DEF Itemised, Same, IsLogin
  <2> QED BY <2>1, <2>2, GoneUnbound
<1> QED BY <1>1, <1>2, <1>3, <1>4, <1>5, <1>6, <1>7, <1>8, <1>9, <1>10, <1>11, <1>12, <1>13,
           <1>14, <1>15, <1>18, <1>19, <1>20, <1>21, <1>22, <1>23, <1>24 DEF Step, Reply

\* Where the store has been asked, the caller and the account are settled.
LEMMA BoundStays == ASSUME SInv, NEW r \in Requests, Fit(call[r]), NEW j, Becomes(call[r], j), ~Unbound(j)
                    PROVE  j.o = call[r].o /\ j.acct = call[r].acct
<1>1. CASE Fresh(j)
  BY <1>1 DEF Fresh, Unbound, Passed, Signed
<1>2. CASE call[r].pc = "account" /\ Aimed(call[r], j)
  BY <1>2 DEF Aimed, Unbound, Passed, Signed, Fit, Shape
<1>3. ASSUME NEW rule, NEW h, Read1(call[r], h, rule), j = h \/ Admitted(h, j)
      PROVE  j.o = call[r].o /\ j.acct = call[r].acct
  BY <1>3 DEF Read1, Admitted, Sought, Goes, Gone, Went, Same
<1> QED BY <1>1, <1>2, <1>3 DEF Becomes, Gone, Same, Stable, Alike, Closed

\* What was written once stays written, by the same request for the same account.
LEMMA WroteStays == ASSUME SInv, Fits, Next, NEW q \in Requests, call[q].wrote # "ask"
                    PROVE  /\ call'[q].o = call[q].o /\ call'[q].acct = call[q].acct
                           /\ call'[q].wrote = call[q].wrote
<1>1. Becomes(call[q], call'[q])
  BY AllBecome
<1>2. call[q].pc \notin {"idle", "account", "check"}
  BY DEF Fits, Fit, Shape
<1> QED BY <1>1, <1>2 DEF Becomes, Gone, Closed, Same, Stable, Alike

LEMMA OthersGrow == ASSUME SInv, Fits, Next, NEW r \in Requests, NEW j, j.o = call[r].o, j.acct = call[r].acct
                    PROVE  Others(call[r], r) \subseteq
                             {d \in {"allow", "deny"} :
                                \E q \in Requests \ {r} : /\ call'[q].o = j.o /\ call'[q].acct = j.acct
                                                         /\ call'[q].wrote = d}
<1>1. ASSUME NEW q \in Requests, call[q].wrote \in {"allow", "deny"}
      PROVE  /\ call'[q].o = call[q].o /\ call'[q].acct = call[q].acct
             /\ call'[q].wrote = call[q].wrote
  BY <1>1, WroteStays
<1> QED BY <1>1 DEF Others

\* A writer's own grant, and what it wrote for all others to see.
LEMMA SelfWrites == ASSUME SInv, NEW r \in Requests, Fit(call[r]), SaveGrant(r), NEW e, NEW w
                    PROVE  \E j : Own(r, j) /\ (Unbound(j) \/ Keeps(j, Store(call[r])', e, w))
<1> DEFINE k == call[r]
<1>0. /\ grants \in [Origins \X Accounts -> Decisions]
      /\ k.pc \in {"grantWrite", "denyWrite"} => k.o \in Origins /\ k.acct \in Accounts
  BY SInvFacts DEF TrustOK, Calls, Located
<1>1. PICK d, h, j :
         /\ Own(r, j) /\ Wrote(k, h, d)
         /\ grants' = [grants EXCEPT ![<<k.o, k.acct>>] = d]
         /\ \/ k.pc = "grantWrite" /\ d = "allow" /\ Executed(h, j)
            \/ k.pc = "denyWrite" /\ d = "deny" /\ Gone(h, j)
  BY SaveGrantWay
<1>2. CASE Gone(h, j)
  BY <1>1, <1>2, GoneUnbound
<1>3. ASSUME k.pc = "grantWrite", d = "allow", NEW p \in {"remote", "sign"}, Went(h, j, p)
      PROVE  Keeps(j, Store(k)', e, w)
  <2>1. call'[r] = j /\ j.o = k.o /\ j.acct = k.acct
    BY <1>1, <1>3 DEF Own, Wrote, Went, Same
  <2>2. grants'[<<k.o, k.acct>>] = "allow"
    BY <1>0, <1>1, <1>3
  <2>3. Store(k)' = "allow"
    BY <2>1, <2>2 DEF Store
  <2>4. ~Signed(j) /\ j.out # "ok"
    BY <1>1, <1>3 DEF Went, Same, Signed, Wrote, Fit, Shape
  <2>5. Keeps(j, "allow", e, w)
    BY <2>4, KeepsPassing
  <2> QED BY <2>3, <2>5
<1> QED BY <1>1, <1>2, <1>3, ExecutedLogin

LEMMA WritesSeen == ASSUME SInv, NEW q \in Requests, SaveGrant(q)
                    PROVE  /\ call'[q].o = call[q].o /\ call'[q].acct = call[q].acct
                           /\ call[q].o \in Origins /\ call[q].acct \in Accounts
                           /\ grants' = [grants EXCEPT ![<<call[q].o, call[q].acct>>] = call'[q].wrote]
                           /\ \/ call[q].pc = "grantWrite" /\ call'[q].wrote = "allow"
                              \/ call'[q].wrote = "deny"
                           /\ \A r \in Requests \ {q} : call'[r] = call[r]
<1>1. PICK d, h, j :
         /\ Own(q, j) /\ Wrote(call[q], h, d)
         /\ grants' = [grants EXCEPT ![<<call[q].o, call[q].acct>>] = d]
         /\ \/ call[q].pc = "grantWrite" /\ d = "allow" /\ Executed(h, j)
            \/ call[q].pc = "denyWrite" /\ d = "deny" /\ Gone(h, j)
  BY SaveGrantWay
<1>2. j.o = call[q].o /\ j.acct = call[q].acct /\ j.wrote = d
  BY <1>1 DEF Wrote, Executed, Goes, Gone, Went, Itemised, Same
<1>3. call[q].o \in Origins /\ call[q].acct \in Accounts
  BY <1>1, SInvFacts DEF Calls, Located
<1> QED BY <1>1, <1>2, <1>3 DEF Own

\* What has not passed does not care what the store says.
LEMMA KeepsClosed == ASSUME NEW k, NEW g, NEW e, NEW w, NEW f, Keeps(k, g, e, w), ~Passed(k)
                     PROVE  Keeps(k, f, e, w)
BY DEF Keeps, Passed

LEMMA GrantKeptGoesOn ==
    ASSUME SInv, Fits, GrantLock, GrantKept, Next, NEW r \in Requests, NEW j, j = call'[r], NEW v,
           v = {d \in {"allow", "deny"} :
                  \E q \in Requests \ {r} : /\ call'[q].o = j.o /\ call'[q].acct = j.acct
                                           /\ call'[q].wrote = d}
    PROVE  Keeps(j, grants'[<<j.o, j.acct>>], spent'.edits, v)
<1> DEFINE k == call[r]
           g == Store(call[r])
           e == spent.edits
           w == Others(call[r], r)
<1>0. Keeps(k, g, e, w) /\ Fit(k)
  BY DEF GrantKept, Fits
<1>e. e \in Nat /\ grants \in [Origins \X Accounts -> Decisions]
  BY SInvFacts DEF HostOK, SpentType, TrustOK
<1>g. g = grants[<<k.o, k.acct>>]
  BY DEF Store
<1>1. CASE Unbound(j)
  BY <1>1, KeepsUnpassed DEF Unbound
<1>2. SUFFICES ASSUME ~Unbound(j) PROVE Keeps(j, grants'[<<j.o, j.acct>>], spent'.edits, v)
  BY <1>1
<1>3. j.o = k.o /\ j.acct = k.acct
  BY <1>0, <1>2, AllBecome, BoundStays
<1>4. w \subseteq v
  BY <1>3, OthersGrow
<1> HIDE DEF g, w, e
\* Nothing written and nothing edited.
<1>5. ASSUME UNCHANGED grants, spent'.edits = e, Keeps(j, g, e, w)
      PROVE  Keeps(j, grants'[<<j.o, j.acct>>], spent'.edits, v)
  <2>1. Keeps(j, g, e, v)
    BY <1>4, <1>5, <1>e, KeepsMore
  <2> QED BY <1>3, <1>5, <1>g, <2>1
<1>6. CASE UNCHANGED grants /\ spent'.edits = e
  <2>1. ASSUME NEW q \in Requests, Request(q) \/ Step(q) \/ Reply(q) \/ PortFails(q), ~SaveGrant(q)
        PROVE  Keeps(j, g, e, w)
    <3>1. CASE q = r
      <4>1. PICK i : Own(r, i) /\ (Unbound(i) \/ Keeps(i, g, e, w))
        BY <1>0, <2>1, <3>1, KeepsMoves DEF g, w, e
      <4> QED BY <1>2, <4>1 DEF Own
    <3>2. CASE q # r
      <4>1. \E i : Own(q, i)
        BY <2>1, FitMoves, PortFailsFit DEF Fits
      <4> QED BY <1>0, <3>2, <4>1 DEF Own
    <3> QED BY <3>1, <3>2
  <2>2. CASE Failed
    BY <1>0, <1>2, <1>5, <1>6, <2>2, GoneUnbound DEF Failed
  <2>3. CASE UNCHANGED call
    BY <1>0, <1>5, <1>6, <2>3
  <2>4. CASE \/ \E q \in Requests : Timeout(q)
             \/ \E o \in Origins, i \in Ids : Cancel(o, i)
             \/ \E o \in Origins : Revoke(o)
             \/ Tell
             \/ DisposeSigner
    BY <2>2, <2>4, FailersWay
  <2>5. CASE (\E o \in Origins : CooldownEnds(o)) \/ Switch \/ Lock \/ Unlock \/ Edit
    BY <2>3, <2>5 DEF CooldownEnds, Switch, Lock, Unlock, Edit
  <2>6. ASSUME NEW q \in Requests, SaveGrant(q) PROVE Keeps(j, grants'[<<j.o, j.acct>>], spent'.edits, v)
    <3>1. CASE q # r
      BY <1>0, <1>5, <1>6, <2>6, <3>1, WritesSeen
    <3>2. CASE q = r
      <4>1. PICK i : Own(r, i) /\ (Unbound(i) \/ Keeps(i, Store(call[r])', e, v))
        BY <1>0, <2>6, <3>2, SelfWrites
      <4>2. Store(call[r])' = grants'[<<j.o, j.acct>>]
        BY DEF Store
      <4> QED BY <1>2, <1>6, <4>1, <4>2 DEF Own
    <3> QED BY <3>1, <3>2
  <2> QED BY <1>5, <1>6, <2>1, <2>4, <2>5, <2>6 DEF Next
\* The user edits.
<1>7. CASE Edit
  <2>1. spent'.edits = e + 1 /\ UNCHANGED call
    BY <1>7, SInvFacts DEF Edit, Spend, HostOK, SpentType, e
  <2>2. Keeps(k, grants'[<<j.o, j.acct>>], e + 1, w)
    BY <1>0, <1>e, KeepsEdit
  <2>3. e + 1 \in Nat
    BY <1>e
  <2>4. Keeps(k, grants'[<<j.o, j.acct>>], e + 1, v)
    BY <1>4, <2>2, <2>3, KeepsMore
  <2> QED BY <2>1, <2>4
\* Somebody writes.
<1>8. ASSUME NEW q \in Requests, SaveGrant(q), spent'.edits = e
      PROVE  Keeps(j, grants'[<<j.o, j.acct>>], spent'.edits, v)
  <2>1. CASE q = r
    <3>1. PICK i : Own(r, i) /\ (Unbound(i) \/ Keeps(i, Store(call[r])', e, v))
      BY <1>0, <1>8, <2>1, SelfWrites
    <3>2. Store(call[r])' = grants'[<<j.o, j.acct>>]
      BY DEF Store
    <3> QED BY <1>2, <1>8, <3>1, <3>2 DEF Own
  <2>2. CASE q # r
    <3>0. j = k
      BY <1>8, <2>2, WritesSeen
    <3>1. CASE <<call[q].o, call[q].acct>> = <<k.o, k.acct>>
      <4> DEFINE d == call'[q].wrote
      <4>1. /\ d \in {"allow", "deny"} /\ d \in v
            /\ grants'[<<j.o, j.acct>>] = d
            /\ d = "allow" => call[q].pc = "grantWrite"
        BY <1>3, <1>8, <1>e, <2>2, <3>0, <3>1, WritesSeen
      <4> HIDE DEF d
      <4>2. d = "allow" => g # "deny"
        BY <1>g, <3>1, <4>1 DEF GrantLock
      <4>3. Keeps(k, d, e, w \cup {d})
        BY <1>0, <1>e, <4>1, <4>2, KeepsAllow, KeepsDeny
      <4>4. w \cup {d} \subseteq v
        BY <1>4, <4>1
      <4>5. Keeps(k, d, e, v)
        BY <1>e, <4>3, <4>4, KeepsMore
      <4> QED BY <1>8, <3>0, <4>1, <4>5
    <3>2. CASE <<call[q].o, call[q].acct>> # <<k.o, k.acct>>
      <4> DEFINE x == <<call[q].o, call[q].acct>>
                 y == <<k.o, k.acct>>
      <4>1. CASE ~Passed(k)
        <5>1. Keeps(k, grants'[<<j.o, j.acct>>], e, w)
          BY <1>0, <4>1, KeepsClosed
        <5> HIDE DEF k
        <5>2. Keeps(k, grants'[<<j.o, j.acct>>], e, v)
          BY <1>4, <1>e, <5>1, KeepsMore
        <5> QED BY <1>8, <3>0, <5>2
      <4>2. CASE Passed(k)
        <5>1. y \in Origins \X Accounts
          <6>1. Located(k) /\ k.pc \notin {"idle", "account", "record", "done"}
            BY <4>2, SInvFacts DEF Calls, Passed, Signed
          <6> QED BY <6>1 DEF Located
        <5>2. PICK d : grants' = [grants EXCEPT ![x] = d]
          BY <1>8, WritesSeen
        <5>3. x # y /\ y = <<j.o, j.acct>> /\ g = grants[y]
          BY <1>3, <1>g, <3>2
        <5>4. grants'[y] = grants[y]
          <6> HIDE DEF x, y
          <6> QED BY <1>e, <5>1, <5>2, <5>3
        <5>5. grants'[<<j.o, j.acct>>] = g
          BY <5>3, <5>4
        <5>6. Keeps(k, g, e, v)
          <6> HIDE DEF k
          <6> QED BY <1>0, <1>4, <1>e, KeepsMore
        <5> QED BY <1>8, <3>0, <5>5, <5>6
      <4> QED BY <4>1, <4>2
    <3> QED BY <3>1, <3>2
  <2> QED BY <2>1, <2>2
<1>9. spent'.edits = e \/ Edit
  BY EditsCount DEF e
<1> QED BY <1>6, <1>7, <1>8, <1>9, GrantWrites

LEMMA GrantKeptKept == ASSUME SInv, Fits, GrantLock, GrantKept, [Next]_vars PROVE GrantKept'
<1>1. CASE UNCHANGED vars
  BY <1>1 DEF vars, host, trust, GrantKept, Keeps, IsLogin, Passed, Signed, Fallen, Back, Store, Others
<1>2. CASE Next
  <2>1. ASSUME NEW r \in Requests
        PROVE  Keeps(call[r], Store(call[r]), spent.edits, Others(call[r], r))'
    <3> DEFINE j == call'[r]
               v == {d \in {"allow", "deny"} :
                       \E q \in Requests \ {r} : /\ call'[q].o = j.o /\ call'[q].acct = j.acct
                                                /\ call'[q].wrote = d}
    <3>1. Keeps(j, grants'[<<j.o, j.acct>>], spent'.edits, v)
      BY <1>2, GrantKeptGoesOn
    <3> QED BY <3>1 DEF Keeps, IsLogin, Passed, Signed, Fallen, Back, Store, Others
  <2> QED BY <2>1 DEF GrantKept
<1> QED BY <1>1, <1>2

LEMMA LockGoesOn == ASSUME SInv, Fits, GrantLock, [Next]_vars PROVE GrantLock'
BY LockKept DEF vars, host, trust, GrantLock, Writing

LEMMA GrantKeptStarts == ASSUME Init PROVE GrantKept
<1>1. ASSUME NEW r \in Requests PROVE call[r] = NoCall
  BY <1>1 DEF Init
<1>2. ASSUME NEW k, k = NoCall PROVE IsLogin(k) => ~Passed(k) /\ k.out # "ok"
  BY <1>2 DEF NoCall, Passed, Signed
<1> QED BY <1>1, <1>2, KeepsUnpassed DEF GrantKept

\* Back, in the words of the property.
LEMMA BackMeans == ASSUME SInv, NEW r \in Requests, NEW ds, ds \subseteq {"allow", "deny"},
                          Back(spent.edits, Others(call[r], r), ds)
                   PROVE  ChangedBack(r, ds)
<1>1. spent.edits \in Nat
  BY SInvFacts DEF HostOK, SpentType
<1> QED BY <1>1 DEF Back, Others, ChangedBack, Rewritten

LEMMA CutFollows == ASSUME SInv, Fits, GrantKept PROVE CutOffIsFinal
<1>1. ASSUME NEW r \in Requests, IsLogin(call[r]), call[r].out = "ok"
      PROVE  /\ ~call[r].cut
             /\ call[r].stored = "deny" => ChangedBack(r, {"deny"})
             /\ call[r].consent = "grant" /\ call[r].stored # "allow"
                  => ChangedBack(r, {"allow", "deny"})
  <2> DEFINE k == call[r]
             w == Others(call[r], r)
  <2>1. Fit(k) /\ Keeps(k, Store(k), spent.edits, w) /\ k.cut \in BOOLEAN
    BY SInvFacts DEF Fits, GrantKept, Calls, CallType
  <2>2. k.pc \in {"record", "done"}
    BY <1>1, <2>1 DEF Fit, Shape
  <2>3. k.cut # TRUE
    BY <1>1, <2>1, <2>2 DEF Fit, CutAhead
  <2>4. k.stored = "deny" => Back(spent.edits, w, {"deny"})
    BY <1>1, <2>1 DEF Keeps
  <2>5. k.consent = "grant" /\ k.stored # "allow" => Back(spent.edits, w, {"allow", "deny"})
    BY <1>1, <2>1 DEF Keeps
  <2> QED BY <2>1, <2>3, <2>4, <2>5, BackMeans
<1>2. ASSUME NEW r \in Requests, NEW n \in DOMAIN call[r].results, call[r].results[n] \in Stops
      PROVE  /\ call[r].pc \in {"record", "done"}
             /\ \A j \in DOMAIN call[r].results : j > n => call[r].results[j] = call[r].results[n]
  BY <1>2 DEF Fits, Fit, Stopped
<1> QED BY <1>1, <1>2 DEF CutOffIsFinal

----------------------------------------------------------------------------
(* The queue holds exactly the requests that wait.                         *)

Resting(k) == k.pc \notin {"prompt", "unlockEarly", "unlock", "remote"}

\* A request moves and leaves the queue alone, enters it under a key of its own, or leaves it.
Queued(r, j) ==
    \/ Resting(call[r]) /\ Resting(j) /\ UNCHANGED queue
    \/ /\ Resting(call[r]) /\ ~Resting(j)
       /\ Key(EntryOf(j)) \notin {Key(f) : f \in queue}
       /\ queue' = queue \cup {EntryOf(j)}
    \/ ~Resting(call[r]) /\ Resting(j) /\ queue' = queue \ {EntryOf(call[r])}
Moved(r) == \E j : Own(r, j) /\ Queued(r, j)

LEMMA WaitingRests == ASSUME NEW k PROVE Waiting(k) <=> ~Resting(k)
BY DEF Waiting, Resting, KindAt

\* What is in the queue is what waits; told once, without the primes.
LEMMA QueueGrows ==
    ASSUME WaitersQueued, NEW r \in Requests, NEW j, Own(r, j), Queued(r, j)
    PROVE  WaitersQueued'
<1> DEFINE W == {q \in Requests : Waiting(call[q])}
           V == {q \in Requests : Waiting(call'[q])}
<1>1. /\ queue = {EntryOf(call[q]) : q \in W}
      /\ \A p, q \in W : Key(EntryOf(call[p])) = Key(EntryOf(call[q])) => p = q
  BY DEF WaitersQueued
<1>2. call'[r] = j /\ \A q \in Requests \ {r} : call'[q] = call[q]
  BY DEF Own
<1>3. /\ r \in W <=> ~Resting(call[r])
      /\ r \in V <=> ~Resting(j)
      /\ \A q \in Requests \ {r} : q \in V <=> q \in W
  BY <1>2, WaitingRests
<1> DEFINE E(q) == EntryOf(call[q])
           F(q) == EntryOf(call'[q])
<1>4. /\ F(r) = EntryOf(j)
      /\ \A q \in Requests \ {r} : F(q) = E(q)
  BY <1>2
<1>5. W \subseteq Requests /\ V \subseteq Requests
  OBVIOUS
<1>6. /\ queue = {E(q) : q \in W}
      /\ \A p, q \in W : Key(E(p)) = Key(E(q)) => p = q
  BY <1>1
<1> HIDE DEF W, V, E, F
<1>7. /\ queue' = {F(q) : q \in V}
      /\ \A p, q \in V : Key(F(p)) = Key(F(q)) => p = q
  <2>1. CASE Resting(call[r]) /\ Resting(j) /\ UNCHANGED queue
    BY <1>3, <1>4, <1>5, <1>6, <2>1
  <2>2. CASE /\ Resting(call[r]) /\ ~Resting(j)
             /\ Key(EntryOf(j)) \notin {Key(f) : f \in queue}
             /\ queue' = queue \cup {EntryOf(j)}
    <3>1. queue' = {F(q) : q \in V}
      BY <1>3, <1>4, <1>5, <1>6, <2>2
    <3>2. \A q \in W : Key(E(q)) # Key(F(r))
      BY <1>4, <1>6, <2>2
    <3>3. ASSUME NEW p \in V, NEW q \in V, Key(F(p)) = Key(F(q)) PROVE p = q
      BY <1>3, <1>4, <1>5, <1>6, <2>2, <3>2, <3>3
    <3> QED BY <3>1, <3>3
  <2>3. CASE ~Resting(call[r]) /\ Resting(j) /\ queue' = queue \ {EntryOf(call[r])}
    <3>1. queue' = queue \ {E(r)}
      BY <2>3 DEF E
    <3>2. \A q \in W \ {r} : E(q) # E(r)
      BY <1>3, <1>6, <2>3
    <3>3. V = W \ {r}
      BY <1>3, <1>5, <2>3
    <3>4. queue' = {F(q) : q \in V}
      BY <1>4, <1>5, <1>6, <3>1, <3>2, <3>3
    <3> QED BY <1>4, <1>5, <1>6, <3>3, <3>4
  <2> QED BY <2>1, <2>2, <2>3 DEF Queued
<1> QED BY <1>7 DEF WaitersQueued, V, F, EntryOf, Pending, Waiting, Key

LEMMA QueueFails ==
    ASSUME WaitersQueued, NEW gone, NEW code, Fail(gone, code), \A r \in Requests : call[r] \in CallType
    PROVE  WaitersQueued'
<1> DEFINE W == {q \in Requests : Waiting(call[q])}
           V == {q \in Requests : Waiting(call'[q])}
           E(q) == EntryOf(call[q])
           F(q) == EntryOf(call'[q])
<1>1. /\ queue = {E(q) : q \in W} /\ queue' = queue \ gone
      /\ \A p, q \in W : Key(E(p)) = Key(E(q)) => p = q
  BY DEF WaitersQueued, Fail, Settle
<1>2. ASSUME NEW q \in Requests
      PROVE  IF q \in W /\ E(q) \in gone THEN q \notin V ELSE call'[q] = call[q]
  <2>1. CASE q \in W /\ E(q) \in gone
    <3>1. call'[q] = Out(call[q], code)
      BY <2>1 DEF Fail
    <3>2. call'[q].pc = "record"
      BY <3>1 DEF Out, CallType
    <3> QED BY <2>1, <3>2, WaitingRests DEF Resting
  <2>2. CASE ~(q \in W /\ E(q) \in gone)
    BY <2>2 DEF Fail
  <2> QED BY <2>1, <2>2
<1>3. V = {q \in W : E(q) \notin gone}
  BY <1>2
<1>4. \A q \in V : F(q) = E(q)
  BY <1>2, <1>3
<1> HIDE DEF W, V, E, F
<1>5. /\ queue' = {F(q) : q \in V}
      /\ \A p, q \in V : Key(F(p)) = Key(F(q)) => p = q
  BY <1>1, <1>3, <1>4
<1> QED BY <1>5 DEF WaitersQueued, V, F, EntryOf, Pending, Waiting, Key

\* What a step may do with the queue, one operator at a time.
LEMMA GoMoves == ASSUME Calls, NEW r \in Requests, NEW k, Go(r, k), Resting(call[r]), Resting(k)
                 PROVE  Moved(r)
BY PutOwn DEF Go, Moved, Queued, queueVars

LEMMA OutRests == ASSUME NEW k \in CallType, NEW code PROVE Resting(Out(k, code))
BY DEF CallType, Out, Resting

LEMMA RefuseMoves == ASSUME Calls, NEW r \in Requests, NEW code, Refuse(r, code), Resting(call[r])
                     PROVE  Moved(r)
BY GoMoves, OutRests DEF Refuse, Calls

LEMMA EnterMoves == ASSUME Calls, NEW r \in Requests, NEW k \in CallType, NEW p \in DOMAIN KindAt,
                           Enter(r, k, p), Resting(call[r])
                    PROVE  Moved(r)
<1> DEFINE e == Pending(k, KindAt[p])
           j == [k EXCEPT !.pc = p]
<1>1. CASE Admits(e)
  <2>1. /\ Key(e) \notin {Key(f) : f \in queue} /\ queue' = queue \cup {e}
        /\ Put(r, j)
    BY <1>1 DEF Enter, Admits, Track
  <2>2. j.pc = p /\ EntryOf(j) = e
    BY DEF CallType, EntryOf, Pending
  <2>3. ~Resting(j)
    BY <2>2 DEF Resting, KindAt
  <2>4. Queued(r, j)
    BY <2>1, <2>2, <2>3 DEF Queued
  <2> QED BY <2>1, <2>4, PutOwn DEF Moved
<1>2. CASE ~Admits(e)
  <2>1. Go(r, Out(k, Refusal(e)))
    BY <1>2 DEF Enter
  <2> QED BY <2>1, GoMoves, OutRests
<1> QED BY <1>1, <1>2

LEMMA ResumeMoves == ASSUME Calls, NEW r \in Requests, NEW k, Resume(r, k), ~Resting(call[r]), Resting(k)
                     PROVE  Moved(r)
BY PutOwn DEF Resume, Settle, Moved, Queued

LEMMA PcRests == ASSUME NEW k \in CallType, NEW p, p \notin {"prompt", "unlockEarly", "unlock", "remote"}
                 PROVE  Resting([k EXCEPT !.pc = p])
BY DEF CallType, Resting

LEMMA ToUnlockMoves == ASSUME Calls, NEW r \in Requests, NEW k \in CallType, ToUnlock(r, k),
                              Resting(call[r])
                       PROVE  Moved(r)
<1>1. CASE Enter(r, k, "unlock")
  BY <1>1, EnterMoves DEF KindAt
<1>2. CASE Go(r, [k EXCEPT !.pc = "still"])
  BY <1>2, GoMoves, PcRests
<1> QED BY <1>1, <1>2 DEF ToUnlock

LEMMA AskMoves == ASSUME Calls, NEW r \in Requests, NEW k \in CallType, Ask(r, k), Resting(call[r])
                  PROVE  Moved(r)
<1>1. CASE Enter(r, k, "prompt")
  BY <1>1, EnterMoves DEF KindAt
<1>2. CASE ToUnlock(r, k)
  BY <1>2, ToUnlockMoves
<1> QED BY <1>1, <1>2 DEF Ask

LEMMA OpenedRests == ASSUME NEW k, NEW j, Opened(k, j) PROVE Resting(j)
BY DEF Opened, Goes, Gone, Went, Itemised, Resting

LEMMA ExecuteMoves == ASSUME Calls, NEW r \in Requests, NEW k \in CallType, Execute(r, k),
                             Resting(call[r])
                      PROVE  Moved(r)
<1>1. CASE Go(r, [k EXCEPT !.pc = "answered"])
  BY <1>1, GoMoves, PcRests
<1>2. CASE Enter(r, k, "remote")
  BY <1>2, EnterMoves DEF KindAt
<1>3. CASE Go(r, SignLocally(k))
  BY <1>3, GoMoves, SignLocallyOpens, OpenedRests
<1> QED BY <1>1, <1>2, <1>3 DEF Execute

LEMMA PermittedMoves == ASSUME Calls, NEW r \in Requests, NEW k \in CallType, Permitted(r, k),
                               Resting(call[r])
                        PROVE  Moved(r)
<1>1. CASE Go(r, Out(k, "unsupported"))
  BY <1>1, GoMoves, OutRests
<1>2. CASE \E p \in {"stored", "stillEarly"} : Go(r, [k EXCEPT !.pc = p])
  BY <1>2, GoMoves, PcRests
<1>3. CASE Enter(r, k, "unlockEarly")
  BY <1>3, EnterMoves DEF KindAt
<1>4. CASE Ask(r, k)
  BY <1>4, AskMoves
<1> QED BY <1>1, <1>2, <1>3, <1>4 DEF Permitted

LEMMA RevalidateRests == ASSUME NEW k \in CallType, NEW n PROVE Resting(Revalidate(k, n))
BY OutRests DEF Revalidate, CallType, Resting

\* Each step that is nothing but a Go, by where it is known to lead.
LEMMA PlainMoves ==
    ASSUME SInv, NEW r \in Requests,
           \/ Request(r) \/ Account(r) \/ StillEarly(r) \/ RecheckRule(r) \/ RecheckWanted(r)
           \/ SaveGrantCheck(r) \/ Sign(r) \/ Gap(r) \/ Yield(r) \/ Answered(r) \/ Record(r)
    PROVE  Moved(r)
<1>0. Calls /\ call[r] \in CallType
  BY SInvFacts DEF Calls
<1>1. Resting(call[r]) /\ \E k : Go(r, k)
  BY DEF Request, Account, StillEarly, RecheckRule, RecheckWanted, SaveGrantCheck, Sign, Gap,
         Yield, Answered, Record, Refuse, Resting
<1>2. PICK k : Go(r, k)
  BY <1>1
<1>3. SUFFICES Resting(k)
  BY <1>0, <1>1, <1>2, GoMoves
<1>4. call'[r] = k
  BY <1>0, <1>2 DEF Go, Put, Calls
<1>5. ASSUME NEW j, Own(r, j), \/ Fresh(j) \/ Gone(call[r], j) \/ Aimed(call[r], j)
                               \/ Opened(call[r], j)
                               \/ \E p \in {"build", "wanted", "regrant", "denyWrite", "grantWrite"} :
                                    Goes(call[r], j, {p}) \/ Went(call[r], j, p)
      PROVE  Resting(k)
  <2>1. j = k
    BY <1>4, <1>5 DEF Own
  <2>2. Resting(j)
    BY <1>5, OpenedRests DEF Fresh, Gone, Aimed, Goes, Went, Resting
  <2> QED BY <2>1, <2>2
<1>6. CASE Request(r)
  BY <1>5, <1>6, RequestWay
<1>7. CASE Account(r)
  BY <1>5, <1>7, AccountWay
<1>8. CASE StillEarly(r)
  BY <1>5, <1>8, StillEarlyWay
<1>9. CASE RecheckRule(r)
  BY <1>5, <1>9, RecheckRuleWay
<1>10. CASE RecheckWanted(r)
  BY <1>5, <1>10, RecheckWantedWay
<1>11. CASE SaveGrantCheck(r)
  BY <1>5, <1>11, SaveGrantCheckWay
<1>12. CASE Sign(r)
  <2>1. PICK h, j : Own(r, j) /\ (Goes(h, j, {"answered"}) \/ Itemised(h, j))
    BY <1>12, SignWay
  <2>2. Resting(j) /\ j = k
    BY <1>4, <2>1 DEF Own, Goes, Gone, Went, Itemised, Resting
  <2> QED BY <2>2
<1>13. CASE Gap(r)
  <2>1. call'[r].pc \in {"yield", "record"}
    BY <1>0, <1>13 DEF Gap, Go, Put, Calls, CallType, Out
  <2> QED BY <1>4, <2>1 DEF Resting
<1>14. CASE Yield(r)
  <2>1. k = SignLocally(call[r])
    BY <1>0, <1>4, <1>14 DEF Yield, Go, Put, Calls
  <2> QED BY <1>0, <2>1, SignLocallyOpens, OpenedRests
<1>15. CASE Answered(r)
  <2>1. Resting(Revalidate(call[r], 2)) /\ \A c : Resting(Out(call[r], c))
    BY <1>0, RevalidateRests, OutRests
  <2>2. \/ k = Revalidate(call[r], 2)
        \/ \E c : k = Out(call[r], c)
    BY <1>0, <1>4, <1>15 DEF Answered, Refuse, Go, Put, Calls
  <2> QED BY <2>1, <2>2
<1>16. CASE Record(r)
  <2>1. call'[r].pc = "done"
    BY <1>0, <1>16 DEF Record, Go, Put, Calls, NoCall
  <2> QED BY <1>4, <2>1 DEF Resting
<1> QED BY <1>6, <1>7, <1>8, <1>9, <1>10, <1>11, <1>12, <1>13, <1>14, <1>15, <1>16

\* The steps that may enter the queue.
LEMMA EnteringMoves ==
    ASSUME SInv, NEW r \in Requests,
           Check(r) \/ Stored(r) \/ Build(r) \/ Approved(r) \/ Save(r) \/ Still(r)
             \/ RecheckGrant(r) \/ SaveGrant(r)
    PROVE  Moved(r)
<1>0. Calls /\ call[r] \in CallType /\ serial \in Nat
  BY SInvFacts DEF Calls
<1>1. Resting(call[r])
  BY DEF Check, Stored, Build, Approved, Save, Still, RecheckGrant, SaveGrant, Resting
<1>2. ASSUME NEW k, k \in CallType,
             \/ Go(r, k) /\ Resting(k)
             \/ \E c : Go(r, Out(k, c))
             \/ Permitted(r, k) \/ Ask(r, k) \/ ToUnlock(r, k) \/ Execute(r, k)
             \/ Go(r, Revalidate(k, 1))
      PROVE  Moved(r)
  <2>1. \A c : Resting(Out(k, c))
    BY <1>2, OutRests
  <2>2. Resting(Revalidate(k, 1))
    BY <1>2, RevalidateRests
  <2> QED BY <1>0, <1>1, <1>2, <2>1, <2>2, GoMoves, PermittedMoves, AskMoves, ToUnlockMoves,
             ExecuteMoves
<1>3. ASSUME NEW code, Refuse(r, code) PROVE Moved(r)
  BY <1>0, <1>1, <1>3, RefuseMoves
<1>4. CASE Check(r)
  <2>1. PICK rule \in call[r].todo :
          LET k == [call[r] EXCEPT !.todo = @ \ {rule},
                                   !.asked = IF rules[<<call[r].o, call[r].acct, rule>>] = "ask"
                                             THEN @ \cup {rule} ELSE @]
          IN  Refuse(r, "permission_denied") \/ Go(r, k) \/ Permitted(r, k)
    BY <1>4 DEF Check
  <2> DEFINE k == [call[r] EXCEPT !.todo = @ \ {rule},
                                  !.asked = IF rules[<<call[r].o, call[r].acct, rule>>] = "ask"
                                            THEN @ \cup {rule} ELSE @]
  <2>2. k \in CallType /\ k.pc = "check"
    <3>1. rule \in Rules
      BY <1>0 DEF CallType
    <3> QED BY <1>0, <1>4, <3>1 DEF CallType, Check
  <2>3. Refuse(r, "permission_denied") \/ Go(r, k) \/ Permitted(r, k)
    BY <2>1
  <2>4. Resting(k)
    BY <2>2 DEF Resting
  <2> HIDE DEF k
  <2> QED BY <1>2, <1>3, <2>2, <2>3, <2>4
<1>5. CASE Stored(r)
  <2>1. PICK c \in {"self", "grant", "none"} :
          Refuse(r, "permission_denied") \/ Ask(r, [call[r] EXCEPT !.consent = c])
    BY <1>5 DEF Stored
  <2>2. [call[r] EXCEPT !.consent = c] \in CallType
    BY <1>0 DEF CallType
  <2> QED BY <1>2, <1>3, <2>1, <2>2
<1>6. CASE Build(r)
  BY <1>0, <1>2, <1>3, <1>6 DEF Build
<1>7. CASE Approved(r)
  <2>1. \/ Refuse(r, "account_switched") \/ ToUnlock(r, call[r])
        \/ Go(r, [call[r] EXCEPT !.pc = "save"])
    BY <1>7 DEF Approved
  <2>2. [call[r] EXCEPT !.pc = "save"] \in CallType /\ Resting([call[r] EXCEPT !.pc = "save"])
    BY <1>0 DEF CallType, Resting, Pcs
  <2> QED BY <1>0, <1>2, <1>3, <2>1, <2>2
<1>8. CASE Save(r)
  <2>1. PICK rule \in call[r].todo :
          LET k == [call[r] EXCEPT !.todo = @ \ {rule}]
          IN  Go(r, k) \/ Go(r, Out(k, "rejected")) \/ ToUnlock(r, k)
    BY <1>8 DEF Save
  <2> DEFINE k == [call[r] EXCEPT !.todo = @ \ {rule}]
  <2>2. k \in CallType /\ k.pc = "save"
    BY <1>0, <1>8 DEF CallType, Save
  <2>3. Go(r, k) \/ Go(r, Out(k, "rejected")) \/ ToUnlock(r, k)
    BY <2>1
  <2>4. Resting(k)
    BY <2>2 DEF Resting
  <2> HIDE DEF k
  <2> QED BY <1>2, <2>2, <2>3, <2>4
<1>9. CASE Still(r)
  <2> DEFINE s == IF call[r].m = "batch" THEN serial ELSE call[r].since
             k == [call[r] EXCEPT !.since = s]
  <2>1. k = [call[r] EXCEPT !.since = IF call[r].m = "batch" THEN serial ELSE @]
    BY <1>0 DEF CallType
  <2>2. Refuse(r, "account_switched") \/ Go(r, Revalidate(k, 1)) \/ Execute(r, k)
    BY <1>9, <2>1 DEF Still
  <2>3. s \in Nat
    BY <1>0 DEF CallType
  <2>4. k \in CallType
    <3> HIDE DEF s
    <3> QED BY <1>0, <2>3 DEF CallType
  <2> HIDE DEF k
  <2> QED BY <1>2, <1>3, <2>2, <2>4
<1>10. CASE RecheckGrant(r)
  <2>1. \/ Refuse(r, "permission_denied") \/ Go(r, Out(call[r], "ok")) \/ Execute(r, call[r])
        \/ Go(r, [call[r] EXCEPT !.pc = "grantCheck"])
    BY <1>10 DEF RecheckGrant
  <2>2. [call[r] EXCEPT !.pc = "grantCheck"] \in CallType
        /\ Resting([call[r] EXCEPT !.pc = "grantCheck"])
    BY <1>0 DEF CallType, Resting, Pcs
  <2> QED BY <1>0, <1>2, <1>3, <2>1, <2>2
<1>11. CASE SaveGrant(r)
  <2>1. PICK d \in {"allow", "deny"} :
          LET k == [call[r] EXCEPT !.wrote = d]
          IN  Execute(r, k) \/ Go(r, Out(k, "rejected"))
    BY <1>11 DEF SaveGrant
  <2>2. [call[r] EXCEPT !.wrote = d] \in CallType
    BY <1>0 DEF CallType, Decisions
  <2> QED BY <1>2, <2>1, <2>2
<1> QED BY <1>4, <1>5, <1>6, <1>7, <1>8, <1>9, <1>10, <1>11

\* The steps that leave it.
LEMMA LeavingMoves == ASSUME SInv, NEW r \in Requests, Reply(r) PROVE Moved(r)
<1>0. Calls /\ call[r] \in CallType /\ ~Resting(call[r])
  BY SInvFacts DEF Calls, Reply, Answer, Unlocked, RemoteAnswer, Resting
<1>1. PICK k : Resume(r, k)
  BY DEF Reply, Answer, Unlocked, RemoteAnswer
<1>2. call'[r] = k
  BY <1>0, <1>1 DEF Resume, Put, Calls
<1>3. ASSUME NEW j, Own(r, j), Resting(j) PROVE Moved(r)
  BY <1>0, <1>1, <1>2, <1>3, ResumeMoves DEF Own
<1>4. CASE Answer(r)
  <2>1. PICK j : Own(r, j) /\ (Gone(call[r], j) \/ Replied(call[r], j))
    BY <1>4, AnswerWay
  <2>2. Resting(j)
    BY <2>1 DEF Gone, Replied, Resting
  <2> QED BY <1>3, <2>1, <2>2
<1>5. CASE Unlocked(r)
  <2>1. PICK j : /\ Own(r, j)
                 /\ Goes(call[r], j, {"still"}) \/ Goes(call[r], j, {"stillEarly"})
    BY <1>5, UnlockedWay
  <2>2. Resting(j)
    BY <2>1 DEF Goes, Gone, Went, Resting
  <2> QED BY <1>3, <2>1, <2>2
<1>6. CASE RemoteAnswer(r)
  <2>1. PICK h, j : Own(r, j) /\ Went(h, j, "answered")
    BY <1>6, RemoteAnswerWay
  <2>2. Resting(j)
    BY <2>1 DEF Went, Resting
  <2> QED BY <1>3, <2>1, <2>2
<1> QED BY <1>4, <1>5, <1>6 DEF Reply

LEMMA PortFailsMoves == ASSUME SInv, NEW r \in Requests, PortFails(r) PROVE Moved(r)
<1>0. Calls /\ call[r] \in CallType
  BY SInvFacts DEF Calls
<1>1. PICK j : /\ Own(r, j)
               /\ Gone(call[r], j) \/ (call[r].pc = "sign" /\ Itemised(call[r], j))
  BY PortFailsWay
<1>2. Resting(j)
  BY <1>1 DEF Gone, Itemised, Resting
<1>3. CASE Waiting(call[r])
  <2>1. Resume(r, Out(call[r], "failed")) /\ ~Resting(call[r])
    BY <1>3, WaitingRests DEF PortFails
  <2> QED BY <1>0, <2>1, ResumeMoves, OutRests
<1>4. CASE ~Waiting(call[r])
  <2>1. UNCHANGED queue /\ Resting(call[r])
    BY <1>4, WaitingRests DEF PortFails, Go, queueVars
  <2> QED BY <1>1, <1>2, <2>1 DEF Moved, Queued
<1> QED BY <1>3, <1>4

LEMMA MovedKeeps == ASSUME WaitersQueued, NEW r \in Requests, Moved(r) PROVE WaitersQueued'
BY QueueGrows DEF Moved

LEMMA WaitersKept == ASSUME SInv, WaitersQueued, [Next]_vars PROVE WaitersQueued'
<1>0. \A r \in Requests : call[r] \in CallType
  BY SInvFacts DEF Calls
<1>1. ASSUME UNCHANGED <<queue, call>> PROVE WaitersQueued'
  BY <1>1 DEF WaitersQueued, EntryOf, Pending, Waiting, Key
<1>2. ASSUME NEW r \in Requests, Request(r) \/ Step(r) \/ Reply(r) \/ PortFails(r)
      PROVE  WaitersQueued'
  BY <1>2, PlainMoves, EnteringMoves, LeavingMoves, PortFailsMoves, MovedKeeps DEF Step
<1>3. ASSUME NEW gone, NEW code, Fail(gone, code) PROVE WaitersQueued'
  BY <1>0, <1>3, QueueFails
<1>4. CASE DisposeSigner
  <2>1. ASSUME NEW r \in Requests PROVE ~Waiting(call'[r])
    <3>1. call'[r] = IF Waiting(call[r]) THEN Out(call[r], "shutdown") ELSE call[r]
      BY <1>4 DEF DisposeSigner
    <3> QED BY <1>0, <3>1, OutRests, WaitingRests
  <2>2. queue' = {}
    BY <1>4 DEF DisposeSigner, Dispose
  <2> QED BY <2>1, <2>2 DEF WaitersQueued, Waiting
<1>5. CASE (\E r \in Requests : Timeout(r)) \/ (\E o \in Origins, i \in Ids : Cancel(o, i)) \/ Tell
             \/ (\E o \in Origins : Revoke(o))
  BY <1>3, <1>5 DEF Timeout, Cancel, Tell, Revoke
<1>6. CASE (\E o \in Origins : CooldownEnds(o)) \/ Switch \/ Lock \/ Unlock \/ Edit \/ UNCHANGED vars
  BY <1>1, <1>6 DEF CooldownEnds, Switch, Lock, Unlock, Edit, vars, queueVars
<1> QED BY <1>2, <1>4, <1>5, <1>6 DEF Next

LEMMA WaitersStart == ASSUME Init PROVE WaitersQueued
<1>1. ASSUME NEW r \in Requests PROVE ~Waiting(call[r])
  BY <1>1, WaitingRests DEF Init, NoCall, Resting
<1> QED BY <1>1 DEF Init, QueueInit, WaitersQueued

----------------------------------------------------------------------------
(* The theorems.                                                           *)

\* What is said above about requests, rules and grants, together.
Consent == SInv /\ Fits /\ Told /\ RulesRead /\ GrantLock /\ GrantKept /\ WaitersQueued

\* core.ts: every request fits its await, remembers what the user was asked and said, and has
\* read in the two stores no more than what stands there or was changed by somebody since.
THEOREM ConsentInvariant == Spec => []Consent
<1>1. Init => Consent
  <2> SUFFICES ASSUME Init PROVE Consent
    OBVIOUS
  <2> QED BY SignerStarts, FitsStart, ToldStarts, RulesReadStart, LockStarts, GrantKeptStarts,
             WaitersStart DEF Consent
<1>2. Consent /\ [Next]_vars => Consent'
  <2> SUFFICES ASSUME Consent, [Next]_vars PROVE Consent'
    OBVIOUS
  <2>1. SInv'
    BY SignerStep DEF Consent
  <2>2. Fits' /\ Told' /\ RulesRead' /\ GrantLock' /\ GrantKept' /\ WaitersQueued'
    BY <2>1, FitsKept, ToldKept, RulesReadKept, LockGoesOn, GrantKeptKept, WaitersKept DEF Consent
  <2> QED BY <2>1, <2>2 DEF Consent
<1> QED BY <1>1, <1>2, PTL DEF Spec

\* core.ts over queue.ts: the pending map holds the requests that wait and no others, one
\* entry each; whoever is answered, timed out, cancelled, revoked or failed takes out its own.
THEOREM SignerWaitersQueued == Spec => []WaitersQueued
<1>1. Consent => WaitersQueued
  BY DEF Consent
<1> QED BY <1>1, ConsentInvariant, PTL

\* #needsPrompt and assertStillActive: an account's public key goes only to a caller the user
\* has shown it to, and nothing is answered for an account the user has left for good.
THEOREM SignerAccountIsMeant == Spec => []AccountIsMeant
<1>1. Consent => AccountIsMeant
  BY MeantFollows DEF Consent, AnsweredRightly
<1> QED BY <1>1, ConsentInvariant, PTL

\* sign(), signBatch() and attest(): without edits, a local key is used for what the user said
\* yes to, and for what every rule allowed.
THEOREM SignerKeyUsedWithConsent == Spec => []KeyUsedWithConsent
<1>1. Consent => KeyUsedWithConsent
  BY ConsentFollows DEF Consent
<1> QED BY <1>1, ConsentInvariant, PTL

\* revalidateAuthentication and #runBatch: what a revocation, a refusal or a switch cut off
\* stays cut off, however the awaits of other logins fall between its own.
THEOREM SignerCutOffIsFinal == Spec => []CutOffIsFinal
<1>1. Consent => CutOffIsFinal
  BY CutFollows DEF Consent
<1> QED BY <1>1, ConsentInvariant, PTL

\* grants.save: no login overwrites a refusal, whatever was approved before it was stored.
THEOREM SignerRefusalStands == Spec => RefusalStands
<1>1. Consent /\ [Next]_vars =>
        [\A o \in Origins, a \in Accounts :
           grants[<<o, a>>] = "deny" /\ spent'.edits = spent.edits => grants'[<<o, a>>] = "deny"]_vars
  BY RefusalsStand DEF Consent
<1> QED BY <1>1, ConsentInvariant, PTL DEF Spec, RefusalStands
=============================================================================
