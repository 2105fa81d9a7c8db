--------------------------- MODULE ApprovalQueue ---------------------------
(***************************************************************************)
(* The pending map of packages/identity/src/signing/queue.ts: what waits,  *)
(* on whom, and when it stops waiting.  An entry is created by track(),    *)
(* which refuses before the work starts, and goes when its work settles or *)
(* when something from outside ends it: the timer, the user closing the    *)
(* prompt, an account switch, a revocation, the disposal of the signer.    *)
(* The first of these wins; whatever comes later finds no entry.           *)
(***************************************************************************)
EXTENDS Naturals, FiniteSets

CONSTANTS
    Origins,        \* permission keys of the callers
    Ids,            \* request ids, chosen by the callers
    Accounts,       \* account ids
    MaxPending,     \* MAX_PENDING_PER_ORIGIN: open prompts of one origin
    MaxOrigin,      \* MAX_IN_FLIGHT_PER_ORIGIN: entries of one origin
    MaxGlobal       \* MAX_IN_FLIGHT_GLOBAL: entries in all

ASSUME QueueAssumption == MaxPending \in Nat /\ MaxOrigin \in Nat /\ MaxGlobal \in Nat

VARIABLES queue, disposed
queueVars == <<queue, disposed>>

Kinds == {"approval", "unlock", "remote"}
Entry == [origin : Origins, id : Ids, kind : Kinds, acct : Accounts]

\* The map's key: ids are only unique within an origin, and within a kind.
Key(e) == <<e.origin, e.kind, e.id>>

Of(o) == {e \in queue : e.origin = o}
Prompts(o) == {e \in Of(o) : e.kind = "approval"}

\* What track() lets in.
Admits(e) ==
    /\ ~disposed
    /\ Key(e) \notin {Key(f) : f \in queue}
    /\ e.kind = "approval" => Cardinality(Prompts(e.origin)) < MaxPending
    /\ Cardinality(queue) < MaxGlobal
    /\ Cardinality(Of(e.origin)) < MaxOrigin

\* The code track() rejects with.
Refusal(e) == IF disposed THEN "shutdown"
              ELSE IF Key(e) \in {Key(f) : f \in queue} THEN "invalid_request"
              ELSE "too_many_pending"

Track(e) == Admits(e) /\ queue' = queue \cup {e} /\ UNCHANGED disposed

\* settle(): the work finished, or the entry was failed from outside.
Settle(gone) == queue' = queue \ gone /\ UNCHANGED disposed

Matching(o, i) == {e \in queue : e.origin = o /\ e.id = i}
OnAccount(a)   == {e \in queue : e.acct = a}

\* dispose(): everything is rejected and track() admits nothing again.
Dispose == disposed' = TRUE /\ queue' = {}

----------------------------------------------------------------------------
\* The queue on its own, whoever uses it.
QueueInit == queue = {} /\ disposed = FALSE

QueueNext == \/ \E e \in Entry : Track(e) \/ (e \in queue /\ Settle({e}))
             \/ \E o \in Origins : Settle(Of(o)) \/ \E i \in Ids : Settle(Matching(o, i))
             \/ \E a \in Accounts : Settle(OnAccount(a))
             \/ Dispose

QueueSpec == QueueInit /\ [][QueueNext]_queueVars

\* Entries, and no more of them than the three caps allow.
QueueTypeOK == queue \subseteq Entry /\ disposed \in BOOLEAN

\* No caller holds more prompts or entries than its caps, nor all callers together,
\* whatever the order in which entries come and go.
Capped == /\ Cardinality(queue) <= MaxGlobal
          /\ \A o \in Origins : /\ Cardinality(Of(o)) <= MaxOrigin
                                /\ Cardinality(Prompts(o)) <= MaxPending

\* One entry per origin, kind and id: a second request under an id that is pending can
\* neither replace the first nor be settled in its place.
OneEntryPerKey == \A e, f \in queue : Key(e) = Key(f) => e = f

\* A disposed signer has nothing pending and never will again.
DisposedEmpty == disposed => queue = {}
=============================================================================
