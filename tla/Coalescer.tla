------------------------------ MODULE Coalescer -------------------------------
(***************************************************************************)
(* The request coalescer of the data package (coalescer.ts): consumers     *)
(* that ask the same relays within one debounce window share the pool      *)
(* subscriptions of one batch, which lives until its last consumer closes  *)
(* or its ceiling passes.  A consumer is a live stream or a one-shot       *)
(* query; the pool reports the end of stored events once per relay and per *)
(* subscription; a consumer's filter is a subscription of its own.         *)
(***************************************************************************)
EXTENDS Naturals, Sequences, SequencesExt, FiniteSets

CONSTANTS Consumers, Events, Scenes, None

VARIABLES handle,   \* consumer -> its handle: where it is, and what its callbacks have heard
          pending,  \* relay set -> the handles that wait for the window, in order
          batch,    \* the batches fired so far: [relays, subs, entries, closed, seen, eosed]
          timer,    \* the debounce timer is armed
          spent
vars == <<handle, pending, batch, timer, spent>>

Scene     == Scenes[spent.scene]
Relays(h) == Scene.relays[h]
IsQuery(h) == Scene.kind[h] = "query"
Co == [handle |-> handle, pending |-> pending, batch |-> batch, timer |-> timer]
Goes(c) == handle' = c.handle /\ pending' = c.pending /\ batch' = c.batch /\ timer' = c.timer

-----------------------------------------------------------------------------
(* Handles.                                                                *)

\* enqueue(): into the group of its relay set; the first arms the timer.
Enqueued(c, h) ==
    [c EXCEPT !.handle[h] = [at |-> "pending", batch |-> 0, got |-> {}, eosed |-> {}, settled |-> "no", over |-> FALSE],
              !.pending[Relays(h)] = Append(@, h), !.timer = TRUE]
\* closeEntry(): out of its group, which goes with its last handle; out of its batch, likewise.
LeftGroup(c, h) ==
    LET g == Remove(c.pending[Relays(h)], h)
        p == [c.pending EXCEPT ![Relays(h)] = g]
    IN  [c EXCEPT !.pending = p, !.timer = @ /\ (g # <<>> \/ \E k \in DOMAIN p : p[k] # <<>>)]
LeftBatch(c, h) ==
    LET b == c.handle[h].batch   left == Remove(c.batch[b].entries, h)
    IN  IF c.batch[b].closed THEN c ELSE [c EXCEPT !.batch[b].entries = left, !.batch[b].closed = (left = <<>>)]
CloseEntry(c, h) ==
    LET left == CASE c.handle[h].at = "pending" -> LeftGroup(c, h)
                  [] c.handle[h].at = "active"  -> LeftBatch(c, h)
                  [] OTHER -> c
    IN  [left EXCEPT !.handle[h].at = "closed", !.handle[h].over = TRUE]
\* querySync's finish().
Finish(c, h, why) == IF c.handle[h].settled # "no" THEN c ELSE CloseEntry([c EXCEPT !.handle[h].settled = why], h)

\* What a consumer's callbacks do.  A stream may close itself at its first event.
OnEvent(c, h, e) ==
    LET heard == [c EXCEPT !.handle[h].got = @ \cup {e}]
    IN  IF ~IsQuery(h) /\ Scene.once[h] THEN CloseEntry(heard, h) ELSE heard
OnEose(c, h, u) ==
    LET heard == [c EXCEPT !.handle[h].eosed = @ \cup {u}]
    IN  IF ~IsQuery(h) THEN c
        ELSE IF Cardinality(heard.handle[h].eosed) >= Cardinality(Relays(h)) THEN Finish(heard, h, "eose") ELSE heard
Hears(c, h, said) == IF said.event # None THEN OnEvent(c, h, said.event) ELSE OnEose(c, h, said.eose)
\* The loop over a batch's live entries: one that leaves pulls the next under the index just done.
FanOut(c, b, said) ==
    LET f[i \in 1 .. Cardinality(Consumers) + 1] ==
            IF i = 1 THEN c
            ELSE IF i - 1 > Len(f[i - 1].batch[b].entries) THEN f[i - 1]
            ELSE Hears(f[i - 1], f[i - 1].batch[b].entries[i - 1], said)
    IN  f[Cardinality(Consumers) + 1]

-----------------------------------------------------------------------------
(* Steps.                                                                  *)

Enqueue(h) == handle[h].at = "idle" /\ Goes(Enqueued(Co, h)) /\ UNCHANGED spent
Teardown(h) == /\ ~IsQuery(h) /\ handle[h].at # "idle" /\ ~handle[h].over /\ UNCHANGED spent
               /\ Goes(CloseEntry(Co, h))
QueryTimesOut(h) == IsQuery(h) /\ handle[h].at # "idle" /\ handle[h].settled = "no" /\ Goes(Finish(Co, h, "timeout")) /\ UNCHANGED spent

\* fire(): one pool subscription per filter of each consumer of the group.
Fired(c, g) ==
    LET hs == pending[g]   n == Len(c.batch) + 1
    IN  IF hs = <<>> THEN c
        ELSE [c EXCEPT !.batch = Append(@, [relays |-> g, subs |-> UNION {{<<h, f>> : f \in Scene.asks[h]} : h \in ToSet(hs)},
                                            entries |-> hs, closed |-> FALSE, seen |-> {}, eosed |-> {}]),
                       !.handle = [h \in Consumers |-> IF Contains(hs, h) THEN [@[h] EXCEPT !.at = "active", !.batch = n] ELSE @[h]]]
Flush == LET quiet == [Co EXCEPT !.pending = [g \in DOMAIN pending |-> <<>>], !.timer = FALSE]
         IN  timer /\ Goes(FoldSet(LAMBDA g, c : Fired(c, g), quiet, DOMAIN pending)) /\ UNCHANGED spent
EventComes(b, e) ==
    /\ ~batch[b].closed /\ e \notin batch[b].seen /\ UNCHANGED spent
    /\ Goes(FanOut([Co EXCEPT !.batch[b].seen = @ \cup {e}], b, [event |-> e, eose |-> None]))
\* A pool's oneose: of each relay in turn with its URL, or once, of all and without one (pool-like.ts:72).
EoseComes(b, s, u) ==
    /\ ~batch[b].closed /\ <<s, u>> \notin batch[b].eosed /\ UNCHANGED spent
    /\ \A told \in batch[b].eosed : (told[2] = None) = (u = None)
    /\ Goes(FanOut([Co EXCEPT !.batch[b].eosed = @ \cup {<<s, u>>}], b, [event |-> None, eose |-> u]))
\* The batch's ceiling: its handles are let go of without a word.
Ceiling(b) ==
    /\ ~batch[b].closed /\ batch' = [batch EXCEPT ![b].closed = TRUE]
    /\ handle' = [h \in Consumers |-> IF Contains(batch[b].entries, h) THEN [handle[h] EXCEPT !.at = "let go"] ELSE handle[h]]
    /\ UNCHANGED <<pending, timer, spent>>

InitOf(n) ==
    /\ spent = [scene |-> n] /\ batch = <<>> /\ timer = FALSE
    /\ pending = [g \in {Scenes[n].relays[h] : h \in Consumers} |-> <<>>]
    /\ handle = [h \in Consumers |-> [at |-> "idle"]]
Init == \E n \in DOMAIN Scenes : InitOf(n)
Next == \/ \E h \in Consumers : Enqueue(h) \/ Teardown(h) \/ QueryTimesOut(h)
        \/ Flush
        \/ \E b \in DOMAIN batch : \/ \E e \in Events : EventComes(b, e)
                                   \/ \E s \in batch[b].subs, u \in batch[b].relays \cup {None} : EoseComes(b, s, u)
                                   \/ Ceiling(b)
Spec == Init /\ [][Next]_vars

-----------------------------------------------------------------------------
(* Properties.                                                             *)

\* A handle its consumer has not closed is in the one group or batch it belongs to, or was let
\* go of by a ceiling; nothing is kept open for a consumer that is done; the timer runs exactly
\* while something waits for it (coalescer.ts closeEntry, fire, flush).
NothingStranded ==
    /\ timer <=> \E g \in DOMAIN pending : pending[g] # <<>>
    /\ \A h \in Consumers :
         /\ handle[h].at = "pending" <=> \E g \in DOMAIN pending : Contains(pending[g], h)
         /\ handle[h].at = "active" <=> \E b \in DOMAIN batch : ~batch[b].closed /\ Contains(batch[b].entries, h)
         /\ handle[h].at # "idle" => (handle[h].settled # "no" => handle[h].at = "closed")
    /\ \A b \in DOMAIN batch : ~batch[b].closed => IsInjective(batch[b].entries) /\ batch[b].entries # <<>>
=============================================================================
