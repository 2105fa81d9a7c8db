------------------------------- MODULE WotOracle -------------------------------
(***************************************************************************)
(* Distances from an oracle (packages/wot/src/wot.ts) and the hooks that   *)
(* show them (react/hooks.ts): a question is clamped to what the oracle    *)
(* answers and split into its batches, each of which may fail; a hook      *)
(* whose account changes asks again while older answers are still to come. *)
(* The oracle and the rendering of components are external.                *)
(***************************************************************************)
EXTENDS Naturals, FiniteSets, Sequences, SequencesExt, FiniteSetsExt

CONSTANTS Accounts, OracleMaxHops, OracleMaxTargets, Scenes, None
VARIABLES props,   \* what the component gives its hook: [targets, skip, max]
          shown,   \* what the hook shows: [loading, error, of, dist, max]
          latest,  \* the number of its latest question (fetchIdRef)
          asked,   \* the questions under way: [id, targets, max, left, got, ran]
          ran, spent
vars == <<props, shown, latest, asked, ran, spent>>

Scene == Scenes[spent.scene]
ClampMaxHops(h) == IF h < 1 THEN 1 ELSE IF h > OracleMaxHops THEN OracleMaxHops ELSE h
\* What the oracle says of an account, as far as it was asked to look.
Says(p, h) == IF Scene.dist[p] # None /\ Scene.dist[p] <= ClampMaxHops(h) THEN Scene.dist[p] ELSE None
InWoT(d, h) == d # None /\ d <= h
Chunk(ts) == LET s == SetToSeq(ts)
                 n == (Len(s) + OracleMaxTargets - 1) \div OracleMaxTargets
             IN  [i \in 1..n |-> Range(SubSeq(s, (i - 1) * OracleMaxTargets + 1, Min({Len(s), i * OracleMaxTargets})))]
\* What a hook asks for: the distance and its details, the distance, or the batches.
Legs(ts) == CASE Scene.hook = "details" -> <<ts, ts>> [] Scene.hook = "isIn" -> <<ts>> [] Scene.hook = "batch" -> Chunk(ts)

Enabled == props.targets # {} /\ ~props.skip
FetchData ==
    IF ~Enabled THEN shown' = [shown EXCEPT !.loading = FALSE] /\ UNCHANGED <<latest, asked>>
    ELSE /\ latest' = latest + 1 /\ shown' = [shown EXCEPT !.loading = TRUE, !.error = FALSE]
         /\ asked' = asked \cup {[id |-> latest + 1, targets |-> props.targets, max |-> props.max, left |-> Legs(props.targets),
                                  got |-> [p \in props.targets |-> "none"]]}
Render(ts, skip, h) ==
    /\ ran /\ spent.renders > 0 /\ spent' = [spent EXCEPT !.renders = @ - 1]
    /\ props' = [targets |-> ts, skip |-> skip, max |-> h] /\ props' # props /\ ran' = FALSE
    /\ UNCHANGED <<shown, latest, asked>>
\* The effect runs after a render with other properties, unless the hook is skipped; a refetch runs in any case.
Effect == /\ ~ran /\ ran' = TRUE /\ UNCHANGED <<props, spent>>
          /\ IF props.skip THEN UNCHANGED <<shown, latest, asked>> ELSE FetchData
Refetch == /\ ran /\ spent.refetches > 0 /\ spent' = [spent EXCEPT !.refetches = @ - 1] /\ FetchData /\ UNCHANGED <<props, ran>>

Latest(q, s) == shown' = IF q.id = latest THEN s ELSE shown
Told(q) == Latest(q, [loading |-> FALSE, error |-> FALSE, of |-> q.targets, dist |-> q.got, max |-> q.max])
Failed(q) == Latest(q, [shown EXCEPT !.loading = FALSE, !.error = TRUE])
Next1(q, got) == [q EXCEPT !.left = Tail(@), !.got = got]
\* apiRequest(): an answer; a server or network error; a time-out, a route that is not there, or
\* an answer out of range.  Only a batch takes a network error for "no distance".
Answers(q) ==
    /\ LET got == [p \in q.targets |-> IF p \in Head(q.left) THEN Says(p, q.max) ELSE q.got[p]]
           done == Next1(q, got)
       IN  IF Tail(q.left) = <<>> THEN asked' = asked \ {q} /\ Told(done)
           ELSE asked' = (asked \ {q}) \cup {done} /\ UNCHANGED shown
    /\ UNCHANGED <<props, latest, ran, spent>>
NetworkFails(q) ==
    /\ spent.faults > 0 /\ spent' = [spent EXCEPT !.faults = @ - 1] /\ UNCHANGED <<props, latest, ran>>
    /\ LET done == Next1(q, [p \in q.targets |-> IF p \in Head(q.left) /\ q.got[p] = "none" THEN None ELSE q.got[p]])
       IN  IF Scene.hook # "batch" THEN asked' = asked \ {q} /\ Failed(q)
           ELSE IF Tail(q.left) = <<>> THEN asked' = asked \ {q} /\ Told(done)
           ELSE asked' = (asked \ {q}) \cup {done} /\ UNCHANGED shown
Refuses(q) == /\ spent.faults > 0 /\ spent' = [spent EXCEPT !.faults = @ - 1] /\ asked' = asked \ {q} /\ Failed(q)
              /\ UNCHANGED <<props, latest, ran>>

InitOf(n) == /\ spent = [scene |-> n, renders |-> Scenes[n].renders, refetches |-> 1, faults |-> Scenes[n].faults]
             /\ props = [targets |-> {}, skip |-> FALSE, max |-> 1] /\ ran = FALSE
             /\ shown = [loading |-> TRUE, error |-> FALSE, of |-> {}, dist |-> None, max |-> 0] /\ latest = 0 /\ asked = {}
Init == \E n \in DOMAIN Scenes : InitOf(n)
Next == \/ \E ts \in Scene.targets, skip \in BOOLEAN, h \in Scene.hops : Render(ts, skip, h)
        \/ Effect \/ Refetch
        \/ \E q \in asked : Answers(q) \/ NetworkFails(q) \/ Refuses(q)
Spec == Init /\ [][Next]_vars

-----------------------------------------------------------------------------
\* A hook that is done shows the answer to what its component asks now, whatever order the answers
\* came in, and nobody is in the web of trust who is further than the component allows or whom
\* the oracle did not name.
ShowsTheQuestion ==
    (ran /\ Enabled /\ ~shown.loading /\ ~shown.error) =>
      /\ shown.of = props.targets /\ shown.max = props.max
      /\ \A p \in props.targets : /\ shown.dist[p] \in {None, Says(p, props.max)}
                                  /\ InWoT(shown.dist[p], props.max) => Scene.dist[p] # None /\ Scene.dist[p] <= props.max
=============================================================================
