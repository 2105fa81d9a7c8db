------------------------------ MODULE HubQuery -------------------------------
(***************************************************************************)
(* One-shot reads of the relay hub (query.ts): the result cache, the       *)
(* sharing of a query that is in flight, and one run of a query over its   *)
(* relays, whose requests go through the registry.                         *)
(*                                                                         *)
(* A run is named by the call that started it.  What runs in microtasks    *)
(* (the settling of an EOSE, the recording of a result) comes before any   *)
(* frame, timer or answer of a socket, not before another call.            *)
(***************************************************************************)
EXTENDS BoundedCache, FiniteSets

CONSTANTS Calls, Relays, Stored,  \* Stored[u]: what relay u has, for every filter
          Scenes, None

VARIABLES ask,     \* the calls: waiting on a run, or answered
          run,     \* the executions, by the call that started them
          cache,
          clock, spent
vars == <<ask, run, cache, clock, spent>>

Scene == Scenes[spent.scene]
Spec_(c) == Scene.spec[c]
\* canonical.ts: calls that mean the same have the same key.
QueryKey(c) == <<Spec_(c).identity, Spec_(c).relays, Spec_(c).filters>>

Spend(what) == spent[what] > 0 /\ spent' = [spent EXCEPT ![what] = @ - 1]
Running(r)  == run[r].at = "running"
InFlight(k) == {r \in Calls : run[r].at \in {"running", "resolved"} /\ QueryKey(r) = k}
NoMicrotask == \A r \in Calls : run[r].at # "resolved" /\ (Running(r) => run[r].eosing = {})

-----------------------------------------------------------------------------
(* One run.                                                                *)

\* finish(): what did not answer timed out, and every request is closed.
Finish(x) == [x EXCEPT !.at = "resolved", !.open = {}, !.out = [u \in Relays |-> IF @[u] = None THEN "timeout" ELSE @[u]]]
Settle(x, u, how, urls) ==
    IF x.at # "running" \/ x.out[u] # None THEN x
    ELSE LET y == [x EXCEPT !.out[u] = how]
         IN  IF \A v \in urls : y.out[v] # None THEN Finish(y) ELSE y
OnEose(x, u, urls)   == [x EXCEPT !.eosing = @ \cup {u}]
OnClose(x, u, urls)  == Settle(x, u, "closed", urls)
Complete(r) == \A u \in Spec_(r).relays : run[r].out[u] = "eose"
Result(r) == [run |-> r, events |-> run[r].events, complete |-> Complete(r), at |-> clock]

\* The sockets as the call finds them: up, still handshaking, or none to be had.
Launched(c, up, none) ==
    LET urls == Spec_(c).relays
        x == [at |-> "running", out |-> [u \in Relays |-> IF u \in none THEN "unreachable" ELSE None],
              open |-> up, eosing |-> {}, events |-> <<>>, got |-> {}, said |-> [u \in Relays |-> "nothing"],
              deadline |-> clock + Spec_(c).wait]
    IN  IF urls \subseteq none THEN Finish(x) ELSE x

-----------------------------------------------------------------------------
(* The handlers.                                                           *)

Read(c) == Spec_(c).mode = "cached-ok"
Answered(c, v, how) == [ask EXCEPT ![c] = [at |-> "done", from |-> v, cached |-> how, when |-> clock]]

Query(c) ==
    LET k == QueryKey(c)
    IN  /\ ask[c].at = "idle" /\ c \in Scene.calls /\ UNCHANGED <<clock, spent>>
        /\ IF Read(c) /\ Hit(cache, k, clock)
           THEN /\ ask' = Answered(c, EntryOf(cache, k).v, TRUE)
                /\ cache' = Got(cache, k, clock, Scene.options) /\ UNCHANGED run
           ELSE /\ cache' = IF Read(c) THEN Peeked(cache, k, clock) ELSE cache
                /\ IF InFlight(k) # {}
                   THEN /\ ask' = [ask EXCEPT ![c].at = "waiting", ![c].from = CHOOSE r \in InFlight(k) : TRUE]
                        /\ UNCHANGED run
                   ELSE \E up \in IF Scene.up THEN {Spec_(c).relays} ELSE SUBSET Spec_(c).relays :
                           \E none \in SUBSET (Spec_(c).relays \ up) :
                           /\ run' = [run EXCEPT ![c] = Launched(c, up, none)]
                           /\ ask' = [ask EXCEPT ![c].at = "waiting", ![c].from = c]

\* The promise's `then`: the slot is cleared, the result cached, and everyone answered.
Record(r) ==
    LET ttl == IF Complete(r) THEN Spec_(r).ttl ELSE Scene.incompleteTtl
    IN  /\ run[r].at = "resolved" /\ run' = [run EXCEPT ![r].at = "over"]
        /\ cache' = IF Spec_(r).mode = "bypass" THEN cache
                    ELSE Put(cache, QueryKey(r), Result(r), Len(run[r].events), clock + ttl, Scene.options)
        /\ ask' = [c \in Calls |-> IF ask[c].at = "waiting" /\ ask[c].from = r
                                   THEN [at |-> "done", from |-> Result(r), cached |-> FALSE, when |-> clock]
                                   ELSE ask[c]]
        /\ UNCHANGED <<clock, spent>>

\* The microtask behind an EOSE: a CLOSED of the same tick has settled the relay already.
EoseSettles(r, u) ==
    /\ Running(r) /\ u \in run[r].eosing /\ UNCHANGED <<ask, cache, clock, spent>>
    /\ LET x == [run[r] EXCEPT !.eosing = @ \ {u}]
       IN  run' = [run EXCEPT ![r] = IF x.out[u] # None THEN x
                                     ELSE Settle([x EXCEPT !.open = @ \ {u}], u, "eose", Spec_(r).relays)]

Deadline(r) == /\ Running(r) /\ clock >= run[r].deadline /\ NoMicrotask
               /\ run' = [run EXCEPT ![r] = Finish(@)] /\ UNCHANGED <<ask, cache, clock, spent>>

\* clearIdentity(): sockets and requests of the identity are the hub's concern.
ClearIdentity(i) == /\ Spend("clears") /\ cache' = SelectSeq(cache, LAMBDA e : e.k[1] # i)
                    /\ UNCHANGED <<ask, run, clock>>

-----------------------------------------------------------------------------
(* The sockets and the relays.                                             *)

Shaking(r, u) == run[r].at # "none" /\ u \in Spec_(r).relays \ run[r].open
                 /\ run[r].said[u] = "nothing" /\ run[r].out[u] \in {None, "timeout"}
\* The handshake ends: the request goes out unless the query is over.
Connected(r, u) ==
    /\ NoMicrotask /\ Shaking(r, u) /\ Running(r) /\ UNCHANGED <<ask, cache, clock, spent>>
    /\ run' = [run EXCEPT ![r].open = @ \cup {u}]
Unreachable(r, u) ==
    /\ NoMicrotask /\ Shaking(r, u) /\ Running(r) /\ UNCHANGED <<ask, cache, clock, spent>>
    /\ run' = [run EXCEPT ![r] = Settle(@, u, "unreachable", Spec_(r).relays)]

Open(r, u) == NoMicrotask /\ Running(r) /\ u \in run[r].open /\ run[r].said[u] = "nothing"
Event(r, u, e) ==
    /\ Open(r, u) /\ e \in Stored[u] /\ <<u, e>> \notin run[r].got /\ UNCHANGED <<ask, cache, clock, spent>>
    /\ run' = [run EXCEPT ![r].got = @ \cup {<<u, e>>},
                          ![r].events = IF \E i \in DOMAIN @ : @[i] = e THEN @ ELSE Append(@, e)]
Eose(r, u) ==
    /\ Open(r, u) /\ \A e \in Stored[u] : <<u, e>> \in run[r].got /\ UNCHANGED <<ask, cache, clock, spent>>
    /\ run' = [run EXCEPT ![r] = OnEose([@ EXCEPT !.said[u] = "eose"], u, Spec_(r).relays)]
\* A CLOSED by the relay, before which the transport makes up an EOSE, or the registry's own
\* end of the request (its watchdog, a socket that is gone), before which it does not.
Closed(r, u, made) ==
    /\ Open(r, u) /\ UNCHANGED <<ask, cache, clock, spent>>
    /\ LET x == [run[r] EXCEPT !.said[u] = "closed"]
           urls == Spec_(r).relays
       IN  run' = [run EXCEPT ![r] = OnClose(IF made THEN OnEose(x, u, urls) ELSE x, u, urls)]

Tick == /\ clock < Scene.end /\ clock' = clock + 1 /\ NoMicrotask /\ UNCHANGED <<ask, run, cache, spent>>

InitOf(n) ==
    /\ ask = [c \in Calls |-> [at |-> "idle", from |-> None, cached |-> FALSE, when |-> 0]]
    /\ run = [c \in Calls |-> [at |-> "none"]]
    /\ cache = <<>> /\ clock = 1 /\ spent = [scene |-> n, clears |-> Scenes[n].clears]
Init == \E n \in DOMAIN Scenes : InitOf(n)

Next ==
    \/ \E c \in Calls : Query(c) \/ Record(c) \/ Deadline(c)
    \/ \E r \in Calls, u \in Relays :
          \/ EoseSettles(r, u) \/ Connected(r, u) \/ Unreachable(r, u) \/ Eose(r, u)
          \/ \E e \in Stored[u] : Event(r, u, e)
          \/ \E made \in BOOLEAN : Closed(r, u, made)
    \/ \E c \in Calls : ClearIdentity(Spec_(c).identity)
    \/ Tick
Spec == Init /\ [][Next]_vars

-----------------------------------------------------------------------------
(* Properties.                                                             *)

\* What a caller is told: a complete answer had an EOSE of every relay it asked, none of them
\* made up by the transport for a refusal, and holds all that those relays have; no event twice;
\* an answer from the cache is for the same question, was recorded by a call that allowed it,
\* and is younger than its time.
AnswersHonest ==
    \A c \in Calls : ask[c].at = "done" =>
        LET v == ask[c].from
            s == Spec_(v.run)
        IN  /\ v.complete => \A u \in s.relays : run[v.run].said[u] = "eose" /\ Stored[u] \subseteq ToSet(v.events)
            /\ IsInjective(v.events) /\ QueryKey(v.run) = QueryKey(c)
            /\ ask[c].cached => /\ Read(c) /\ s.mode # "bypass"
                                /\ ask[c].when - v.at < IF v.complete THEN s.ttl ELSE Scene.incompleteTtl

\* A query that is over has no request open and nobody waiting on it, and what was cached of
\* all of them keeps to its bounds.
NothingLeftOpen ==
    /\ \A r \in Calls : run[r].at \in {"resolved", "over"} => run[r].open = {}
    /\ \A r \in Calls : run[r].at \in {"none", "over"} => \A c \in Calls : ~(ask[c].at = "waiting" /\ ask[c].from = r)
    /\ Bounded(cache, Scene.options)
QuerySound == AnswersHonest /\ NothingLeftOpen
=============================================================================
