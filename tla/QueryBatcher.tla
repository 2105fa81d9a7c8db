---------------------------- MODULE QueryBatcher -----------------------------
(***************************************************************************)
(* The debounced query batcher (QueryBatcher.ts): callers with the same    *)
(* question share an entry, a flush merges the entries for one set of      *)
(* relays into fewer requests, each request answers progressively, and     *)
(* what comes is routed back by matching it with every caller's filter.    *)
(* A filter is [kinds, authors, ids, limit, other]: None for a key that is *)
(* absent, other for any key beyond these.                                 *)
(***************************************************************************)
EXTENDS Naturals, Sequences, SequencesExt, FiniteSets, FiniteSetsExt, Relation

CONSTANTS Calls, Events,   \* an event is [id, kind, author]
          Scenes, None

VARIABLES pending,  \* entries [asks, urls, filter], oldest first; asks: the calls of the entry
          execs,    \* groups in execution: [entries, parts]
          answer,   \* by call
          batcher,  \* [pool, retries, timer, destroyed]
          spent
vars == <<pending, execs, answer, batcher, spent>>

Scene == Scenes[spent.scene]
Ask(c) == Scene.ask[c]

Matches(f, e) == /\ f.ids # None => e.id \in f.ids
                 /\ f.kinds # None => e.kind \in f.kinds
                 /\ f.authors # None => e.author \in f.authors

-----------------------------------------------------------------------------
(* _mergeFilters.                                                          *)

Bare(f)       == f.ids = None /\ ~f.other
Some(x)       == IF x = None THEN FALSE ELSE x # {}
MultiKind(f)  == Bare(f) /\ Some(f.kinds) /\ Some(f.authors) /\ f.limit = None
KindAuthor(f) == /\ Bare(f) /\ ~MultiKind(f) /\ f.kinds # None /\ Some(f.authors)
                 /\ Cardinality(f.kinds) = 1
IdsOnly(f)    == f.ids # None /\ f.kinds = None /\ f.authors = None /\ f.limit = None /\ ~f.other

\* The merged filter of the entries I, of which the field is joined, and no other key is left.
JoinOf(es, I) == [kinds |-> UNION {es[i].filter.kinds : i \in I}, authors |-> UNION {es[i].filter.authors : i \in I},
                  ids |-> None, limit |-> None, other |-> FALSE]
\* Entries of the first kind whose authors meet, directly or through others.
Overlap(es) == LET I == {i \in DOMAIN es : MultiKind(es[i].filter)}
                   R == [p \in I \X I |-> es[p[1]].filter.authors \cap es[p[2]].filter.authors # {}]
               IN  {{j \in I : TransitiveClosure(R, I)[<<i, j>>]} : i \in I}
ByKind(es)  == LET I == {i \in DOMAIN es : KindAuthor(es[i].filter)}
               IN  {{j \in I : es[j].filter.kinds = es[i].filter.kinds} : i \in I}
Ids(es)     == {i \in DOMAIN es : IdsOnly(es[i].filter)}
Merged(es) ==
    {[of |-> I, filter |-> JoinOf(es, I)] : I \in Overlap(es) \cup ByKind(es)}
    \cup (IF UNION {es[i].filter.ids : i \in Ids(es)} = {} THEN {}
          ELSE {[of |-> Ids(es), filter |-> [es[Min(Ids(es))].filter EXCEPT !.ids = UNION {es[i].filter.ids : i \in Ids(es)}]]})
    \cup {[of |-> {i}, filter |-> es[i].filter] :
            i \in {j \in DOMAIN es : LET f == es[j].filter IN ~(MultiKind(f) \/ KindAuthor(f) \/ IdsOnly(f))}}
\* A single entry is asked as it is.
Requests(es) == IF Len(es) = 1 THEN {[of |-> {1}, filter |-> es[1].filter]} ELSE Merged(es)

-----------------------------------------------------------------------------
(* The queue.                                                              *)

Spend(what) == spent[what] > 0 /\ spent' = [spent EXCEPT ![what] = @ - 1]
Told(ans, C, how) == [c \in Calls |-> IF c \in C THEN [ans[c] EXCEPT !.at = how] ELSE ans[c]]
AsksOf(es)  == UNION {es[i].asks : i \in DOMAIN es}

\* A request on its way: waiting for a first event, collecting, or resolved with a copy.
NewPart(r) == [of |-> r.of, filter |-> r.filter, got |-> {}, copy |-> {}, at |-> "silent", open |-> TRUE]
Groups(p)  == {LET es == SelectSeq(p, LAMBDA q : q.urls = u)
               IN  [entries |-> es, parts |-> {NewPart(r) : r \in Requests(es)}, answered |-> FALSE]
               : u \in {p[i].urls : i \in DOMAIN p}}

\* _flush, of the queue p with the batcher b and the callers as in ans.
Flush(b, p, ans) ==
    IF p = <<>> THEN /\ batcher' = [b EXCEPT !.timer = "none"] /\ pending' = p /\ answer' = ans /\ UNCHANGED execs
    ELSE IF b.pool THEN /\ batcher' = [b EXCEPT !.timer = "none", !.retries = 0] /\ pending' = <<>>
                        /\ execs' = execs \cup Groups(p) /\ answer' = ans
    ELSE /\ UNCHANGED execs
         /\ IF b.retries < Scene.maxRetries
            THEN /\ batcher' = [b EXCEPT !.timer = "wait", !.retries = @ + 1]
                 /\ pending' = p /\ answer' = ans
            ELSE /\ batcher' = [b EXCEPT !.timer = "none", !.retries = 0]
                 /\ pending' = <<>> /\ answer' = Told(ans, AsksOf(p), "rejected")

\* Slip: callers share an entry whatever relays they ask.
QueuedByFilter(c) ==
    LET same == {i \in DOMAIN pending : pending[i].filter = Ask(c).filter}
    IN  IF same # {} THEN [pending EXCEPT ![Min(same)].asks = @ \cup {c}]
        ELSE Append(pending, [asks |-> {c}, urls |-> Ask(c).urls, filter |-> Ask(c).filter])
Queued(c) ==
    LET same == {i \in DOMAIN pending : pending[i].filter = Ask(c).filter /\ pending[i].urls = Ask(c).urls}
    IN  IF same # {} THEN [pending EXCEPT ![Min(same)].asks = @ \cup {c}]
        ELSE Append(pending, [asks |-> {c}, urls |-> Ask(c).urls, filter |-> Ask(c).filter])

\* query() and queryImmediate().
Query(c, immediate) ==
    /\ c \in Scene.calls /\ answer[c].at = "none" /\ UNCHANGED spent
    /\ IF batcher.destroyed THEN answer' = Told(answer, {c}, "rejected") /\ UNCHANGED <<pending, execs, batcher>>
       ELSE IF immediate THEN Flush(batcher, Queued(c), Told(answer, {c}, "asked"))
       ELSE /\ pending' = Queued(c) /\ answer' = Told(answer, {c}, "asked") /\ UNCHANGED execs
            /\ batcher' = [batcher EXCEPT !.timer = IF @ = "none" THEN "debounce" ELSE @]
TimerFires == batcher.timer # "none" /\ Flush(batcher, pending, answer) /\ UNCHANGED spent
SetPool(has) == /\ Spend("pools")
                /\ IF has /\ pending # <<>> THEN Flush([batcher EXCEPT !.pool = TRUE, !.retries = 0], pending, answer)
                   ELSE batcher' = [batcher EXCEPT !.pool = has] /\ UNCHANGED <<pending, execs, answer>>
Destroy == /\ Spend("destroys") /\ batcher' = [batcher EXCEPT !.destroyed = TRUE, !.timer = "none"]
           /\ pending' = <<>> /\ answer' = Told(answer, AsksOf(pending), "rejected") /\ UNCHANGED execs

-----------------------------------------------------------------------------
(* _progressiveQuery and _executeGroup.                                    *)

Change(x, r, s) == execs' = (execs \ {x}) \cup {[x EXCEPT !.parts = (@ \ {r}) \cup {s}]}
Resolve(r) == IF r.at = "resolved" THEN r ELSE [r EXCEPT !.at = "resolved", !.copy = r.got]
Owed(f)    == {e \in Events : Matches(f, e)}
Event(x, r, e) ==
    /\ r.open /\ e \in Owed(r.filter) \ r.got /\ (r.filter.limit # None => Cardinality(r.got) < r.filter.limit)
    /\ Change(x, r, [r EXCEPT !.got = @ \cup {e}, !.at = IF @ = "silent" THEN "collecting" ELSE @])
    /\ UNCHANGED <<pending, answer, batcher, spent>>
\* No event in time, or the end of the collection window.
WindowEnds(x, r) == /\ r.at # "resolved" /\ Change(x, r, Resolve(r)) /\ UNCHANGED <<pending, answer, batcher, spent>>
\* The pool closes the subscription: every caller that wants updates is given all that came.
Closes(x, r) ==
    /\ r.open /\ Change(x, r, [Resolve(r) EXCEPT !.open = FALSE]) /\ UNCHANGED <<pending, batcher, spent>>
    /\ answer' = [c \in Calls |->
                    IF r.got # {} /\ Ask(c).updates /\ \E i \in r.of : c \in x.entries[i].asks
                    THEN [answer[c] EXCEPT !.update = {e \in r.got : Matches(Ask(c).filter, e)}] ELSE answer[c]]
\* All requests of the group have resolved: what came of any is routed to every caller.
Answers(x) ==
    LET all == UNION {r.copy : r \in x.parts}
    IN  /\ ~x.answered /\ \A r \in x.parts : r.at = "resolved"
        /\ answer' = [c \in Calls |->
             IF c \in AsksOf(x.entries)
             THEN [answer[c] EXCEPT !.at = "resolved", !.events = {e \in all : Matches(Ask(c).filter, e)},
                                    !.whole = \A r \in x.parts : r.copy = Owed(r.filter)]
             ELSE answer[c]]
        /\ execs' = (execs \ {x}) \cup {[x EXCEPT !.answered = TRUE]} /\ UNCHANGED <<pending, batcher, spent>>

InitOf(n) ==
    /\ pending = <<>> /\ execs = {}
    /\ answer = [c \in Calls |-> [at |-> "none", events |-> {}, whole |-> FALSE, update |-> None]]
    /\ batcher = [pool |-> Scenes[n].pool, retries |-> 0, timer |-> "none", destroyed |-> FALSE]
    /\ spent = [scene |-> n, pools |-> Scenes[n].pools, destroys |-> Scenes[n].destroys]
Init == \E n \in DOMAIN Scenes : InitOf(n)
Next ==
    \/ \E c \in Calls, i \in BOOLEAN : Query(c, i)
    \/ TimerFires \/ Destroy \/ \E h \in BOOLEAN : SetPool(h)
    \/ \E x \in execs : Answers(x) \/ \E r \in x.parts : WindowEnds(x, r) \/ Closes(x, r) \/ \E e \in Events : Event(x, r, e)
Spec == Init /\ [][Next]_vars

-----------------------------------------------------------------------------
(* Properties.                                                             *)

Holding(c) == {x \in execs : ~x.answered /\ c \in AsksOf(x.entries)}
\* A caller is given what matches its own filter and nothing else, of its own relays and whoever
\* it was merged with, and all of it when every request of its group had brought all; and until
\* then it is in the queue, with a timer set that will flush it, or in one group.
BatcherAnswers ==
    /\ \A c \in Calls : LET a == answer[c] IN
          /\ \A e \in a.events : Matches(Ask(c).filter, e)
          /\ a.whole /\ Ask(c).filter.limit = None => Owed(Ask(c).filter) \subseteq a.events
          /\ Cardinality(Holding(c)) + (IF c \in AsksOf(pending) THEN 1 ELSE 0) = IF a.at = "asked" THEN 1 ELSE 0
    /\ \A i \in DOMAIN pending : \A c \in pending[i].asks : Ask(c).urls = pending[i].urls /\ answer[c].at = "asked"
    /\ \A x \in execs : \A c \in AsksOf(x.entries) : Ask(c).urls = x.entries[1].urls
    /\ pending # <<>> => batcher.timer # "none" /\ ~batcher.destroyed
=============================================================================
