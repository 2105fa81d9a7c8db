---------------------------- MODULE RelayProofs ----------------------------
(***************************************************************************)
(* Proofs about RelaySide: who holds or awaits a relay's socket is never   *)
(* forgotten, a socket in use is never closed for room, and the feed of an *)
(* app and the relays of a bunker come back, for every value of the        *)
(* constants.  Each part has its inductive invariant, kept by each of its  *)
(* actions; a state stays of the part it began as.                         *)
(***************************************************************************)
EXTENDS RelaySide, FiniteSetTheorems, TLAPS

----------------------------------------------------------------------------
(* The socket table: what an entry may be.                                 *)

SocketSpent == [scene : DOMAIN SocketScenes, calls : Nat, subs : Nat, disconnects : Nat, recycles : Nat,
                rebinds : Nat, ends : Nat, failures : Nat, drops : Nat, offline : Nat]
SocketCall == [at : {"idle", "waiting", "auth", "sent", "again", "done"}, do : {"none", "connect", "relayFor", "publish"},
               id : Nat, how : {"none", "up", "refused", "closed", "unreachable", "again", "ok", "timeout", "rejected"}]

LEMMA SocketsAssumed ==
    /\ None \notin Sockets!Entry
    /\ \A n \in DOMAIN SocketScenes :
          /\ SocketScenes[n].maxSockets \in Nat /\ SocketScenes[n].maxAttempts \in Nat
          /\ SocketScenes[n].bounds \in [scene : Nat, calls : Nat, subs : Nat, disconnects : Nat, recycles : Nat,
                                         rebinds : Nat, ends : Nat, failures : Nat, drops : Nat, offline : Nat]
BY RelayAssumption

SocketTable == [entry : [SocketUrls -> Sockets!Entry \cup {None}], ids : Nat, disposed : BOOLEAN]

\* A state of the connection, and what is under way in it; an entry waits for the network only
\* while the news that it is back has not been delivered.
Shape(e, announced) ==
    /\ e.shaking => e.conn \in {"connecting", "reconnecting"} /\ ~e.retry
    /\ e.conn = "connecting" => e.shaking
    /\ e.conn = "reconnecting" => e.shaking \/ e.retry
    /\ e.retry => e.conn = "reconnecting"
    /\ e.conn = "offline" => ~announced
\* Up, or on its way.
Coming(e) == e.conn = "connected" \/ e.shaking \/ e.retry \/ e.conn = "offline"
\* A held entry is that, or was given up; its grace is over.
Kept(e, tries) == /\ Sockets!Wanted(e) => Coming(e) \/ (e.conn = "failed" /\ e.attempt >= tries)
                  /\ e.grace => ~Sockets!Wanted(e)
Sound(e, announced, tries) == e \in Sockets!Entry /\ Shape(e, announced) /\ Kept(e, tries)

\* Entries have ids of their own, and no call one that was never given.
IdsGiven(t, k) == /\ \A u \in Sockets!Tracked(t) : t.entry[u].id <= t.ids
                  /\ \A u, v \in Sockets!Tracked(t) : t.entry[u].id = t.entry[v].id => u = v
                  /\ \A c \in SocketCalls : k[c].id <= t.ids
InBudget(t, max) == IsFiniteSet(Sockets!Tracked(t)) /\ Cardinality(Sockets!Tracked(t)) <= max
\* Who waits, waits for an entry that is on its way.
Awaited(t, x) == \E u \in Sockets!Tracked(t) : /\ t.entry[u].id = x.id
                                               /\ Coming(t.entry[u]) /\ t.entry[u].conn # "connected"

SocketsInv ==
    /\ slot1 \in SocketTable /\ slot2 \in [SocketCalls -> SocketCall]
    /\ slot3 \in [online : BOOLEAN, announced : BOOLEAN] /\ slot4 \in SocketSpent
    /\ ~slot3.online => ~slot3.announced
    /\ \A u \in Sockets!Tracked(slot1) : Sound(slot1.entry[u], slot3.announced, Sockets!Scene.maxAttempts)
    /\ IdsGiven(slot1, slot2)
    /\ InBudget(slot1, Sockets!Scene.maxSockets)
    /\ \A c \in SocketCalls : slot2[c].at = "waiting" => Awaited(slot1, slot2[c])

----------------------------------------------------------------------------
(* What a handler makes of an entry.                                       *)

\* It stays the same socket, held by the same.
Same(f, e) == f.id = e.id /\ f.explicit = e.explicit /\ f.subs = e.subs

\* start(): up already, or shaking hands.
LEMMA StartComes ==
    ASSUME NEW e \in Sockets!Entry, NEW a,
           e.shaking => e.conn \in {"connecting", "reconnecting"} /\ ~e.retry,
           e.conn = "connected" => ~e.retry
    PROVE  /\ Sockets!Start(e) \in Sockets!Entry /\ Shape(Sockets!Start(e), a) /\ Same(Sockets!Start(e), e)
           /\ Sockets!Start(e).conn = "connected" \/ Sockets!Start(e).shaking
           /\ Sockets!Start(e).conn = "connected" => e.conn = "connected"
           /\ Sockets!Start(e).grace => e.grace
<1> DEFINE f == Sockets!Start(e)
<1>1. CASE e.shaking \/ e.conn = "connected"
      <2>1. f = e
            BY <1>1 DEF Sockets!Start
      <2> QED BY <1>1, <2>1 DEF Shape, Same, Sockets!Entry
<1>2. CASE ~(e.shaking \/ e.conn = "connected")
      <2>1. f = [e EXCEPT !.shaking = TRUE, !.retry = FALSE, !.grace = FALSE,
                          !.conn = IF e.been THEN "reconnecting" ELSE "connecting"]
            BY <1>2 DEF Sockets!Start
      <2>2. /\ f \in Sockets!Entry /\ f.id = e.id /\ f.explicit = e.explicit /\ f.subs = e.subs
            /\ f.shaking /\ ~f.retry /\ ~f.grace /\ f.conn \in {"reconnecting", "connecting"}
            BY <2>1 DEF Sockets!Entry
      <2> HIDE DEF f
      <2>3. Shape(f, a) /\ Same(f, e)
            BY <2>2 DEF Shape, Same
      <2> QED BY <2>2, <2>3 DEF f
<1> QED BY <1>1, <1>2

\* ensure(): an entry somebody asks for is up or on its way.
LEMMA EnsuredComes ==
    ASSUME NEW e \in Sockets!Entry, slot3 \in [online : BOOLEAN, announced : BOOLEAN], ~slot3.online => ~slot3.announced,
           Shape(e, slot3.announced)
    PROVE  /\ Sockets!Ensured(e) \in Sockets!Entry /\ Shape(Sockets!Ensured(e), slot3.announced)
           /\ Same(Sockets!Ensured(e), e) /\ ~Sockets!Ensured(e).grace
           /\ Coming(Sockets!Ensured(e))
           /\ Sockets!Ensured(e).conn = "connected" => e.conn = "connected"
<1> DEFINE f == Sockets!Ensured(e)
           g == [e EXCEPT !.grace = FALSE]
           h == [g EXCEPT !.attempt = 0]
<1>1. /\ g \in Sockets!Entry /\ Same(g, e) /\ ~g.grace /\ g.conn = e.conn /\ g.shaking = e.shaking /\ g.retry = e.retry
      /\ h \in Sockets!Entry /\ Same(h, e) /\ ~h.grace /\ h.conn = e.conn /\ h.shaking = e.shaking /\ h.retry = e.retry
      BY DEF Sockets!Entry, Same
<1>2. f = IF g.conn \in {"idle", "failed"} THEN Sockets!Start(h)
          ELSE IF g.conn = "offline" /\ slot3.online THEN Sockets!Start(g) ELSE g
      BY DEF Sockets!Ensured
<1> HIDE DEF f, g, h
<1>3. CASE e.conn \in {"idle", "failed"}
      <2>1. f = Sockets!Start(h) /\ h.conn # "connected" /\ ~h.shaking /\ ~h.retry
            BY <1>1, <1>2, <1>3 DEF Shape
      <2> QED BY <1>1, <2>1, StartComes DEF Same, Coming, f
<1>4. CASE e.conn = "offline" /\ slot3.online
      <2>1. f = Sockets!Start(g) /\ g.conn # "connected" /\ ~g.shaking /\ ~g.retry
            BY <1>1, <1>2, <1>4 DEF Shape
      <2> QED BY <1>1, <2>1, StartComes DEF Same, Coming, f
<1>5. CASE e.conn \notin {"idle", "failed"} /\ ~(e.conn = "offline" /\ slot3.online)
      <2>1. f = g
            BY <1>1, <1>2, <1>5
      <2>2. e.conn \in {"connecting", "reconnecting", "connected", "offline"}
            BY <1>5 DEF Sockets!Entry
      <2> QED BY <1>1, <2>1, <2>2 DEF Shape, Coming, f
<1> QED BY <1>3, <1>4, <1>5

\* scheduleRetry(): a retry is due, the network is awaited, or every attempt was made.
LEMMA RetryComes ==
    ASSUME NEW e \in Sockets!Entry, slot3 \in [online : BOOLEAN, announced : BOOLEAN], ~slot3.online => ~slot3.announced,
           ~e.shaking, ~e.retry, e.conn # "failed", Sockets!Scene.maxAttempts \in Nat
    PROVE  /\ Sockets!ScheduleRetry(e) \in Sockets!Entry /\ Shape(Sockets!ScheduleRetry(e), slot3.announced)
           /\ Same(Sockets!ScheduleRetry(e), e) /\ Sockets!ScheduleRetry(e).grace = e.grace
           /\ Sockets!ScheduleRetry(e).conn # "connected"
           /\ \/ Coming(Sockets!ScheduleRetry(e)) /\ ~Sockets!GaveUp(Sockets!ScheduleRetry(e))
              \/ /\ Sockets!GaveUp(Sockets!ScheduleRetry(e))
                 /\ Sockets!ScheduleRetry(e).attempt >= Sockets!Scene.maxAttempts
<1> DEFINE f == Sockets!ScheduleRetry(e)
           max == Sockets!Scene.maxAttempts
<1>1. f = IF ~slot3.online THEN [e EXCEPT !.conn = "offline"]
          ELSE IF e.attempt >= max THEN [e EXCEPT !.conn = "failed"]
          ELSE [e EXCEPT !.attempt = @ + 1, !.conn = "reconnecting", !.retry = TRUE]
      BY DEF Sockets!ScheduleRetry
<1> HIDE DEF f, max
<1>2. CASE ~slot3.online
      <2>1. /\ f \in Sockets!Entry /\ f.id = e.id /\ f.explicit = e.explicit /\ f.subs = e.subs /\ f.grace = e.grace
            /\ f.conn = "offline" /\ ~f.shaking /\ ~f.retry
            BY <1>1, <1>2 DEF Sockets!Entry
      <2> QED BY <1>2, <2>1 DEF Shape, Same, Coming, Sockets!GaveUp, f, max
<1>3. CASE slot3.online /\ e.attempt >= max
      <2>1. /\ f \in Sockets!Entry /\ f.id = e.id /\ f.explicit = e.explicit /\ f.subs = e.subs /\ f.grace = e.grace
            /\ f.conn = "failed" /\ ~f.shaking /\ ~f.retry /\ f.attempt = e.attempt
            BY <1>1, <1>3 DEF Sockets!Entry
      <2> QED BY <1>3, <2>1 DEF Shape, Same, Coming, Sockets!GaveUp, f, max
<1>4. CASE slot3.online /\ ~(e.attempt >= max)
      <2>1. /\ f \in Sockets!Entry /\ f.id = e.id /\ f.explicit = e.explicit /\ f.subs = e.subs /\ f.grace = e.grace
            /\ f.conn = "reconnecting" /\ ~f.shaking /\ f.retry
            <3>1. PICK n \in Nat : f = [e EXCEPT !.attempt = n, !.conn = "reconnecting", !.retry = TRUE]
                  <4>1. e.attempt + 1 \in Nat
                        BY DEF Sockets!Entry
                  <4>2. f = [e EXCEPT !.attempt = e.attempt + 1, !.conn = "reconnecting", !.retry = TRUE]
                        BY <1>1, <1>4
                  <4> QED BY <4>1, <4>2
            <3> QED BY <3>1 DEF Sockets!Entry
      <2> QED BY <1>4, <2>1 DEF Shape, Same, Coming, Sockets!GaveUp, f, max
<1> QED BY <1>2, <1>3, <1>4

\* dropSocket(): an entry that is wanted starts over.
LEMMA AgainComes ==
    ASSUME NEW e \in Sockets!Entry, NEW a, NEW tries
    PROVE  /\ Sound(Sockets!Again(e), a, tries) /\ Same(Sockets!Again(e), e)
<1> DEFINE h == [Sockets!Idle(e) EXCEPT !.attempt = 0]
           f == Sockets!Again(e)
<1>1. /\ h \in Sockets!Entry /\ h.conn = "idle" /\ ~h.shaking /\ ~h.retry /\ ~h.grace
      /\ h.id = e.id /\ h.explicit = e.explicit /\ h.subs = e.subs
      BY DEF Sockets!Idle, Sockets!Entry
<1>2. f = IF Sockets!Wanted(e) THEN Sockets!Start(h) ELSE h
      BY DEF Sockets!Again
<1> HIDE DEF h, f
<1>3. Same(h, e) /\ (Sockets!Wanted(h) <=> Sockets!Wanted(e))
      BY <1>1 DEF Same, Sockets!Wanted
<1>4. CASE Sockets!Wanted(e)
      <2>1. f \in Sockets!Entry /\ Shape(f, a) /\ Same(f, h) /\ (f.conn = "connected" \/ f.shaking) /\ ~f.grace
            BY <1>1, <1>2, <1>4, StartComes
      <2> QED BY <1>3, <2>1 DEF Sound, Kept, Coming, Same, f
<1>5. CASE ~Sockets!Wanted(e)
      <2>1. Shape(h, a) /\ f = h
            BY <1>1, <1>2, <1>5 DEF Shape
      <2> QED BY <1>1, <1>3, <1>5, <2>1 DEF Sound, Kept, f
<1> QED BY <1>4, <1>5

----------------------------------------------------------------------------
(* What a handler makes of the table and of the calls.                     *)

\* The socket table counts as everybody does.
LEMMA SocketsCount == \A S : Sockets!Cardinality(S) = Cardinality(S)
BY DEF Sockets!Cardinality, Cardinality

\* What is tracked is what there is an entry of.
LEMMA TrackedIs == ASSUME NEW t \in SocketTable
                   PROVE  /\ Sockets!Tracked(t) \subseteq SocketUrls
                          /\ \A u \in SocketUrls : u \in Sockets!Tracked(t) <=> t.entry[u] \in Sockets!Entry
BY SocketsAssumed DEF SocketTable, Sockets!Tracked

\* Calls that are told keep their ids; who still waits was told nothing.
LEMMA Settled ==
    ASSUME slot2 \in [SocketCalls -> SocketCall], NEW C, NEW how \in {"up", "closed", "unreachable"}
    PROVE  /\ Sockets!Settle(C, how) \in [SocketCalls -> SocketCall]
           /\ \A c \in SocketCalls : /\ Sockets!Settle(C, how)[c].id = slot2[c].id
                                     /\ Sockets!Settle(C, how)[c].at = "waiting" =>
                                           /\ Sockets!Settle(C, how)[c] = slot2[c]
                                           /\ c \notin C
<1> DEFINE k == Sockets!Settle(C, how)
           one(c) == IF c \in C /\ slot2[c].at = "waiting"
                     THEN IF how = "up" /\ slot2[c].do = "publish"
                          THEN [slot2[c] EXCEPT !.at = IF Sockets!Scene.authFirst THEN "auth" ELSE "sent"]
                          ELSE [slot2[c] EXCEPT !.at = "done", !.how = how]
                     ELSE slot2[c]
<1>1. k = [c \in SocketCalls |-> one(c)]
      BY DEF Sockets!Settle
<1>2. ASSUME NEW c \in SocketCalls
      PROVE  /\ one(c) \in SocketCall /\ one(c).id = slot2[c].id
             /\ one(c).at = "waiting" => one(c) = slot2[c] /\ c \notin C
      <2>1. slot2[c] \in SocketCall
            OBVIOUS
      <2>2. CASE c \in C /\ slot2[c].at = "waiting"
            <3>1. CASE how = "up" /\ slot2[c].do = "publish"
                  <4>1. PICK p \in {"auth", "sent"} : one(c) = [slot2[c] EXCEPT !.at = p]
                        BY <2>2, <3>1
                  <4> QED BY <2>1, <4>1 DEF SocketCall
            <3>2. CASE ~(how = "up" /\ slot2[c].do = "publish")
                  <4>1. one(c) = [slot2[c] EXCEPT !.at = "done", !.how = how]
                        BY <2>2, <3>2
                  <4> QED BY <2>1, <4>1 DEF SocketCall
            <3> QED BY <3>1, <3>2
      <2>3. CASE ~(c \in C /\ slot2[c].at = "waiting")
            BY <2>1, <2>3
      <2> QED BY <2>2, <2>3
<1> HIDE DEF one, k
<1> QED BY <1>1, <1>2 DEF k

\* Who waits and is not among the calls of an entry waits for another one.
LEMMA WaitsElsewhere ==
    ASSUME NEW t, NEW u \in Sockets!Tracked(t), NEW c \in SocketCalls \ Sockets!Of(t, u), slot2[c].at = "waiting"
    PROVE  slot2[c].id # t.entry[u].id
BY DEF Sockets!Of, Sockets!Tracked

\* A table in which the entry under u may be changed: the table as it is, or with an entry of
\* its own for u, for which one that nobody held or used may have gone.
Room(t, u) ==
    /\ t \in SocketTable /\ u \in Sockets!Tracked(t) /\ slot1.ids <= t.ids
    /\ IdsGiven(t, slot2) /\ InBudget(t, Sockets!Scene.maxSockets)
    /\ Shape(t.entry[u], slot3.announced)
    /\ t = slot1 \/ (u \notin Sockets!Tracked(slot1) /\ t.ids > slot1.ids /\ t.entry[u] = Sockets!NewEntry(t.ids))
    /\ \A v \in Sockets!Tracked(t) \ {u} : v \in Sockets!Tracked(slot1) /\ t.entry[v] = slot1.entry[v]
    /\ \A v \in Sockets!Tracked(slot1) : \/ t.entry[v] = slot1.entry[v]
                                         \/ ~Sockets!Wanted(slot1.entry[v]) /\ ~Sockets!Busy(slot1, v)
    /\ \A c \in SocketCalls : slot2[c].at = "waiting" /\ c \notin Sockets!Lost(t) => Awaited(t, slot2[c])

LEMMA RoomAsItIs == ASSUME SocketsInv, NEW u \in Sockets!Tracked(slot1) PROVE Room(slot1, u)
BY DEF SocketsInv, Room, Sound, SocketTable

\* track() makes room, or finds it.
LEMMA TrackMakesRoom ==
    ASSUME SocketsInv, NEW u \in SocketUrls, NEW t \in Sockets!TracksTo(u)
    PROVE  Room(t, u)
<1> DEFINE max == Sockets!Scene.maxSockets
           made(s) == [s EXCEPT !.entry[u] = Sockets!NewEntry(s.ids + 1), !.ids = @ + 1]
           without(v) == [slot1 EXCEPT !.entry[v] = None]
           e == Sockets!NewEntry(slot1.ids + 1)
<1>0. /\ slot1 \in SocketTable /\ slot1.ids \in Nat /\ max \in Nat
      /\ slot2 \in [SocketCalls -> SocketCall] /\ IdsGiven(slot1, slot2) /\ InBudget(slot1, max)
      BY SocketsAssumed DEF SocketsInv, SocketTable, Sockets!Scene, SocketSpent
<1>1. CASE slot1.entry[u] # None
      <2>1. t = slot1
            BY <1>1 DEF Sockets!TracksTo
      <2>2. u \in Sockets!Tracked(slot1)
            BY <1>1 DEF Sockets!Tracked
      <2> QED BY <2>1, <2>2, RoomAsItIs
<1>2. CASE slot1.entry[u] = None
      <2>1. e \in Sockets!Entry /\ e.conn = "idle" /\ ~e.shaking /\ ~e.retry /\ e.id = slot1.ids + 1
            BY <1>0 DEF Sockets!NewEntry, Sockets!Entry
      <2>2. u \notin Sockets!Tracked(slot1)
            BY <1>2 DEF Sockets!Tracked
      <2>3. \/ t = made(slot1) /\ Cardinality(Sockets!Tracked(slot1)) < max
            \/ \E v \in Sockets!Victims(slot1) : t = made(without(v))
            <3>1. slot1.disposed => Sockets!TracksTo(u) = {}
                  BY DEF Sockets!TracksTo
            <3>2. ~slot1.disposed => Sockets!TracksTo(u) = IF Cardinality(Sockets!Tracked(slot1)) < max THEN {made(slot1)}
                                                           ELSE {made(without(v)) : v \in Sockets!Victims(slot1)}
                  BY <1>2, SocketsCount DEF Sockets!TracksTo
            <3> HIDE DEF made, without, max
            <3> QED BY <3>1, <3>2
      <2>4. \A v \in Sockets!Victims(slot1) : /\ v \in Sockets!Tracked(slot1)
                                              /\ ~Sockets!Wanted(slot1.entry[v]) /\ ~Sockets!Busy(slot1, v)
            BY DEF Sockets!Victims, Sockets!Evictable
      <2> DEFINE P(G) == /\ G \subseteq Sockets!Tracked(slot1) /\ (G = {} \/ \E v \in G : G = {v})
                         /\ \A v \in G : ~Sockets!Wanted(slot1.entry[v]) /\ ~Sockets!Busy(slot1, v)
                         /\ G = {} => Cardinality(Sockets!Tracked(slot1)) < max
                         /\ t.ids = slot1.ids + 1 /\ t.disposed = slot1.disposed
                         /\ t.entry = [v \in SocketUrls |-> IF v = u THEN e ELSE IF v \in G THEN None ELSE slot1.entry[v]]
                         /\ t = [entry |-> t.entry, ids |-> t.ids, disposed |-> t.disposed]
      <2>5. PICK G : P(G)
            <3>1. CASE t = made(slot1) /\ Cardinality(Sockets!Tracked(slot1)) < max
                  <4>1. /\ t.ids = slot1.ids + 1 /\ t.disposed = slot1.disposed
                        /\ t.entry = [v \in SocketUrls |-> IF v = u THEN e ELSE slot1.entry[v]]
                        /\ t = [entry |-> t.entry, ids |-> t.ids, disposed |-> t.disposed]
                        BY <1>0, <3>1 DEF SocketTable
                  <4>2. P({})
                        BY <3>1, <4>1
                  <4> HIDE DEF P
                  <4> QED BY <4>2
            <3>2. ASSUME NEW v \in Sockets!Victims(slot1), t = made(without(v))
                  PROVE  /\ t.ids = slot1.ids + 1 /\ t.disposed = slot1.disposed
                         /\ t.entry = [w \in SocketUrls |-> IF w = u THEN e ELSE IF w \in {v} THEN None ELSE slot1.entry[w]]
                         /\ t = [entry |-> t.entry, ids |-> t.ids, disposed |-> t.disposed]
                  BY <1>0, <2>4, <3>2, TrackedIs DEF SocketTable
            <3>3. ASSUME NEW v \in Sockets!Victims(slot1), t = made(without(v)) PROVE P({v})
                  <4> HIDE DEF made, without, e
                  <4> QED BY <2>4, <3>2, <3>3
            <3> HIDE DEF P, made, without, max, e
            <3> QED BY <2>3, <3>1, <3>3
      <2> HIDE DEF e, max, made, without
      <2>6. t \in SocketTable
            BY <1>0, <2>1, <2>5 DEF SocketTable
      <2>7. Sockets!Tracked(t) = (Sockets!Tracked(slot1) \ G) \cup {u}
            BY <1>0, <2>1, <2>2, <2>5, SocketsAssumed DEF Sockets!Tracked
      <2>8. /\ \A v \in Sockets!Tracked(t) \ {u} : v \in Sockets!Tracked(slot1) /\ t.entry[v] = slot1.entry[v]
            /\ t.entry[u] = e
            /\ \A v \in Sockets!Tracked(slot1) : \/ t.entry[v] = slot1.entry[v]
                                                 \/ ~Sockets!Wanted(slot1.entry[v]) /\ ~Sockets!Busy(slot1, v)
            BY <1>0, <2>2, <2>5, <2>7, TrackedIs DEF SocketTable
      <2>9. IdsGiven(t, slot2)
            <3>1. \A v \in Sockets!Tracked(slot1) : slot1.entry[v].id \in Nat /\ slot1.entry[v].id <= slot1.ids
                  BY <1>0, TrackedIs DEF IdsGiven, Sockets!Entry
            <3>2. \A c \in SocketCalls : slot2[c].id \in Nat /\ slot2[c].id <= slot1.ids
                  BY <1>0 DEF IdsGiven, SocketCall
            <3>3. \A v \in Sockets!Tracked(t) : t.entry[v].id <= t.ids
                  BY <1>0, <2>1, <2>5, <2>8, <3>1
            <3>4. ASSUME NEW v \in Sockets!Tracked(t), NEW w \in Sockets!Tracked(t), t.entry[v].id = t.entry[w].id PROVE v = w
                  <4>1. v # u /\ w # u => v = w
                        BY <1>0, <2>8, <3>4 DEF IdsGiven
                  <4>2. ASSUME NEW x \in Sockets!Tracked(t), x # u PROVE t.entry[x].id # e.id
                        BY <1>0, <2>1, <2>8, <3>1, <4>2
                  <4> QED BY <2>8, <3>4, <4>1, <4>2
            <3>5. \A c \in SocketCalls : slot2[c].id <= t.ids
                  BY <1>0, <2>5, <3>2
            <3> QED BY <3>3, <3>4, <3>5 DEF IdsGiven
      <2>10. InBudget(t, max)
            <3> DEFINE T == Sockets!Tracked(slot1)
            <3>1. IsFiniteSet(T) /\ Cardinality(T) \in Nat /\ Cardinality(T) <= max
                  BY <1>0, FS_CardinalityType DEF InBudget
            <3>2. CASE G = {}
                  <4>1. IsFiniteSet(T \cup {u}) /\ Cardinality(T \cup {u}) = Cardinality(T) + 1
                        BY <2>2, <3>1, FS_AddElement
                  <4> QED BY <1>0, <2>5, <2>7, <3>1, <3>2, <4>1 DEF InBudget
            <3>3. ASSUME NEW v \in G, G = {v} PROVE InBudget(t, max)
                  <4>1. IsFiniteSet(T \ {v}) /\ Cardinality(T \ {v}) = Cardinality(T) - 1
                        BY <2>5, <3>1, <3>3, FS_RemoveElement, Zenon
                  <4>2. /\ IsFiniteSet((T \ {v}) \cup {u}) /\ Cardinality((T \ {v}) \cup {u}) = Cardinality(T \ {v}) + 1
                        BY <2>2, <4>1, FS_AddElement
                  <4> QED BY <2>7, <3>1, <3>3, <4>1, <4>2 DEF InBudget
            <3> QED BY <2>5, <3>2, <3>3
      <2>11. ASSUME NEW c \in SocketCalls, slot2[c].at = "waiting", c \notin Sockets!Lost(t)
             PROVE  Awaited(t, slot2[c])
            <3>1. PICK w \in Sockets!Tracked(t) : t.entry[w].id = slot2[c].id
                  BY <2>11 DEF Sockets!Lost
            <3>2. w # u
                  BY <1>0, <2>1, <2>8, <3>1 DEF IdsGiven, SocketCall
            <3>3. PICK v \in Sockets!Tracked(slot1) : /\ slot1.entry[v].id = slot2[c].id
                                                      /\ Coming(slot1.entry[v]) /\ slot1.entry[v].conn # "connected"
                  BY <2>11 DEF SocketsInv, Awaited
            <3>4. v = w
                  BY <1>0, <2>8, <3>1, <3>2, <3>3 DEF IdsGiven
            <3> QED BY <2>8, <3>1, <3>2, <3>3, <3>4 DEF Awaited
      <2>12. u \in Sockets!Tracked(t) /\ t.ids > slot1.ids /\ slot1.ids <= t.ids /\ t.entry[u] = Sockets!NewEntry(t.ids)
            BY <1>0, <2>5, <2>7, <2>8 DEF e
      <2>13. Shape(t.entry[u], slot3.announced)
            BY <2>1, <2>8 DEF Shape
      <2> QED BY <2>2, <2>6, <2>8, <2>9, <2>10, <2>11, <2>12, <2>13 DEF Room, max
<1> QED BY <1>1, <1>2

\* Each state is played on the scene it began on.
SameScene == slot4' \in SocketSpent /\ slot4'.scene = slot4.scene

\* An entry in its place: who waited for another still does, and for it, if it is on its way.
LEMMA StillAwaited ==
    ASSUME NEW t \in SocketTable, NEW u \in Sockets!Tracked(t), NEW e \in Sockets!Entry, e.id = t.entry[u].id,
           NEW s, s = [t EXCEPT !.entry[u] = e], NEW x, Awaited(t, x),
           x.id = t.entry[u].id /\ Coming(t.entry[u]) /\ t.entry[u].conn # "connected" => Coming(e) /\ e.conn # "connected"
    PROVE  Awaited(s, x)
<1>1. PICK v \in Sockets!Tracked(t) : /\ t.entry[v].id = x.id
                                      /\ Coming(t.entry[v]) /\ t.entry[v].conn # "connected"
      BY DEF Awaited
<1>2. u \in SocketUrls /\ v \in SocketUrls /\ s.entry = [t.entry EXCEPT ![u] = e]
      BY TrackedIs DEF SocketTable
<1>3. v \in Sockets!Tracked(s)
      BY <1>1, <1>2, SocketsAssumed DEF Sockets!Tracked, SocketTable
<1>4. s.entry[v].id = x.id /\ Coming(s.entry[v]) /\ s.entry[v].conn # "connected"
      BY <1>1, <1>2 DEF SocketTable
<1> QED BY <1>3, <1>4 DEF Awaited

\* A handler that changes one entry, in a table there is room in.
LEMMA EntryReplaced ==
    ASSUME SocketsInv, NEW t, NEW u, Room(t, u), NEW e, Sound(e, slot3.announced, Sockets!Scene.maxAttempts),
           e.id = t.entry[u].id, slot1' = [t EXCEPT !.entry[u] = e],
           slot2' \in [SocketCalls -> SocketCall], \A c \in SocketCalls : slot2'[c].id <= t.ids,
           slot3' = slot3, SameScene,
           \A c \in SocketCalls : slot2'[c].at = "waiting" => Awaited(slot1', slot2'[c])
    PROVE  SocketsInv' /\ Sockets!HeldStay
<1>1. t \in SocketTable /\ u \in Sockets!Tracked(t) /\ u \in SocketUrls /\ e \in Sockets!Entry
      BY TrackedIs DEF Room, Sound
<1>2. /\ slot1' \in SocketTable /\ slot1'.ids = t.ids
      /\ slot1'.entry = [t.entry EXCEPT ![u] = e]
      BY <1>1 DEF SocketTable
<1>3. Sockets!Tracked(slot1') = Sockets!Tracked(t)
      BY <1>1, <1>2, SocketsAssumed DEF Sockets!Tracked, SocketTable
<1>4. \A v \in Sockets!Tracked(t) : v \in SocketUrls /\ slot1'.entry[v] = IF v = u THEN e ELSE t.entry[v]
      BY <1>1, <1>2, TrackedIs DEF SocketTable
<1>5. IdsGiven(slot1', slot2')
      BY <1>1, <1>2, <1>3, <1>4 DEF Room, IdsGiven
<1>6. Sockets!Scene' = Sockets!Scene
      BY DEF Sockets!Scene, SameScene
<1>7. InBudget(slot1', Sockets!Scene'.maxSockets)
      BY <1>3, <1>6 DEF Room, InBudget
<1>8. \A v \in Sockets!Tracked(slot1') : Sound(slot1'.entry[v], slot3'.announced, Sockets!Scene'.maxAttempts)
      BY <1>3, <1>4, <1>6 DEF Room, SocketsInv
<1>9. SocketsInv'
      BY <1>2, <1>5, <1>7, <1>8 DEF SocketsInv, SameScene
<1>10. ASSUME NEW v \in Sockets!Tracked(slot1)
       PROVE  \/ slot1'.entry[v] # None /\ slot1'.entry[v].id = slot1.entry[v].id
              \/ ~Sockets!Wanted(slot1.entry[v]) /\ ~Sockets!Busy(slot1, v)
      <2>0. v \in SocketUrls /\ slot1.entry[v] # None
            BY DEF Sockets!Tracked
      <2>1. CASE t.entry[v] = slot1.entry[v]
            <3>1. v \in Sockets!Tracked(t)
                  BY <2>0, <2>1 DEF Sockets!Tracked
            <3>2. slot1'.entry[v] # None
                  BY <1>3, <3>1 DEF Sockets!Tracked
            <3> QED BY <1>4, <2>1, <3>1, <3>2
      <2>2. CASE ~(t.entry[v] = slot1.entry[v])
            BY <2>2 DEF Room
      <2> QED BY <2>1, <2>2
<1>11. Sockets!Cardinality(Sockets!Tracked(slot1')) <= Sockets!Scene.maxSockets
      BY <1>6, <1>7, SocketsCount DEF InBudget
<1> QED BY <1>9, <1>10, <1>11 DEF Sockets!HeldStay

\* A handler that closes an entry for good, and tells who waited for it.
LEMMA EntryGone ==
    ASSUME SocketsInv, NEW u \in Sockets!Tracked(slot1), slot1' = [slot1 EXCEPT !.entry[u] = None],
           slot2' = Sockets!Settle(Sockets!Of(slot1, u), "closed"), slot3' = slot3, SameScene,
           \/ ~Sockets!Wanted(slot1.entry[u]) /\ ~Sockets!Busy(slot1, u)
           \/ slot4'.disconnects < slot4.disconnects /\ slot1.entry[u].subs = 0
    PROVE  SocketsInv' /\ Sockets!HeldStay
<1> DEFINE T == Sockets!Tracked(slot1)
<1>1. /\ slot1 \in SocketTable /\ u \in SocketUrls /\ slot2 \in [SocketCalls -> SocketCall]
      BY DEF SocketsInv, Sockets!Tracked
<1>2. /\ slot1' \in SocketTable /\ slot1'.ids = slot1.ids /\ slot1'.entry = [slot1.entry EXCEPT ![u] = None]
      BY <1>1 DEF SocketTable
<1>3. Sockets!Tracked(slot1') = T \ {u} /\ \A v \in T \ {u} : slot1'.entry[v] = slot1.entry[v]
      BY <1>1, <1>2 DEF Sockets!Tracked, SocketTable
<1>4. /\ slot2' \in [SocketCalls -> SocketCall]
      /\ \A c \in SocketCalls : /\ slot2'[c].id = slot2[c].id
                                /\ slot2'[c].at = "waiting" => slot2'[c] = slot2[c] /\ c \notin Sockets!Of(slot1, u)
      BY <1>1, Settled
<1>5. IdsGiven(slot1', slot2')
      BY <1>2, <1>3, <1>4 DEF SocketsInv, IdsGiven
<1>6. Sockets!Scene' = Sockets!Scene /\ Sockets!Scene.maxSockets \in Nat
      BY SocketsAssumed DEF Sockets!Scene, SameScene, SocketsInv, SocketSpent
<1>7. InBudget(slot1', Sockets!Scene'.maxSockets)
      <2>1. IsFiniteSet(T) /\ Cardinality(T) \in Nat /\ Cardinality(T) <= Sockets!Scene.maxSockets
            BY FS_CardinalityType DEF SocketsInv, InBudget
      <2>2. IsFiniteSet(T \ {u}) /\ Cardinality(T \ {u}) = Cardinality(T) - 1
            BY <2>1, FS_RemoveElement, Zenon
      <2>3. Cardinality(T \ {u}) <= Sockets!Scene.maxSockets
            <3> DEFINE m == Sockets!Scene.maxSockets
                       n == Cardinality(T)
            <3>1. n \in Nat /\ m \in Nat /\ n <= m /\ Cardinality(T \ {u}) = n - 1
                  BY <1>6, <2>1, <2>2
            <3> HIDE DEF m, n
            <3>2. n - 1 <= m
                  BY <3>1
            <3> QED BY <3>1, <3>2 DEF m
      <2> QED BY <1>3, <1>6, <2>2, <2>3 DEF InBudget
<1>8. \A v \in Sockets!Tracked(slot1') : Sound(slot1'.entry[v], slot3'.announced, Sockets!Scene'.maxAttempts)
      BY <1>3, <1>6 DEF SocketsInv
<1>9. ASSUME NEW c \in SocketCalls, slot2'[c].at = "waiting" PROVE Awaited(slot1', slot2'[c])
      <2>1. slot2'[c] = slot2[c] /\ slot2[c].at = "waiting" /\ slot2[c].id # slot1.entry[u].id
            BY <1>4, <1>9, WaitsElsewhere
      <2>2. PICK v \in T : /\ slot1.entry[v].id = slot2[c].id
                           /\ Coming(slot1.entry[v]) /\ slot1.entry[v].conn # "connected"
            BY <2>1 DEF SocketsInv, Awaited
      <2> QED BY <1>3, <2>1, <2>2 DEF Awaited
<1>10. SocketsInv'
      BY <1>2, <1>4, <1>5, <1>7, <1>8, <1>9 DEF SocketsInv, SameScene
<1>11. ASSUME NEW v \in T
       PROVE  \/ slot1'.entry[v] # None /\ slot1'.entry[v].id = slot1.entry[v].id
              \/ ~Sockets!Wanted(slot1.entry[v]) /\ ~Sockets!Busy(slot1, v)
              \/ slot4'.disconnects < slot4.disconnects /\ slot1.entry[v].subs = 0
      BY <1>3 DEF Sockets!Tracked
<1>12. Sockets!Cardinality(Sockets!Tracked(slot1')) <= Sockets!Scene.maxSockets
      BY <1>6, <1>7, SocketsCount DEF InBudget
<1> QED BY <1>10, <1>11, <1>12 DEF Sockets!HeldStay

\* A handler that leaves the table alone.
LEMMA TableStays ==
    ASSUME SocketsInv, slot1' = slot1, slot2' \in [SocketCalls -> SocketCall], SameScene,
           slot3' \in [online : BOOLEAN, announced : BOOLEAN], ~slot3'.online => ~slot3'.announced,
           slot3'.announced => slot3.announced,
           \A c \in SocketCalls : /\ slot2'[c].id <= slot1.ids
                                  /\ slot2'[c].at = "waiting" => slot2'[c] = slot2[c]
    PROVE  SocketsInv' /\ Sockets!HeldStay
<1>1. Sockets!Scene' = Sockets!Scene
      BY DEF Sockets!Scene, SameScene
<1>2. \A v \in Sockets!Tracked(slot1') : Sound(slot1'.entry[v], slot3'.announced, Sockets!Scene'.maxAttempts)
      BY <1>1 DEF SocketsInv, Sound, Shape
<1>3. \A c \in SocketCalls : slot2'[c].at = "waiting" => Awaited(slot1', slot2'[c])
      BY DEF SocketsInv, Awaited
<1>4. IdsGiven(slot1', slot2') /\ InBudget(slot1', Sockets!Scene'.maxSockets)
      BY <1>1 DEF SocketsInv, IdsGiven
<1>5. SocketsInv'
      BY <1>2, <1>3, <1>4 DEF SocketsInv, SameScene
<1>6. Sockets!Cardinality(Sockets!Tracked(slot1')) <= Sockets!Scene.maxSockets
      BY <1>1, <1>4, SocketsCount DEF InBudget
<1> QED BY <1>5, <1>6 DEF Sockets!HeldStay, Sockets!Tracked

----------------------------------------------------------------------------
(* Callers of the socket table.                                            *)

SocketStep == SocketsInv' /\ Sockets!HeldStay

LEMMA SocketSpends ==
    ASSUME SocketsInv, NEW what \in {"calls", "subs", "disconnects", "recycles", "rebinds", "ends", "failures", "drops", "offline"},
           Sockets!Spend(what)
    PROVE  /\ SameScene
           /\ what = "disconnects" => slot4'.disconnects < slot4.disconnects
           /\ what = "ends" => slot4'.ends # slot4.ends
<1>1. slot4 \in SocketSpent /\ slot4' = [slot4 EXCEPT ![what] = @ - 1] /\ slot4[what] > 0
      BY DEF SocketsInv, Sockets!Spend
<1>2. slot4[what] \in Nat /\ slot4[what] - 1 \in Nat /\ slot4[what] - 1 < slot4[what]
      BY <1>1 DEF SocketSpent
<1> QED BY <1>1, <1>2 DEF SameScene, SocketSpent

LEMMA SceneStays == ASSUME SocketsInv, slot4' = slot4 PROVE SameScene
BY DEF SocketsInv, SameScene

\* An entry that was ensured for somebody is held by him, and connect() waits for no retry.
LEMMA Engaged ==
    ASSUME NEW a, NEW tries, NEW g \in Sockets!Entry, Shape(g, a), Coming(g), ~g.grace,
           NEW h \in Sockets!Entry, h.id = g.id, h.conn = g.conn, h.shaking = g.shaking, h.retry = g.retry, h.grace = g.grace,
           NEW e, e = h \/ (h.retry /\ e = Sockets!Start([h EXCEPT !.retry = FALSE]))
    PROVE  /\ Sound(e, a, tries) /\ e.id = g.id /\ Coming(e)
           /\ e.conn = "connected" => g.conn = "connected"
<1>2. Shape(h, a) /\ Coming(h)
      BY DEF Shape, Coming
<1>3. CASE e # h
      <2> DEFINE j == [h EXCEPT !.retry = FALSE]
      <2>1. /\ j \in Sockets!Entry /\ j.id = g.id /\ j.conn = g.conn /\ j.shaking = g.shaking /\ j.retry = FALSE
            /\ j.grace = g.grace
            BY DEF Sockets!Entry
      <2>2. e = Sockets!Start(j)
            BY <1>3
      <2> HIDE DEF j
      <2>3. /\ e \in Sockets!Entry /\ Shape(e, a) /\ e.id = j.id /\ ~e.grace /\ Coming(e)
            /\ e.conn = "connected" => j.conn = "connected"
            BY <2>1, <2>2, StartComes DEF Shape, Same, Coming
      <2> QED BY <2>1, <2>3 DEF Sound, Kept
<1>4. CASE e = h
      BY <1>2, <1>4 DEF Sound, Kept
<1> QED BY <1>3, <1>4

\* Who waits after room was made, and an entry for u engaged, waits for what is on its way.
LEMMA RoomAwaited ==
    ASSUME SocketsInv, NEW t, NEW u, Room(t, u), NEW e, Sound(e, slot3.announced, Sockets!Scene.maxAttempts),
           e.id = t.entry[u].id, Coming(e), e.conn = "connected" => t.entry[u].conn = "connected",
           slot1' = [t EXCEPT !.entry[u] = e],
           NEW c \in SocketCalls, slot2[c].at = "waiting", c \notin Sockets!Lost(t)
    PROVE  Awaited(slot1', slot2[c])
<1>1. Awaited(t, slot2[c]) /\ t \in SocketTable /\ u \in Sockets!Tracked(t) /\ e \in Sockets!Entry
      BY DEF Room, Sound
<1> QED BY <1>1, StillAwaited

\* Rejecting: the calls of the entry that made room are told, and the others are as k has them.
LEMMA Rejects ==
    ASSUME slot2 \in [SocketCalls -> SocketCall], NEW t, NEW k \in [SocketCalls -> SocketCall]
    PROVE  /\ Sockets!Rejecting(t, k) \in [SocketCalls -> SocketCall]
           /\ \A c \in SocketCalls :
                 IF c \in Sockets!Lost(t)
                 THEN /\ Sockets!Rejecting(t, k)[c].at = "done" /\ Sockets!Rejecting(t, k)[c].id = slot2[c].id
                 ELSE Sockets!Rejecting(t, k)[c] = k[c]
<1> DEFINE gone(c) == [slot2[c] EXCEPT !.at = "done", !.how = "closed"]
<1>1. \A c \in SocketCalls : gone(c) \in SocketCall /\ gone(c).at = "done" /\ gone(c).id = slot2[c].id
      BY DEF SocketCall
<1>2. Sockets!Rejecting(t, k) = [c \in SocketCalls |-> IF c \in Sockets!Lost(t) THEN gone(c) ELSE k[c]]
      BY DEF Sockets!Rejecting
<1> HIDE DEF gone
<1> QED BY <1>1, <1>2

\* connect(), relayFor() and publish().
LEMMA BeginStep ==
    ASSUME SocketsInv, NEW c \in SocketCalls, NEW u \in SocketUrls, NEW do \in {"connect", "relayFor", "publish"},
           Sockets!Begin(c, do, u)
    PROVE  SocketStep
<1>0. /\ slot2[c].at = "idle" /\ slot3' = slot3 /\ SameScene /\ slot2 \in [SocketCalls -> SocketCall]
      /\ slot1 \in SocketTable /\ slot3 \in [online : BOOLEAN, announced : BOOLEAN] /\ (~slot3.online => ~slot3.announced)
      BY SocketSpends DEF Sockets!Begin, SocketsInv
<1>1. CASE Sockets!TracksTo(u) = {}
      <2> DEFINE x == [at |-> "done", do |-> do, id |-> 0, how |-> "refused"]
      <2>1. slot1' = slot1 /\ slot2' = [slot2 EXCEPT ![c] = x]
            BY <1>1 DEF Sockets!Begin
      <2>2. x \in SocketCall /\ x.at = "done" /\ x.id = 0
            BY DEF SocketCall
      <2> HIDE DEF x
      <2>3. \A d \in SocketCalls : slot2'[d].id <= slot1.ids
            BY <1>0, <2>1, <2>2 DEF SocketsInv, IdsGiven, SocketTable
      <2>4. /\ slot2' \in [SocketCalls -> SocketCall]
            /\ \A d \in SocketCalls : slot2'[d].at = "waiting" => slot2'[d] = slot2[d]
            BY <1>0, <2>1, <2>2
      <2> QED BY <1>0, <2>1, <2>3, <2>4, TableStays DEF SocketStep
<1>2. CASE Sockets!TracksTo(u) # {}
      <2> DEFINE g(t) == Sockets!Ensured(t.entry[u])
                 h(t) == [g(t) EXCEPT !.explicit = @ \/ do = "connect"]
                 e(t) == IF do = "connect" /\ h(t).retry THEN Sockets!Start([h(t) EXCEPT !.retry = FALSE]) ELSE h(t)
                 at(t) == IF e(t).conn # "connected" THEN "waiting"
                          ELSE IF do # "publish" THEN "done" ELSE IF Sockets!Scene.authFirst THEN "auth" ELSE "sent"
      <2>1. PICK t \in Sockets!TracksTo(u) :
               /\ slot1' = [t EXCEPT !.entry[u] = e(t)]
               /\ slot2' = Sockets!Rejecting(t, Sockets!Started(c, do, u, e(t), at(t), "up"))
            BY <1>2, Zenon DEF Sockets!Begin
      <2>2. Room(t, u)
            BY TrackMakesRoom
      <2>3. t.entry[u] \in Sockets!Entry /\ Shape(t.entry[u], slot3.announced) /\ t \in SocketTable /\ u \in Sockets!Tracked(t)
            BY <2>2, TrackedIs DEF Room
      <2>4. /\ g(t) \in Sockets!Entry /\ Shape(g(t), slot3.announced) /\ Coming(g(t)) /\ ~g(t).grace /\ g(t).id = t.entry[u].id
            /\ g(t).conn = "connected" => t.entry[u].conn = "connected"
            BY <1>0, <2>3, EnsuredComes DEF Same
      <2> HIDE DEF g
      <2>5. /\ h(t) \in Sockets!Entry /\ h(t).id = g(t).id /\ h(t).conn = g(t).conn /\ h(t).shaking = g(t).shaking
            /\ h(t).retry = g(t).retry /\ h(t).grace = g(t).grace
            <3>1. PICK x \in BOOLEAN : h(t) = [g(t) EXCEPT !.explicit = x]
                  OBVIOUS
            <3> QED BY <2>4, <3>1 DEF Sockets!Entry
      <2>6. e(t) = h(t) \/ (h(t).retry /\ e(t) = Sockets!Start([h(t) EXCEPT !.retry = FALSE]))
            OBVIOUS
      <2> HIDE DEF h, e
      <2>7. /\ Sound(e(t), slot3.announced, Sockets!Scene.maxAttempts) /\ e(t).id = g(t).id /\ Coming(e(t))
            /\ e(t).conn = "connected" => g(t).conn = "connected"
            BY <2>4, <2>5, <2>6, Engaged
      <2> DEFINE x == [at |-> at(t), do |-> do, id |-> e(t).id, how |-> "up"]
                 k == [slot2 EXCEPT ![c] = x]
      <2>8. /\ x \in SocketCall /\ x.id = t.entry[u].id /\ (x.at = "waiting" => e(t).conn # "connected")
            BY <2>3, <2>4, <2>7 DEF SocketCall, Sound, Sockets!Entry
      <2>9. slot2' = Sockets!Rejecting(t, k)
            BY <2>1 DEF Sockets!Started
      <2>10. /\ k \in [SocketCalls -> SocketCall] /\ k[c] = x /\ \A d \in SocketCalls \ {c} : k[d] = slot2[d]
            <3> HIDE DEF x
            <3> QED BY <1>0, <2>8
      <2> HIDE DEF x, k, at
      <2>11. slot2' \in [SocketCalls -> SocketCall]
            BY <1>0, <2>9, <2>10, Rejects
      <2>12. \A d \in SocketCalls : IF d \in Sockets!Lost(t) THEN slot2'[d].at = "done" /\ slot2'[d].id = slot2[d].id
                                    ELSE slot2'[d] = k[d]
            BY <1>0, <2>9, <2>10, Rejects
      <2>13. \A d \in SocketCalls : slot2'[d].id <= t.ids
            <3>1. x.id <= t.ids /\ \A d \in SocketCalls : slot2[d].id <= t.ids
                  BY <2>2, <2>3, <2>8 DEF Room, IdsGiven
            <3> QED BY <2>10, <2>12, <3>1
      <2>14. ASSUME NEW d \in SocketCalls, slot2'[d].at = "waiting" PROVE Awaited(slot1', slot2'[d])
            <3>1. d \notin Sockets!Lost(t) /\ slot2'[d] = k[d]
                  BY <2>12, <2>14
            <3>2. CASE d = c
                  <4>1. slot2'[d].id = t.entry[u].id /\ e(t).conn # "connected"
                        BY <2>8, <2>10, <2>14, <3>1, <3>2
                  <4>2. slot1'.entry[u] = e(t)
                        BY <2>1, <2>3 DEF SocketTable
                  <4>3. u \in Sockets!Tracked(slot1')
                        BY <2>7, <4>2, SocketsAssumed DEF Sockets!Tracked, Sound
                  <4> QED BY <2>4, <2>7, <4>1, <4>2, <4>3 DEF Awaited
            <3>3. CASE d # c
                  <4>1. slot2'[d] = slot2[d]
                        BY <2>10, <3>1, <3>3
                  <4> QED BY <2>1, <2>2, <2>4, <2>7, <2>14, <3>1, <4>1, RoomAwaited
            <3> QED BY <3>2, <3>3
      <2> QED BY <1>0, <2>1, <2>2, <2>4, <2>7, <2>11, <2>13, <2>14, EntryReplaced DEF SocketStep
<1> QED BY <1>1, <1>2

\* A live subscription comes.
LEMMA SubscribedStep ==
    ASSUME SocketsInv, NEW u \in SocketUrls, Sockets!Subscribed(u)
    PROVE  SocketStep
<1>0. /\ slot3' = slot3 /\ SameScene /\ slot2 \in [SocketCalls -> SocketCall]
      /\ slot3 \in [online : BOOLEAN, announced : BOOLEAN] /\ (~slot3.online => ~slot3.announced)
      BY SocketSpends DEF Sockets!Subscribed, SocketsInv
<1> DEFINE g(t) == Sockets!Ensured(t.entry[u])
           e(t) == [g(t) EXCEPT !.subs = @ + 1]
<1>1. PICK t \in Sockets!TracksTo(u) : slot1' = [t EXCEPT !.entry[u] = e(t)] /\ slot2' = Sockets!Rejecting(t, slot2)
      BY DEF Sockets!Subscribed
<1>2. Room(t, u)
      BY TrackMakesRoom
<1>3. t.entry[u] \in Sockets!Entry /\ Shape(t.entry[u], slot3.announced)
      BY <1>2, TrackedIs DEF Room
<1>4. /\ g(t) \in Sockets!Entry /\ Shape(g(t), slot3.announced) /\ Coming(g(t)) /\ ~g(t).grace /\ g(t).id = t.entry[u].id
      /\ g(t).conn = "connected" => t.entry[u].conn = "connected"
      BY <1>0, <1>3, EnsuredComes DEF Same
<1> HIDE DEF g
<1>5. /\ e(t) \in Sockets!Entry /\ e(t).id = g(t).id /\ e(t).conn = g(t).conn /\ e(t).shaking = g(t).shaking
      /\ e(t).retry = g(t).retry /\ e(t).grace = g(t).grace
      <2>1. PICK n \in Nat : e(t) = [g(t) EXCEPT !.subs = n]
            <3>1. g(t).subs + 1 \in Nat
                  BY <1>4 DEF Sockets!Entry
            <3>2. e(t) = [g(t) EXCEPT !.subs = g(t).subs + 1]
                  OBVIOUS
            <3> QED BY <3>1, <3>2
      <2> QED BY <1>4, <2>1 DEF Sockets!Entry
<1> HIDE DEF e
<1>6. Sound(e(t), slot3.announced, Sockets!Scene.maxAttempts) /\ Coming(e(t))
      BY <1>4, <1>5 DEF Sound, Shape, Kept, Coming
<1>7. slot2' \in [SocketCalls -> SocketCall]
      BY <1>0, <1>1, Rejects
<1>8. \A d \in SocketCalls : IF d \in Sockets!Lost(t) THEN slot2'[d].at = "done" /\ slot2'[d].id = slot2[d].id
                             ELSE slot2'[d] = slot2[d]
      BY <1>0, <1>1, Rejects
<1>9. \A d \in SocketCalls : slot2'[d].id <= t.ids
      BY <1>2, <1>8 DEF Room, IdsGiven
<1>10. ASSUME NEW d \in SocketCalls, slot2'[d].at = "waiting" PROVE Awaited(slot1', slot2'[d])
      <2>1. d \notin Sockets!Lost(t) /\ slot2'[d] = slot2[d]
            BY <1>8, <1>10
      <2> QED BY <1>1, <1>2, <1>4, <1>5, <1>6, <1>10, <2>1, RoomAwaited
<1> QED BY <1>0, <1>1, <1>2, <1>4, <1>5, <1>6, <1>7, <1>9, <1>10, EntryReplaced DEF SocketStep

----------------------------------------------------------------------------
(* The owners of a socket, and the network.                                *)

\* One entry moves; who is not told and waits for it waits for what is on its way.
LEMMA EntryMoves ==
    ASSUME SocketsInv, NEW u \in Sockets!Tracked(slot1), NEW e, Sound(e, slot3.announced, Sockets!Scene.maxAttempts),
           e.id = slot1.entry[u].id, slot1' = [slot1 EXCEPT !.entry[u] = e],
           slot2' \in [SocketCalls -> SocketCall], slot3' = slot3, SameScene,
           \A c \in SocketCalls :
              /\ slot2'[c].id = slot2[c].id
              /\ slot2'[c].at = "waiting" =>
                    /\ slot2'[c] = slot2[c]
                    /\ slot2[c].id = slot1.entry[u].id /\ Coming(slot1.entry[u]) /\ slot1.entry[u].conn # "connected"
                          => Coming(e) /\ e.conn # "connected"
    PROVE  SocketStep
<1>1. Room(slot1, u)
      BY RoomAsItIs
<1>2. \A c \in SocketCalls : slot2'[c].id <= slot1.ids
      BY DEF SocketsInv, IdsGiven
<1>3. slot1 \in SocketTable /\ e \in Sockets!Entry
      BY DEF SocketsInv, Sound
<1>4. ASSUME NEW c \in SocketCalls, slot2'[c].at = "waiting" PROVE Awaited(slot1', slot2'[c])
      <2>1. Awaited(slot1, slot2[c])
            BY <1>4 DEF SocketsInv
      <2> QED BY <1>3, <1>4, <2>1, StillAwaited
<1> QED BY <1>1, <1>2, <1>4, EntryReplaced DEF SocketStep

\* An entry of the table, and what its invariant says of it.
LEMMA EntryIs ==
    ASSUME SocketsInv, NEW u \in Sockets!Tracked(slot1)
    PROVE  /\ Sound(slot1.entry[u], slot3.announced, Sockets!Scene.maxAttempts)
           /\ slot1.entry[u] \in Sockets!Entry /\ u \in SocketUrls /\ slot1 \in SocketTable
           /\ Sockets!Scene.maxAttempts \in Nat
BY SocketsAssumed DEF SocketsInv, Sound, Sockets!Tracked, Sockets!Scene, SocketSpent

LEMMA UnsubscribedStep ==
    ASSUME SocketsInv, NEW u \in SocketUrls, Sockets!Unsubscribed(u) PROVE SocketStep
<1> DEFINE o == slot1.entry[u]
           e == [o EXCEPT !.subs = @ - 1]
<1>1. /\ u \in Sockets!Tracked(slot1) /\ o.subs > 0 /\ slot2' = slot2 /\ slot3' = slot3 /\ slot4' = slot4
      /\ slot1' = [slot1 EXCEPT !.entry[u].subs = @ - 1]
      BY DEF Sockets!Unsubscribed
<1>2. Sound(o, slot3.announced, Sockets!Scene.maxAttempts) /\ o \in Sockets!Entry /\ slot1 \in SocketTable
      BY <1>1, EntryIs
<1>3. slot1' = [slot1 EXCEPT !.entry[u] = e]
      BY <1>1, <1>2 DEF SocketTable
<1>4. PICK n \in Nat : e = [o EXCEPT !.subs = n]
      <2>1. o.subs - 1 \in Nat
            BY <1>1, <1>2 DEF Sockets!Entry
      <2> QED BY <2>1
<1> HIDE DEF o, e
<1>5. /\ e \in Sockets!Entry /\ e.id = o.id /\ e.conn = o.conn /\ e.shaking = o.shaking /\ e.retry = o.retry
      /\ e.grace = o.grace /\ e.explicit = o.explicit /\ e.attempt = o.attempt
      BY <1>2, <1>4 DEF Sockets!Entry
<1>6. Sockets!Wanted(o)
      BY <1>1 DEF Sockets!Wanted
<1>7. Sound(e, slot3.announced, Sockets!Scene.maxAttempts) /\ (Coming(o) => Coming(e))
      BY <1>2, <1>5, <1>6 DEF Sound, Shape, Kept, Coming
<1> QED BY <1>1, <1>3, <1>5, <1>7, EntryMoves, SceneStays DEF SocketsInv, o

LEMMA DisconnectStep ==
    ASSUME SocketsInv, NEW u \in SocketUrls, NEW graceful \in BOOLEAN, Sockets!Disconnect(u, graceful) PROVE SocketStep
<1> DEFINE o == slot1.entry[u]
           e == [o EXCEPT !.explicit = FALSE]
           f == [e EXCEPT !.grace = TRUE]
<1>1. u \in Sockets!Tracked(slot1) /\ slot3' = slot3 /\ SameScene /\ slot4'.disconnects < slot4.disconnects
      BY SocketSpends DEF Sockets!Disconnect
<1>2. Sound(o, slot3.announced, Sockets!Scene.maxAttempts) /\ o \in Sockets!Entry /\ slot1 \in SocketTable
      BY <1>1, EntryIs
<1>3. /\ e \in Sockets!Entry /\ e.id = o.id /\ e.conn = o.conn /\ e.shaking = o.shaking /\ e.retry = o.retry
      /\ e.grace = o.grace /\ e.explicit = FALSE /\ e.attempt = o.attempt /\ e.subs = o.subs
      BY <1>2 DEF Sockets!Entry
<1>4. /\ f \in Sockets!Entry /\ f.id = o.id /\ f.conn = o.conn /\ f.shaking = o.shaking /\ f.retry = o.retry
      /\ f.explicit = FALSE /\ f.attempt = o.attempt /\ f.subs = o.subs
      BY <1>2 DEF Sockets!Entry
<1>5. CASE e.subs > 0 \/ graceful
      <2>1. slot1' = [slot1 EXCEPT !.entry[u] = IF e.subs > 0 THEN e ELSE f] /\ slot2' = slot2
            BY <1>5 DEF Sockets!Disconnect
      <2> HIDE DEF e, f
      <2>2. PICK g : /\ slot1' = [slot1 EXCEPT !.entry[u] = g] /\ g \in {e, f} /\ (g.subs = 0 \/ g = e)
            <3> DEFINE x == IF e.subs > 0 THEN e ELSE f
            <3>1. x \in {e, f} /\ (f.subs = 0 \/ x = e)
                  <4>1. e.subs \in Nat /\ f.subs = e.subs
                        BY <1>3, <1>4 DEF Sockets!Entry
                  <4> QED BY <4>1
            <3>2. x.subs = 0 \/ x = e
                  BY <3>1
            <3> HIDE DEF x
            <3>3. slot1' = [slot1 EXCEPT !.entry[u] = x]
                  BY <2>1 DEF x
            <3> QED BY <3>1, <3>2, <3>3
      <2>3. o.subs \in Nat /\ g \in Sockets!Entry /\ g.id = o.id /\ g.conn = o.conn /\ g.shaking = o.shaking /\ g.retry = o.retry
            /\ g.explicit = FALSE /\ g.attempt = o.attempt /\ g.subs = o.subs /\ (g.grace = o.grace \/ g.subs = 0)
            BY <1>2, <1>3, <1>4, <2>2 DEF Sockets!Entry
      <2> HIDE DEF o
      <2>4. Sound(g, slot3.announced, Sockets!Scene.maxAttempts) /\ (Coming(o) => Coming(g))
            BY <1>2, <2>3 DEF Sound, Shape, Kept, Coming, Sockets!Wanted
      <2> QED BY <1>1, <2>1, <2>2, <2>3, <2>4, EntryMoves DEF SocketsInv, o
<1>6. CASE ~(e.subs > 0 \/ graceful)
      <2>1. slot1' = [slot1 EXCEPT !.entry[u] = None] /\ slot2' = Sockets!Settle(Sockets!Of(slot1, u), "closed")
            BY <1>6 DEF Sockets!Disconnect, Sockets!Closed
      <2>2. o.subs = 0
            BY <1>2, <1>3, <1>6 DEF Sockets!Entry
      <2> QED BY <1>1, <2>1, <2>2, EntryGone DEF SocketStep
<1> QED BY <1>5, <1>6

LEMMA GraceEndsStep ==
    ASSUME SocketsInv, NEW u \in SocketUrls, Sockets!GraceEnds(u) PROVE SocketStep
<1> DEFINE o == slot1.entry[u]
           e == [o EXCEPT !.grace = FALSE]
<1>1. u \in Sockets!Tracked(slot1) /\ slot3' = slot3 /\ slot4' = slot4
      BY DEF Sockets!GraceEnds
<1>2. Sound(o, slot3.announced, Sockets!Scene.maxAttempts) /\ o \in Sockets!Entry /\ slot1 \in SocketTable
      BY <1>1, EntryIs
<1>3. CASE Sockets!Wanted(o) \/ Sockets!Busy(slot1, u)
      <2>1. slot1' = [slot1 EXCEPT !.entry[u].grace = FALSE] /\ slot2' = slot2
            BY <1>3 DEF Sockets!GraceEnds
      <2>2. slot1' = [slot1 EXCEPT !.entry[u] = e]
            BY <1>2, <2>1 DEF SocketTable
      <2>3. /\ e \in Sockets!Entry /\ e.id = o.id /\ e.conn = o.conn /\ e.shaking = o.shaking /\ e.retry = o.retry
            /\ ~e.grace /\ e.explicit = o.explicit /\ e.attempt = o.attempt /\ e.subs = o.subs
            BY <1>2 DEF Sockets!Entry
      <2> HIDE DEF o, e
      <2>4. Sound(e, slot3.announced, Sockets!Scene.maxAttempts) /\ (Coming(o) => Coming(e))
            BY <1>2, <2>3 DEF Sound, Shape, Kept, Coming, Sockets!Wanted
      <2> QED BY <1>1, <2>1, <2>2, <2>3, <2>4, EntryMoves, SceneStays DEF SocketsInv, o
<1>4. CASE ~(Sockets!Wanted(o) \/ Sockets!Busy(slot1, u))
      <2>1. slot1' = [slot1 EXCEPT !.entry[u] = None] /\ slot2' = Sockets!Settle(Sockets!Of(slot1, u), "closed")
            BY <1>4 DEF Sockets!GraceEnds, Sockets!Closed
      <2> QED BY <1>1, <1>4, <2>1, EntryGone, SceneStays DEF SocketStep
<1> QED BY <1>3, <1>4

LEMMA RecycleStep ==
    ASSUME SocketsInv, NEW u \in SocketUrls, Sockets!Recycle(u) PROVE SocketStep
<1> DEFINE o == slot1.entry[u]
           e == Sockets!Again(o)
<1>1. /\ u \in Sockets!Tracked(slot1) /\ slot3' = slot3 /\ SameScene
      /\ slot1' = [slot1 EXCEPT !.entry[u] = e] /\ slot2' = Sockets!Settle(Sockets!Of(slot1, u), "closed")
      BY SocketSpends DEF Sockets!Recycle, Sockets!Closed
<1>2. o \in Sockets!Entry
      BY <1>1, EntryIs
<1>3. Sound(e, slot3.announced, Sockets!Scene.maxAttempts) /\ e.id = o.id
      BY <1>2, AgainComes DEF Same
<1>4. /\ slot2' \in [SocketCalls -> SocketCall]
      /\ \A c \in SocketCalls : /\ slot2'[c].id = slot2[c].id
                                /\ slot2'[c].at = "waiting" => slot2'[c] = slot2[c] /\ c \notin Sockets!Of(slot1, u)
      BY <1>1, Settled DEF SocketsInv
<1>5. \A c \in SocketCalls : slot2'[c].at = "waiting" => slot2[c].id # o.id
      BY <1>1, <1>4, WaitsElsewhere
<1> HIDE DEF e
<1> QED BY <1>1, <1>3, <1>4, <1>5, EntryMoves

LEMMA RetryFiresStep ==
    ASSUME SocketsInv, NEW u \in SocketUrls, Sockets!RetryFires(u) PROVE SocketStep
<1> DEFINE o == slot1.entry[u]
           j == [o EXCEPT !.retry = FALSE]
           e == Sockets!Start(j)
<1>1. /\ u \in Sockets!Tracked(slot1) /\ slot2' = slot2 /\ slot3' = slot3 /\ slot4' = slot4 /\ o.retry
      /\ slot1' = [slot1 EXCEPT !.entry[u] = e]
      BY DEF Sockets!RetryFires, Sockets!Set
<1>2. Sound(o, slot3.announced, Sockets!Scene.maxAttempts) /\ o \in Sockets!Entry
      BY <1>1, EntryIs
<1>3. /\ j \in Sockets!Entry /\ j.id = o.id /\ j.conn = o.conn /\ j.shaking = o.shaking /\ j.retry = FALSE
      /\ j.grace = o.grace /\ j.explicit = o.explicit /\ j.subs = o.subs
      BY <1>2 DEF Sockets!Entry
<1> HIDE DEF j
<1>4. /\ e \in Sockets!Entry /\ Shape(e, slot3.announced) /\ Same(e, j) /\ Coming(e)
      /\ e.conn = "connected" => j.conn = "connected"
      /\ e.grace => j.grace
      BY <1>2, <1>3, StartComes DEF Sound, Shape, Coming
<1> HIDE DEF o, e
<1>5. Sound(e, slot3.announced, Sockets!Scene.maxAttempts) /\ e.id = o.id
      BY <1>2, <1>3, <1>4 DEF Sound, Kept, Same, Sockets!Wanted
<1> QED BY <1>1, <1>3, <1>4, <1>5, EntryMoves, SceneStays DEF SocketsInv, o

LEMMA OpenedStep ==
    ASSUME SocketsInv, NEW u \in SocketUrls, Sockets!Opened(u) PROVE SocketStep
<1> DEFINE o == slot1.entry[u]
           e == [o EXCEPT !.shaking = FALSE, !.been = TRUE, !.attempt = 0, !.conn = "connected"]
<1>1. /\ u \in Sockets!Tracked(slot1) /\ slot3' = slot3 /\ slot4' = slot4 /\ o.shaking
      /\ slot1' = [slot1 EXCEPT !.entry[u] = e] /\ slot2' = Sockets!Settle(Sockets!Of(slot1, u), "up")
      BY DEF Sockets!Opened, Sockets!Set
<1>2. Sound(o, slot3.announced, Sockets!Scene.maxAttempts) /\ o \in Sockets!Entry
      BY <1>1, EntryIs
<1>3. /\ e \in Sockets!Entry /\ e.id = o.id /\ e.conn = "connected" /\ ~e.shaking /\ e.retry = o.retry
      /\ e.grace = o.grace /\ e.explicit = o.explicit /\ e.subs = o.subs
      BY <1>2 DEF Sockets!Entry
<1>4. /\ slot2' \in [SocketCalls -> SocketCall]
      /\ \A c \in SocketCalls : /\ slot2'[c].id = slot2[c].id
                                /\ slot2'[c].at = "waiting" => slot2'[c] = slot2[c] /\ c \notin Sockets!Of(slot1, u)
      BY <1>1, Settled DEF SocketsInv
<1>5. \A c \in SocketCalls : slot2'[c].at = "waiting" => slot2[c].id # o.id
      BY <1>1, <1>4, WaitsElsewhere
<1> HIDE DEF e
<1>6. Sound(e, slot3.announced, Sockets!Scene.maxAttempts)
      BY <1>1, <1>2, <1>3 DEF Sound, Shape, Kept, Coming, Sockets!Wanted
<1> QED BY <1>1, <1>3, <1>4, <1>5, <1>6, EntryMoves, SceneStays

\* A handshake that fails: the impatient are told, and all when nothing will try again.
LEMMA FailedStep ==
    ASSUME SocketsInv, NEW u \in SocketUrls, Sockets!Failed(u) PROVE SocketStep
<1> DEFINE o == slot1.entry[u]
           e == [o EXCEPT !.shaking = FALSE]
           f == IF Sockets!Wanted(e) THEN Sockets!ScheduleRetry(e) ELSE [e EXCEPT !.conn = "failed"]
           C == IF Sockets!GaveUp(f) THEN Sockets!Of(slot1, u) ELSE Sockets!Impatient(u)
<1>1. /\ u \in Sockets!Tracked(slot1) /\ slot3' = slot3 /\ SameScene /\ o.shaking
      /\ slot1' = [slot1 EXCEPT !.entry[u] = f] /\ slot2' = Sockets!Settle(C, "unreachable")
      BY SocketSpends DEF Sockets!Failed, Sockets!Set
<1>2. /\ Sound(o, slot3.announced, Sockets!Scene.maxAttempts) /\ o \in Sockets!Entry /\ Sockets!Scene.maxAttempts \in Nat
      /\ slot3 \in [online : BOOLEAN, announced : BOOLEAN] /\ (~slot3.online => ~slot3.announced)
      BY <1>1, EntryIs DEF SocketsInv
<1>3. /\ e \in Sockets!Entry /\ e.id = o.id /\ e.conn = o.conn /\ ~e.shaking /\ e.retry = o.retry
      /\ e.grace = o.grace /\ e.explicit = o.explicit /\ e.subs = o.subs
      BY <1>2 DEF Sockets!Entry
<1>4. ~e.retry /\ e.conn \in {"connecting", "reconnecting"}
      BY <1>1, <1>2, <1>3 DEF Sound, Shape
<1> HIDE DEF e
<1>5. /\ f \in Sockets!Entry /\ Shape(f, slot3.announced) /\ Same(f, e) /\ f.grace = e.grace /\ f.conn # "connected"
      /\ \/ Coming(f) /\ ~Sockets!GaveUp(f)
         \/ Sockets!GaveUp(f) /\ (Sockets!Wanted(f) => f.attempt >= Sockets!Scene.maxAttempts)
      <2>1. CASE Sockets!Wanted(e)
            BY <1>2, <1>3, <1>4, <2>1, RetryComes
      <2>2. CASE ~Sockets!Wanted(e)
            <3> DEFINE g == [e EXCEPT !.conn = "failed"]
            <3>1. /\ g \in Sockets!Entry /\ g.id = e.id /\ g.conn = "failed" /\ ~g.shaking /\ ~g.retry
                  /\ g.grace = e.grace /\ g.explicit = e.explicit /\ g.subs = e.subs
                  BY <1>3, <1>4 DEF Sockets!Entry
            <3>2. f = g
                  BY <2>2
            <3> HIDE DEF g, f
            <3> QED BY <2>2, <3>1, <3>2 DEF Shape, Same, Sockets!GaveUp, Sockets!Wanted
      <2> QED BY <2>1, <2>2
<1> HIDE DEF f
<1>6. /\ slot2' \in [SocketCalls -> SocketCall]
      /\ \A c \in SocketCalls : /\ slot2'[c].id = slot2[c].id
                                /\ slot2'[c].at = "waiting" => slot2'[c] = slot2[c] /\ c \notin C
      BY <1>1, Settled DEF SocketsInv
<1>7. Sound(f, slot3.announced, Sockets!Scene.maxAttempts) /\ f.id = o.id
      BY <1>2, <1>3, <1>5 DEF Sound, Kept, Same, Sockets!Wanted, Sockets!GaveUp
<1>8. ASSUME NEW c \in SocketCalls, slot2'[c].at = "waiting", slot2[c].id = o.id PROVE Coming(f) /\ f.conn # "connected"
      <2>1. slot2[c].at = "waiting" /\ c \notin C
            BY <1>6, <1>8
      <2>2. c \in Sockets!Of(slot1, u)
            BY <1>1, <1>8, <2>1, WaitsElsewhere
      <2>3. ~Sockets!GaveUp(f)
            BY <2>1, <2>2
      <2> QED BY <1>5, <2>3
<1> HIDE DEF C
<1> QED BY <1>1, <1>6, <1>7, <1>8, EntryMoves

LEMMA DroppedStep ==
    ASSUME SocketsInv, NEW u \in SocketUrls, Sockets!Dropped(u) PROVE SocketStep
<1> DEFINE e == slot1.entry[u]
           f == IF Sockets!Wanted(e) THEN Sockets!ScheduleRetry(e) ELSE [e EXCEPT !.conn = "idle"]
<1>1. /\ u \in Sockets!Tracked(slot1) /\ slot3' = slot3 /\ SameScene /\ e.conn = "connected"
      /\ slot1' = [slot1 EXCEPT !.entry[u] = f]
      /\ slot2' = slot2 \/ slot2' = Sockets!Settle(Sockets!Of(slot1, u), "unreachable")
      BY SocketSpends DEF Sockets!Dropped, Sockets!Set
<1>2. /\ Sound(e, slot3.announced, Sockets!Scene.maxAttempts) /\ e \in Sockets!Entry /\ Sockets!Scene.maxAttempts \in Nat
      /\ slot3 \in [online : BOOLEAN, announced : BOOLEAN] /\ (~slot3.online => ~slot3.announced)
      BY <1>1, EntryIs DEF SocketsInv
<1>3. ~e.retry /\ ~e.shaking
      BY <1>1, <1>2 DEF Sound, Shape
<1>4. Sound(f, slot3.announced, Sockets!Scene.maxAttempts) /\ f.id = e.id
      <2>1. CASE Sockets!Wanted(e)
            <3>1. /\ f \in Sockets!Entry /\ Shape(f, slot3.announced) /\ Same(f, e) /\ f.grace = e.grace
                  /\ \/ Coming(f)
                     \/ f.conn = "failed" /\ f.attempt >= Sockets!Scene.maxAttempts
                  BY <1>1, <1>2, <1>3, <2>1, RetryComes DEF Sockets!GaveUp
            <3> HIDE DEF f
            <3> QED BY <1>2, <3>1 DEF Sound, Kept, Same, Sockets!Wanted
      <2>2. CASE ~Sockets!Wanted(e)
            <3> DEFINE g == [e EXCEPT !.conn = "idle"]
            <3>1. /\ g \in Sockets!Entry /\ g.id = e.id /\ g.conn = "idle" /\ ~g.shaking /\ ~g.retry
                  /\ g.grace = e.grace /\ g.explicit = e.explicit /\ g.subs = e.subs
                  BY <1>2, <1>3 DEF Sockets!Entry
            <3>2. f = g
                  BY <2>2
            <3> HIDE DEF g, f
            <3> QED BY <2>2, <3>1, <3>2 DEF Sound, Kept, Shape, Sockets!Wanted
      <2> QED BY <2>1, <2>2
<1> HIDE DEF f
<1>5. /\ slot2' \in [SocketCalls -> SocketCall]
      /\ \A c \in SocketCalls : slot2'[c].id = slot2[c].id /\ (slot2'[c].at = "waiting" => slot2'[c] = slot2[c])
      BY <1>1, Settled DEF SocketsInv
<1> QED BY <1>1, <1>4, <1>5, EntryMoves

\* A handler that rebuilds every entry in its place.
LEMMA TableRebuilt ==
    ASSUME SocketsInv, slot1' \in SocketTable, slot1'.ids = slot1.ids,
           Sockets!Tracked(slot1') = Sockets!Tracked(slot1),
           slot3' \in [online : BOOLEAN, announced : BOOLEAN], ~slot3'.online => ~slot3'.announced,
           slot2' \in [SocketCalls -> SocketCall], SameScene,
           \A u \in Sockets!Tracked(slot1) : /\ slot1'.entry[u].id = slot1.entry[u].id
                                             /\ Sound(slot1'.entry[u], slot3'.announced, Sockets!Scene.maxAttempts),
           \A c \in SocketCalls : /\ slot2'[c].id = slot2[c].id
                                  /\ slot2'[c].at = "waiting" =>
                                       /\ slot2'[c] = slot2[c]
                                       /\ \A u \in Sockets!Tracked(slot1) :
                                             Coming(slot1.entry[u]) /\ slot1.entry[u].conn # "connected"
                                             => Coming(slot1'.entry[u]) /\ slot1'.entry[u].conn # "connected"
    PROVE  SocketStep
<1>1. Sockets!Scene' = Sockets!Scene
      BY DEF Sockets!Scene, SameScene
<1>2. IdsGiven(slot1', slot2') /\ InBudget(slot1', Sockets!Scene'.maxSockets)
      BY <1>1 DEF SocketsInv, IdsGiven, InBudget
<1>3. \A c \in SocketCalls : slot2'[c].at = "waiting" => Awaited(slot1', slot2'[c])
      BY DEF SocketsInv, Awaited
<1>4. SocketsInv'
      BY <1>1, <1>2, <1>3 DEF SocketsInv, SameScene
<1>5. Sockets!Cardinality(Sockets!Tracked(slot1')) <= Sockets!Scene.maxSockets
      BY <1>1, <1>2, SocketsCount DEF InBudget
<1> QED BY <1>4, <1>5 DEF SocketStep, Sockets!HeldStay, Sockets!Tracked

LEMMA RebindStep == ASSUME SocketsInv, Sockets!Rebind PROVE SocketStep
<1> DEFINE T == Sockets!Tracked(slot1)
<1>1. /\ slot3' = slot3 /\ SameScene /\ slot2' = Sockets!Settle(SocketCalls, "closed")
      /\ slot1' = [slot1 EXCEPT !.entry = [u \in SocketUrls |-> IF u \in T THEN Sockets!Again(@[u]) ELSE None]]
      BY SocketSpends DEF Sockets!Rebind
<1>2. \A u \in T : /\ slot1.entry[u] \in Sockets!Entry /\ u \in SocketUrls
                   /\ Sound(Sockets!Again(slot1.entry[u]), slot3.announced, Sockets!Scene.maxAttempts)
                   /\ Sockets!Again(slot1.entry[u]).id = slot1.entry[u].id
      BY EntryIs, AgainComes DEF Same
<1>3. slot1 \in SocketTable
      BY DEF SocketsInv
<1>4. /\ slot1' \in SocketTable /\ slot1'.ids = slot1.ids
      /\ \A u \in SocketUrls : slot1'.entry[u] = IF u \in T THEN Sockets!Again(slot1.entry[u]) ELSE None
      BY <1>1, <1>2, <1>3 DEF SocketTable, Sound
<1>5. Sockets!Tracked(slot1') = T
      BY <1>2, <1>4, SocketsAssumed DEF Sockets!Tracked, Sound
<1>6. /\ slot2' \in [SocketCalls -> SocketCall]
      /\ \A c \in SocketCalls : slot2'[c].id = slot2[c].id /\ slot2'[c].at # "waiting"
      BY <1>1, Settled DEF SocketsInv
<1> QED BY <1>1, <1>2, <1>4, <1>5, <1>6, TableRebuilt DEF SocketsInv

LEMMA AnnouncedStep == ASSUME SocketsInv, Sockets!Announced PROVE SocketStep
<1> DEFINE T == Sockets!Tracked(slot1)
           next(u) == IF slot1.entry[u].conn = "offline" THEN Sockets!Start(slot1.entry[u]) ELSE slot1.entry[u]
<1>1. /\ slot3.online /\ slot3' = [slot3 EXCEPT !.announced = TRUE] /\ slot2' = slot2 /\ slot4' = slot4
      /\ slot1' = [slot1 EXCEPT !.entry = [u \in SocketUrls |-> IF u \in T /\ @[u].conn = "offline"
                                                               THEN Sockets!Start(@[u]) ELSE @[u]]]
      BY DEF Sockets!Announced
<1>2. slot3' \in [online : BOOLEAN, announced : BOOLEAN] /\ slot3'.announced = TRUE /\ slot3'.online
      BY <1>1 DEF SocketsInv
<1>3. slot1 \in SocketTable
      BY DEF SocketsInv
<1>4. ASSUME NEW u \in T
      PROVE  /\ next(u) \in Sockets!Entry /\ next(u).id = slot1.entry[u].id
             /\ Sound(next(u), TRUE, Sockets!Scene.maxAttempts)
             /\ Coming(slot1.entry[u]) /\ slot1.entry[u].conn # "connected" => Coming(next(u)) /\ next(u).conn # "connected"
      <2> DEFINE o == slot1.entry[u]
      <2>1. Sound(o, slot3.announced, Sockets!Scene.maxAttempts) /\ o \in Sockets!Entry
            BY EntryIs
      <2>2. CASE o.conn = "offline"
            <3> DEFINE e == Sockets!Start(o)
            <3>1. ~o.shaking /\ ~o.retry
                  BY <2>1, <2>2 DEF Sound, Shape
            <3>2. /\ e \in Sockets!Entry /\ Shape(e, TRUE) /\ Same(e, o) /\ Coming(e) /\ e.conn # "connected" /\ (e.grace => o.grace)
                  BY <2>1, <2>2, <3>1, StartComes DEF Coming
            <3>3. next(u) = e
                  BY <2>2
            <3> HIDE DEF e, o, next
            <3>4. Sound(e, TRUE, Sockets!Scene.maxAttempts)
                  BY <2>1, <3>2 DEF Sound, Kept, Same, Sockets!Wanted
            <3> QED BY <3>2, <3>3, <3>4 DEF Same, o
      <2>3. CASE o.conn # "offline"
            <3>1. next(u) = o
                  BY <2>3
            <3>2. Sound(o, TRUE, Sockets!Scene.maxAttempts)
                  BY <2>1, <2>3 DEF Sound, Shape
            <3> QED BY <2>1, <3>1, <3>2
      <2> QED BY <2>2, <2>3
<1> HIDE DEF next
<1>5. \A u \in T : slot1.entry[u] \in Sockets!Entry /\ u \in SocketUrls
      BY EntryIs
<1>6. slot1' = [slot1 EXCEPT !.entry = [u \in SocketUrls |-> IF u \in T THEN next(u) ELSE slot1.entry[u]]]
      BY <1>1, <1>3 DEF next, SocketTable
<1>7. /\ slot1' \in SocketTable /\ slot1'.ids = slot1.ids
      /\ \A u \in SocketUrls : slot1'.entry[u] = IF u \in T THEN next(u) ELSE slot1.entry[u]
      BY <1>3, <1>4, <1>6 DEF SocketTable
<1>8. Sockets!Tracked(slot1') = T
      BY <1>4, <1>5, <1>7, SocketsAssumed DEF Sockets!Tracked
<1>9. \A u \in T : /\ slot1'.entry[u] = next(u)
      BY <1>5, <1>7
<1>10. slot2' \in [SocketCalls -> SocketCall] /\ SameScene
      BY <1>1, SceneStays DEF SocketsInv
<1> QED BY <1>1, <1>2, <1>4, <1>7, <1>8, <1>9, <1>10, TableRebuilt

LEMMA CloseAllStep == ASSUME SocketsInv, NEW forGood \in BOOLEAN, Sockets!CloseAll(forGood) PROVE SocketStep
<1>1. /\ slot3' = slot3 /\ SameScene /\ slot4'.ends # slot4.ends /\ slot2' = Sockets!Settle(SocketCalls, "closed")
      /\ slot1' = [slot1 EXCEPT !.entry = [u \in SocketUrls |-> None], !.disposed = @ \/ forGood]
      BY SocketSpends DEF Sockets!CloseAll
<1>2. slot1 \in SocketTable
      BY DEF SocketsInv
<1>3. slot1' \in SocketTable /\ slot1'.ids = slot1.ids /\ slot1'.entry = [u \in SocketUrls |-> None]
      <2>1. PICK b \in BOOLEAN : slot1' = [slot1 EXCEPT !.entry = [u \in SocketUrls |-> None], !.disposed = b]
            BY <1>1, <1>2
      <2> QED BY <1>2, <2>1 DEF SocketTable
<1>4. Sockets!Tracked(slot1') = {}
      BY <1>3 DEF Sockets!Tracked
<1>5. /\ slot2' \in [SocketCalls -> SocketCall]
      /\ \A c \in SocketCalls : slot2'[c].id = slot2[c].id /\ slot2'[c].at # "waiting"
      BY <1>1, Settled DEF SocketsInv
<1>6. Sockets!Scene' = Sockets!Scene /\ Sockets!Scene.maxSockets \in Nat
      BY <1>1, SocketsAssumed DEF Sockets!Scene, SameScene, SocketsInv, SocketSpent
<1>7. IdsGiven(slot1', slot2') /\ InBudget(slot1', Sockets!Scene'.maxSockets)
      BY <1>3, <1>4, <1>5, <1>6, FS_EmptySet DEF SocketsInv, IdsGiven, InBudget
<1>8. SocketsInv'
      BY <1>1, <1>3, <1>4, <1>5, <1>7 DEF SocketsInv, SameScene
<1>9. Sockets!Cardinality(Sockets!Tracked(slot1')) <= Sockets!Scene.maxSockets
      BY <1>6, <1>7, SocketsCount DEF InBudget
<1> QED BY <1>1, <1>8, <1>9 DEF SocketStep, Sockets!HeldStay

\* The network goes, and is back before anyone hears of it.
LEMMA NetworkStep == ASSUME SocketsInv, Sockets!GoesOffline \/ Sockets!GoesOnline PROVE SocketStep
<1>1. CASE Sockets!GoesOffline
      <2>1. SameScene /\ slot1' = slot1 /\ slot2' = slot2 /\ slot3' = [online |-> FALSE, announced |-> FALSE]
            BY <1>1, SocketSpends DEF Sockets!GoesOffline
      <2> QED BY <2>1, TableStays DEF SocketStep, SocketsInv, IdsGiven
<1>2. CASE Sockets!GoesOnline
      <2>1. SameScene /\ slot1' = slot1 /\ slot2' = slot2 /\ slot3' = [slot3 EXCEPT !.online = TRUE]
            BY <1>2, SceneStays DEF Sockets!GoesOnline
      <2>2. slot3' \in [online : BOOLEAN, announced : BOOLEAN] /\ slot3'.online /\ slot3'.announced = slot3.announced
            BY <2>1 DEF SocketsInv
      <2> QED BY <2>1, <2>2, TableStays DEF SocketStep, SocketsInv, IdsGiven
<1> QED BY <1>1, <1>2

\* A waiter's timer, and the rest of a publish.
LEMMA CallEnds ==
    ASSUME SocketsInv, NEW c \in SocketCalls, NEW x \in SocketCall, x.at # "waiting", x.id = slot2[c].id,
           slot2' = [slot2 EXCEPT ![c] = x], slot1' = slot1, slot3' = slot3, slot4' = slot4
    PROVE  SocketStep
<1>1. /\ slot2' \in [SocketCalls -> SocketCall] /\ SameScene
      /\ \A d \in SocketCalls : slot2'[d].id = slot2[d].id /\ (slot2'[d].at = "waiting" => slot2'[d] = slot2[d])
      BY SceneStays DEF SocketsInv
<1> QED BY <1>1, TableStays DEF SocketStep, SocketsInv, IdsGiven

LEMMA CallStep ==
    ASSUME SocketsInv, NEW c \in SocketCalls,
           \/ Sockets!WaitLapses(c) \/ Sockets!PublishAuths(c) \/ Sockets!PublishGoesOn(c)
           \/ \E how \in {"ok", "timeout", "rejected"} : Sockets!PublishEnds(c, how)
    PROVE  SocketStep
<1>1. slot2 \in [SocketCalls -> SocketCall] /\ slot2[c] \in SocketCall /\ slot1' = slot1 /\ slot3' = slot3 /\ slot4' = slot4
      BY DEF SocketsInv, Sockets!WaitLapses, Sockets!PublishAuths, Sockets!PublishGoesOn, Sockets!PublishEnds
<1>2. \/ \E at \in {"done", "auth", "sent", "again"}, how \in {"unreachable", "ok", "timeout", "rejected", "again"} :
            slot2' = [slot2 EXCEPT ![c] = [slot2[c] EXCEPT !.at = at, !.how = how]]
      \/ \E at \in {"sent", "again"} : slot2' = [slot2 EXCEPT ![c] = [slot2[c] EXCEPT !.at = at]]
      <2>1. CASE Sockets!WaitLapses(c)
            BY <1>1, <2>1 DEF Sockets!WaitLapses
      <2>2. CASE Sockets!PublishAuths(c)
            BY <1>1, <2>2 DEF Sockets!PublishAuths
      <2>3. CASE Sockets!PublishGoesOn(c)
            BY <1>1, <2>3 DEF Sockets!PublishGoesOn
      <2>4. ASSUME NEW how \in {"ok", "timeout", "rejected"}, Sockets!PublishEnds(c, how)
            PROVE  slot2' = [slot2 EXCEPT ![c] = [slot2[c] EXCEPT !.at = "done", !.how = how]]
            BY <1>1, <2>4 DEF Sockets!PublishEnds
      <2> QED BY <2>1, <2>2, <2>3, <2>4
<1>3. PICK x : slot2' = [slot2 EXCEPT ![c] = x] /\ x \in SocketCall /\ x.at # "waiting" /\ x.id = slot2[c].id
      <2>1. CASE \E at \in {"done", "auth", "sent", "again"}, how \in {"unreachable", "ok", "timeout", "rejected", "again"} :
                    slot2' = [slot2 EXCEPT ![c] = [slot2[c] EXCEPT !.at = at, !.how = how]]
            <3>1. PICK at \in {"done", "auth", "sent", "again"}, how \in {"unreachable", "ok", "timeout", "rejected", "again"} :
                     slot2' = [slot2 EXCEPT ![c] = [slot2[c] EXCEPT !.at = at, !.how = how]]
                  BY <2>1
            <3> DEFINE y == [slot2[c] EXCEPT !.at = at, !.how = how]
            <3>2. y \in SocketCall /\ y.at # "waiting" /\ y.id = slot2[c].id /\ slot2' = [slot2 EXCEPT ![c] = y]
                  BY <1>1, <3>1 DEF SocketCall
            <3> HIDE DEF y
            <3> QED BY <3>2
      <2>2. CASE \E at \in {"sent", "again"} : slot2' = [slot2 EXCEPT ![c] = [slot2[c] EXCEPT !.at = at]]
            <3>1. PICK at \in {"sent", "again"} : slot2' = [slot2 EXCEPT ![c] = [slot2[c] EXCEPT !.at = at]]
                  BY <2>2
            <3> DEFINE y == [slot2[c] EXCEPT !.at = at]
            <3>2. y \in SocketCall /\ y.at # "waiting" /\ y.id = slot2[c].id /\ slot2' = [slot2 EXCEPT ![c] = y]
                  BY <1>1, <3>1 DEF SocketCall
            <3> HIDE DEF y
            <3> QED BY <3>2
      <2> QED BY <1>2, <2>1, <2>2
<1> QED BY <1>1, <1>3, CallEnds

\* The table begins empty.
LEMMA SocketsBegin == ASSUME Sockets!Init PROVE SocketsInv
<1>1. PICK n \in DOMAIN SocketScenes : Sockets!InitOf(n)
      BY DEF Sockets!Init
<1>2. /\ slot1 = [entry |-> [u \in SocketUrls |-> None], ids |-> 0, disposed |-> FALSE]
      /\ slot2 = [c \in SocketCalls |-> [at |-> "idle", do |-> "none", id |-> 0, how |-> "none"]]
      /\ slot3 = [online |-> TRUE, announced |-> TRUE] /\ slot4 = [SocketScenes[n].bounds EXCEPT !.scene = n]
      BY <1>1 DEF Sockets!InitOf
<1>3. slot1 \in SocketTable /\ slot2 \in [SocketCalls -> SocketCall] /\ slot4 \in SocketSpent /\ slot4.scene = n
      BY <1>2, SocketsAssumed DEF SocketTable, SocketCall, SocketSpent
<1>4. Sockets!Tracked(slot1) = {}
      BY <1>2 DEF Sockets!Tracked
<1>5. Sockets!Scene.maxSockets \in Nat
      BY <1>3, SocketsAssumed DEF Sockets!Scene
<1>6. IdsGiven(slot1, slot2)
      <2>1. slot1.ids = 0 /\ \A c \in SocketCalls : slot2[c].id = 0
            BY <1>2
      <2> QED BY <1>4, <2>1 DEF IdsGiven
<1>7. InBudget(slot1, Sockets!Scene.maxSockets)
      <2>1. IsFiniteSet({}) /\ Cardinality({}) = 0
            BY FS_EmptySet
      <2> QED BY <1>4, <1>5, <2>1 DEF InBudget
<1> QED BY <1>2, <1>3, <1>4, <1>6, <1>7 DEF SocketsInv

----------------------------------------------------------------------------
(* The feed of an app.                                                     *)

FeedIds    == {"feed", "follow"} \X Nat
FeedPool   == [here : BOOLEAN, gone : BOOLEAN, urls : SUBSET FeedUrls, active : SUBSET FeedIds,
               statuses : [FeedUrls -> BOOLEAN \cup {None}], polling : BOOLEAN]
FeedOwn    == [sub : ({"feed"} \X Nat) \cup {None}, follow : ({"follow"} \X Nat) \cup {None}, connecting : Nat, timers : Nat,
               started : BOOLEAN]
FeedMetric == [known : BOOLEAN, failed : BOOLEAN, streak : Nat, until : Nat]
FeedSpent  == [scene : DOMAIN FeedScenes, feeds : Nat, answers : Nat, follows : Nat, drops : Nat, fires : Nat,
               relays : Nat, destroys : Nat, publishes : Nat]

LEMMA FeedsAssumed ==
    /\ None \notin FeedIds
    /\ \A n \in DOMAIN FeedScenes :
          /\ FeedScenes[n].urls \in (SUBSET FeedUrls) \ {{}} /\ FeedScenes[n].maxBackoff \in Nat
          /\ FeedScenes[n].bounds \in [scene : Nat, feeds : Nat, answers : Nat, follows : Nat, drops : Nat, fires : Nat,
                                       relays : Nat, destroys : Nat, publishes : Nat]
BY RelayAssumption DEF FeedIds

\* The feed and its subscriptions.  Who was started has a pool, or had one that is gone; what a
\* transport has open the pool holds a handle of.
FeedHeld ==
    /\ slot1 \in FeedPool /\ slot2 \subseteq FeedIds /\ IsFiniteSet(slot2) /\ slot3 \in FeedOwn
    /\ slot1.gone => ~slot1.here /\ slot2 = {}
    /\ slot3.started => slot1.here \/ slot1.gone
    /\ slot2 \subseteq slot1.active
    /\ slot3.started /\ ~slot1.gone => slot3.sub \in slot2 \/ slot3.connecting > 0 \/ slot3.timers > 0
    /\ slot4 = [urls |-> slot1.urls, statuses |-> slot1.statuses] /\ slot1.urls # {}
\* The scores, and a publish.
FeedScored ==
    /\ slot5 \in [FeedUrls -> FeedMetric] /\ slot7 \in [clock : Nat, ids : Nat] /\ slot7.clock >= 1
    /\ \A u \in FeedUrls : slot5[u].until > slot7.clock => slot5[u].known /\ slot5[u].streak > 0
    /\ slot6 \in [at : {"none", "waiting", "accepted", "refused"}, waits : SUBSET FeedUrls]
    /\ slot6.at = "waiting" => slot6.waits # {}
FeedInv == FeedHeld /\ FeedScored /\ slot8 \in FeedSpent

\* What a step of the feed's bookkeeping leaves alone.
LEMMA FeedCounts == \A S : Feed!Cardinality(S) = Cardinality(S)
BY DEF Feed!Cardinality, Cardinality

LEMMA FeedSpends ==
    ASSUME slot8 \in FeedSpent,
           NEW what \in {"feeds", "answers", "follows", "drops", "fires", "relays", "destroys", "publishes"}, Feed!Spend(what)
    PROVE  slot8' \in FeedSpent
<1>1. slot8' = [slot8 EXCEPT ![what] = @ - 1] /\ slot8[what] > 0
      BY DEF Feed!Spend
<1>2. slot8[what] - 1 \in Nat
      BY <1>1 DEF FeedSpent
<1> QED BY <1>1, <1>2 DEF FeedSpent

LEMMA ScoresStay == ASSUME FeedScored, UNCHANGED <<slot5, slot6, slot7>> PROVE FeedScored'
BY DEF FeedScored

\* A subscription that is not a None is one of the transport's.
LEMMA FeedNone == ASSUME FeedHeld PROVE None \notin slot2
BY FeedsAssumed DEF FeedHeld, FeedIds

\* The feeds among what is closed each set a reconnect.
LEMMA EndedSets ==
    ASSUME FeedHeld, NEW f \in FeedOwn, NEW C
    PROVE  /\ Feed!Ended(f, C) \in FeedOwn /\ Feed!Ended(f, C).sub = f.sub /\ Feed!Ended(f, C).follow = f.follow
           /\ Feed!Ended(f, C).connecting = f.connecting /\ Feed!Ended(f, C).started = f.started
           /\ Feed!Ended(f, C).timers >= f.timers
           /\ (\E s \in C : s \in slot2 /\ s[1] = "feed") => Feed!Ended(f, C).timers > 0
<1> DEFINE D == {s \in C \cap slot2 : s[1] = "feed"}
<1>1. IsFiniteSet(D) /\ Cardinality(D) \in Nat
      BY FS_Subset, FS_CardinalityType DEF FeedHeld
<1>2. Feed!Ended(f, C) = [f EXCEPT !.timers = @ + Cardinality(D)]
      BY FeedCounts DEF Feed!Ended
<1>3. D # {} => Cardinality(D) > 0
      BY <1>1, FS_EmptySet
<1>4. (\E s \in C : s \in slot2 /\ s[1] = "feed") => D # {}
      OBVIOUS
<1> DEFINE n == Cardinality(D)
<1> HIDE DEF n, D
<1>5. n \in Nat /\ f.timers \in Nat /\ f.timers + n \in Nat /\ f.timers + n >= f.timers /\ (n > 0 => f.timers + n > 0)
      BY <1>1 DEF FeedOwn, n
<1>6. PICK m \in Nat : Feed!Ended(f, C) = [f EXCEPT !.timers = m] /\ m >= f.timers /\ (n > 0 => m > 0)
      BY <1>2, <1>5 DEF n
<1>7. /\ Feed!Ended(f, C) \in FeedOwn /\ Feed!Ended(f, C).sub = f.sub /\ Feed!Ended(f, C).follow = f.follow
      /\ Feed!Ended(f, C).connecting = f.connecting /\ Feed!Ended(f, C).started = f.started /\ Feed!Ended(f, C).timers = m
      BY <1>6 DEF FeedOwn
<1> QED BY <1>3, <1>4, <1>6, <1>7 DEF n

\* A feed that has a pool connects.
LEMMA ConnectsFeed ==
    ASSUME FeedHeld, NEW f \in FeedOwn
    PROVE  /\ Feed!Connecting(f) \in FeedOwn /\ Feed!Connecting(f).sub = f.sub /\ Feed!Connecting(f).follow = f.follow
           /\ Feed!Connecting(f).started = f.started /\ Feed!Connecting(f).timers = f.timers
           /\ slot1.here => Feed!Connecting(f).connecting > 0
<1>1. CASE slot1.here
      <2>1. f.connecting + 1 \in Nat /\ f.connecting + 1 > 0
            BY DEF FeedOwn
      <2>2. PICK m \in Nat : m > 0 /\ Feed!Connecting(f) = [f EXCEPT !.connecting = m]
            BY <1>1, <2>1 DEF Feed!Connecting
      <2> QED BY <2>2 DEF FeedOwn
<1>2. CASE ~slot1.here
      BY <1>2 DEF Feed!Connecting
<1> QED BY <1>1, <1>2

\* reconnect(): every subscription is closed, and the feed that was started is on its way.
LEMMA ReconnectKeeps ==
    ASSUME FeedHeld, NEW f \in FeedOwn, f.started = slot3.started, NEW urls \in (SUBSET FeedUrls) \ {{}}, Feed!Reconnect(f, urls)
    PROVE  FeedHeld'
<1> DEFINE g == [f EXCEPT !.sub = None]
           closed == slot1.active \cup {slot3.sub}
<1>1. /\ slot2' = slot2 \ closed /\ slot3' = Feed!Connecting(Feed!Ended(g, closed))
      /\ slot4' = [urls |-> urls, statuses |-> Feed!NoStatus]
      /\ slot1' = [slot1 EXCEPT !.active = {}, !.urls = urls, !.statuses = Feed!NoStatus]
      BY DEF Feed!Reconnect, Feed!PoolReconnects
<1>2. Feed!NoStatus \in [FeedUrls -> BOOLEAN \cup {None}]
      BY DEF Feed!NoStatus
<1>3. /\ slot1' \in FeedPool /\ slot1'.here = slot1.here /\ slot1'.gone = slot1.gone /\ slot1'.urls = urls
      /\ slot1'.statuses = Feed!NoStatus /\ slot1'.active = {}
      BY <1>1, <1>2 DEF FeedHeld, FeedPool
<1>4. slot2' = {}
      BY <1>1 DEF FeedHeld
<1>5. g \in FeedOwn /\ g.started = f.started
      BY DEF FeedOwn
<1>6. /\ Feed!Ended(g, closed) \in FeedOwn /\ Feed!Ended(g, closed).started = g.started
      BY <1>5, EndedSets
<1> HIDE DEF g, closed
<1>7. /\ slot3' \in FeedOwn /\ slot3'.started = slot3.started /\ (slot1.here => slot3'.connecting > 0)
      BY <1>1, <1>5, <1>6, ConnectsFeed
<1>8. IsFiniteSet(slot2')
      BY <1>4, FS_EmptySet
<1>9. slot4' = [urls |-> slot1'.urls, statuses |-> slot1'.statuses] /\ slot1'.urls # {}
      <2>1. urls # {}
            OBVIOUS
      <2> DEFINE none == Feed!NoStatus
      <2>2. slot4' = [urls |-> urls, statuses |-> none] /\ slot1'.urls = urls /\ slot1'.statuses = none
            BY <1>1, <1>3
      <2> HIDE DEF none
      <2> QED BY <2>1, <2>2
<1>10. slot3'.started /\ ~slot1'.gone => slot3'.connecting > 0
      BY <1>3, <1>7 DEF FeedHeld
<1> QED BY <1>3, <1>4, <1>7, <1>8, <1>9, <1>10 DEF FeedHeld

\* A failure is known, and counted; what it waits for is a time.
LEMMA FailedScores ==
    ASSUME slot7 \in [clock : Nat, ids : Nat], slot8 \in FeedSpent, NEW m \in FeedMetric
    PROVE  Feed!FailedOnce(m) \in FeedMetric /\ Feed!FailedOnce(m).known /\ Feed!FailedOnce(m).streak > 0
<1> DEFINE most == Feed!Scene.maxBackoff
           n == IF m.streak > most THEN m.streak ELSE m.streak + 1
           t == slot7.clock + Feed!Backoff(m.streak + 1)
<1>1. most \in Nat /\ m.streak \in Nat /\ slot7.clock \in Nat
      BY FeedsAssumed DEF Feed!Scene, FeedSpent, FeedMetric
<1>2. n \in Nat /\ n > 0
      BY <1>1
<1>3. Feed!Backoff(m.streak + 1) \in Nat
      BY <1>1 DEF Feed!Backoff
<1>4. t \in Nat
      BY <1>1, <1>3
<1>5. Feed!FailedOnce(m) = [m EXCEPT !.known = TRUE, !.failed = TRUE, !.streak = n, !.until = t]
      BY DEF Feed!FailedOnce
<1> HIDE DEF most, n, t
<1> QED BY <1>2, <1>4, <1>5 DEF FeedMetric

\* The scores that a set of relays is credited or blamed with.
LEMMA RecordedScores ==
    ASSUME FeedScored, slot8 \in FeedSpent, NEW U, NEW ok \in BOOLEAN
    PROVE  /\ Feed!Recorded(U, ok) \in [FeedUrls -> FeedMetric]
           /\ \A u \in FeedUrls : Feed!Recorded(U, ok)[u].until > slot7.clock
                                     => Feed!Recorded(U, ok)[u].known /\ Feed!Recorded(U, ok)[u].streak > 0
<1>1. \A u \in FeedUrls : slot5[u] \in FeedMetric
      BY DEF FeedScored
<1>2. slot7 \in [clock : Nat, ids : Nat] /\ slot7.clock \in Nat /\ slot7.clock >= 1
      BY DEF FeedScored
<1> SUFFICES ASSUME NEW u \in FeedUrls
             PROVE  /\ Feed!Recorded(U, ok)[u] \in FeedMetric
                    /\ Feed!Recorded(U, ok)[u].until > slot7.clock
                          => Feed!Recorded(U, ok)[u].known /\ Feed!Recorded(U, ok)[u].streak > 0
    BY DEF Feed!Recorded
<1>3. Feed!Recorded(U, ok)[u] = IF u \notin U THEN slot5[u] ELSE IF ok THEN Feed!Succeeded(slot5[u]) ELSE Feed!FailedOnce(slot5[u])
      BY DEF Feed!Recorded
<1>4. CASE u \notin U
      BY <1>1, <1>3, <1>4 DEF FeedScored
<1>5. CASE u \in U /\ ok
      <2>1. Feed!Succeeded(slot5[u]) \in FeedMetric /\ Feed!Succeeded(slot5[u]).until = 0
            BY <1>1 DEF Feed!Succeeded, FeedMetric
      <2> QED BY <1>2, <1>3, <1>5, <2>1
<1>6. CASE u \in U /\ ~ok
      BY <1>1, <1>2, <1>3, <1>6, FailedScores
<1> QED BY <1>4, <1>5, <1>6

\* The pool comes up, over the relays the app persisted.
LEMMA InitPoolStep == ASSUME FeedInv, Feed!InitPool PROVE FeedInv'
<1>1. ~slot1.here /\ ~slot1.gone /\ UNCHANGED <<slot2, slot3, slot4, slot6, slot7, slot8>>
      BY DEF Feed!InitPool
<1>2. slot1' = [slot1 EXCEPT !.here = TRUE, !.urls = slot4.urls] /\ slot4.urls = slot1.urls
      BY DEF Feed!InitPool, Feed!EnsurePool, FeedInv, FeedHeld
<1>3. FeedHeld'
      BY <1>1, <1>2 DEF FeedInv, FeedHeld, FeedPool
<1>4. Feed!Unknown \in FeedMetric
      BY DEF Feed!Unknown, FeedMetric
<1> DEFINE saved == [Feed!FailedOnce(Feed!Unknown) EXCEPT !.until = 0]
<1>5. saved \in FeedMetric /\ saved.until = 0
      BY <1>4, FailedScores DEF FeedInv, FeedScored, FeedMetric
<1>6. slot5' = [u \in FeedUrls |-> IF u \in Feed!Scene.saved THEN saved ELSE slot5[u]]
      BY DEF Feed!InitPool
<1> HIDE DEF saved
<1>7. slot5' \in [FeedUrls -> FeedMetric]
      BY <1>5, <1>6 DEF FeedInv, FeedScored
<1>8. \A u \in FeedUrls : slot5'[u] = saved \/ slot5'[u] = slot5[u]
      BY <1>6
<1>9. FeedScored'
      BY <1>1, <1>5, <1>7, <1>8 DEF FeedInv, FeedScored
<1> QED BY <1>1, <1>3, <1>9 DEF FeedInv

LEMMA InitFeedStep == ASSUME FeedInv, Feed!InitFeed PROVE FeedInv'
<1>1. UNCHANGED <<slot1, slot2, slot4, slot5, slot6, slot7>>
      BY DEF Feed!InitFeed
<1>2. slot8' \in FeedSpent
      BY FeedSpends DEF Feed!InitFeed, FeedInv
<1>3. FeedScored'
      BY <1>1, ScoresStay DEF FeedInv
<1>4. slot3 \in FeedOwn
      BY DEF FeedInv, FeedHeld
<1> DEFINE c == Feed!Connecting(slot3)
<1>5. c \in FeedOwn /\ c.started = slot3.started /\ c.sub = slot3.sub /\ c.timers = slot3.timers /\ (slot1.here => c.connecting > 0)
      BY <1>4, ConnectsFeed DEF FeedInv
<1>6. ~slot1.here => c = slot3
      BY DEF Feed!Connecting
<1>7. slot3' = slot3 \/ slot3' = [c EXCEPT !.started = @ \/ slot1.here]
      BY DEF Feed!InitFeed
<1> HIDE DEF c
<1>8. CASE slot3' = slot3
      BY <1>1, <1>2, <1>3, <1>8 DEF FeedInv, FeedHeld
<1>9. CASE slot3' = [c EXCEPT !.started = @ \/ slot1.here]
      <2>1. slot1.here \in BOOLEAN
            BY DEF FeedInv, FeedHeld, FeedPool
      <2>2. /\ slot3' \in FeedOwn /\ slot3'.connecting = c.connecting /\ slot3'.sub = c.sub /\ slot3'.timers = c.timers
            /\ slot3'.started = (c.started \/ slot1.here)
            BY <1>5, <1>9, <2>1 DEF FeedOwn
      <2>3. slot3'.started => slot1.here \/ slot1.gone
            BY <1>5, <2>2 DEF FeedInv, FeedHeld
      <2>4. slot3'.started /\ ~slot1.gone => slot3'.connecting > 0
            BY <1>5, <2>2, <2>3
      <2>5. FeedHeld'
            BY <1>1, <2>2, <2>3, <2>4 DEF FeedInv, FeedHeld
      <2> QED BY <1>2, <1>3, <2>5 DEF FeedInv
<1> QED BY <1>7, <1>8, <1>9

LEMMA FeedOpensStep == ASSUME FeedInv, Feed!FeedOpens PROVE FeedInv'
<1> DEFINE s == <<"feed", slot7.ids + 1>>
<1>1. UNCHANGED <<slot4, slot5, slot6, slot8>> /\ slot3.connecting > 0
      BY DEF Feed!FeedOpens
<1>2. slot7 \in [clock : Nat, ids : Nat] /\ slot7.ids + 1 \in Nat /\ slot3.connecting - 1 \in Nat
      BY <1>1 DEF FeedInv, FeedScored, FeedHeld, FeedOwn
<1>3. s \in {"feed"} \X Nat /\ s \in FeedIds
      BY <1>2 DEF FeedIds
<1>4. CASE slot1.here
      <2>1. PICK n \in Nat : slot3' = [slot3 EXCEPT !.connecting = n, !.sub = s]
            BY <1>2, <1>4 DEF Feed!FeedOpens
      <2>2. /\ slot2' = slot2 \cup {s} /\ slot7' = [slot7 EXCEPT !.ids = @ + 1]
            /\ slot1' = [slot1 EXCEPT !.active = @ \cup {s}, !.polling = TRUE]
            BY <1>4 DEF Feed!FeedOpens, Feed!Subscribe
      <2>3. PICK m \in Nat : slot7' = [slot7 EXCEPT !.ids = m]
            BY <1>2, <2>2
      <2> HIDE DEF s
      <2>4. slot3' \in FeedOwn /\ slot3'.sub = s /\ slot3'.started = slot3.started
            BY <1>3, <2>1 DEF FeedInv, FeedHeld, FeedOwn
      <2>5. /\ slot1' \in FeedPool /\ slot1'.here = slot1.here /\ slot1'.gone = slot1.gone /\ slot1'.urls = slot1.urls
            /\ slot1'.statuses = slot1.statuses /\ slot1'.active = slot1.active \cup {s}
            BY <1>3, <2>2 DEF FeedInv, FeedHeld, FeedPool
      <2>6. IsFiniteSet(slot2')
            BY <2>2, FS_AddElement DEF FeedInv, FeedHeld
      <2>7. FeedHeld'
            BY <1>1, <1>3, <1>4, <2>2, <2>4, <2>5, <2>6 DEF FeedInv, FeedHeld
      <2>8. slot7' \in [clock : Nat, ids : Nat] /\ slot7'.clock = slot7.clock
            BY <1>2, <2>3
      <2>9. FeedScored'
            BY <1>1, <2>8 DEF FeedInv, FeedScored
      <2> QED BY <1>1, <2>7, <2>9 DEF FeedInv
<1>5. CASE ~slot1.here
      <2>1. UNCHANGED <<slot1, slot2, slot7>> /\ slot3' = [slot3 EXCEPT !.connecting = @ - 1]
            BY <1>5 DEF Feed!FeedOpens
      <2>2. PICK n \in Nat : slot3' = [slot3 EXCEPT !.connecting = n]
            BY <1>2, <2>1
      <2>3. slot3' \in FeedOwn /\ slot3'.started = slot3.started
            BY <2>2 DEF FeedInv, FeedHeld, FeedOwn
      <2>4. FeedHeld'
            BY <1>1, <1>5, <2>1, <2>3 DEF FeedInv, FeedHeld
      <2>5. FeedScored'
            BY <1>1, <2>1, ScoresStay DEF FeedInv
      <2> QED BY <1>1, <2>4, <2>5 DEF FeedInv
<1> QED BY <1>4, <1>5

LEMMA CreditedStep == ASSUME FeedInv, NEW ok \in BOOLEAN, Feed!Credited(ok) PROVE FeedInv'
<1>1. UNCHANGED <<slot1, slot2, slot3, slot4, slot6, slot7>> /\ slot5' = Feed!Recorded(slot4.urls, ok)
      BY DEF Feed!Credited
<1>2. slot8' \in FeedSpent
      BY FeedSpends DEF Feed!Credited, FeedInv
<1>3. FeedScored'
      BY <1>1, RecordedScores DEF FeedInv, FeedScored
<1>4. FeedHeld'
      BY <1>1 DEF FeedInv, FeedHeld
<1> QED BY <1>2, <1>3, <1>4 DEF FeedInv

LEMMA FollowStep == ASSUME FeedInv, Feed!Follow PROVE FeedInv'
<1> DEFINE s == <<"follow", slot7.ids + 1>>
<1>1. /\ UNCHANGED <<slot4, slot5, slot6>> /\ slot1.here /\ slot3' = [slot3 EXCEPT !.follow = s]
      /\ slot7' = [slot7 EXCEPT !.ids = @ + 1] /\ slot2' = (slot2 \ {slot3.follow}) \cup {s}
      /\ slot1' = [slot1 EXCEPT !.active = (@ \ {slot3.follow}) \cup {s}]
      BY DEF Feed!Follow, Feed!SubscribeAuthors
<1>2. slot8' \in FeedSpent
      BY FeedSpends DEF Feed!Follow, FeedInv
<1>3. slot7 \in [clock : Nat, ids : Nat] /\ slot7.ids + 1 \in Nat
      BY DEF FeedInv, FeedScored
<1>4. s \in {"follow"} \X Nat /\ s \in FeedIds
      BY <1>3 DEF FeedIds
<1>5. PICK m \in Nat : slot7' = [slot7 EXCEPT !.ids = m]
      BY <1>1, <1>3
<1> HIDE DEF s
<1>6. slot3' \in FeedOwn /\ UNCHANGED <<slot3.sub, slot3.started, slot3.connecting, slot3.timers>>
      BY <1>1, <1>4 DEF FeedInv, FeedHeld, FeedOwn
<1>7. /\ slot1' \in FeedPool /\ UNCHANGED <<slot1.here, slot1.gone, slot1.urls, slot1.statuses>>
      /\ slot1'.active = (slot1.active \ {slot3.follow}) \cup {s}
      BY <1>1, <1>4 DEF FeedInv, FeedHeld, FeedPool
<1>8. IsFiniteSet(slot2 \ {slot3.follow}) /\ IsFiniteSet(slot2')
      BY <1>1, FS_Subset, FS_AddElement DEF FeedInv, FeedHeld
<1>9. slot3.sub \in slot2 => slot3.sub \in slot2'
      <2>1. ASSUME slot3.sub \in slot2 PROVE slot3.sub # slot3.follow
            <3>1. slot3.sub \in FeedIds /\ slot3.sub # None
                  BY <2>1, FeedNone DEF FeedInv, FeedHeld
            <3>2. slot3.sub[1] = "feed"
                  BY <3>1 DEF FeedInv, FeedHeld, FeedOwn
            <3>3. slot3.follow = None \/ slot3.follow[1] = "follow"
                  BY DEF FeedInv, FeedHeld, FeedOwn
            <3> QED BY <3>1, <3>2, <3>3
      <2> QED BY <1>1, <2>1
<1>10. FeedHeld'
      BY <1>1, <1>4, <1>6, <1>7, <1>8, <1>9 DEF FeedInv, FeedHeld
<1>11. slot7' \in [clock : Nat, ids : Nat] /\ slot7'.clock = slot7.clock
      BY <1>3, <1>5
<1>12. FeedScored'
      BY <1>1, <1>11 DEF FeedInv, FeedScored
<1> QED BY <1>2, <1>10, <1>12 DEF FeedInv

\* A subscription closes; a feed among them has a reconnect set.
LEMMA DropsStep == ASSUME FeedInv, NEW s \in slot2, Feed!Drops(s) PROVE FeedInv'
<1>1. UNCHANGED <<slot1, slot4, slot5, slot6, slot7>> /\ slot2' = slot2 \ {s} /\ slot3' = Feed!Ended(slot3, {s})
      BY DEF Feed!Drops
<1>2. slot8' \in FeedSpent
      BY FeedSpends DEF Feed!Drops, FeedInv
<1>3. FeedScored'
      BY <1>1, ScoresStay DEF FeedInv
<1>4. slot3 \in FeedOwn
      BY DEF FeedInv, FeedHeld
<1>5. /\ slot3' \in FeedOwn /\ UNCHANGED <<slot3.sub, slot3.connecting, slot3.started>> /\ slot3'.timers >= slot3.timers
      /\ s[1] = "feed" => slot3'.timers > 0
      BY <1>1, <1>4, EndedSets DEF FeedInv
<1>6. slot3.sub = s => s[1] = "feed"
      BY FeedNone DEF FeedInv, FeedHeld, FeedOwn
<1>7. slot3.timers > 0 => slot3'.timers > 0
      BY <1>5 DEF FeedInv, FeedHeld, FeedOwn
<1>8. IsFiniteSet(slot2')
      BY <1>1, FS_Subset DEF FeedInv, FeedHeld
<1>9. slot3'.started /\ ~slot1'.gone => slot3'.sub \in slot2' \/ slot3'.connecting > 0 \/ slot3'.timers > 0
      BY <1>1, <1>5, <1>6, <1>7 DEF FeedInv, FeedHeld
<1>10. FeedHeld'
      BY <1>1, <1>5, <1>8, <1>9 DEF FeedInv, FeedHeld
<1> QED BY <1>2, <1>3, <1>10 DEF FeedInv

LEMMA FeedTimerFiresStep == ASSUME FeedInv, Feed!TimerFires PROVE FeedInv'
<1>1. UNCHANGED <<slot5, slot6, slot7>> /\ slot3.timers > 0
      BY DEF Feed!TimerFires
<1>2. slot8' \in FeedSpent
      BY FeedSpends DEF Feed!TimerFires, FeedInv
<1> DEFINE f == [slot3 EXCEPT !.timers = @ - 1]
<1>3. slot3.timers - 1 \in Nat
      BY <1>1 DEF FeedInv, FeedHeld, FeedOwn
<1>4. f \in FeedOwn /\ f.started = slot3.started
      BY <1>3 DEF FeedInv, FeedHeld, FeedOwn
<1>5. slot4.urls \in (SUBSET FeedUrls) \ {{}}
      BY DEF FeedInv, FeedHeld, FeedPool
<1>6. Feed!Reconnect(f, slot4.urls)
      BY DEF Feed!TimerFires
<1> HIDE DEF f
<1>7. FeedHeld'
      BY <1>4, <1>5, <1>6, ReconnectKeeps DEF FeedInv
<1>8. FeedScored'
      BY <1>1, ScoresStay DEF FeedInv
<1> QED BY <1>2, <1>7, <1>8 DEF FeedInv

LEMMA SetRelayStep == ASSUME FeedInv, NEW u \in FeedUrls, NEW on \in BOOLEAN, Feed!SetRelay(u, on) PROVE FeedInv'
<1>1. UNCHANGED <<slot5, slot6, slot7>>
      BY DEF Feed!SetRelay
<1>2. slot8' \in FeedSpent
      BY FeedSpends DEF Feed!SetRelay, FeedInv
<1> DEFINE urls == IF on THEN slot1.urls \cup {u} ELSE slot1.urls \ {u}
<1>3. urls \in (SUBSET FeedUrls) \ {{}} /\ Feed!Reconnect(slot3, urls)
      BY DEF Feed!SetRelay, FeedInv, FeedHeld, FeedPool
<1> HIDE DEF urls
<1>4. FeedHeld'
      BY <1>3, ReconnectKeeps DEF FeedInv, FeedHeld
<1>5. FeedScored'
      BY <1>1, ScoresStay DEF FeedInv
<1> QED BY <1>2, <1>4, <1>5 DEF FeedInv

LEMMA RefreshStep == ASSUME FeedInv, NEW up \in SUBSET FeedUrls, Feed!Refresh(up) PROVE FeedInv'
<1> DEFINE next == [u \in FeedUrls |-> IF u \in slot1.urls THEN u \in up ELSE None]
<1>1. /\ UNCHANGED <<slot2, slot3, slot5, slot6, slot7, slot8>>
      /\ slot1' = [slot1 EXCEPT !.statuses = next] /\ slot4' = [slot4 EXCEPT !.statuses = next]
      BY DEF Feed!Refresh
<1>2. next \in [FeedUrls -> BOOLEAN \cup {None}]
      <2>1. \A u \in FeedUrls : (u \in up) \in BOOLEAN
            OBVIOUS
      <2> QED BY <2>1
<1> HIDE DEF next
<1>3. slot1' \in FeedPool /\ UNCHANGED <<slot1.here, slot1.gone, slot1.urls, slot1.active>> /\ slot1'.statuses = next
      BY <1>1, <1>2 DEF FeedInv, FeedHeld, FeedPool
<1>4. slot4' = [urls |-> slot1'.urls, statuses |-> slot1'.statuses]
      BY <1>1, <1>3 DEF FeedInv, FeedHeld
<1>5. FeedHeld'
      BY <1>1, <1>3, <1>4 DEF FeedInv, FeedHeld
<1>6. FeedScored'
      BY <1>1, ScoresStay DEF FeedInv
<1> QED BY <1>1, <1>5, <1>6 DEF FeedInv

\* destroy(): nothing of it is left open.
LEMMA FeedDestroyStep == ASSUME FeedInv, Feed!Destroy PROVE FeedInv'
<1> DEFINE closed == slot1.active \cup {slot3.sub, slot3.follow}
           f == [slot3 EXCEPT !.sub = None, !.follow = None]
           none == Feed!NoStatus
<1>1. /\ UNCHANGED <<slot5, slot6, slot7>> /\ slot2' = slot2 \ closed /\ slot4' = [slot4 EXCEPT !.statuses = none]
      /\ slot3' = Feed!Ended(f, closed)
      /\ slot1' = [slot1 EXCEPT !.here = FALSE, !.gone = TRUE, !.active = {}, !.statuses = none, !.polling = FALSE]
      BY DEF Feed!Destroy, Feed!PoolDestroyed
<1>2. slot8' \in FeedSpent
      BY FeedSpends DEF Feed!Destroy, FeedInv
<1>3. slot2' = {}
      BY <1>1 DEF FeedInv, FeedHeld
<1>4. f \in FeedOwn /\ none \in [FeedUrls -> BOOLEAN \cup {None}]
      BY DEF FeedInv, FeedHeld, FeedOwn, Feed!NoStatus
<1> HIDE DEF f, closed, none
<1>5. slot3' \in FeedOwn
      BY <1>1, <1>4, EndedSets DEF FeedInv
<1>6. slot1' \in FeedPool /\ ~slot1'.here /\ slot1'.gone /\ slot1'.urls = slot1.urls /\ slot1'.statuses = none
      BY <1>1, <1>4 DEF FeedInv, FeedHeld, FeedPool
<1>7. slot4' = [urls |-> slot1'.urls, statuses |-> slot1'.statuses]
      BY <1>1, <1>6 DEF FeedInv, FeedHeld
<1>8. IsFiniteSet({})
      BY FS_EmptySet
<1>9. FeedHeld'
      BY <1>3, <1>5, <1>6, <1>7, <1>8 DEF FeedInv, FeedHeld
<1>10. FeedScored'
      BY <1>1, ScoresStay DEF FeedInv
<1> QED BY <1>2, <1>9, <1>10 DEF FeedInv

LEMMA FeedPublishStep == ASSUME FeedInv, Feed!Publish PROVE FeedInv'
<1>1. UNCHANGED <<slot1, slot2, slot3, slot4, slot5, slot7>> /\ slot6' = [at |-> "waiting", waits |-> slot1.urls]
      BY DEF Feed!Publish
<1>2. slot8' \in FeedSpent
      BY FeedSpends DEF Feed!Publish, FeedInv
<1>3. slot1.urls \in SUBSET FeedUrls /\ slot1.urls # {}
      BY DEF FeedInv, FeedHeld, FeedPool
<1>4. FeedScored'
      BY <1>1, <1>3 DEF FeedInv, FeedScored
<1>5. FeedHeld'
      BY <1>1 DEF FeedInv, FeedHeld
<1> QED BY <1>2, <1>4, <1>5 DEF FeedInv

LEMMA RelayAnswersStep == ASSUME FeedInv, NEW u \in FeedUrls, NEW ok \in BOOLEAN, Feed!RelayAnswers(u, ok) PROVE FeedInv'
<1>1. UNCHANGED <<slot1, slot2, slot3, slot4, slot5, slot7, slot8>>
      BY DEF Feed!RelayAnswers
<1> DEFINE at == IF slot6.at # "waiting" THEN slot6.at ELSE IF ok THEN "accepted" ELSE IF slot6.waits = {u} THEN "refused" ELSE "waiting"
<1>2. slot6' = [waits |-> slot6.waits \ {u}, at |-> at] /\ u \in slot6.waits
      BY DEF Feed!RelayAnswers
<1>3. at \in {"none", "waiting", "accepted", "refused"} /\ (at = "waiting" => slot6.waits # {u})
      BY DEF FeedInv, FeedScored
<1> HIDE DEF at
<1>4. slot6.waits \in SUBSET FeedUrls
      BY DEF FeedInv, FeedScored
<1>5. slot6' \in [at : {"none", "waiting", "accepted", "refused"}, waits : SUBSET FeedUrls] /\ (slot6'.at = "waiting" => slot6'.waits # {})
      BY <1>2, <1>3, <1>4
<1>6. FeedScored'
      BY <1>1, <1>5 DEF FeedInv, FeedScored
<1>7. FeedHeld'
      BY <1>1 DEF FeedInv, FeedHeld
<1> QED BY <1>1, <1>6, <1>7 DEF FeedInv

LEMMA FeedTickStep == ASSUME FeedInv, Feed!Tick PROVE FeedInv'
<1>1. UNCHANGED <<slot1, slot2, slot3, slot4, slot5, slot6, slot8>> /\ slot7' = [slot7 EXCEPT !.clock = @ + 1]
      BY DEF Feed!Tick
<1>2. slot7 \in [clock : Nat, ids : Nat] /\ slot7.clock + 1 \in Nat /\ slot7.clock >= 1
      BY DEF FeedInv, FeedScored
<1>3. PICK m \in Nat : slot7' = [slot7 EXCEPT !.clock = m] /\ m = slot7.clock + 1
      BY <1>1, <1>2
<1>4. slot7' \in [clock : Nat, ids : Nat] /\ slot7'.clock = slot7.clock + 1
      BY <1>2, <1>3
<1>5. ASSUME NEW u \in FeedUrls, slot5[u].until > slot7'.clock PROVE slot5[u].until > slot7.clock
      <2>1. slot5[u].until \in Nat
            BY DEF FeedInv, FeedScored, FeedMetric
      <2> QED BY <1>2, <1>4, <1>5, <2>1
<1>6. slot7'.clock >= 1
      BY <1>2, <1>4
<1>7. FeedScored'
      BY <1>1, <1>4, <1>5, <1>6 DEF FeedInv, FeedScored
<1>8. FeedHeld'
      BY <1>1 DEF FeedInv, FeedHeld
<1> QED BY <1>1, <1>7, <1>8 DEF FeedInv

LEMMA FeedBegins == ASSUME Feed!Init PROVE FeedInv
<1>1. PICK n \in DOMAIN FeedScenes : Feed!InitOf(n)
      BY DEF Feed!Init
<1> DEFINE none == Feed!NoStatus
<1>2. /\ slot1 = [here |-> FALSE, gone |-> FALSE, urls |-> FeedScenes[n].urls, active |-> {}, statuses |-> none, polling |-> FALSE]
      /\ slot2 = {} /\ slot3 = [sub |-> None, follow |-> None, connecting |-> 0, timers |-> 0, started |-> FALSE]
      /\ slot4 = [urls |-> FeedScenes[n].urls, statuses |-> none] /\ slot5 = [u \in FeedUrls |-> Feed!Unknown]
      /\ slot6 = [at |-> "none", waits |-> {}] /\ slot7 = [clock |-> 1, ids |-> 0]
      /\ slot8 = [FeedScenes[n].bounds EXCEPT !.scene = n]
      BY <1>1 DEF Feed!InitOf
<1>3. none \in [FeedUrls -> BOOLEAN \cup {None}]
      BY DEF Feed!NoStatus
<1> HIDE DEF none
<1>4. FeedScenes[n].urls \in SUBSET FeedUrls /\ FeedScenes[n].urls # {} /\ IsFiniteSet({})
      BY FeedsAssumed, FS_EmptySet
<1>5. slot1 \in FeedPool /\ slot3 \in FeedOwn
      BY <1>2, <1>3, <1>4 DEF FeedPool, FeedOwn
<1>6. FeedHeld
      BY <1>2, <1>4, <1>5 DEF FeedHeld
<1>7. Feed!Unknown \in FeedMetric /\ Feed!Unknown.until = 0
      BY DEF Feed!Unknown, FeedMetric
<1>8. FeedScored
      BY <1>2, <1>7 DEF FeedScored
<1>9. slot8 \in FeedSpent
      BY <1>2, FeedsAssumed DEF FeedSpent
<1> QED BY <1>6, <1>8, <1>9 DEF FeedInv

LEMMA FeedsReturn == FeedInv => Feed!FeedReturns
<1> SUFFICES ASSUME FeedInv PROVE Feed!FeedReturns
    OBVIOUS
<1>1. slot4.urls = slot1.urls /\ slot4.urls # {} /\ slot4.statuses = slot1.statuses
      BY DEF FeedInv, FeedHeld
<1>2. \A u \in FeedUrls : Feed!BackedOff(slot5[u]) => slot5[u].known /\ slot5[u].streak > 0
      BY DEF FeedInv, FeedScored, Feed!BackedOff
<1>3. slot6.at = "waiting" => slot6.waits # {}
      BY DEF FeedInv, FeedScored
<1> QED BY <1>1, <1>2, <1>3 DEF FeedInv, FeedHeld, Feed!FeedReturns

----------------------------------------------------------------------------
(* The relays of a bunker.                                                 *)

HeldDial  == [url : HeldUrls, of : Nat]
HeldReq   == [url : HeldUrls, of : Nat, eose : BOOLEAN]
HeldSpent == [scene : DOMAIN HeldScenes, ids : Nat, closes : Nat, admissions : Nat]
HeldTyped ==
    /\ slot1 \in {"new", "started", "stopped"} /\ slot2 \in [HeldUrls -> Held!Record \cup {None}]
    /\ slot3 \subseteq HeldDial /\ slot4 \subseteq HeldReq /\ slot5 \subseteq HeldUrls /\ slot7 \in HeldSpent

\* A record, or none: its id was given, it is not dialled while it is subscribed, and while the
\* server runs it is one of the two or due again.
RecordHeld(u) ==
    /\ slot2[u] # None => /\ slot1 # "stopped" /\ slot2[u].id < slot7.ids
                          /\ slot2[u].connecting => ~slot2[u].closer /\ u \in slot5
                          /\ slot1 = "new" => ~slot2[u].closer /\ ~slot2[u].connecting
                          /\ slot1 = "started" => slot2[u].closer \/ slot2[u].connecting \/ slot2[u].timer
    /\ u \in slot5 => slot2[u] # None
\* A dial that finds the record it was made for is the one that record waits for.
DialHeld(d) == d.of < slot7.ids /\ (slot2[d.url] # None /\ slot2[d.url].id = d.of => slot2[d.url].connecting)
ReqHeld(r)  == slot2[r.url] # None /\ slot2[r.url].id = r.of /\ slot2[r.url].closer /\ r.url \in slot5
HeldInv ==
    /\ HeldTyped
    /\ \A u \in HeldUrls : RecordHeld(u)
    /\ \A d \in slot3 : DialHeld(d)
    /\ \A r \in slot4 : ReqHeld(r)
    /\ \A q, r \in slot4 : q.url = r.url => q = r

LEMMA HeldAssumed ==
    None \notin Held!Record /\ \A n \in DOMAIN HeldScenes : HeldScenes[n].closes \in Nat /\ HeldScenes[n].admissions \in Nat
BY RelayAssumption

\* A handler that changes one record, with the dials and the subscriptions of its relay.
LEMMA RecordMoves ==
    ASSUME HeldInv, slot1' = slot1, slot1 # "stopped", NEW u \in HeldUrls, NEW e \in Held!Record, slot2' = [slot2 EXCEPT ![u] = e],
           slot7' \in HeldSpent, slot7'.ids >= slot7.ids, slot5 \subseteq slot5', slot5' \subseteq slot5 \cup {u},
           slot3' \subseteq HeldDial, slot4' \subseteq HeldReq,
           e.id < slot7'.ids, e.connecting => ~e.closer /\ u \in slot5', slot1 = "new" => ~e.closer /\ ~e.connecting,
           slot1 = "started" => e.closer \/ e.connecting \/ e.timer,
           \A d \in slot3' : (d \in slot3 /\ d.url # u) \/ (d.url = u /\ d.of < slot7'.ids /\ (d.of = e.id => e.connecting)),
           \A r \in slot4' : (r \in slot4 /\ r.url # u) \/ (r.url = u /\ r.of = e.id /\ e.closer /\ u \in slot5'),
           \A q, r \in slot4' : q.url = u /\ r.url = u => q = r
    PROVE  HeldInv'
<1>1. HeldTyped'
      BY DEF HeldInv, HeldTyped
<1>2. slot2'[u] = e /\ slot2'[u] # None /\ \A v \in HeldUrls : v # u => slot2'[v] = slot2[v]
      BY HeldAssumed DEF HeldInv, HeldTyped
<1>3. slot7.ids \in Nat /\ slot7'.ids \in Nat
      BY DEF HeldInv, HeldTyped, HeldSpent
<1>4. ASSUME NEW v \in HeldUrls PROVE RecordHeld(v)'
      <2>1. CASE v = u
            BY <1>2, <2>1 DEF RecordHeld
      <2>2. CASE v # u
            <3>1. RecordHeld(v) /\ slot2'[v] = slot2[v] /\ (v \in slot5' <=> v \in slot5)
                  BY <1>2, <2>2 DEF HeldInv
            <3>2. slot2[v] # None => slot2[v].id \in Nat
                  BY DEF HeldInv, HeldTyped, Held!Record
            <3> QED BY <1>3, <3>1, <3>2 DEF RecordHeld
      <2> QED BY <2>1, <2>2
<1>5. ASSUME NEW d \in slot3' PROVE DialHeld(d)'
      <2>0. d \in HeldDial /\ d.url \in HeldUrls /\ d.of \in Nat
            BY DEF HeldDial
      <2>1. CASE d \in slot3 /\ d.url # u
            <3>1. DialHeld(d) /\ slot2'[d.url] = slot2[d.url]
                  BY <1>2, <2>0, <2>1 DEF HeldInv
            <3> QED BY <1>3, <2>0, <3>1 DEF DialHeld
      <2>2. CASE d.url = u /\ d.of < slot7'.ids /\ (d.of = e.id => e.connecting)
            BY <1>2, <2>2 DEF DialHeld
      <2> QED BY <2>1, <2>2
<1>6. ASSUME NEW r \in slot4' PROVE ReqHeld(r)'
      <2>1. CASE r \in slot4 /\ r.url # u
            <3>1. ReqHeld(r) /\ r.url \in HeldUrls
                  BY <2>1 DEF HeldInv, HeldTyped, HeldReq
            <3> QED BY <1>2, <2>1, <3>1 DEF ReqHeld
      <2>2. CASE r.url = u /\ r.of = e.id /\ e.closer /\ u \in slot5'
            BY <1>2, <2>2 DEF ReqHeld
      <2> QED BY <2>1, <2>2
<1>7. ASSUME NEW q \in slot4', NEW r \in slot4', q.url = r.url PROVE q = r
      <2>1. CASE q.url = u
            BY <1>7, <2>1
      <2>2. CASE q.url # u
            BY <1>7, <2>2 DEF HeldInv
      <2> QED BY <2>1, <2>2
<1> QED BY <1>1, <1>4, <1>5, <1>6, <1>7 DEF HeldInv

\* Opening, from a table in which the record under u is e: nothing, or a dial.
LEMMA OpensRecord ==
    ASSUME HeldInv, slot1' = slot1, slot1 = "started", slot4' = slot4, NEW u \in HeldUrls, NEW e \in Held!Record,
           slot7' \in HeldSpent, slot7'.ids >= slot7.ids, e.id < slot7'.ids,
           slot2[u] = None => e.id = slot7.ids /\ ~e.closer /\ ~e.connecting,
           slot2[u] # None => e.id = slot2[u].id /\ e.closer = slot2[u].closer /\ e.connecting = slot2[u].connecting,
           Held!Subscribes([slot2 EXCEPT ![u] = e], u)
    PROVE  HeldInv'
<1> DEFINE s == [slot2 EXCEPT ![u] = e]
           f == [e EXCEPT !.connecting = TRUE]
<1>1. s[u] = e /\ slot2 \in [HeldUrls -> Held!Record \cup {None}]
      BY DEF HeldInv, HeldTyped
<1>2. e.id \in Nat /\ slot7.ids \in Nat /\ slot7'.ids \in Nat
      BY DEF HeldInv, HeldTyped, HeldSpent, Held!Record
<1>3. \A r \in slot4 : r.url = u => r.of = e.id /\ e.closer /\ u \in slot5
      BY DEF HeldInv, ReqHeld
<1>4. \A q, r \in slot4 : q.url = u /\ r.url = u => q = r
      BY DEF HeldInv
<1>5. \A d \in slot3 : d.url = u => d.of < slot7'.ids /\ (d.of = e.id => e.connecting)
      <2> TAKE d \in slot3
      <2>1. DialHeld(d) /\ d.of \in Nat
            BY DEF HeldInv, HeldTyped, HeldDial
      <2> QED BY <1>2, <2>1 DEF DialHeld
<1>6. RecordHeld(u)
      BY DEF HeldInv
<1>7. slot3 \subseteq HeldDial /\ slot4 \subseteq HeldReq
      BY DEF HeldInv, HeldTyped
<1>8. CASE e.closer \/ e.connecting
      <2>1. slot2' = [slot2 EXCEPT ![u] = e] /\ UNCHANGED <<slot3, slot5>>
            BY <1>1, <1>8 DEF Held!Subscribes
      <2>2. e.connecting => ~e.closer /\ u \in slot5'
            BY <1>6, <1>8, <2>1 DEF RecordHeld
      <2>3. /\ slot5 \subseteq slot5' /\ slot5' \subseteq slot5 \cup {u} /\ slot3' \subseteq HeldDial /\ slot4' \subseteq HeldReq
            /\ slot1 # "stopped" /\ (slot1 = "new" => ~e.closer /\ ~e.connecting) /\ (slot1 = "started" => e.closer \/ e.connecting \/ e.timer)
            BY <1>7, <1>8, <2>1
      <2>4. \A d \in slot3' : (d \in slot3 /\ d.url # u) \/ (d.url = u /\ d.of < slot7'.ids /\ (d.of = e.id => e.connecting))
            BY <1>5, <2>1
      <2>5. \A r \in slot4' : (r \in slot4 /\ r.url # u) \/ (r.url = u /\ r.of = e.id /\ e.closer /\ u \in slot5')
            BY <1>3, <2>1
      <2>6. \A q, r \in slot4' : q.url = u /\ r.url = u => q = r
            BY <1>4
      <2> QED BY <2>1, <2>2, <2>3, <2>4, <2>5, <2>6, RecordMoves
<1>9. CASE ~(e.closer \/ e.connecting)
      <2>1. /\ slot2' = [s EXCEPT ![u].connecting = TRUE] /\ slot3' = slot3 \cup {[url |-> u, of |-> e.id]} /\ slot5' = slot5 \cup {u}
            BY <1>1, <1>9 DEF Held!Subscribes
      <2>2. slot2' = [slot2 EXCEPT ![u] = f]
            BY <1>1, <2>1
      <2>3. f \in Held!Record /\ f.id = e.id /\ f.connecting /\ f.closer = e.closer
            BY DEF Held!Record
      <2> HIDE DEF f, s
      <2>4. f.id < slot7'.ids /\ (f.connecting => ~f.closer /\ u \in slot5')
            BY <1>9, <2>1, <2>3
      <2>5. /\ slot5 \subseteq slot5' /\ slot5' \subseteq slot5 \cup {u} /\ slot3' \subseteq HeldDial /\ slot4' \subseteq HeldReq
            /\ slot1 # "stopped" /\ (slot1 = "new" => ~f.closer /\ ~f.connecting) /\ (slot1 = "started" => f.closer \/ f.connecting \/ f.timer)
            BY <1>2, <1>7, <2>1, <2>3 DEF HeldDial
      <2>6. \A d \in slot3' : (d \in slot3 /\ d.url # u) \/ (d.url = u /\ d.of < slot7'.ids /\ (d.of = f.id => f.connecting))
            BY <1>5, <2>1, <2>3
      <2>7. \A r \in slot4' : (r \in slot4 /\ r.url # u) \/ (r.url = u /\ r.of = f.id /\ f.closer /\ u \in slot5')
            BY <1>3, <2>1, <2>3
      <2>8. \A q, r \in slot4' : q.url = u /\ r.url = u => q = r
            BY <1>4
      <2> QED BY <2>2, <2>3, <2>4, <2>5, <2>6, <2>7, <2>8, RecordMoves
<1> QED BY <1>8, <1>9

\* One more interest in a relay, with a record of its own when there was none.
LEMMA AddRelayStep == ASSUME HeldInv, NEW u \in HeldUrls, NEW o \in Held!Owners, Held!AddRelay(u, o) PROVE HeldInv'
<1> DEFINE e == IF slot2[u] = None THEN Held!State(slot7.ids, o) ELSE [slot2[u] EXCEPT !.owners = @ \cup {o}]
           n == slot7.ids + (IF slot2[u] = None THEN 1 ELSE 0)
           m == IF o \in HeldClients THEN slot7.admissions - 1 ELSE slot7.admissions
<1>1. /\ slot1 # "stopped" /\ UNCHANGED <<slot1, slot4>> /\ slot7' = [slot7 EXCEPT !.ids = n, !.admissions = m]
      /\ (o \in HeldClients => slot7.admissions > 0)
      /\ IF slot1 = "started" THEN Held!Subscribes(Held!ClaimedIn(slot2, u, o), u)
         ELSE slot2' = Held!ClaimedIn(slot2, u, o) /\ UNCHANGED <<slot3, slot5>>
      BY DEF Held!AddRelay, Held!Live
<1>2. slot7.ids \in Nat /\ slot7.admissions \in Nat /\ slot2 \in [HeldUrls -> Held!Record \cup {None}] /\ slot7 \in HeldSpent
      BY DEF HeldInv, HeldTyped, HeldSpent
<1>3. n \in Nat /\ n >= slot7.ids /\ m \in Nat /\ (slot2[u] = None => slot7.ids < n)
      BY <1>1, <1>2
<1>4. Held!ClaimedIn(slot2, u, o) = [slot2 EXCEPT ![u] = e]
      BY <1>2 DEF Held!ClaimedIn, Held!Fresh
<1>5. /\ e \in Held!Record
      /\ slot2[u] = None => e.id = slot7.ids /\ ~e.closer /\ ~e.connecting /\ ~e.timer
      /\ slot2[u] # None => e.id = slot2[u].id /\ e.closer = slot2[u].closer /\ e.connecting = slot2[u].connecting
      <2>1. CASE slot2[u] = None
            <3>1. Held!State(slot7.ids, o) \in Held!Record
                  BY <1>2 DEF Held!State, Held!Record
            <3> QED BY <2>1, <3>1 DEF Held!State
      <2>2. CASE slot2[u] # None
            <3>1. slot2[u] \in Held!Record
                  BY <1>2, <2>2
            <3> QED BY <2>2, <3>1 DEF Held!Record
      <2> QED BY <2>1, <2>2
<1> HIDE DEF e, n, m
<1>6. slot7' \in HeldSpent /\ slot7'.ids = n
      BY <1>1, <1>2, <1>3 DEF HeldSpent
<1>7. RecordHeld(u)
      BY DEF HeldInv
<1>8. e.id < slot7'.ids
      <2>1. slot2[u] # None => slot2[u].id < slot7.ids /\ slot2[u].id \in Nat
            BY <1>2, <1>7 DEF RecordHeld, Held!Record
      <2> QED BY <1>2, <1>3, <1>5, <1>6, <2>1
<1>9. CASE slot1 = "started"
      <2>1. Held!Subscribes([slot2 EXCEPT ![u] = e], u)
            BY <1>1, <1>4, <1>9
      <2> QED BY <1>1, <1>3, <1>5, <1>6, <1>8, <1>9, <2>1, OpensRecord
<1>10. CASE slot1 # "started"
      <2>1. slot1 = "new" /\ slot2' = [slot2 EXCEPT ![u] = e] /\ UNCHANGED <<slot3, slot5>>
            BY <1>1, <1>4, <1>10 DEF HeldInv, HeldTyped
      <2>2. ~e.closer /\ ~e.connecting
            BY <1>5, <1>7, <2>1 DEF RecordHeld
      <2>3. slot3' \subseteq HeldDial /\ slot4' \subseteq HeldReq
            BY <1>1, <2>1 DEF HeldInv, HeldTyped
      <2>4. ASSUME NEW d \in slot3', d.url = u PROVE d.of < slot7'.ids /\ (d.of = e.id => e.connecting)
            <3>1. DialHeld(d) /\ d.of \in Nat
                  BY <2>1, <2>4 DEF HeldInv, HeldTyped, HeldDial
            <3> QED BY <1>2, <1>3, <1>5, <1>6, <2>4, <3>1 DEF DialHeld
      <2>5. \A d \in slot3' : (d \in slot3 /\ d.url # u) \/ (d.url = u /\ d.of < slot7'.ids /\ (d.of = e.id => e.connecting))
            BY <2>1, <2>4
      <2>6. \A r \in slot4' : r.url # u
            <3>1. ASSUME NEW r \in slot4', r.url = u PROVE FALSE
                  <4>1. ReqHeld(r)
                        BY <1>1 DEF HeldInv
                  <4> QED BY <1>5, <2>2, <3>1, <4>1 DEF ReqHeld
            <3> QED BY <3>1
      <2>7. \A r \in slot4' : (r \in slot4 /\ r.url # u) \/ (r.url = u /\ r.of = e.id /\ e.closer /\ u \in slot5')
            BY <1>1, <2>6
      <2>8. \A q, r \in slot4' : q.url = u /\ r.url = u => q = r
            BY <2>6
      <2>9. slot7'.ids >= slot7.ids /\ slot5 \subseteq slot5' /\ slot5' \subseteq slot5 \cup {u}
            BY <1>3, <1>6, <2>1
      <2> QED BY <1>1, <1>5, <1>6, <1>8, <2>1, <2>2, <2>3, <2>5, <2>7, <2>8, <2>9, RecordMoves
<1> QED BY <1>9, <1>10

\* start(): every relay there is a record of is dialled.
LEMMA HeldStartStep == ASSUME HeldInv, Held!Start PROVE HeldInv'
<1> DEFINE of == {u \in HeldUrls : slot2[u] # None}
<1>1. /\ slot1 = "new" /\ slot1' = "started" /\ UNCHANGED <<slot4, slot7>> /\ slot5' = of
      /\ slot2' = [u \in HeldUrls |-> IF u \in of THEN [slot2[u] EXCEPT !.connecting = TRUE, !.owners = @ \cup {HeldServer}] ELSE None]
      /\ slot3' = {[url |-> u, of |-> slot2[u].id] : u \in of}
      BY DEF Held!Start
<1>2. ASSUME NEW u \in of
      PROVE  /\ slot2'[u] \in Held!Record /\ slot2'[u].id = slot2[u].id /\ slot2'[u].connecting
             /\ ~slot2'[u].closer /\ slot2[u].id \in Nat /\ slot2[u].id < slot7.ids
      <2>1. slot2[u] \in Held!Record /\ u \in HeldUrls /\ RecordHeld(u)
            BY DEF HeldInv, HeldTyped
      <2>2. slot2'[u] = [slot2[u] EXCEPT !.connecting = TRUE, !.owners = @ \cup {HeldServer}]
            BY <1>1
      <2>3. slot2[u].owners \cup {HeldServer} \in SUBSET Held!Owners
            BY <2>1 DEF Held!Record, Held!Owners
      <2>4. slot2'[u] \in Held!Record /\ slot2'[u].id = slot2[u].id /\ slot2'[u].connecting /\ slot2'[u].closer = slot2[u].closer
            BY <2>1, <2>2, <2>3 DEF Held!Record
      <2>5. slot2[u].id \in Nat
            BY <2>1 DEF Held!Record
      <2> QED BY <1>1, <2>1, <2>4, <2>5 DEF RecordHeld
<1>3. \A u \in HeldUrls : u \notin of => slot2'[u] = None
      BY <1>1
<1>4. HeldTyped'
      <2>1. slot2' \in [HeldUrls -> Held!Record \cup {None}]
            <3>1. \A u \in HeldUrls : slot2'[u] \in Held!Record \cup {None}
                  BY <1>2, <1>3
            <3> QED BY <1>1, <3>1
      <2>2. slot3' \subseteq HeldDial
            <3>1. \A u \in of : [url |-> u, of |-> slot2[u].id] \in HeldDial
                  BY <1>2 DEF HeldDial
            <3> QED BY <1>1, <3>1
      <2> QED BY <1>1, <2>1, <2>2 DEF HeldInv, HeldTyped
<1>5. \A u \in HeldUrls : RecordHeld(u)'
      <2> TAKE u \in HeldUrls
      <2>1. CASE u \in of
            BY <1>1, <1>2, <2>1, HeldAssumed DEF RecordHeld
      <2>2. CASE u \notin of
            BY <1>1, <1>3, <2>2 DEF RecordHeld
      <2> QED BY <2>1, <2>2
<1>6. \A d \in slot3' : DialHeld(d)'
      <2> TAKE d \in slot3'
      <2>1. PICK u \in of : d = [url |-> u, of |-> slot2[u].id]
            BY <1>1
      <2> QED BY <1>1, <1>2, <2>1 DEF DialHeld
<1>7. slot4' = {}
      <2>1. ASSUME NEW r \in slot4 PROVE FALSE
            <3>1. ReqHeld(r) /\ r.url \in HeldUrls
                  BY DEF HeldInv, HeldTyped, HeldReq
            <3>2. RecordHeld(r.url)
                  BY <3>1 DEF HeldInv
            <3> QED BY <1>1, <3>1, <3>2 DEF ReqHeld, RecordHeld
      <2> QED BY <1>1, <2>1
<1> QED BY <1>4, <1>5, <1>6, <1>7 DEF HeldInv

\* The last owner takes the record along.
LEMMA HeldReleaseStep == ASSUME HeldInv, NEW u \in HeldUrls, NEW o \in Held!Owners, Held!Release(u, o) PROVE HeldInv'
<1>1. slot1 # "stopped" /\ UNCHANGED <<slot1, slot3, slot7>> /\ slot2[u] # None
      BY DEF Held!Release, Held!Live, Held!Owned
<1>2. slot2 \in [HeldUrls -> Held!Record \cup {None}] /\ RecordHeld(u) /\ slot2[u] \in Held!Record /\ slot7.ids \in Nat
      BY <1>1 DEF HeldInv, HeldTyped, HeldSpent
<1>3. CASE slot2[u].owners = {o}
      <2>1. /\ slot2' = [slot2 EXCEPT ![u] = None] /\ slot4' = {r \in slot4 : r.url # u} /\ slot5' = slot5 \ {u}
            BY <1>3 DEF Held!Release
      <2>2. slot2'[u] = None /\ \A v \in HeldUrls : v # u => slot2'[v] = slot2[v]
            BY <1>2, <2>1
      <2>3. HeldTyped'
            BY <1>1, <2>1 DEF HeldInv, HeldTyped
      <2>4. \A v \in HeldUrls : RecordHeld(v)'
            <3> TAKE v \in HeldUrls
            <3>1. RecordHeld(v)
                  BY DEF HeldInv
            <3> QED BY <1>1, <2>1, <2>2, <3>1 DEF RecordHeld
      <2>5. \A d \in slot3' : DialHeld(d)'
            <3> TAKE d \in slot3'
            <3>1. DialHeld(d) /\ d.url \in HeldUrls
                  BY <1>1 DEF HeldInv, HeldTyped, HeldDial
            <3> QED BY <1>1, <2>2, <3>1 DEF DialHeld
      <2>6. \A r \in slot4' : ReqHeld(r)'
            <3> TAKE r \in slot4'
            <3>1. ReqHeld(r) /\ r.url \in HeldUrls /\ r.url # u
                  BY <2>1 DEF HeldInv, HeldTyped, HeldReq
            <3> QED BY <2>1, <2>2, <3>1 DEF ReqHeld
      <2>7. \A q, r \in slot4' : q.url = r.url => q = r
            BY <2>1 DEF HeldInv
      <2> QED BY <2>3, <2>4, <2>5, <2>6, <2>7 DEF HeldInv
<1>4. CASE slot2[u].owners # {o}
      <2> DEFINE e == [slot2[u] EXCEPT !.owners = @ \ {o}]
      <2>1. slot2' = [slot2 EXCEPT ![u] = e] /\ UNCHANGED <<slot4, slot5>>
            BY <1>4 DEF Held!Release
      <2>2. /\ e \in Held!Record /\ e.id = slot2[u].id /\ e.closer = slot2[u].closer /\ e.connecting = slot2[u].connecting
            /\ e.timer = slot2[u].timer
            BY <1>2 DEF Held!Record
      <2> HIDE DEF e
      <2>3. ASSUME NEW d \in slot3', d.url = u PROVE d.of < slot7'.ids /\ (d.of = e.id => e.connecting)
            <3>1. DialHeld(d)
                  BY <1>1 DEF HeldInv
            <3> QED BY <1>1, <2>2, <2>3, <3>1 DEF DialHeld
      <2>4. \A d \in slot3' : (d \in slot3 /\ d.url # u) \/ (d.url = u /\ d.of < slot7'.ids /\ (d.of = e.id => e.connecting))
            BY <1>1, <2>3
      <2>5. \A r \in slot4' : (r \in slot4 /\ r.url # u) \/ (r.url = u /\ r.of = e.id /\ e.closer /\ u \in slot5')
            BY <2>1, <2>2 DEF HeldInv, ReqHeld
      <2>6. \A q, r \in slot4' : q.url = u /\ r.url = u => q = r
            BY <2>1 DEF HeldInv
      <2>7. /\ slot7' \in HeldSpent /\ slot7'.ids >= slot7.ids /\ slot5 \subseteq slot5' /\ slot5' \subseteq slot5 \cup {u}
            /\ slot3' \subseteq HeldDial /\ slot4' \subseteq HeldReq
            BY <1>1, <1>2, <2>1 DEF HeldInv, HeldTyped
      <2>8. /\ e.id < slot7'.ids /\ (e.connecting => ~e.closer /\ u \in slot5') /\ (slot1 = "new" => ~e.closer /\ ~e.connecting)
            /\ (slot1 = "started" => e.closer \/ e.connecting \/ e.timer)
            BY <1>1, <1>2, <2>1, <2>2 DEF RecordHeld
      <2> QED BY <1>1, <2>1, <2>2, <2>4, <2>5, <2>6, <2>7, <2>8, RecordMoves
<1> QED BY <1>3, <1>4

\* stop(): nothing is left; a dial that is under way finds no record.
LEMMA HeldStopStep == ASSUME HeldInv, Held!Stop PROVE HeldInv'
<1>1. /\ slot1' = "stopped" /\ slot2' = [u \in HeldUrls |-> None] /\ slot4' = {} /\ slot5' = {} /\ UNCHANGED <<slot3, slot7>>
      BY DEF Held!Stop
<1>2. \A u \in HeldUrls : slot2'[u] = None
      BY <1>1
<1>3. HeldTyped'
      BY <1>1 DEF HeldInv, HeldTyped
<1>4. \A u \in HeldUrls : RecordHeld(u)'
      BY <1>1, <1>2 DEF RecordHeld
<1>5. \A d \in slot3' : DialHeld(d)'
      <2> TAKE d \in slot3'
      <2>1. DialHeld(d) /\ d.url \in HeldUrls
            BY <1>1 DEF HeldInv, HeldTyped, HeldDial
      <2> QED BY <1>1, <1>2, <2>1 DEF DialHeld
<1> QED BY <1>1, <1>3, <1>4, <1>5 DEF HeldInv

\* A record whose dial or subscription ended is due again.
Due(e) == IF e.timer THEN e
          ELSE [e EXCEPT !.timer = TRUE, !.failures = IF e.failures < HeldMaxFailures THEN e.failures + 1 ELSE e.failures]
LEMMA DueRecord ==
    ASSUME NEW e \in Held!Record
    PROVE  Due(e) \in Held!Record /\ Due(e).timer /\ Due(e).id = e.id /\ Due(e).closer = e.closer /\ Due(e).connecting = e.connecting
<1> DEFINE n == IF e.failures < HeldMaxFailures THEN e.failures + 1 ELSE e.failures
<1>1. n \in Nat
      BY DEF Held!Record
<1>2. Due(e) = IF e.timer THEN e ELSE [e EXCEPT !.timer = TRUE, !.failures = n]
      BY DEF Due
<1> HIDE DEF n
<1> QED BY <1>1, <1>2 DEF Held!Record

\* Two dials for one record are one.
LEMMA DialIs == ASSUME NEW d \in HeldDial, NEW c \in HeldDial, d.url = c.url, d.of = c.of PROVE d = c
BY DEF HeldDial

\* A dial ends with no record to tell.
LEMMA DialLost ==
    ASSUME HeldInv, NEW d \in slot3, slot3' = slot3 \ {d}, UNCHANGED <<slot1, slot2, slot4, slot5, slot7>>
    PROVE  HeldInv'
BY DEF HeldInv, HeldTyped, RecordHeld, DialHeld, ReqHeld

LEMMA ConnectedStep == ASSUME HeldInv, NEW d \in slot3, Held!Connected(d) PROVE HeldInv'
<1>1. slot3' = slot3 \ {d} /\ UNCHANGED <<slot1, slot5, slot7>> /\ Held!Connects(d)
      BY DEF Held!Connected
<1> DEFINE u == d.url
<1>2. u \in HeldUrls /\ d.of \in Nat /\ d \in HeldDial /\ slot2 \in [HeldUrls -> Held!Record \cup {None}]
      BY DEF HeldInv, HeldTyped, HeldDial
<1>3. CASE ~Held!Current(d.url, d.of)
      BY <1>1, <1>3, DialLost DEF Held!Connects
<1>4. CASE Held!Current(d.url, d.of)
      <2> DEFINE e == [slot2[u] EXCEPT !.connecting = FALSE, !.closer = TRUE]
                 q == [url |-> u, of |-> d.of, eose |-> FALSE]
      <2>1. slot1 # "stopped" /\ slot2[u] # None /\ slot2[u].id = d.of /\ slot2[u] \in Held!Record
            BY <1>2, <1>4 DEF Held!Current, Held!Live
      <2>2. slot4' = slot4 \cup {q} /\ slot2' = [slot2 EXCEPT ![u].connecting = FALSE, ![u].closer = TRUE]
            BY <1>1, <1>4 DEF Held!Connects
      <2>3. slot2' = [slot2 EXCEPT ![u] = e]
            BY <1>2, <2>2
      <2>4. RecordHeld(u) /\ DialHeld(d)
            BY <1>2 DEF HeldInv
      <2>5. slot2[u].connecting /\ ~slot2[u].closer /\ u \in slot5 /\ d.of < slot7.ids /\ slot1 = "started"
            <3>1. slot2[u].connecting /\ ~slot2[u].closer /\ u \in slot5 /\ d.of < slot7.ids
                  BY <2>1, <2>4 DEF RecordHeld, DialHeld
            <3> QED BY <2>1, <2>4, <3>1 DEF HeldInv, HeldTyped, RecordHeld
      <2>6. e \in Held!Record /\ e.id = d.of /\ e.closer /\ ~e.connecting /\ e.timer = slot2[u].timer
            BY <2>1 DEF Held!Record
      <2>7. q \in HeldReq /\ q.url = u /\ q.of = d.of
            BY <1>2 DEF HeldReq
      <2> HIDE DEF e, q
      <2>8. \A r \in slot4 : r.url # u
            <3>1. ASSUME NEW r \in slot4, r.url = u PROVE FALSE
                  <4>1. ReqHeld(r)
                        BY DEF HeldInv
                  <4> QED BY <2>5, <3>1, <4>1 DEF ReqHeld
            <3> QED BY <3>1
      <2>9. \A r \in slot4' : (r \in slot4 /\ r.url # u) \/ (r.url = u /\ r.of = e.id /\ e.closer /\ u \in slot5')
            BY <1>1, <2>2, <2>5, <2>6, <2>7, <2>8
      <2>10. \A p, r \in slot4' : p.url = u /\ r.url = u => p = r
            BY <2>2, <2>8
      <2>11. ASSUME NEW c \in slot3' PROVE (c \in slot3 /\ c.url # u) \/ (c.url = u /\ c.of < slot7'.ids /\ (c.of = e.id => e.connecting))
            <3>1. c \in slot3 /\ c # d /\ c \in HeldDial /\ DialHeld(c)
                  BY <1>1 DEF HeldInv, HeldTyped
            <3>2. c.url = u => c.of # d.of
                  BY <1>2, <3>1, DialIs
            <3> QED BY <1>1, <2>6, <3>1, <3>2 DEF DialHeld
      <2>12. /\ slot7' \in HeldSpent /\ slot7'.ids >= slot7.ids /\ slot5 \subseteq slot5' /\ slot5' \subseteq slot5 \cup {u}
             /\ slot3' \subseteq HeldDial /\ slot4' \subseteq HeldReq
            BY <1>1, <2>2, <2>7 DEF HeldInv, HeldTyped, HeldSpent
      <2>13. /\ e.id < slot7'.ids /\ (e.connecting => ~e.closer /\ u \in slot5') /\ (slot1 = "new" => ~e.closer /\ ~e.connecting)
             /\ (slot1 = "started" => e.closer \/ e.connecting \/ e.timer)
            BY <1>1, <2>5, <2>6
      <2> QED BY <1>1, <1>2, <2>1, <2>3, <2>6, <2>9, <2>10, <2>11, <2>12, <2>13, RecordMoves
<1> QED BY <1>3, <1>4

LEMMA ConnectFailsStep == ASSUME HeldInv, NEW d \in slot3, Held!ConnectFails(d) PROVE HeldInv'
<1>1. slot3' = slot3 \ {d} /\ UNCHANGED <<slot1, slot4, slot5, slot7>>
      BY DEF Held!ConnectFails
<1>0. PICK u \in HeldUrls : u = d.url
      BY DEF HeldInv, HeldTyped, HeldDial
<1>2. u \in HeldUrls /\ d.url = u /\ d.of \in Nat /\ d \in HeldDial /\ slot2 \in [HeldUrls -> Held!Record \cup {None}]
      BY <1>0 DEF HeldInv, HeldTyped, HeldDial
<1>3. CASE ~Held!Current(d.url, d.of)
      <2>1. slot2' = slot2
            BY <1>3 DEF Held!ConnectFails
      <2> QED BY <1>1, <2>1, DialLost
<1>4. CASE Held!Current(d.url, d.of)
      <2>1. slot1 # "stopped" /\ slot2[u] # None /\ slot2[u].id = d.of /\ slot2[u] \in Held!Record
            BY <1>2, <1>4 DEF Held!Current, Held!Live
      <2>2. Held!ScheduleResubscribe([slot2 EXCEPT ![u].connecting = FALSE], u, d.of)
            BY <1>2, <1>4 DEF Held!ConnectFails
      <2>3. [slot2[u] EXCEPT !.connecting = FALSE] \in Held!Record
            BY <2>1 DEF Held!Record
      <2>4. PICK e \in Held!Record : e = [slot2[u] EXCEPT !.connecting = FALSE]
            BY <2>3
      <2>5. /\ Held!ScheduleResubscribe([slot2 EXCEPT ![u] = e], u, e.id)
            /\ e.id = d.of /\ e.closer = slot2[u].closer /\ ~e.connecting
            <3>1. e.id = d.of /\ e.closer = slot2[u].closer /\ ~e.connecting
                  BY <2>1, <2>4 DEF Held!Record
            <3>2. [slot2 EXCEPT ![u].connecting = FALSE] = [slot2 EXCEPT ![u] = e]
                  BY <2>4
            <3> QED BY <2>2, <3>1, <3>2
      <2>e. slot2' = [slot2 EXCEPT ![u] = Due(e)]
            <3> DEFINE s == [slot2 EXCEPT ![u] = e]
            <3>1. s[u] = e /\ e # None /\ Held!Live
                  BY <1>2, <2>1, <2>4, HeldAssumed DEF Held!Live
            <3>2. Held!ScheduleResubscribe(s, u, e.id)
                  BY <2>5
            <3>3. CASE e.timer
                  BY <3>1, <3>2, <3>3 DEF Held!ScheduleResubscribe, Due
            <3>4. CASE ~e.timer
                  <4>1. slot2' = [s EXCEPT ![u].timer = TRUE, ![u].failures = IF @ < HeldMaxFailures THEN @ + 1 ELSE @]
                        BY <3>1, <3>2, <3>4 DEF Held!ScheduleResubscribe
                  <4> QED BY <3>1, <3>4, <4>1 DEF Due, Held!Record
            <3> QED BY <3>3, <3>4
      <2>6. PICK f \in Held!Record : slot2' = [slot2 EXCEPT ![u] = f] /\ f.timer /\ f.id = e.id /\ f.closer = e.closer /\ f.connecting = e.connecting
            BY <2>e, DueRecord
      <2>7. f.id = d.of /\ f.closer = slot2[u].closer /\ ~f.connecting
            BY <2>5, <2>6
      <2>8. RecordHeld(u)
            BY <1>2 DEF HeldInv
      <2>9. \A r \in slot4' : (r \in slot4 /\ r.url # u) \/ (r.url = u /\ r.of = f.id /\ f.closer /\ u \in slot5')
            BY <1>1, <2>1, <2>7 DEF HeldInv, ReqHeld
      <2>10. \A p, r \in slot4' : p.url = u /\ r.url = u => p = r
            BY <1>1 DEF HeldInv
      <2>11. ASSUME NEW c \in slot3' PROVE (c \in slot3 /\ c.url # u) \/ (c.url = u /\ c.of < slot7'.ids /\ (c.of = f.id => f.connecting))
            <3>1. c \in slot3 /\ c # d /\ c \in HeldDial /\ DialHeld(c)
                  BY <1>1 DEF HeldInv, HeldTyped
            <3>2. c.url = u => c.of # d.of
                  BY <1>2, <3>1, DialIs
            <3> QED BY <1>1, <2>7, <3>1, <3>2 DEF DialHeld
      <2>12. /\ slot7' \in HeldSpent /\ slot7'.ids >= slot7.ids /\ slot5 \subseteq slot5' /\ slot5' \subseteq slot5 \cup {u}
             /\ slot3' \subseteq HeldDial /\ slot4' \subseteq HeldReq
            BY <1>1 DEF HeldInv, HeldTyped, HeldSpent
      <2>13. /\ f.id < slot7'.ids /\ (f.connecting => ~f.closer /\ u \in slot5') /\ (slot1 = "new" => ~f.closer /\ ~f.connecting)
             /\ (slot1 = "started" => f.closer \/ f.connecting \/ f.timer)
            BY <1>1, <2>1, <2>6, <2>7, <2>8 DEF RecordHeld
      <2>14. f \in Held!Record /\ u \in HeldUrls /\ slot1' = slot1 /\ slot1 # "stopped" /\ slot2' = [slot2 EXCEPT ![u] = f]
            BY <1>1, <2>1, <2>6
      <2> QED BY <2>9, <2>10, <2>11, <2>12, <2>13, <2>14, RecordMoves
<1> QED BY <1>3, <1>4

\* A subscription of a record: the record is current, and no other subscription is of its relay.
LEMMA ReqIs ==
    ASSUME HeldInv, NEW r \in slot4
    PROVE  /\ r \in HeldReq /\ r.url \in HeldUrls /\ slot2[r.url] \in Held!Record /\ slot2[r.url].id = r.of /\ slot2[r.url].closer
           /\ ~slot2[r.url].connecting /\ r.url \in slot5 /\ slot1 = "started" /\ slot2[r.url].id < slot7.ids
           /\ \A q \in slot4 : q # r => q.url # r.url
<1>1. ReqHeld(r) /\ r \in HeldReq /\ r.url \in HeldUrls
      BY DEF HeldInv, HeldTyped, HeldReq
<1>2. RecordHeld(r.url) /\ slot2[r.url] \in Held!Record
      BY <1>1 DEF HeldInv, HeldTyped, ReqHeld
<1>3. slot1 = "started"
      BY <1>1, <1>2 DEF HeldInv, HeldTyped, ReqHeld, RecordHeld
<1>4. \A q \in slot4 : q # r => q.url # r.url
      BY DEF HeldInv
<1> QED BY <1>1, <1>2, <1>3, <1>4 DEF ReqHeld, RecordHeld

LEMMA HeldEoseStep == ASSUME HeldInv, NEW r \in slot4, Held!Eose(r) PROVE HeldInv'
<1> DEFINE u == r.url
           e == [slot2[u] EXCEPT !.failures = 0]
           q == [r EXCEPT !.eose = TRUE]
<1>1. /\ UNCHANGED <<slot1, slot3, slot5, slot7>> /\ slot4' = (slot4 \ {r}) \cup {q} /\ slot2' = [slot2 EXCEPT ![u].failures = 0]
      BY DEF Held!Eose
<1>2. /\ r \in HeldReq /\ u \in HeldUrls /\ slot2[u] \in Held!Record /\ slot2[u].id = r.of /\ slot2[u].closer
      /\ ~slot2[u].connecting /\ u \in slot5 /\ slot1 = "started" /\ slot2[u].id < slot7.ids
      /\ \A p \in slot4 : p # r => p.url # u
      BY ReqIs
<1>3. slot2' = [slot2 EXCEPT ![u] = e]
      BY <1>1
<1>4. e \in Held!Record /\ e.id = r.of /\ e.closer /\ ~e.connecting
      BY <1>2 DEF Held!Record
<1>5. q \in HeldReq /\ q.url = u /\ q.of = r.of
      BY <1>2 DEF HeldReq
<1> HIDE DEF e, q
<1>6. \A p \in slot4' : (p \in slot4 /\ p.url # u) \/ (p.url = u /\ p.of = e.id /\ e.closer /\ u \in slot5')
      BY <1>1, <1>2, <1>4, <1>5
<1>7. \A o, p \in slot4' : o.url = u /\ p.url = u => o = p
      BY <1>1, <1>2
<1>8. ASSUME NEW c \in slot3' PROVE (c \in slot3 /\ c.url # u) \/ (c.url = u /\ c.of < slot7'.ids /\ (c.of = e.id => e.connecting))
      <2>1. c \in slot3 /\ DialHeld(c)
            BY <1>1 DEF HeldInv
      <2>2. slot2[u] # None
            BY <1>2, HeldAssumed
      <2> QED BY <1>1, <1>2, <1>4, <2>1, <2>2 DEF DialHeld
<1>9. /\ slot7' \in HeldSpent /\ slot7'.ids >= slot7.ids /\ slot5 \subseteq slot5' /\ slot5' \subseteq slot5 \cup {u}
      /\ slot3' \subseteq HeldDial /\ slot4' \subseteq HeldReq
      BY <1>1, <1>5 DEF HeldInv, HeldTyped, HeldSpent
<1>10. /\ e.id < slot7'.ids /\ (e.connecting => ~e.closer /\ u \in slot5') /\ (slot1 = "new" => ~e.closer /\ ~e.connecting)
       /\ (slot1 = "started" => e.closer \/ e.connecting \/ e.timer)
      BY <1>1, <1>2, <1>4
<1> QED BY <1>1, <1>2, <1>3, <1>4, <1>6, <1>7, <1>8, <1>9, <1>10, RecordMoves

\* The relay ends a subscription: it is due again.
LEMMA HeldClosesStep == ASSUME HeldInv, NEW r \in slot4, Held!Closes(r) PROVE HeldInv'
<1>0. PICK u \in HeldUrls : u = r.url
      BY ReqIs
<1>1. /\ UNCHANGED <<slot1, slot3, slot5>> /\ slot4' = slot4 \ {r} /\ slot7.closes > 0 /\ slot7' = [slot7 EXCEPT !.closes = @ - 1]
      /\ Held!ScheduleResubscribe([slot2 EXCEPT ![u].closer = FALSE], u, r.of)
      BY <1>0 DEF Held!Closes
<1>2. /\ r \in HeldReq /\ r.url = u /\ u \in HeldUrls /\ slot2[u] \in Held!Record /\ slot2[u].id = r.of /\ slot2[u].closer
      /\ ~slot2[u].connecting /\ u \in slot5 /\ slot1 = "started" /\ slot2[u].id < slot7.ids
      /\ \A p \in slot4 : p # r => p.url # u
      BY <1>0, ReqIs
<1>3. [slot2[u] EXCEPT !.closer = FALSE] \in Held!Record
      BY <1>2 DEF Held!Record
<1>e. PICK e \in Held!Record : e = [slot2[u] EXCEPT !.closer = FALSE]
      BY <1>3
<1>4. /\ Held!ScheduleResubscribe([slot2 EXCEPT ![u] = e], u, e.id)
      /\ e.id = r.of /\ ~e.closer /\ ~e.connecting
      <2>1. e.id = r.of /\ ~e.closer /\ ~e.connecting
            BY <1>2, <1>e DEF Held!Record
      <2>2. [slot2 EXCEPT ![u].closer = FALSE] = [slot2 EXCEPT ![u] = e]
            BY <1>e
      <2> QED BY <1>1, <2>1, <2>2
<1>5. slot2 \in [HeldUrls -> Held!Record \cup {None}]
      BY DEF HeldInv, HeldTyped
<1>f. slot2' = [slot2 EXCEPT ![u] = Due(e)]
      <2> DEFINE s == [slot2 EXCEPT ![u] = e]
      <2>1. s[u] = e /\ e # None /\ Held!Live
            BY <1>2, <1>5, HeldAssumed DEF Held!Live
      <2>2. Held!ScheduleResubscribe(s, u, e.id)
            BY <1>4
      <2>3. CASE e.timer
            BY <2>1, <2>2, <2>3 DEF Held!ScheduleResubscribe, Due
      <2>4. CASE ~e.timer
            <3>1. slot2' = [s EXCEPT ![u].timer = TRUE, ![u].failures = IF @ < HeldMaxFailures THEN @ + 1 ELSE @]
                  BY <2>1, <2>2, <2>4 DEF Held!ScheduleResubscribe
            <3> QED BY <2>1, <2>4, <3>1 DEF Due, Held!Record
      <2> QED BY <2>3, <2>4
<1>6. PICK f \in Held!Record : slot2' = [slot2 EXCEPT ![u] = f] /\ f.timer /\ f.id = e.id /\ f.closer = e.closer /\ f.connecting = e.connecting
      BY <1>f, DueRecord
<1>7. \A p \in slot4' : p \in slot4 /\ p.url # u
      BY <1>1, <1>2
<1>8. ASSUME NEW c \in slot3' PROVE (c \in slot3 /\ c.url # u) \/ (c.url = u /\ c.of < slot7'.ids /\ (c.of = f.id => f.connecting))
      <2>1. c \in slot3 /\ DialHeld(c)
            BY <1>1 DEF HeldInv
      <2>2. slot2[u] # None
            BY <1>2, HeldAssumed
      <2>3. slot7'.ids = slot7.ids
            BY <1>1 DEF HeldInv, HeldTyped, HeldSpent
      <2> QED BY <1>2, <1>4, <1>6, <2>1, <2>2, <2>3 DEF DialHeld
<1>9. slot7' \in HeldSpent /\ slot7'.ids = slot7.ids
      <2>1. slot7 \in HeldSpent /\ slot7.closes - 1 \in Nat
            BY <1>1 DEF HeldInv, HeldTyped, HeldSpent
      <2> QED BY <1>1, <2>1 DEF HeldSpent
<1>10. /\ slot7'.ids >= slot7.ids /\ slot5 \subseteq slot5' /\ slot5' \subseteq slot5 \cup {u}
       /\ slot3' \subseteq HeldDial /\ slot4' \subseteq HeldReq
      BY <1>1, <1>9 DEF HeldInv, HeldTyped, HeldSpent
<1>11. /\ f.id < slot7'.ids /\ (f.connecting => ~f.closer /\ u \in slot5') /\ (slot1 = "new" => ~f.closer /\ ~f.connecting)
       /\ (slot1 = "started" => f.closer \/ f.connecting \/ f.timer)
      BY <1>2, <1>4, <1>6, <1>9
<1>12. f \in Held!Record /\ u \in HeldUrls /\ slot1' = slot1 /\ slot1 # "stopped"
      BY <1>1, <1>2
<1>13. (\A p \in slot4' : (p \in slot4 /\ p.url # u) \/ (p.url = u /\ p.of = f.id /\ f.closer /\ u \in slot5'))
       /\ (\A o, p \in slot4' : o.url = u /\ p.url = u => o = p)
      BY <1>7
<1> QED BY <1>6, <1>8, <1>9, <1>10, <1>11, <1>12, <1>13, RecordMoves

LEMMA HeldTimerFiresStep == ASSUME HeldInv, NEW u \in HeldUrls, Held!TimerFires(u) PROVE HeldInv'
<1> DEFINE e == [slot2[u] EXCEPT !.timer = FALSE]
<1>1. /\ slot2[u] # None /\ slot1 = "started" /\ UNCHANGED <<slot1, slot4, slot7>>
      /\ Held!Subscribes([slot2 EXCEPT ![u].timer = FALSE], u)
      BY DEF Held!TimerFires
<1>2. slot2[u] \in Held!Record /\ RecordHeld(u)
      BY <1>1 DEF HeldInv, HeldTyped
<1>3. e \in Held!Record /\ e.id = slot2[u].id /\ e.closer = slot2[u].closer /\ e.connecting = slot2[u].connecting
      BY <1>2 DEF Held!Record
<1>4. Held!Subscribes([slot2 EXCEPT ![u] = e], u)
      BY <1>1
<1> HIDE DEF e
<1>5. e.id < slot7'.ids
      BY <1>1, <1>2, <1>3 DEF RecordHeld
<1>6. slot7' \in HeldSpent /\ slot7'.ids >= slot7.ids
      BY <1>1 DEF HeldInv, HeldTyped, HeldSpent
<1> QED BY <1>1, <1>3, <1>4, <1>5, <1>6, OpensRecord

LEMMA HeldBegins == ASSUME Held!Init PROVE HeldInv
<1>1. PICK n \in DOMAIN HeldScenes : Held!InitOf(n)
      BY DEF Held!Init
<1>2. /\ slot1 = "new" /\ slot3 = {} /\ slot4 = {} /\ slot5 = {}
      /\ slot2 = [u \in HeldUrls |-> IF u \in HeldScenes[n].first THEN Held!State(0, HeldServer) ELSE None]
      /\ slot7 = [scene |-> n, ids |-> 1, closes |-> HeldScenes[n].closes, admissions |-> HeldScenes[n].admissions]
      BY <1>1 DEF Held!InitOf
<1> DEFINE e == Held!State(0, HeldServer)
<1>3. e \in Held!Record /\ e.id = 0 /\ ~e.connecting /\ ~e.closer
      BY DEF Held!State, Held!Record, Held!Owners
<1> HIDE DEF e
<1>4. slot7 \in HeldSpent /\ slot7.ids = 1
      BY <1>2, HeldAssumed DEF HeldSpent
<1>5. HeldTyped
      BY <1>2, <1>3, <1>4 DEF HeldTyped, e
<1>6. \A u \in HeldUrls : RecordHeld(u)
      <2> TAKE u \in HeldUrls
      <2>1. slot2[u] = None \/ slot2[u] = e
            BY <1>2 DEF e
      <2> QED BY <1>2, <1>3, <1>4, <2>1 DEF RecordHeld
<1> QED BY <1>2, <1>5, <1>6 DEF HeldInv

LEMMA RelaysAreHeld == HeldInv => Held!RelaysHeld
<1> SUFFICES ASSUME HeldInv PROVE Held!RelaysHeld
    OBVIOUS
<1>1. \A u \in HeldUrls : RecordHeld(u)
      BY DEF HeldInv
<1>2. \A r \in slot4 : Held!Current(r.url, r.of) /\ slot2[r.url].closer /\ r.url \in slot5
      <2> TAKE r \in slot4
      <2>1. slot2[r.url] # None
            BY DEF HeldInv, ReqHeld
      <2> QED BY <2>1, ReqIs DEF Held!Current, Held!Live
<1>3. \A u \in slot5 : slot2[u] # None
      BY <1>1 DEF HeldInv, HeldTyped, RecordHeld
<1> QED BY <1>1, <1>2, <1>3 DEF HeldInv, RecordHeld, Held!RelaysHeld

----------------------------------------------------------------------------
(* The relay side: each part keeps its invariant, and stays that part.     *)

LEMMA SocketsKeep == ASSUME SocketsInv, Sockets!Next PROVE SocketStep
<1>1. CASE \E c \in SocketCalls, u \in SocketUrls, do \in {"connect", "relayFor", "publish"} : Sockets!Begin(c, do, u)
      BY <1>1, BeginStep
<1>2. CASE \E u \in SocketUrls : Sockets!Subscribed(u) \/ Sockets!Unsubscribed(u) \/ Sockets!GraceEnds(u) \/ Sockets!Recycle(u)
      BY <1>2, SubscribedStep, UnsubscribedStep, GraceEndsStep, RecycleStep
<1>3. CASE \E u \in SocketUrls : Sockets!RetryFires(u) \/ Sockets!Opened(u) \/ Sockets!Failed(u) \/ Sockets!Dropped(u)
      BY <1>3, RetryFiresStep, OpenedStep, FailedStep, DroppedStep
<1>4. CASE \E u \in SocketUrls, g \in BOOLEAN : Sockets!Disconnect(u, g)
      BY <1>4, DisconnectStep
<1>5. CASE Sockets!Rebind \/ (\E g \in BOOLEAN : Sockets!CloseAll(g)) \/ Sockets!Announced
      BY <1>5, RebindStep, CloseAllStep, AnnouncedStep
<1>6. CASE Sockets!GoesOffline \/ Sockets!GoesOnline
      BY <1>6, NetworkStep
<1>7. CASE \E c \in SocketCalls : \/ Sockets!WaitLapses(c) \/ Sockets!PublishAuths(c) \/ Sockets!PublishGoesOn(c)
                                  \/ \E how \in {"ok", "timeout", "rejected"} : Sockets!PublishEnds(c, how)
      BY <1>7, CallStep
<1> QED BY <1>1, <1>2, <1>3, <1>4, <1>5, <1>6, <1>7 DEF Sockets!Next

LEMMA FeedKeeps == ASSUME FeedInv, Feed!Next PROVE FeedInv'
<1>1. CASE Feed!InitPool \/ Feed!InitFeed \/ Feed!FeedOpens \/ Feed!Follow
      BY <1>1, InitPoolStep, InitFeedStep, FeedOpensStep, FollowStep
<1>2. CASE Feed!TimerFires \/ Feed!Destroy \/ Feed!Publish \/ Feed!Tick
      BY <1>2, FeedTimerFiresStep, FeedDestroyStep, FeedPublishStep, FeedTickStep
<1>3. CASE \E ok \in BOOLEAN : Feed!Credited(ok)
      BY <1>3, CreditedStep
<1>4. CASE \E ok \in BOOLEAN, u \in FeedUrls : Feed!RelayAnswers(u, ok) \/ Feed!SetRelay(u, ok)
      BY <1>4, RelayAnswersStep, SetRelayStep
<1>5. CASE (\E s \in slot2 : Feed!Drops(s)) \/ \E up \in SUBSET FeedUrls : Feed!Refresh(up)
      BY <1>5, DropsStep, RefreshStep
<1> QED BY <1>1, <1>2, <1>3, <1>4, <1>5 DEF Feed!Next

LEMMA HeldKeeps == ASSUME HeldInv, Held!Next PROVE HeldInv'
<1>1. CASE Held!Start \/ Held!Stop
      BY <1>1, HeldStartStep, HeldStopStep
<1>2. CASE \E u \in HeldUrls : Held!TimerFires(u)
      BY <1>2, HeldTimerFiresStep
<1>3. CASE \E u \in HeldUrls, o \in Held!Owners : Held!AddRelay(u, o) \/ Held!Release(u, o)
      BY <1>3, AddRelayStep, HeldReleaseStep
<1>4. CASE \E d \in slot3 : Held!Connected(d) \/ Held!ConnectFails(d)
      BY <1>4, ConnectedStep, ConnectFailsStep
<1>5. CASE \E r \in slot4 : Held!Eose(r) \/ Held!Closes(r)
      BY <1>5, HeldEoseStep, HeldClosesStep
<1> QED BY <1>1, <1>2, <1>3, <1>4, <1>5 DEF Held!Next

LEMMA SocketsAlone == ASSUME part = "sockets", Next PROVE part' = "sockets" /\ Sockets!Next
BY DEF Next, InSockets, InQueries, InProfiles, InBatches, InFacade, InBatcher, InFeed, InHeld, InHub, Sockets!Next

LEMMA FeedAlone == ASSUME part = "feed", Next PROVE part' = "feed" /\ Feed!Next
BY DEF Next, InSockets, InQueries, InProfiles, InBatches, InFacade, InBatcher, InFeed, InHeld, InHub, Feed!Next

LEMMA HeldAlone == ASSUME part = "held", Next PROVE part' = "held" /\ Held!Next
BY DEF Next, InSockets, InQueries, InProfiles, InBatches, InFacade, InBatcher, InFeed, InHeld, InHub, Held!Next

LEMMA PartStays == ASSUME Next PROVE part' = part
BY DEF Next, InSockets, InQueries, InProfiles, InBatches, InFacade, InBatcher, InFeed, InHeld, InHub

\* The invariant of every part, while the state is of that part.
RelayInv == /\ part = "sockets" => SocketsInv
            /\ part = "feed" => FeedInv
            /\ part = "held" => HeldInv

LEMMA RelayBegins == ASSUME Init PROVE RelayInv
<1>1. part = "sockets" => Sockets!Init
      BY DEF Init
<1>2. part = "feed" => Feed!Init
      BY DEF Init
<1>3. part = "held" => Held!Init
      BY DEF Init
<1> QED BY <1>1, <1>2, <1>3, SocketsBegin, FeedBegins, HeldBegins DEF RelayInv

LEMMA RelayKeeps == ASSUME RelayInv, [Next]_all PROVE RelayInv'
<1>1. CASE Next
      <2>1. part' = "sockets" => SocketsInv'
            BY <1>1, PartStays, SocketsAlone, SocketsKeep DEF RelayInv, SocketStep
      <2>2. part' = "feed" => FeedInv'
            BY <1>1, PartStays, FeedAlone, FeedKeeps DEF RelayInv
      <2>3. part' = "held" => HeldInv'
            BY <1>1, PartStays, HeldAlone, HeldKeeps DEF RelayInv
      <2> QED BY <2>1, <2>2, <2>3 DEF RelayInv
<1>2. CASE UNCHANGED all
      <2>1. part' = part /\ UNCHANGED <<slot1, slot2, slot3, slot4, slot5, slot6, slot7, slot8>>
            BY <1>2 DEF all
      <2>2. ASSUME SocketsInv PROVE SocketsInv'
            <3>1. SameScene
                  BY <2>1, <2>2, SceneStays
            <3> QED BY <2>1, <2>2, <3>1, TableStays DEF SocketsInv, IdsGiven
      <2>3. ASSUME FeedInv PROVE FeedInv'
            BY <2>1, <2>3 DEF FeedInv, FeedHeld, FeedScored
      <2>4. ASSUME HeldInv PROVE HeldInv'
            BY <2>1, <2>4 DEF HeldInv, HeldTyped, RecordHeld, DialHeld, ReqHeld
      <2> QED BY <2>1, <2>2, <2>3, <2>4 DEF RelayInv
<1> QED BY <1>1, <1>2

\* The relay side: whatever part a behaviour is of, the invariant of that part holds all along.
THEOREM RelayInvariant == Spec => []RelayInv
<1>1. Init => RelayInv
      BY RelayBegins
<1>2. RelayInv /\ [Next]_all => RelayInv'
      BY RelayKeeps
<1> QED BY <1>1, <1>2, PTL DEF Spec

LEMMA NobodyIsForgotten == SocketsInv => Sockets!NobodyForgotten
<1> SUFFICES ASSUME SocketsInv PROVE Sockets!NobodyForgotten
    OBVIOUS
<1>1. ASSUME NEW e, Shape(e, slot3.announced), Coming(e) PROVE e.conn = "connected" \/ Sockets!Pursued(e)
      BY <1>1 DEF Shape, Coming, Sockets!Pursued
<1>2. ASSUME NEW u \in Sockets!Tracked(slot1)
      PROVE  /\ slot1.entry[u] \in Sockets!Entry /\ Shape(slot1.entry[u], slot3.announced)
             /\ Kept(slot1.entry[u], Sockets!Scene.maxAttempts)
      BY DEF SocketsInv, Sound
<1>3. Sockets!TypeOK
      BY <1>2 DEF SocketsInv, Sockets!TypeOK
<1>4. ASSUME NEW u \in Sockets!Tracked(slot1), NEW e, e = slot1.entry[u]
      PROVE  /\ Sockets!Wanted(e) => \/ e.conn = "connected" \/ Sockets!Pursued(e)
                                     \/ e.conn = "failed" /\ e.attempt >= Sockets!Scene.maxAttempts
             /\ e.retry => ~e.shaking /\ e.conn = "reconnecting"
             /\ e.grace => ~Sockets!Wanted(e)
      <2>1. Shape(e, slot3.announced) /\ Kept(e, Sockets!Scene.maxAttempts)
            BY <1>2, <1>4
      <2>2. e.retry => ~e.shaking /\ e.conn = "reconnecting"
            BY <2>1 DEF Shape
      <2> QED BY <1>1, <2>1, <2>2 DEF Kept
<1>5. ASSUME NEW c \in SocketCalls, slot2[c].at = "waiting"
      PROVE  \E u \in Sockets!Tracked(slot1) : slot1.entry[u].id = slot2[c].id /\ Sockets!Pursued(slot1.entry[u])
      <2>1. Awaited(slot1, slot2[c])
            BY <1>5 DEF SocketsInv
      <2> QED BY <1>1, <1>2, <2>1 DEF Awaited
<1> QED BY <1>3, <1>4, <1>5 DEF Sockets!NobodyForgotten

\* sockets.ts, socket-entry.ts: whatever connects, fails, drops, is recycled, rebound or evicted, and
\* however the network comes and goes, a socket somebody holds is up, on its way, or was given up
\* after every attempt it is allowed, and a call that waits, waits for a socket that is on its way.
THEOREM SocketsNotForgotten == Spec => []NobodyForgotten
<1>1. RelayInv => NobodyForgotten
      BY NobodyIsForgotten DEF RelayInv, NobodyForgotten
<1> QED BY <1>1, RelayInvariant, PTL

\* sockets.ts (evictionVictim): in no step does the budget close a socket that is held or that a
\* publish uses, nor does the table grow beyond it.
THEOREM SocketsInUseStay == Spec => HeldSocketsStay
<1>1. RelayInv /\ [Next]_all => [part = "sockets" => Sockets!HeldStay]_all
      <2> SUFFICES ASSUME RelayInv, Next PROVE part = "sockets" => Sockets!HeldStay
          OBVIOUS
      <2> QED BY SocketsAlone, SocketsKeep DEF RelayInv, SocketStep
<1> QED BY <1>1, RelayInvariant, PTL DEF Spec, HeldSocketsStay

\* RelayManager.ts, RelayPool.ts and the bunker's #subscribe: a feed that was started is up, on its
\* way or has a reconnect set until the manager is destroyed, and a relay somebody owns is
\* subscribed, being dialled or due again until it is let go; then nothing of either is left open.
THEOREM FeedsAlwaysHeld == Spec => []FeedsHeld
<1>1. RelayInv => FeedsHeld
      BY FeedsReturn, RelaysAreHeld DEF RelayInv, FeedsHeld
<1> QED BY <1>1, RelayInvariant, PTL
=============================================================================
