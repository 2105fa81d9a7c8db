---------------------------- MODULE RelaySockets ----------------------------
(***************************************************************************)
(* The socket table of the relay hub (sockets.ts, socket-entry.ts), the    *)
(* reconnect supervisor (socket-supervisor.ts), connect() and disconnect() *)
(* of the hub, and the publish path over it (hub-publish.ts).  Live        *)
(* subscriptions are a count per socket; RelayHub is about what they are.  *)
(*                                                                         *)
(* `table` is the state the synchronous calls run through.  A socket is an *)
(* entry; one that is forgotten and opened again is another entry, with an *)
(* id of its own, since callers keep the object.  The handshake of a       *)
(* closed entry changes nothing when it ends and is not kept.              *)
(***************************************************************************)
EXTENDS Naturals, FiniteSets, FiniteSetsExt

CONSTANTS Urls, Calls,  \* Calls: executions of connect(), relayFor() and publish()
          Scenes, None

VARIABLES table,   \* entries by url, ids given, disposed
          call,
          env,     \* online; announced: the `online` event was delivered
          spent
vars == <<table, call, env, spent>>

Scene == Scenes[spent.scene]

-----------------------------------------------------------------------------
(* One entry (socket-entry.ts).                                            *)

Entry == [id : Nat, conn : {"idle", "connecting", "reconnecting", "connected", "offline", "failed"}, been : BOOLEAN,
          explicit : BOOLEAN, subs : Nat, attempt : Nat, retry : BOOLEAN, grace : BOOLEAN, shaking : BOOLEAN]
NewEntry(id) == [id |-> id, conn |-> "idle", been |-> FALSE, explicit |-> FALSE, subs |-> 0,
                 attempt |-> 0, retry |-> FALSE, grace |-> FALSE, shaking |-> FALSE]
Tracked(t)  == {u \in Urls : t.entry[u] # None}
Wanted(e)   == e.explicit \/ e.subs > 0
\* Calls whose entry is the one under u; a publish keeps its entry busy.
Of(t, u)    == {c \in Calls : call[c].at # "idle" /\ t.entry[u] # None /\ call[c].id = t.entry[u].id}
Busy(t, u)  == \E c \in Of(t, u) : call[c].do = "publish" /\ call[c].at \notin {"idle", "done"}

\* A table and the calls, as one handler leaves them: calls in `ended` are settled, with how.
Settle(C, how) == [c \in Calls |-> IF c \in C /\ call[c].at = "waiting"
                                   THEN IF how = "up" /\ call[c].do = "publish"
                                        THEN [call[c] EXCEPT !.at = IF Scene.authFirst THEN "auth" ELSE "sent"]
                                        ELSE [call[c] EXCEPT !.at = "done", !.how = how]
                                   ELSE call[c]]

-----------------------------------------------------------------------------
(* The supervisor and the table.                                           *)

Start(e) ==
    IF e.shaking \/ e.conn = "connected" THEN e
    ELSE [e EXCEPT !.shaking = TRUE, !.retry = FALSE, !.grace = FALSE,
                   !.conn = IF e.been THEN "reconnecting" ELSE "connecting"]

ScheduleRetry(e) ==
    IF e.retry THEN e
    ELSE IF ~env.online THEN [e EXCEPT !.conn = "offline"]
    ELSE IF e.attempt >= Scene.maxAttempts THEN [e EXCEPT !.conn = "failed"]
    ELSE [e EXCEPT !.attempt = @ + 1, !.conn = "reconnecting", !.retry = TRUE]

GaveUp(e) == e.conn = "failed"

\* Slip: any socket without a subscription may be closed for room.
EvictableByHold(t) == {u \in Tracked(t) : t.entry[u].subs = 0}
Evictable(t) == {u \in Tracked(t) : ~Wanted(t.entry[u]) /\ ~Busy(t, u)}
Victims(t)   == LET graced == {u \in Evictable(t) : t.entry[u].grace}
                IN  IF graced # {} THEN graced ELSE Evictable(t)

\* track(): the tables it can end with; none when the budget is exhausted.
TracksTo(u) ==
    LET Made(t) == [t EXCEPT !.entry[u] = NewEntry(t.ids + 1), !.ids = @ + 1]
    IN  IF table.disposed THEN {}
        ELSE IF table.entry[u] # None THEN {table}
        ELSE IF Cardinality(Tracked(table)) < Scene.maxSockets THEN {Made(table)}
        ELSE {Made([table EXCEPT !.entry[v] = None]) : v \in Victims(table)}

\* Calls that wait on an entry which room was made of are rejected by its close().
Lost(t) == {c \in Calls : call[c].at = "waiting" /\ \A u \in Tracked(t) : t.entry[u].id # call[c].id}

Ensured(e) ==
    LET g == [e EXCEPT !.grace = FALSE]
    IN  IF g.conn \in {"idle", "failed"} THEN Start([g EXCEPT !.attempt = 0])
        ELSE IF g.conn = "offline" /\ env.online THEN Start(g) ELSE g

-----------------------------------------------------------------------------
(* Callers.                                                                *)

Spend(what) == spent[what] > 0 /\ spent' = [spent EXCEPT ![what] = @ - 1]
Started(c, do, u, e, at, how) == [call EXCEPT ![c] = [at |-> at, do |-> do, id |-> e.id, how |-> how]]
\* Room was made by closing an entry others may wait on.
Rejecting(t, k) == [c \in Calls |-> IF c \in Lost(t) THEN [call[c] EXCEPT !.at = "done", !.how = "closed"] ELSE k[c]]

\* connect(), relayFor() and the start of publish().
Begin(c, do, u) ==
    /\ call[c].at = "idle" /\ Spend("calls") /\ UNCHANGED env
    /\ IF TracksTo(u) = {}
       THEN /\ call' = [call EXCEPT ![c] = [at |-> "done", do |-> do, id |-> 0, how |-> "refused"]]
            /\ UNCHANGED table
       ELSE \E t \in TracksTo(u) :
              LET g == Ensured(t.entry[u])
                  h == [g EXCEPT !.explicit = @ \/ do = "connect"]
                  e == IF do = "connect" /\ h.retry THEN Start([h EXCEPT !.retry = FALSE]) ELSE h
              IN  /\ table' = [t EXCEPT !.entry[u] = e]
                  /\ call' = Rejecting(t, Started(c, do, u, e,
                        IF e.conn # "connected" THEN "waiting"
                        ELSE IF do # "publish" THEN "done" ELSE IF Scene.authFirst THEN "auth" ELSE "sent", "up"))

\* A live subscription comes or goes; the registry has ensured the socket of one that comes.
Subscribed(u) ==
    /\ Spend("subs") /\ UNCHANGED env
    /\ \E t \in TracksTo(u) :
          /\ table' = [t EXCEPT !.entry[u] = [Ensured(t.entry[u]) EXCEPT !.subs = @ + 1]]
          /\ call' = Rejecting(t, call)
Unsubscribed(u) ==
    /\ u \in Tracked(table) /\ table.entry[u].subs > 0
    /\ table' = [table EXCEPT !.entry[u].subs = @ - 1] /\ UNCHANGED <<call, env, spent>>

Closed(u, e) == /\ table' = [table EXCEPT !.entry[u] = e] /\ call' = Settle(Of(table, u), "closed")
Idle(e) == [e EXCEPT !.conn = "idle", !.shaking = FALSE, !.retry = FALSE, !.grace = FALSE]

Disconnect(u, graceful) ==
    LET e == [table.entry[u] EXCEPT !.explicit = FALSE]
    IN  /\ u \in Tracked(table) /\ Spend("disconnects") /\ UNCHANGED env
        /\ IF e.subs > 0 \/ graceful
           THEN /\ table' = [table EXCEPT !.entry[u] = IF e.subs > 0 THEN e ELSE [e EXCEPT !.grace = TRUE]]
                /\ UNCHANGED call
           ELSE Closed(u, None)

\* The window ends: the socket goes unless somebody uses it.
GraceEnds(u) ==
    /\ u \in Tracked(table) /\ table.entry[u].grace /\ UNCHANGED <<env, spent>>
    /\ IF Wanted(table.entry[u]) \/ Busy(table, u)
       THEN table' = [table EXCEPT !.entry[u].grace = FALSE] /\ UNCHANGED call
       ELSE Closed(u, None)

Again(e) == IF Wanted(e) THEN Start([Idle(e) EXCEPT !.attempt = 0]) ELSE [Idle(e) EXCEPT !.attempt = 0]
\* dropSocket(): reconnected at once if anything wants it.
Recycle(u) == /\ u \in Tracked(table) /\ Spend("recycles") /\ UNCHANGED env
              /\ Closed(u, Again(table.entry[u]))
\* The identity has another key or policy: all of its sockets are rebuilt.
Rebind == /\ Spend("rebinds") /\ UNCHANGED env
          /\ table' = [table EXCEPT !.entry = [u \in Urls |-> IF u \in Tracked(table) THEN Again(@[u]) ELSE None]]
          /\ call' = Settle(Calls, "closed")
\* closeIdentity() or dispose().
CloseAll(forGood) ==
    /\ Spend("ends") /\ UNCHANGED env
    /\ table' = [table EXCEPT !.entry = [u \in Urls |-> None], !.disposed = @ \/ forGood]
    /\ call' = Settle(Calls, "closed")

-----------------------------------------------------------------------------
(* The network.                                                            *)

Set(u, e) == table' = [table EXCEPT !.entry[u] = e]

Opened(u) ==
    /\ u \in Tracked(table) /\ table.entry[u].shaking /\ env.online
    /\ Set(u, [table.entry[u] EXCEPT !.shaking = FALSE, !.been = TRUE, !.attempt = 0, !.conn = "connected"])
    /\ call' = Settle(Of(table, u), "up") /\ UNCHANGED <<env, spent>>

Impatient(u) == {c \in Of(table, u) : call[c].do = "connect"}
\* Slip: a failure is left to the supervisor alone.
FailedQuietly(u) ==
    LET e == [table.entry[u] EXCEPT !.shaking = FALSE]
    IN  /\ u \in Tracked(table) /\ table.entry[u].shaking /\ Spend("failures") /\ UNCHANGED env
        /\ Set(u, IF Wanted(e) THEN ScheduleRetry(e) ELSE [e EXCEPT !.conn = "failed"])
        /\ call' = Settle(Impatient(u), "unreachable")
\* afterFailure: the impatient are told; so are all when nothing will try again.
Failed(u) ==
    LET e == [table.entry[u] EXCEPT !.shaking = FALSE]
        f == IF Wanted(e) THEN ScheduleRetry(e) ELSE [e EXCEPT !.conn = "failed"]
    IN  /\ u \in Tracked(table) /\ table.entry[u].shaking /\ Spend("failures") /\ UNCHANGED env
        /\ Set(u, f)
        /\ call' = Settle(IF GaveUp(f) THEN Of(table, u) ELSE Impatient(u), "unreachable")

Dropped(u) ==
    LET e == table.entry[u]
        f == IF Wanted(e) THEN ScheduleRetry(e) ELSE [e EXCEPT !.conn = "idle"]
    IN  /\ u \in Tracked(table) /\ e.conn = "connected" /\ Spend("drops") /\ UNCHANGED env
        /\ Set(u, f) /\ call' = IF GaveUp(f) THEN Settle(Of(table, u), "unreachable") ELSE call

\* The timer of a retry, or the document becoming visible.
RetryFires(u) ==
    /\ u \in Tracked(table) /\ table.entry[u].retry
    /\ Set(u, Start([table.entry[u] EXCEPT !.retry = FALSE])) /\ UNCHANGED <<call, env, spent>>

GoesOffline == /\ env.online /\ Spend("offline") /\ env' = [online |-> FALSE, announced |-> FALSE]
               /\ UNCHANGED <<table, call>>
GoesOnline  == ~env.online /\ env' = [env EXCEPT !.online = TRUE] /\ UNCHANGED <<table, call, spent>>
\* resumeOffline, when the `online` event is delivered.
Announced ==
    /\ env.online /\ ~env.announced /\ env' = [env EXCEPT !.announced = TRUE]
    /\ table' = [table EXCEPT !.entry = [u \in Urls |-> IF u \in Tracked(table) /\ @[u].conn = "offline"
                                                       THEN Start(@[u]) ELSE @[u]]]
    /\ UNCHANGED <<call, spent>>

\* A waiter's own timer, and the rest of a publish: AUTH first if asked to, the relay's OK, its
\* refusal, or none in time; one more attempt after a refusal that AUTH cured.
WaitLapses(c) == /\ call[c].at = "waiting"
                 /\ call' = [call EXCEPT ![c].at = "done", ![c].how = "unreachable"] /\ UNCHANGED <<table, env, spent>>
PublishEnds(c, how) ==
    /\ call[c].at \in {"sent", "again", "auth"} /\ (call[c].at = "auth" => how = "rejected")
    /\ call' = [call EXCEPT ![c].at = "done", ![c].how = how] /\ UNCHANGED <<table, env, spent>>
PublishAuths(c) ==
    /\ call[c].at = "sent" /\ ~Scene.authFirst
    /\ call' = [call EXCEPT ![c].at = "auth", ![c].how = "again"] /\ UNCHANGED <<table, env, spent>>
PublishGoesOn(c) ==
    /\ call[c].at = "auth"
    /\ call' = [call EXCEPT ![c].at = IF call[c].how = "again" THEN "again" ELSE "sent"]
    /\ UNCHANGED <<table, env, spent>>

InitOf(n) ==
    /\ table = [entry |-> [u \in Urls |-> None], ids |-> 0, disposed |-> FALSE]
    /\ call = [c \in Calls |-> [at |-> "idle", do |-> "none", id |-> 0, how |-> "none"]]
    /\ env = [online |-> TRUE, announced |-> TRUE]
    /\ spent = [Scenes[n].bounds EXCEPT !.scene = n]
Init == \E n \in DOMAIN Scenes : InitOf(n)

Next ==
    \/ \E c \in Calls, u \in Urls, do \in {"connect", "relayFor", "publish"} : Begin(c, do, u)
    \/ \E u \in Urls : \/ Subscribed(u) \/ Unsubscribed(u) \/ GraceEnds(u) \/ Recycle(u) \/ RetryFires(u)
                       \/ Opened(u) \/ Failed(u) \/ Dropped(u) \/ \E g \in BOOLEAN : Disconnect(u, g)
    \/ Rebind \/ (\E g \in BOOLEAN : CloseAll(g)) \/ GoesOffline \/ GoesOnline \/ Announced
    \/ \E c \in Calls : \/ WaitLapses(c) \/ PublishAuths(c) \/ PublishGoesOn(c)
                        \/ \E how \in {"ok", "timeout", "rejected"} : PublishEnds(c, how)
Spec == Init /\ [][Next]_vars

-----------------------------------------------------------------------------
(* Properties.                                                             *)

TypeOK == /\ \A u \in Tracked(table) : table.entry[u] \in Entry
          /\ env \in [online : BOOLEAN, announced : BOOLEAN]

\* Something is under way that will bring the entry up, or say that it cannot be.
Pursued(e) == e.shaking \/ e.retry \/ (e.conn = "offline" /\ ~(env.online /\ env.announced))
\* A socket somebody holds is up, or on its way up, or was given up after every attempt it is
\* allowed; and a caller that waits for a socket waits for one that is in the table and on its
\* way, never for its own timeout alone.
NobodyForgotten ==
    /\ TypeOK
    /\ \A u \in Tracked(table) : LET e == table.entry[u] IN
          /\ Wanted(e) => \/ e.conn = "connected" \/ Pursued(e)
                          \/ e.conn = "failed" /\ e.attempt >= Scene.maxAttempts
          /\ e.retry => ~e.shaking /\ e.conn = "reconnecting"
          /\ e.grace => ~Wanted(e)
    /\ \A c \in Calls : call[c].at = "waiting" => \E u \in Tracked(table) :
          table.entry[u].id = call[c].id /\ Pursued(table.entry[u])

\* The budget holds, and what it closes is never a socket that is held or that a publish is
\* using: such an entry leaves the table only when its host says so.
HeldStay ==
    /\ Cardinality(Tracked(table')) <= Scene.maxSockets
    /\ \A u \in Tracked(table) :
          LET e == table.entry[u]
              gone == IF table'.entry[u] = None THEN TRUE ELSE table'.entry[u].id # e.id
          IN  gone /\ (Wanted(e) \/ Busy(table, u)) /\ spent'.ends = spent.ends
              => spent'.disconnects < spent.disconnects /\ e.subs = 0
HeldSocketsStay == [][HeldStay]_vars
=============================================================================
