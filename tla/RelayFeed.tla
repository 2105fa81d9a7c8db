------------------------------ MODULE RelayFeed ------------------------------
(***************************************************************************)
(* The relay manager of an app (RelayManager.ts) over its RelayPool and    *)
(* RelayStats: the feed subscription and its reconnection, the follow      *)
(* subscription, the relay list, the statuses it polls, the record of each *)
(* relay, and a publish that the first relay to accept settles.            *)
(*                                                                         *)
(* A SimplePool reports `onclose` when the relays have all closed a        *)
(* subscription and also when its own close() is called.  A subscription   *)
(* is <<what, n>>; only a feed listens to its `onclose`.                   *)
(***************************************************************************)
EXTENDS Naturals, Sequences, FiniteSets

CONSTANTS Urls, Scenes, None

VARIABLES pool,    \* RelayPool: [here, gone, urls, active, statuses, polling]
          open,    \* the subscriptions the transport has open
          feed,    \* RelayManager: [sub, follow, connecting, timers, started]
          host,    \* the app: [urls: persisted, statuses: the mirror it reads]
          stats,   \* by relay
          publish, \* [at, waits]
          env      \* [clock, ids]
VARIABLE spent
vars == <<pool, open, feed, host, stats, publish, env, spent>>

Scene == Scenes[spent.scene]
Spend(what) == spent[what] > 0 /\ spent' = [spent EXCEPT ![what] = @ - 1]
NoStatus == [u \in Urls |-> None]

-----------------------------------------------------------------------------
(* RelayStats.                                                             *)

Unknown       == [known |-> FALSE, failed |-> FALSE, streak |-> 0, until |-> 0]
Backoff(n)    == IF n > Scene.maxBackoff THEN Scene.maxBackoff ELSE n
Succeeded(m)  == [m EXCEPT !.known = TRUE, !.streak = 0, !.until = 0]
FailedOnce(m) == [m EXCEPT !.known = TRUE, !.failed = TRUE, !.streak = IF @ > Scene.maxBackoff THEN @ ELSE @ + 1,
                           !.until = env.clock + Backoff(m.streak + 1)]
BackedOff(m)  == m.until > env.clock
Recorded(U, ok) == [u \in Urls |-> IF u \notin U THEN stats[u] ELSE IF ok THEN Succeeded(stats[u]) ELSE FailedOnce(stats[u])]

-----------------------------------------------------------------------------
(* The pool.  A subscription by authors is one handle, however many chunks *)
(* of them it asks each relay for; it sets no poll.                        *)

EnsurePool(urls)       == [pool EXCEPT !.here = TRUE, !.urls = urls]
Subscribe(s)           == [pool EXCEPT !.active = @ \cup {s}, !.polling = TRUE]
SubscribeAuthors(s)    == [pool EXCEPT !.active = (@ \ {feed.follow}) \cup {s}]
PoolReconnects(urls)   == [pool EXCEPT !.active = {}, !.urls = urls, !.statuses = NoStatus]
PoolDestroyed          == [pool EXCEPT !.here = FALSE, !.gone = TRUE, !.active = {}, !.statuses = NoStatus, !.polling = FALSE]

-----------------------------------------------------------------------------
(* The manager.                                                            *)

\* The subscriptions C are closed; every feed among those that were open has a reconnect set.
Ended(f, C) == [f EXCEPT !.timers = @ + Cardinality({s \in C \cap open : s[1] = "feed"})]
Connecting(f) == IF pool.here THEN [f EXCEPT !.connecting = @ + 1] ELSE f

\* Slip: the feed is closed and left to the next timer.
ReconnectLater(f, urls) ==
    LET closed == pool.active \cup {feed.sub}
    IN  /\ open' = open \ closed /\ feed' = [f EXCEPT !.sub = None]
        /\ host' = [urls |-> urls, statuses |-> NoStatus]
        /\ pool' = PoolReconnects(urls)
\* reconnect(): every subscription of the pool is closed, and the feed is opened again.
Reconnect(f, urls) ==
    LET closed == pool.active \cup {feed.sub}
    IN  /\ open' = open \ closed /\ feed' = Connecting(Ended([f EXCEPT !.sub = None], closed))
        /\ host' = [urls |-> urls, statuses |-> NoStatus]
        /\ pool' = PoolReconnects(urls)

\* init(): the pool, and the metrics an earlier session saved, which wait for nothing.
InitPool == /\ ~pool.here /\ ~pool.gone /\ pool' = EnsurePool(host.urls)
            /\ stats' = [u \in Urls |-> IF u \in Scene.saved THEN [FailedOnce(Unknown) EXCEPT !.until = 0] ELSE stats[u]]
            /\ UNCHANGED <<open, feed, host, publish, env, spent>>
InitFeed == /\ Spend("feeds") /\ UNCHANGED <<pool, open, host, stats, publish, env>>
            /\ feed' = IF pool.here /\ feed.sub # None THEN feed
                       ELSE [Connecting(feed) EXCEPT !.started = @ \/ pool.here]
\* The cached timestamp has been read; without a pool the subscription is refused.
FeedOpens ==
    LET s == <<"feed", env.ids + 1>>
    IN  /\ feed.connecting > 0 /\ UNCHANGED <<host, stats, publish, spent>>
        /\ IF pool.here
           THEN /\ feed' = [feed EXCEPT !.connecting = @ - 1, !.sub = s]
                /\ open' = open \cup {s} /\ env' = [env EXCEPT !.ids = @ + 1]
                /\ pool' = Subscribe(s)
           ELSE feed' = [feed EXCEPT !.connecting = @ - 1] /\ UNCHANGED <<open, pool, env>>
\* All relays have answered the feed, or a page of older notes: each is credited, or blamed.
Credited(ok) ==
    /\ pool.here /\ Spend("answers") /\ (feed.sub \in open \/ ~ok)
    /\ stats' = Recorded(host.urls, ok)
    /\ UNCHANGED <<pool, open, feed, host, publish, env>>
\* subscribeFollowing(): the one before is closed.
Follow ==
    LET s == <<"follow", env.ids + 1>>
    IN  /\ pool.here /\ Spend("follows") /\ UNCHANGED <<host, stats, publish>>
        /\ feed' = [feed EXCEPT !.follow = s] /\ env' = [env EXCEPT !.ids = @ + 1]
        /\ open' = (open \ {feed.follow}) \cup {s}
        /\ pool' = SubscribeAuthors(s)
\* The relays close a subscription; the pool keeps its handle.
Drops(s) == /\ s \in open /\ Spend("drops") /\ open' = open \ {s} /\ feed' = Ended(feed, {s})
            /\ UNCHANGED <<pool, host, stats, publish, env>>
TimerFires == /\ feed.timers > 0 /\ Spend("fires") /\ Reconnect([feed EXCEPT !.timers = @ - 1], host.urls)
              /\ UNCHANGED <<stats, publish, env>>

\* addRelay() and removeRelay(): a list that changes is persisted and reconnected over.
SetRelay(u, on) ==
    LET urls == IF on THEN pool.urls \cup {u} ELSE pool.urls \ {u}
    IN  /\ urls # pool.urls /\ urls # {} /\ Spend("relays") /\ Reconnect(feed, urls)
        /\ UNCHANGED <<stats, publish, env>>
\* refreshStatuses(): by the poll or by hand; the app hears of a change.
Refresh(up) ==
    LET next == [u \in Urls |-> IF u \in pool.urls THEN u \in up ELSE None]
    IN  /\ pool.here /\ pool.polling /\ next # pool.statuses
        /\ pool' = [pool EXCEPT !.statuses = next] /\ host' = [host EXCEPT !.statuses = next]
        /\ UNCHANGED <<open, feed, stats, publish, env, spent>>
Destroy ==
    LET closed == pool.active \cup {feed.sub, feed.follow}
    IN  /\ pool.here /\ Spend("destroys") /\ open' = open \ closed /\ host' = [host EXCEPT !.statuses = NoStatus]
        /\ feed' = Ended([feed EXCEPT !.sub = None, !.follow = None], closed)
        /\ pool' = PoolDestroyed
        /\ UNCHANGED <<stats, publish, env>>

\* publish(): the first acceptance settles it, or the last refusal.
Publish == /\ pool.here /\ Spend("publishes") /\ publish' = [at |-> "waiting", waits |-> pool.urls]
           /\ UNCHANGED <<pool, open, feed, host, stats, env>>
RelayAnswers(u, ok) ==
    /\ u \in publish.waits /\ UNCHANGED <<pool, open, feed, host, stats, env, spent>>
    /\ publish' = [waits |-> publish.waits \ {u},
                   at |-> IF publish.at # "waiting" THEN publish.at ELSE IF ok THEN "accepted"
                          ELSE IF publish.waits = {u} THEN "refused" ELSE "waiting"]
Tick == /\ env.clock < Scene.end /\ env' = [env EXCEPT !.clock = @ + 1]
        /\ UNCHANGED <<pool, open, feed, host, stats, publish, spent>>

InitOf(n) ==
    /\ pool = [here |-> FALSE, gone |-> FALSE, urls |-> Scenes[n].urls, active |-> {}, statuses |-> NoStatus, polling |-> FALSE]
    /\ open = {} /\ feed = [sub |-> None, follow |-> None, connecting |-> 0, timers |-> 0, started |-> FALSE]
    /\ host = [urls |-> Scenes[n].urls, statuses |-> NoStatus] /\ stats = [u \in Urls |-> Unknown]
    /\ publish = [at |-> "none", waits |-> {}] /\ env = [clock |-> 1, ids |-> 0]
    /\ spent = [Scenes[n].bounds EXCEPT !.scene = n]
Init == \E n \in DOMAIN Scenes : InitOf(n)
Next == \/ InitPool \/ InitFeed \/ FeedOpens \/ Follow \/ TimerFires \/ Destroy \/ Publish \/ Tick
        \/ \E ok \in BOOLEAN : Credited(ok) \/ \E u \in Urls : RelayAnswers(u, ok) \/ SetRelay(u, ok)
        \/ (\E s \in open : Drops(s)) \/ \E up \in SUBSET Urls : Refresh(up)
Spec == Init /\ [][Next]_vars

-----------------------------------------------------------------------------
(* Properties.                                                             *)

\* A feed that was started is up, or on its way, or has a reconnect set, until the manager is
\* destroyed; what is open then is closed.  Every open subscription has its handle in the pool,
\* the app's list and its statuses are the pool's, and a publish is waiting only for relays.
FeedReturns ==
    /\ feed.started /\ ~pool.gone => feed.sub \in open \/ feed.connecting > 0 \/ feed.timers > 0
    /\ open \subseteq pool.active
    /\ pool.gone => open = {}
    /\ host.urls = pool.urls /\ host.urls # {} /\ host.statuses = pool.statuses
    /\ publish.at = "waiting" => publish.waits # {}
    /\ \A u \in Urls : BackedOff(stats[u]) => stats[u].known /\ stats[u].streak > 0

\* RelayManager.ts:170: the feed "auto-reconnects on disconnect", not while it is up.
FiresWhenDown == spent'.fires < spent.fires => feed.sub \notin open
ReconnectsOnDisconnect == [][FiresWhenDown]_vars
=============================================================================
