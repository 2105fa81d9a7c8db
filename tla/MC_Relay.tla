----------------------------- MODULE MC_Relay ------------------------------
(***************************************************************************)
(* A small instance of RelaySide: the scenes of its parts.                 *)
(***************************************************************************)
EXTENDS RelaySide, HubScenes, TLC
CONSTANTS s1, s2, y1, y2,                        \* sockets, and calls that use them
          q1, q2, q3, r1, r2, e1, e2, e3, f1, f2, a1, a2, a3, a4

\* Sockets: a budget of one with a holder too many; failures and a network that goes; AUTH,
\* settings that change and the end of the table.
SmallSocketScenes ==
    LET bounds == [scene |-> 0, calls |-> 2, subs |-> 0, disconnects |-> 0, recycles |-> 0, rebinds |-> 0, ends |-> 0,
                   failures |-> 0, drops |-> 0, offline |-> 0]
        plain  == [maxSockets |-> 1, maxAttempts |-> 2, authFirst |-> FALSE, bounds |-> bounds]
    IN  <<[plain EXCEPT !.bounds = [bounds EXCEPT !.subs = 2, !.disconnects = 1, !.drops = 1, !.failures = 1]],
          [plain EXCEPT !.bounds = [bounds EXCEPT !.subs = 1, !.failures = 3, !.drops = 1, !.offline = 1]],
          [plain EXCEPT !.authFirst = TRUE, !.maxSockets = 2,
                        !.bounds = [bounds EXCEPT !.calls = 1, !.subs = 1, !.failures = 1, !.recycles = 1, !.rebinds = 1,
                                                  !.ends = 1, !.disconnects = 1]]>>

\* Two relays with the same event and one query; then the cache, over one relay.
SmallStored == r1 :> {e1} @@ r2 :> {e1}
SmallQueryScenes ==
    LET ask(R, f, mode) == [identity |-> p1, relays |-> R, filters |-> f, mode |-> mode, ttl |-> 2, wait |-> 1]
        on(a, b, c) == q1 :> a @@ q2 :> b @@ q3 :> c
        shared == [spec |-> on(ask({r1, r2}, f1, "cached-ok"), ask({r1, r2}, f1, "bypass"), ask({r1}, f2, "fresh")),
                   calls |-> {q1, q2}, options |-> [max |-> 2, maxBytes |-> 1, lru |-> FALSE], up |-> FALSE,
                   incompleteTtl |-> 1, clears |-> 0, end |-> 1]
    IN  <<shared, [shared EXCEPT !.spec = on(ask({r1}, f1, "cached-ok"), ask({r1}, f1, "cached-ok"), ask({r1}, f2, "fresh")),
                                 !.calls = {q1, q2, q3}, !.clears = 1, !.up = TRUE, !.end = 2]>>

\* Filters of one kind: shares that add up past a chunk's limit, authors past its size, one that
\* asks for fewer than its authors beside one it starves, one with other fields, one of nobody and one for nothing; 9 stands for no limit.
SmallBatchFilters ==
    LET f(A, limit) == [kinds |-> {k1}, authors |-> A, limit |-> limit, other |-> FALSE]
    IN  {f({a2}, 1), f({a1}, 1), f({a2}, 2), f({a2, a3}, 1), f({a1, a3}, 9), f({a2}, 9), f({a1, a2, a3}, 3), f({a2, a4}, 2),
         [f({a3}, 1) EXCEPT !.other = TRUE], f({}, 1), f({a1}, 0)}
SmallBatchStores == LET ev(a) == [kind |-> k1, author |-> a, rev |-> 1]
               IN  {<<ev(a1), ev(a2), ev(a3)>>, <<[ev(a1) EXCEPT !.rev = 2], ev(a1), ev(a2)>>, <<ev(a3), ev(a2), ev(a1)>>, <<ev(a4), ev(a3), ev(a2), ev(a1)>>}

\* Two facade subscriptions that share a request or all of them, one relay that refuses.
SmallFacadeScenes ==
    LET two == [asks |-> h1 :> {<<r1, f1>>, <<r2, f1>>} @@ h2 :> {<<r1, f1>>, <<r2, f2>>}, eose |-> h1 :> TRUE @@ h2 :> FALSE,
                refusing |-> {r2}, filters |-> {f1, f2}, drops |-> 1]
    IN  <<two, [two EXCEPT !.asks = h1 :> {<<r1, f1>>} @@ h2 :> {<<r1, f1>>}],
          [two EXCEPT !.eose = h1 :> FALSE @@ h2 :> TRUE, !.asks[h2] = {<<r1, f1>>, <<r1, f2>>, <<r2, f1>>}]>>

\* Queries that merge by author, that keep their limits, that go to other relays, and that come
\* before the pool does.
SmallBatcherEvents == {[id |-> e1, kind |-> k1, author |-> a1], [id |-> e2, kind |-> k1, author |-> a2], [id |-> e3, kind |-> k2, author |-> a1]}
SmallBatcherScenes ==
    LET f(K, A, ids, limit) == [kinds |-> K, authors |-> A, ids |-> ids, limit |-> limit, other |-> FALSE]
        ask(g, u)  == [filter |-> g, urls |-> {u}, updates |-> TRUE]
        of(k, a)   == ask(f({k}, {a}, None, None), r1)
        byId(I)    == ask(f(None, None, I, None), r1)
        one(a)     == ask(f({k1}, {a}, None, 1), r1)
        on(a, b, c) == q1 :> a @@ q2 :> b @@ q3 :> c
        base == [ask |-> on(of(k1, a1), of(k1, a2), of(k2, a1)), calls |-> {q1, q2, q3}, pool |-> TRUE, pools |-> 0,
                 destroys |-> 0, maxRetries |-> 1]
    IN  <<base, [base EXCEPT !.ask = on(one(a1), one(a2), byId({e1, e3}))],
          [base EXCEPT !.ask = on(of(k1, a1), of(k1, a1), ask(f({k1}, {a1}, None, None), r2)), !.destroys = 1],
          [base EXCEPT !.ask = on(of(k1, a1), byId({e1}), byId({e2})), !.pool = FALSE, !.pools = 2, !.destroys = 1,
                       !.calls = {q1, q2}]>>

\* The feed: lists that change, drops and a destroy; then what relays are scored by.
SmallFeedScenes ==
    LET bounds == [scene |-> 0, feeds |-> 1, answers |-> 0, follows |-> 0, drops |-> 1, fires |-> 2, relays |-> 0,
                   destroys |-> 1, publishes |-> 0]
        feeding == [urls |-> {r1}, saved |-> {r2}, maxBackoff |-> 2, end |-> 1,
                    bounds |-> [bounds EXCEPT !.feeds = 2, !.follows = 2, !.relays = 1]]
    IN  <<feeding, [feeding EXCEPT !.urls = {r1, r2}, !.end = 3, !.bounds =
                      [bounds EXCEPT !.answers = 3, !.publishes = 1, !.fires = 0, !.destroys = 0, !.drops = 0]]>>

\* A relay of the bunker's own and one more, two clients, and closes past what it forgives.
SmallHeldScenes == <<[first |-> {r1}, ids |-> 4, closes |-> 2, admissions |-> 3]>>
SmallHubLives == 1..3
SmallHubOps == 1..3

Alike == Permutations({s1, s2}) \cup Permutations({y1, y2})
-----------------------------------------------------------------------------
\* What the constants stand for: TLC evaluates a definition of this module once, and what stands
\* for a constant each time it is used.
MCSocketScenes == SmallSocketScenes
MCStored == SmallStored
MCQueryScenes == SmallQueryScenes
MCBatchFilters == SmallBatchFilters
MCBatchStores == SmallBatchStores
MCFacadeScenes == SmallFacadeScenes
MCBatcherEvents == SmallBatcherEvents
MCBatcherScenes == SmallBatcherScenes
MCFeedScenes == SmallFeedScenes
MCHeldScenes == SmallHeldScenes
MCHubLives == SmallHubLives
MCHubOps == SmallHubOps
=============================================================================
