----------------------------- MODULE MC_Clients -----------------------------
(***************************************************************************)
(* A small instance of Clients: the scenes of its parts.                   *)
(***************************************************************************)
EXTENDS Clients, TLC
CONSTANTS a1, a2, a3, u1, u2, f1, f2, e1, b1, b2, v1, v2, d1, d2, c1, c2, me
On3(x, y, z) == a1 :> x @@ a2 :> y @@ a3 :> z

\* Queries beside a live stream, of two relays and of one.
SmallCoalescerScenes ==
    LET mixed == [relays |-> On3({u1, u2}, {u1, u2}, {u1}), asks |-> On3({f1, f2}, {f2}, {f2}),
                  kind |-> On3("query", "stream", "query"), once |-> On3(FALSE, TRUE, FALSE)]
    IN  <<mixed, [mixed EXCEPT !.relays = On3({u1}, {u1}, {u1}), !.asks[a1] = {f1}]>>

\* Reads of one key and of others, a persisted copy that ages, a clear, a host that writes from
\* a callback, pages, a thread, and notes asked for at once.
SmallCacheKeys == {"profile", "relays", "follows", "notes"} \X {u1, u2} \cup {<<"thread", 1>>} \cup {"note", "engagement"} \X (1..3)
SmallCacheFlights == {k \in SmallCacheKeys : k[1] \notin {"notes", "engagement"}} \cup {"notes"} \X {u1} \X {1, 2}
                \cup {"more"} \X {u1} \X (1..3) \cup {"batch"} \X SUBSET (1..3)
SmallReadScenes ==
    LET ask(do, id) == [do |-> do, id |-> id, n |-> 1, more |-> FALSE]
        world == [f \in SmallCacheKeys \cup SmallCacheFlights |->
                    CASE f[1] = "notes" -> 1..3 [] f[1] = "note" -> {1} [] f[1] = "thread" -> {2, 3}
                      [] f[1] = "batch" -> {<<"reaction", 2>>, <<"zap", 3>>} [] OTHER -> {1, 2}]
        base == [ops |-> On3(ask("profile", u1), ask("profile", u2), ask("profile", u1)), world |-> world,
                 disk |-> {<<"profile", u2>>}, clears |-> {"profile"},
                 rewrites |-> [k \in SmallCacheKeys |-> CASE k = <<"profile", u1>> -> <<"profile", u2>>
                                                     [] k = <<"profile", u2>> -> <<"profile", u1>> [] OTHER -> None]]
        quiet == [base EXCEPT !.clears = {}, !.disk = {}]
    IN  <<base,
          [quiet EXCEPT !.ops = On3(ask("follows", u1), ask("relays", u1), ask("follows", u1)),
                        !.disk = {<<"follows", u1>>, <<"relays", u1>>}, !.clears = {"relays"}],
          [quiet EXCEPT !.ops = On3(ask("follows", u1), ask("note", 1), ask("follows", u1)), !.clears = {"follows", "note"}],
          [quiet EXCEPT !.ops = On3(ask("notes", u1), [ask("notes", u1) EXCEPT !.n = 2], [ask("notes", u1) EXCEPT !.more = TRUE])],
          [quiet EXCEPT !.ops = On3(ask("thread", 1), ask("note", 2), ask("note", 2)), !.clears = {"note"}, !.disk = {<<"note", 2>>}]>>

\* Two payments; two calls of other methods.
SmallWalletScenes == <<[method |-> a1 :> "pay_invoice" @@ a2 :> "pay_invoice", offers |-> {{"pay_invoice"}, {}}],
                    [method |-> a1 :> "get_budget" @@ a2 :> "make_invoice", offers |-> {{"get_budget"}, {}}]>>

\* A pairing by QR code over sockets of its own, by a URI, and over a pool of the host's.
SmallRemoteScenes == <<[door |-> "qr", owned |-> TRUE, drops |-> 1], [door |-> "uri", owned |-> TRUE, drops |-> 0],
                    [door |-> "qr", owned |-> FALSE, drops |-> 0]>>

\* A provider whose user switches once, or there and back.
SmallNosskeyScenes == LET once == [does |-> On3("key", "sign", "crypt"), switches |-> 1] IN <<once, [once EXCEPT !.switches = 2]>>

\* Two services of one secret with their own addresses, or of two secrets; a clock that is off.
SmallLoginScenes ==
    LET opt(secret, url, aud) == [secret |-> secret, url |-> url, issuer |-> None, audience |-> aud]
        near == [opts |-> v1 :> opt("k", "/v", None) @@ v2 :> opt("k", "/w", "w"), posts |-> v1 :> "/v" @@ v2 :> "/w",
                 offset |-> b1 :> 0 @@ b2 :> 1, user |-> b1 :> a1 @@ b2 :> a2, logins |-> 1, again |-> 1]
    IN  <<near, [near EXCEPT !.opts = v1 :> opt("k", None, None) @@ v2 :> opt("l", None, None),
                             !.offset = b1 :> 2 @@ b2 :> 0]>>

\* Backfill against the inbox; a full cache and a send; a note to oneself, a reload and a message
\* that does not open; a clear beside two sessions.
SmallInboxScenes ==
    LET msg(i, w, t) == [id |-> i, partner |-> w, at |-> t]
        ev(i, m, n, opens) == [id |-> i, msg |-> m, window |-> n, opens |-> opens]
        late  == ev(2, msg("b", a2, 2), 1, TRUE)
        own   == [echo |-> msg("l", me, 3), wire |-> {ev(4, msg("c", me, 3), 1, TRUE)}]
        other == [echo |-> msg("d", a1, 3), wire |-> {ev(5, msg("d", a1, 3), 1, TRUE)}]
        base == [partners |-> {a2}, times |-> {}, sends |-> {}, followSets |-> {{a1}}, cap |-> 0, windows |-> 2, minPartners |-> 2,
                 mail |-> {ev(1, msg("a", a1, 1), 2, TRUE), late, [late EXCEPT !.id = 3]},
                 follows |-> 1, deliveries |-> 1, walks |-> 1, clears |-> 0, reloads |-> 0, opens |-> 1]
    IN  <<[base EXCEPT !.times = {1, 2}],
          [base EXCEPT !.mail = {late}, !.sends = {other}, !.walks = 0, !.cap = 1, !.followSets = {{}}, !.opens = 2],
          [base EXCEPT !.mail = {ev(6, msg("x", a2, 2), 1, FALSE)}, !.sends = {own}, !.walks = 0,
                       !.follows = 0, !.opens = 2, !.reloads = 1],
          [base EXCEPT !.mail = {late}, !.walks = 0, !.follows = 0, !.clears = 1, !.opens = 2]>>

\* Two crawls with a load and a restart; with a clear; in memory, from two roots, stopped.
SmallGraphScenes ==
    LET follow(who, i, whom) == [author |-> who, at |-> 1, id |-> i, follows |-> whom]
        base == [events |-> {follow(a1, 1, {a2}), follow(a1, 2, {a2, a3}), follow(a2, 3, {a3})}, roots |-> {a1}, hops |-> {1, 2},
                 depth |-> 1, memory |-> FALSE, crawls |-> 1, faults |-> 1, stops |-> 0, loads |-> 0, clears |-> 0, restarts |-> 0]
    IN  <<[base EXCEPT !.crawls = 2, !.loads = 1, !.restarts = 1], [base EXCEPT !.crawls = 2, !.clears = 1],
          [base EXCEPT !.memory = TRUE, !.stops = 1, !.clears = 1, !.roots = {a1, a2}]>>

\* The three hooks.
SmallOracleScenes ==
    LET base == [hook |-> "isIn", dist |-> On3(1, 3, None), targets |-> {{}, {a1}, {a2}}, hops |-> {0, 1, 4}, renders |-> 3, faults |-> 1]
    IN  <<base, [base EXCEPT !.hook = "details", !.hops = {1}],
          [base EXCEPT !.hook = "batch", !.targets = {{a1, a2, a3}, {a3}}, !.hops = {1, 4}]>>

\* A handle may name a record's author or a derivation salt, be a bare key, or be malformed.
SmallPasskeyScenes ==
    LET tagged(salt) == [tag |-> 4, length |-> 22, byte |-> 1, names |-> salt]
        stored(a)    == [tag |-> 4, length |-> 37, byte |-> 2, names |-> a]
        raw(a)       == [tag |-> 3, length |-> 32, byte |-> 0, names |-> a]
        vault  == [format |-> "npk1", type |-> "vault", holds |-> {a1}, at |-> 1, cred |-> c1, author |-> a1]
        key    == [vault EXCEPT !.type = "key", !.at = 0]
        legacy == [key EXCEPT !.format = "legacy"]
        asked  == [type |-> "vault", holds |-> {a1}, at |-> 2]
        event(r, t) == [format |-> r.format, author |-> r.author, cred |-> r.cred, type |-> r.type, created |-> t, rec |-> r, signed |-> TRUE]
        broken(r)   == [event(r, 1) EXCEPT !.rec = Junk]
        by(x, y)  == d1 :> x @@ d2 :> y
        of(x, y)  == c1 :> x @@ c2 :> y
        at(x, y)  == u1 :> x @@ u2 :> y
        base == [handle |-> of(stored(a1), tagged("s1")), author |-> of(a1, a2), evaluated |-> "s1", exclusive |-> FALSE, known |-> {},
                 assert |-> by(TRUE, FALSE), large |-> by(FALSE, FALSE), allow |-> TRUE, relays |-> {u1, u2}, blob |-> of(None, None),
                 events |-> at({}, {}), payloads |-> {}, accounts |-> {}, start |-> 1, resolves |-> by(1, 0), saves |-> by(0, 0), moves |-> by(0, 0)]
        last(r)   == [base EXCEPT !.handle = of(raw(a1), None), !.events = at({event(legacy, 0)}, {r}), !.known = {<<c2, "s1">>},
                                  !.moves = by(1, 0)]
    IN  << \* an older vault on one relay and a newer broken one on the other; a save by the other device
          [base EXCEPT !.events = at({event(vault, 0), event(key, 0)}, {broken(vault)}), !.saves = by(0, 1), !.moves = by(1, 0), !.payloads = {asked}],
          [base EXCEPT !.blob = of(vault, None), !.saves = by(1, 0), !.moves = by(1, 0), !.resolves = by(0, 1),
                       !.payloads = {asked, [asked EXCEPT !.type = "seed"]}, !.large = by(TRUE, FALSE)],
          [base EXCEPT !.saves = by(1, 1), !.resolves = by(0, 0), !.moves = by(1, 0), !.payloads = {asked}, !.large = by(TRUE, TRUE),
                       !.assert = by(TRUE, TRUE)],
          \* a 32-byte handle, and an unknown one with a known key: the newest record does not decode, or
          \* does and is sealed for another credential
          last(broken(legacy)), last([event(legacy, 1) EXCEPT !.rec.cred = c2]),
          [base EXCEPT !.handle = of(raw(a1), None), !.blob = of([format |-> "vault", wrapped |-> {c1}], Junk), !.resolves = by(0, 1)],
          [base EXCEPT !.handle = of(None, tagged("s2")), !.blob = of(None, legacy), !.events = at({event(legacy, 0)}, {}),
                       !.evaluated = "s2", !.saves = by(0, 1), !.payloads = {asked}],
          \* refused handles, a foreign record, and Nosskey backups
          [base EXCEPT !.handle = of([tagged("s1") EXCEPT !.length = 21], [tag |-> 0, length |-> 33, byte |-> 3, names |-> a1]),
                       !.accounts = {[pubkey |-> <<c1, "nosskey">>, wrapped |-> None], [pubkey |-> a1, wrapped |-> [cred |-> c1, key |-> a1]],
                                     [pubkey |-> a1, wrapped |-> [cred |-> c2, key |-> a2]]}],
          [base EXCEPT !.blob = of([vault EXCEPT !.holds = {a2}], None),
                       !.events = at({event([vault EXCEPT !.author = a2], 1)}, {event([key EXCEPT !.cred = c2], 1)})]>>
-----------------------------------------------------------------------------
\* What the constants stand for: TLC evaluates a definition of this module once, and what stands
\* for a constant each time it is used.
MCCoalescerScenes == SmallCoalescerScenes
MCCacheKeys == SmallCacheKeys
MCCacheFlights == SmallCacheFlights
MCReadScenes == SmallReadScenes
MCWalletScenes == SmallWalletScenes
MCRemoteScenes == SmallRemoteScenes
MCNosskeyScenes == SmallNosskeyScenes
MCLoginScenes == SmallLoginScenes
MCInboxScenes == SmallInboxScenes
MCGraphScenes == SmallGraphScenes
MCOracleScenes == SmallOracleScenes
MCPasskeyScenes == SmallPasskeyScenes
=============================================================================
