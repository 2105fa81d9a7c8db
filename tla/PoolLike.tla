------------------------------ MODULE PoolLike -------------------------------
(***************************************************************************)
(* The SimplePool-shaped facade of the relay hub (pool-like.ts): one       *)
(* subscription over several relays, made of one registry subscription per *)
(* relay.  Of the registry a request is kept by relay and filters, with    *)
(* its holders, whether the relay has answered it, and whether it is over. *)
(***************************************************************************)
EXTENDS Naturals, Sequences, SequencesExt, FiniteSets

CONSTANTS Subs, Relays, Events, Scenes, None

VARIABLES sub,    \* the facade's subscriptions
          live,   \* the registry's, by key: [holders, phase, sent, since]
          spent
vars == <<sub, live, spent>>

Scene == Scenes[spent.scene]
\* Relay u's filters in subscription s; requests for one relay are grouped.
Asks(s)   == Scene.asks[s]
Urls(s)   == {r[1] : r \in Asks(s)}
Key(s, u) == <<u, {r[2] : r \in {q \in Asks(s) : q[1] = u}}>>

-----------------------------------------------------------------------------
(* What one relay's callbacks do to a subscription.                        *)

MaybeEose(x) == IF x.told = "nothing" /\ x.urls \subseteq x.eosed \cup x.closed THEN [x EXCEPT !.told = "eose"] ELSE x
MarkClosed(x, u, reason) ==
    IF u \in x.closed THEN x
    ELSE LET y == MaybeEose([x EXCEPT !.closed = @ \cup {u}, !.reasons[u] = reason])
         IN  IF y.closed = y.urls THEN [y EXCEPT !.told = "closed"] ELSE y
Released(x, u) == [x EXCEPT !.held = @ \ {u}]
OnEose(x, u) ==
    IF u \in x.eosed THEN x
    ELSE LET y == MaybeEose([x EXCEPT !.eosed = @ \cup {u}])
         IN  IF y.closeOnEose THEN MarkClosed(Released(y, u), u, "closed by caller") ELSE y
OnEvent(x, e) == IF \E i \in DOMAIN x.got : x.got[i] = e THEN x ELSE [x EXCEPT !.got = Append(@, e)]

\* The registry follows the handles.
Holders(x, k) == {s \in Subs : x[s].at = "open" /\ \E u \in x[s].held : Key(s, u) = k}
\* A request nobody holds is forgotten, whatever had become of it.
Follow(x, l) == [k \in DOMAIN l |-> IF Holders(x, k) = {} THEN [phase |-> "none", sent |-> {}] ELSE l[k]]
Call(C, F(_)) == [s \in Subs |-> IF s \in C THEN F(sub[s]) ELSE sub[s]]

-----------------------------------------------------------------------------
(* The caller.                                                             *)

\* subscribeMap(): a relay that refuses is reported in a microtask; one whose request is over
\* reports it before the handle is known; one whose request is answered says nothing (history: late).
Subscribe(s, refused) ==
    LET over == {u \in Urls(s) \ refused : live[Key(s, u)].phase = "over"}
        x == [at |-> "open", urls |-> Urls(s), held |-> Urls(s) \ refused, eosed |-> {}, closed |-> over,
              refused |-> refused, reasons |-> [u \in Relays |-> IF u \in over THEN "relay" ELSE None],
              late |-> {u \in Urls(s) \ refused : live[Key(s, u)].phase = "eose"}, got |-> <<>>,
              told |-> IF over = Urls(s) THEN "closed" ELSE "nothing", closeOnEose |-> Scene.eose[s]]
    IN  /\ sub[s].at = "idle" /\ sub' = [sub EXCEPT ![s] = x] /\ UNCHANGED spent
        /\ live' = [k \in DOMAIN live |->
                      IF live[k].phase = "none" /\ \E u \in x.held : Key(s, u) = k
                      THEN [live[k] EXCEPT !.phase = "open"] ELSE live[k]]
RefusalTold(s, u) ==
    /\ sub[s].at = "open" /\ u \in sub[s].refused /\ UNCHANGED <<live, spent>>
    /\ sub' = [sub EXCEPT ![s] = MarkClosed([@ EXCEPT !.refused = @ \ {u}], u, "error")]
\* close(): the relays that gave a handle, one by one.
CloseSub(s) ==
    LET MarkAll(x) == LET all == [x EXCEPT !.closed = @ \cup x.held, !.held = {},
                                  !.reasons = [u \in Relays |-> IF u \in x.held \ x.closed THEN "closed by caller" ELSE @[u]]]
                      IN  IF all.closed = all.urls THEN [all EXCEPT !.told = "closed"] ELSE MaybeEose(all)
    IN  /\ sub[s].at = "open" /\ sub[s].held # {} /\ UNCHANGED spent
        /\ sub' = [sub EXCEPT ![s] = MarkAll(@)] /\ live' = Follow(sub', live)

-----------------------------------------------------------------------------
(* The registry and the relays.                                            *)

EventComes(k, e) ==
    /\ live[k].phase \in {"open", "eose"} /\ e \notin live[k].sent /\ UNCHANGED spent
    /\ live' = [live EXCEPT ![k].sent = @ \cup {e}]
    /\ sub' = Call(Holders(sub, k), LAMBDA x : OnEvent(x, e))
EoseComes(k) ==
    /\ live[k].phase = "open" /\ UNCHANGED spent
    /\ sub' = Call(Holders(sub, k), LAMBDA x : OnEose(x, k[1]))
    /\ live' = Follow(sub', [live EXCEPT ![k].phase = "eose"])
\* The request is terminated: it stays, with its reason, while it has a holder.
Terminated(k) ==
    /\ live[k].phase \in {"open", "eose"} /\ UNCHANGED spent
    /\ live' = [live EXCEPT ![k].phase = "over"]
    /\ sub' = Call(Holders(sub, k), LAMBDA x : MarkClosed(x, k[1], "relay"))
\* A socket is lost and the request goes out again on the next.
Reissued(k) == /\ live[k].phase = "eose" /\ spent.drops > 0 /\ spent' = [spent EXCEPT !.drops = @ - 1]
               /\ live' = [live EXCEPT ![k].phase = "open"] /\ UNCHANGED sub

InitOf(n) ==
    /\ spent = [scene |-> n, drops |-> Scenes[n].drops]
    /\ sub = [s \in Subs |-> [at |-> "idle"]]
    /\ live = [k \in {<<u, f>> : u \in Relays, f \in SUBSET Scenes[n].filters} |-> [phase |-> "none", sent |-> {}]]
Init == \E n \in DOMAIN Scenes : InitOf(n)
Next == \/ \E s \in Subs : \/ \E R \in SUBSET (Urls(s) \cap Scene.refusing) : Subscribe(s, R)
                           \/ CloseSub(s) \/ \E u \in Relays : RefusalTold(s, u)
        \/ \E k \in DOMAIN live : EoseComes(k) \/ Terminated(k) \/ Reissued(k) \/ \E e \in Events : EventComes(k, e)
Spec == Init /\ [][Next]_vars

-----------------------------------------------------------------------------
(* Properties.                                                             *)

\* A caller hears that all have answered when all have, hears that it is closed when every relay
\* is and then with what became of each, gets no event twice whichever relays have it, and has
\* let go of every relay whose answer was all it wanted.  What it is told keeps up with the
\* relays: a caller that has heard nothing waits for one that refused a moment ago, that has
\* yet to answer, or whose answer came before the caller did; the registry does not repeat
\* it (registry.ts:106-114), so that such a caller may wait for ever although pool-like.ts:5 has
\* `oneose` fire "when every relay has answered".
FacadeHonest ==
    \A s \in Subs : sub[s].at = "open" => LET x == sub[s] IN
        /\ x.told # "nothing" <=> x.urls \subseteq x.eosed \cup x.closed
        /\ \A u \in x.held : live[Key(s, u)].phase = "eose" => u \in x.eosed \cup x.late
        /\ x.told = "nothing" =>
              \E u \in x.urls \ x.closed : u \in x.refused \cup (x.late \ x.eosed) \/ live[Key(s, u)].phase = "open"
        /\ x.told = "closed" <=> x.closed = x.urls
        /\ \A u \in x.urls : x.reasons[u] # None <=> u \in x.closed
        /\ \A u \in x.urls : x.reasons[u] = "relay" /\ u \in x.held => live[Key(s, u)].phase = "over"
        /\ IsInjective(x.got)
        /\ x.held \cap x.closed \subseteq {u \in x.urls : x.reasons[u] = "relay"}
        /\ x.closeOnEose => x.eosed \subseteq x.closed
=============================================================================
