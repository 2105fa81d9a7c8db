----------------------------- MODULE BunkerRelays -----------------------------
(***************************************************************************)
(* The relays a bunker listens on (server.ts, "Subscriptions"): one        *)
(* subscription per relay, owned by the server and by the clients that     *)
(* named the relay, opened on a shared connection and opened again with a  *)
(* growing delay whenever it closes.  Relays, and the pool, are external.  *)
(***************************************************************************)
EXTENDS Naturals, FiniteSets

CONSTANTS Urls, Clients, Server, MaxFailures, Scenes, None

VARIABLES phase,    \* "new", "started", "stopped"
          subs,     \* url -> the relay's record (RelaySubscription), or None
          dials,    \* the ensureRelay calls under way: [url, of]
          reqs,     \* the subscriptions open at a relay: [url, of, eose]
          opened, answered, spent
vars == <<phase, subs, dials, reqs, opened, answered, spent>>
Owners == Clients \cup {Server}
Live == phase # "stopped"

Record == [id : Nat, closer : BOOLEAN, connecting : BOOLEAN, timer : BOOLEAN, failures : Nat, owners : SUBSET Owners]
State(n, o) == [id |-> n, closer |-> FALSE, connecting |-> FALSE, timer |-> FALSE, failures |-> 0, owners |-> {o}]
Fresh == spent.ids
Owned(u, o) == subs[u] # None /\ o \in subs[u].owners
\* One more interest in a relay; a new record when there is none.
ClaimedIn(s, u, o) == [s EXCEPT ![u] = IF s[u] = None THEN State(Fresh, o) ELSE [s[u] EXCEPT !.owners = @ \cup {o}]]
\* Opening: nothing to do for a record that is open or opening.
Subscribes(s, u) ==
    IF s[u].closer \/ s[u].connecting THEN subs' = s /\ UNCHANGED <<dials, opened>>
    ELSE /\ subs' = [s EXCEPT ![u].connecting = TRUE]
         /\ dials' = dials \cup {[url |-> u, of |-> s[u].id]} /\ opened' = opened \cup {u}

AddRelay(u, o) ==
    /\ Live /\ (o \in Clients => phase = "started" /\ spent.admissions > 0)
    /\ ~Owned(u, o)
    /\ spent' = [spent EXCEPT !.ids = @ + (IF subs[u] = None THEN 1 ELSE 0), !.admissions = IF o \in Clients THEN @ - 1 ELSE @]
    /\ spent'.ids <= Scenes[spent.scene].ids
    /\ IF phase = "started" THEN Subscribes(ClaimedIn(subs, u, o), u)
       ELSE subs' = ClaimedIn(subs, u, o) /\ UNCHANGED <<dials, opened>>
    /\ UNCHANGED <<phase, reqs, answered>>
Start ==
    /\ phase = "new" /\ phase' = "started"
    /\ LET of == {u \in Urls : subs[u] # None}
       IN  /\ subs' = [u \in Urls |-> IF u \in of THEN [subs[u] EXCEPT !.connecting = TRUE, !.owners = @ \cup {Server}] ELSE None]
           /\ dials' = {[url |-> u, of |-> subs[u].id] : u \in of} /\ opened' = of
    /\ UNCHANGED <<reqs, answered, spent>>
\* The last owner leaves: the record goes, and with it the timer, the subscription and the socket.
Release(u, o) ==
    /\ Live /\ Owned(u, o) /\ o # Server
    /\ IF subs[u].owners = {o}
       THEN subs' = [subs EXCEPT ![u] = None] /\ reqs' = {r \in reqs : r.url # u} /\ opened' = opened \ {u}
       ELSE subs' = [subs EXCEPT ![u].owners = @ \ {o}] /\ UNCHANGED <<reqs, opened>>
    /\ UNCHANGED <<phase, dials, answered, spent>>
Stop == /\ phase = "started" /\ phase' = "stopped" /\ subs' = [u \in Urls |-> None] /\ reqs' = {} /\ opened' = {}
        /\ UNCHANGED <<dials, answered, spent>>

ScheduleResubscribe(s, u, n) ==
    subs' = IF ~Live \/ s[u] = None \/ (s[u] # None /\ (s[u].id # n \/ s[u].timer)) THEN s
            ELSE [s EXCEPT ![u].timer = TRUE, ![u].failures = IF @ < MaxFailures THEN @ + 1 ELSE @]
Current(u, n) == Live /\ subs[u] # None /\ subs[u].id = n
Connects(d) == IF Current(d.url, d.of)
               THEN /\ reqs' = reqs \cup {[url |-> d.url, of |-> d.of, eose |-> FALSE]}
                    /\ subs' = [subs EXCEPT ![d.url].connecting = FALSE, ![d.url].closer = TRUE]
               ELSE UNCHANGED <<reqs, subs>>
Connected(d) == /\ dials' = dials \ {d} /\ Connects(d) /\ UNCHANGED <<phase, opened, answered, spent>>
ConnectFails(d) ==
    /\ dials' = dials \ {d} /\ UNCHANGED <<phase, reqs, opened, answered, spent>>
    /\ IF Current(d.url, d.of) THEN ScheduleResubscribe([subs EXCEPT ![d.url].connecting = FALSE], d.url, d.of) ELSE subs' = subs
Eose(r) == /\ ~r.eose /\ reqs' = (reqs \ {r}) \cup {[r EXCEPT !.eose = TRUE]}
           /\ subs' = [subs EXCEPT ![r.url].failures = 0] /\ answered' = answered \cup {r.url}
           /\ UNCHANGED <<phase, dials, opened, spent>>
\* The relay, or the loss of its socket, ends a subscription.
Closes(r) == /\ spent.closes > 0 /\ spent' = [spent EXCEPT !.closes = @ - 1]
             /\ reqs' = reqs \ {r} /\ ScheduleResubscribe([subs EXCEPT ![r.url].closer = FALSE], r.url, r.of)
             /\ UNCHANGED <<phase, dials, opened, answered>>
TimerFires(u) ==
    /\ subs[u] # None /\ subs[u].timer /\ phase = "started"
    /\ Subscribes([subs EXCEPT ![u].timer = FALSE], u) /\ UNCHANGED <<phase, reqs, answered, spent>>

InitOf(n) == /\ phase = "new" /\ subs = [u \in Urls |-> IF u \in Scenes[n].first THEN State(0, Server) ELSE None]
             /\ dials = {} /\ reqs = {} /\ opened = {} /\ answered = {}
             /\ spent = [scene |-> n, ids |-> 1, closes |-> Scenes[n].closes, admissions |-> Scenes[n].admissions]
Init == \E n \in DOMAIN Scenes : InitOf(n)
Next == \/ Start \/ Stop
        \/ \E u \in Urls : TimerFires(u) \/ (\E o \in Owners : AddRelay(u, o) \/ Release(u, o))
        \/ \E d \in dials : Connected(d) \/ ConnectFails(d)
        \/ \E r \in reqs : Eose(r) \/ Closes(r)
Spec == Init /\ [][Next]_vars

-----------------------------------------------------------------------------
\* While the server runs, every relay somebody owns is subscribed, being dialled or due again, and
\* never twice; a relay nobody owns, and a stopped server, leave no subscription and no socket.
RelaysHeld ==
    /\ phase = "started" => \A u \in Urls : subs[u] # None => subs[u].closer \/ subs[u].connecting \/ subs[u].timer
    /\ \A r \in reqs : Current(r.url, r.of) /\ subs[r.url].closer /\ r.url \in opened
    /\ \A q, r \in reqs : q.url = r.url => q = r
    /\ \A u \in opened : subs[u] # None
=============================================================================
