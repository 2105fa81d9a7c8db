---------------------------- MODULE HubScenes ------------------------------
(* Who subscribes through the hub, and what the relay and the host do: the scenes *)
(* RelayHub is played on, for its safety and for what it promises in the end.     *)
EXTENDS Naturals
CONSTANTS h1, h2, h3, k1, k2, l1, l2, p1, p2, x1, x2

Handles == {h1, h2, h3}
Leases  == {l1, l2}
Sub(k, pri) == [key |-> k, pri |-> pri, watch |-> FALSE, cap |-> 9, oneshot |-> FALSE]
Watched(k)  == [Sub(k, 0) EXCEPT !.watch = TRUE, !.cap = 2]
Query(k)    == [Sub(k, 0) EXCEPT !.oneshot = TRUE]
Saying(X) == {[wrapped |-> FALSE, says |-> w] : w \in X}
Bounds == [scene |-> 0, priorities |-> 0, identities |-> 0, removals |-> 0, drops |-> 0, forgets |-> 0,
           closes |-> 0, silences |-> 0, frames |-> 0, disposed |-> FALSE,
           taken |-> {}]
Plain == [spec |-> [h \in Handles |-> Sub(k1, 0)], handles |-> {h1}, leases |-> {}, max |-> 1, key |-> p1,
          answers |-> TRUE, challenges |-> {x1}, verdicts |-> {}, declines |-> FALSE, disposal |-> FALSE, bounds |-> Bounds]
On(f, g, e) == [h \in Handles |-> CASE h = h1 -> f [] h = h2 -> g [] OTHER -> e]

\* Three subscriptions, two of them alike, over one slot or two, with priorities, quotas and drops.
Crowd == [Plain EXCEPT !.spec = On(Sub(k1, 0), Sub(k1, 1), Sub(k2, 0)), !.handles = Handles, !.max = 2,
                       !.verdicts = Saying({"quota", "restricted"}),
                       !.bounds = [Bounds EXCEPT !.closes = 2, !.drops = 1, !.priorities = 1]]
Narrow == [Crowd EXCEPT !.max = 1, !.verdicts = Saying({"other"}), !.bounds.forgets = 1, !.bounds.priorities = 0,
                        !.bounds.closes = 3]
\* A query with a deadline beside a watched subscription.
Mixed == [Plain EXCEPT !.spec = On(Query(k1), Watched(k2), Query(k1)), !.handles = Handles, !.disposal = TRUE,
                       !.verdicts = Saying({"other", "quota"}),
                       !.bounds = [Bounds EXCEPT !.closes = 2, !.silences = 2, !.drops = 1]]
\* Challenges, leases that come and go, drops and changes of identity.
Signed == [Plain EXCEPT !.leases = Leases, !.verdicts = {[wrapped |-> TRUE, says |-> "other"]},
                        !.bounds = [Bounds EXCEPT !.frames = 2, !.closes = 2, !.drops = 1]]
Switched == [Signed EXCEPT !.spec = On(Watched(k1), Sub(k2, 1), Sub(k2, 0)), !.leases = {l1},
                           !.bounds = [Bounds EXCEPT !.frames = 2, !.closes = 1, !.silences = 1, !.identities = 1]]
\* Two subscriptions and one slot, and then the identity goes.
Removed == [Switched EXCEPT !.handles = {h1, h2}, !.verdicts = Saying({"auth", "restricted"}),
                            !.bounds = [Bounds EXCEPT !.frames = 1, !.closes = 1, !.removals = 1]]
\* A relay that goes from one challenge to another and back, on two connections.
Fickle == [Plain EXCEPT !.leases = {l1}, !.challenges = {x1, x2}, !.declines = TRUE,
                        !.bounds = [Bounds EXCEPT !.frames = 3, !.drops = 1]]
\* The identity goes and comes back, with handles of before and after on one key.
Returned == [Plain EXCEPT !.handles = Handles, !.verdicts = Saying({"other"}), !.spec = On(Sub(k1, 0), Sub(k1, 0), Query(k1)),
                          !.bounds = [Bounds EXCEPT !.removals = 1, !.identities = 1, !.drops = 1, !.closes = 1]]
HubSafety == <<Crowd, Narrow, Mixed, Signed, Switched, Removed, Returned, Fickle>>

\* Small ones, for liveness.
Settling == [Narrow EXCEPT !.verdicts = Saying({"other", "quota"}), !.handles = {h1, h3}, !.bounds.closes = 2]
Prompted == [Signed EXCEPT !.leases = {l1}, !.handles = {h1}]
HubSettling == <<Settling, Prompted, Removed>>
\* The user declines the prompt.
HubDeclining == <<[Prompted EXCEPT !.declines = TRUE]>>
=============================================================================
