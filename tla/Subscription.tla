--------------------------- MODULE Subscription ---------------------------
(***************************************************************************)
(* What a subscription of the relay hub is, for its holder: it is asked    *)
(* for, may be served from a relay, ends by being released or by the one   *)
(* notice that it is closed, and is never served again.  While it lives it *)
(* is served in the end, or it waits for others that are.                  *)
(***************************************************************************)
CONSTANT Handles
VARIABLES phase,    \* idle, live, told, gone
          served,   \* handles that a request on the wire stands for
          waiting   \* handles told that the budget has no place for them

vars == <<phase, served, waiting>>

Live == {h \in Handles : phase[h] = "live"}
Init == phase = [h \in Handles |-> "idle"] /\ served = {} /\ waiting = {}

Moves == {<<"idle", "live">>, <<"idle", "told">>, <<"live", "told">>,
          <<"live", "gone">>, <<"told", "gone">>}

\* One step of the hub may end or begin several subscriptions at once.
Next == /\ phase' \in [Handles -> {"idle", "live", "told", "gone"}]
        /\ \A h \in Handles : phase'[h] = phase[h] \/ <<phase[h], phase'[h]>> \in Moves
        /\ served' \subseteq Live' /\ waiting' \subseteq Live' \ served'

\* Everybody is served, or waits for somebody who is.
Settled == /\ \A h \in Live : h \in served \/ h \in waiting
           /\ waiting # {} => served # {}

\* Again and again, as long as the world misbehaves only so often.
Spec == Init /\ [][Next]_vars /\ []<>Settled
=============================================================================
