---------------------------- MODULE MC_Settles -----------------------------
(***************************************************************************)
(* What must happen in the end: small instances of Vault, SignerCore and   *)
(* RelayHub under the fairness of their timers and promises.  An initial   *)
(* state picks a part; the slots are its variables, in the order its       *)
(* module declares them.                                                   *)
(***************************************************************************)
EXTENDS HubScenes, Sequences, FiniteSets, TLC
CONSTANTS c1, c2, alice, remy, app, r1, r2, None
VARIABLES part, slot1, slot2, slot3, slot4, slot5, slot6, slot7, slot8, slot9, slot10, slot11, slot12, slot13, slot14
all == <<part, slot1, slot2, slot3, slot4, slot5, slot6, slot7, slot8, slot9, slot10, slot11, slot12, slot13, slot14>>

\* A stored vault of one account: sessions begin and end, with a lock, a wrong password and a
\* restart; then mutations, over a store that fails once, with a lock and a selection clear.
VaultScenes ==
    LET sessions == [ops |-> {"create", "unlock", "destroy"}, accounts |-> {alice}, passwords |-> {"p", "q"}, callbacks |-> {},
                     stored |-> {[key |-> [pw |-> "p", strong |-> TRUE],
                                  body |-> [accts |-> alice :> "orig", active |-> alice, cacheKey |-> "orig"]]},
                     locks |-> 1, clears |-> 0, faults |-> 0, restarts |-> 1]
    IN  {sessions, [sessions EXCEPT !.ops = {"unlock", "change", "remove"}, !.passwords = {"p"}, !.clears = 1, !.faults = 1, !.restarts = 0]}
TheVault == INSTANCE Vault WITH
    Calls <- {c1, c2}, Scopes <- {}, Accounts <- {alice}, Passwords <- {"p", "q"}, PerLockout <- 1, Scenes <- VaultScenes,
    disk <- slot1, guard <- slot2, payload <- slot3, held <- slot4, revision <- slot5, lane <- slot6, call <- slot7, scope <- slot8,
    loose <- slot9, session <- slot10, lockedAt <- slot11, spent <- slot12

\* Two logins at the lock of the grant store; two requests of a local account or of one whose
\* signer is remote, with a lock of the vault and the disposal of the signer.
SignerScenes ==
    LET logins == [requests |-> 2, methods |-> {"login"}, ids |-> {1}, accounts |-> {alice}, rules |-> {"ask"}, grants |-> {"ask"},
                   switches |-> 0, locks |-> 0, revokes |-> 0, edits |-> 0, faults |-> 0, dispose |-> FALSE]
    IN  {logins, [logins EXCEPT !.methods = {"sign"}, !.accounts = {alice, remy}, !.locks = 1, !.dispose = TRUE]}
Signer == INSTANCE SignerCore WITH
    Requests <- {r1, r2}, Origins <- {app}, Ids <- {1}, Accounts <- {alice, remy}, MaxPending <- 2, MaxOrigin <- 3, MaxGlobal <- 3,
    BatchItems <- <<"sign", "attest", "sign">>, Remote <- {remy}, ReadOnly <- {}, RememberFor <- {app}, Scenes <- SignerScenes,
    queue <- slot1, disposed <- slot2, active <- slot3, told <- slot4, locked <- slot5, epoch <- slot6, rules <- slot7, grants <- slot8,
    cooldown <- slot9, serial <- slot10, revoked <- slot11, call <- slot12, shared <- slot13, spent <- slot14

Hub == INSTANCE RelayHub WITH
    Keys <- {k1, k2}, Pubkeys <- {p1, p2}, Challenges <- {x1}, Lives <- 1..3, Ops <- 1..2, Scenes <- HubSettling,
    hub <- slot1, handle <- slot2, lease <- slot3, ident <- slot4, spent <- slot5
\* The abstract subscriptions; idle in the other parts.
Promise == INSTANCE Subscription WITH
    phase   <- IF part = "hub" THEN Hub!Phase ELSE [h \in Handles |-> "idle"],
    served  <- IF part = "hub" THEN Hub!Served ELSE {},
    waiting <- IF part = "hub" THEN Hub!Waiters ELSE {}
-----------------------------------------------------------------------------
Free13 == slot13 = None /\ slot14 = None
Free6  == slot6 = None /\ slot7 = None /\ slot8 = None /\ slot9 = None /\ slot10 = None /\ slot11 = None /\ slot12 = None /\ Free13
Init == \/ part = "vault" /\ TheVault!Init /\ Free13
        \/ part = "signer" /\ Signer!Init
        \/ part = "hub" /\ Hub!Init /\ Free6

InVault  == part = "vault" /\ UNCHANGED <<part, slot13, slot14>>
InSigner == part = "signer" /\ UNCHANGED part
InHub    == part = "hub" /\ UNCHANGED <<part, slot6, slot7, slot8, slot9, slot10, slot11, slot12, slot13, slot14>>
Next == \/ InVault /\ TheVault!Next
        \/ InSigner /\ Signer!Next
        \/ InHub /\ Hub!Next

\* The fairness of the three modules (their FairSpec): the vault's own steps; promises that
\* resume and timers that fire; the hub's timers, reconnections and prompts.
FairSpec == /\ Init /\ [][Next]_all
            /\ \A c \in {c1, c2} : WF_all(InVault /\ TheVault!Work(c))
            /\ \A r \in {r1, r2} : WF_all(InSigner /\ Signer!Resumes(r)) /\ WF_all(InSigner /\ Signer!Timeout(r))
            /\ WF_all(InHub /\ Hub!Progress)
-----------------------------------------------------------------------------
\* The lane never jams: every call that queued at the vault settles (vault.ts #serial).
EveryCallSettles ==
    \A c \in {c1, c2} : (part = "vault" /\ TheVault!Waits(c)) ~> (part = "vault" /\ TheVault!Settled(c))
\* Every request that entered the pipeline is answered, by somebody or by its timer (queue.ts).
EveryRequestSettles ==
    \A r \in {r1, r2} : (part = "signer" /\ Signer!Entered(r)) ~> (part = "signer" /\ Signer!Returned(r))
\* The hub keeps the promise of Subscription: nobody who asked is left without a request on the
\* wire, a place in the line behind one, or the notice that it is over (registry.ts).
KeepsPromise == Promise!Spec
=============================================================================
