------------------------------- MODULE Vault -------------------------------
(***************************************************************************)
(* The encrypted vault of packages/identity/src/vault/vault.ts: one record *)
(* in a key-value store, one decrypted payload in memory, and one "lane"   *)
(* that serialises every call that writes.  The lane orders two writes; it *)
(* cannot say that one of them must no longer happen.  That is the job of  *)
(* the session revision: a call captures it before it queues and refuses   *)
(* to install anything if it moved.  lock() and clearActiveAccount() are   *)
(* synchronous and never queue, so they land between any two awaits of the *)
(* call that is running.                                                   *)
(*                                                                         *)
(* One step is the code between two awaits.  A store write takes effect in *)
(* the step that settles it, or fails there and has no effect.  A password *)
(* stands for the key derived from it, `strong` for the current work       *)
(* factor.  A stamp names the call that made a secret or a cache key.      *)
(***************************************************************************)
EXTENDS Naturals, Sequences, FiniteSets

CONSTANTS
    Calls,          \* the asynchronous calls a behaviour may make, each once
    Scopes,         \* the scoped callbacks (withPrivkey and its siblings)
    Accounts,       \* account ids
    Passwords,      \* passwords a caller may type
    PerLockout,     \* UNLOCK_FAILURES_PER_LOCKOUT
    Scenes,         \* what a behaviour may do; it keeps to one of them
    None            \* the code's null

AllOps == {"create", "unlock", "change", "reEncrypt", "destroy",
           "destroyIfEmpty", "add", "remove", "update", "setActive"}

Stamp == Calls \cup {"orig"}
Key   == [pw : Passwords, strong : BOOLEAN]
Body  == [accts    : [Accounts -> Stamp \cup {"absent"}],
          active   : Accounts \cup {None},
          cacheKey : Stamp \cup {"absent"}]
Record == [key : Key, body : Body]

\* What may be called, over which stored records, and the bounds: how often lock(), the
\* auto-lock's included, clearActiveAccount(), a failing store and a restart may come.
Scene == [ops : SUBSET AllOps, accounts : SUBSET Accounts, passwords : SUBSET Passwords,
          stored : SUBSET (Record \cup {None}), callbacks : SUBSET Scopes,
          locks : Nat, clears : Nat, faults : Nat, restarts : Nat]

ASSUME VaultAssumption ==
    /\ Scenes \subseteq Scene
    /\ PerLockout \in Nat \ {0}
    /\ None \notin Accounts \cup Passwords /\ None \notin Body /\ None \notin Record /\ None \notin Key

VARIABLES
    disk,       \* the stored record, or None
    guard,      \* the stored unlock guard: failures, and whether a lockout runs
    payload,    \* #payload: the decrypted payload, None when locked
    held,       \* #held: the key a save encrypts under, None when locked
    revision,   \* #sessionRevision
    lane,       \* #lane: the calls queued, the head one running
    call,       \* what each call is and how far it got
    scope,      \* the scoped callbacks and the copies they hold
    loose,      \* secrets a running mutation detached from the payload
    session,    \* history: the revision the open session was installed under
    lockedAt,   \* history: the revision the last lock moved to
    spent       \* the scene that is played, and how much of each of its bounds is used

vars == <<disk, guard, payload, held, revision, lane, call, scope, loose,
          session, lockedAt, spent>>
scene  == spent.scene
store  == <<disk, guard>>
memory == <<payload, held, revision, scope, loose, session, lockedAt>>

FreshGuard == [failures |-> 0, shut |-> FALSE]
IdleCall   == [op |-> "none", acct |-> None, pw |-> None, rev |-> 0, pc |-> "idle",
               out |-> "none", minted |-> FALSE, before |-> None, write |-> None,
               wrote |-> FALSE]
IdleScope  == [st |-> "idle", acct |-> None, stamp |-> "absent", rev |-> 0, live |-> FALSE]

Present(body) == {a \in Accounts : body.accts[a] # "absent"}
Idle == lane = <<>>

----------------------------------------------------------------------------
(* The pieces every operation is made of.                                  *)

\* A call leaves the lane with an outcome; its locals are dropped.
FinishAs(c, out, wrote) ==
    /\ lane' = Tail(lane)
    /\ call' = [call EXCEPT ![c] = [IdleCall EXCEPT !.op = call[c].op, !.rev = call[c].rev,
                                           !.pc = "done", !.out = out, !.wrote = wrote]]
Finish(c, out) == FinishAs(c, out, call[c].wrote)

\* A call goes on to its next await, the lane still its own.
Continue(c, k) == call' = [call EXCEPT ![c] = k] /\ UNCHANGED lane
Goto(c, pc) == Continue(c, [call[c] EXCEPT !.pc = pc])

\* Slip: create() and destroy() do not wait for each other.
RunningUnserialised(c, pc) ==
    /\ lane # <<>> /\ call[c].pc = pc
    /\ Head(lane) = c \/ {call[c].op, call[Head(lane)].op} \subseteq {"create", "destroy"}

Running(c, pc) == lane # <<>> /\ Head(lane) = c /\ call[c].pc = pc

Overtaken(c) == call[c].rev # revision

Fault == /\ spent.faults < scene.faults
         /\ spent' = [spent EXCEPT !.faults = @ + 1]

\* #lockNow: every live copy, the payload and the held key are zeroed.
LockNow == /\ payload' = None
           /\ held' = None
           /\ scope' = [s \in Scopes |-> [scope[s] EXCEPT !.live = FALSE]]

\* lock(): the session moves on first, then everything is zeroed.
LockSession == /\ revision' = revision + 1
               /\ lockedAt' = revision + 1
               /\ LockNow
               /\ UNCHANGED <<loose, session>>

\* #adoptPayload and #adoptKey, always made in the same step.
Install(c, body, key) == /\ payload' = body
                         /\ held' = key
                         /\ session' = call[c].rev
                         /\ UNCHANGED <<revision, scope, loose, lockedAt>>

\* Slip: a lockout starts the count over.
NextGuardForgetting == LET n == guard.failures + 1
                       IN  IF n % PerLockout = 0 THEN [failures |-> 0, shut |-> TRUE]
                           ELSE [failures |-> n, shut |-> guard.shut]

NextGuard == LET n == guard.failures + 1
             IN  [failures |-> n, shut |-> guard.shut \/ n % PerLockout = 0]

----------------------------------------------------------------------------
(* Issuing a call: what runs before the first await.                       *)

Enqueue(c, op, a, p, rev) ==
    /\ op \in scene.ops
    /\ call[c].pc = "idle"
    /\ call' = [call EXCEPT ![c] = [IdleCall EXCEPT !.op = op, !.acct = a, !.pw = p,
                                                    !.rev = rev, !.pc = "queued"]]
    /\ lane' = Append(lane, c)
    /\ UNCHANGED <<store, spent>>

\* create() cancels what is in flight against the session it will replace.
IssueCreate(c) ==
    \E a \in scene.accounts \cup {None}, p \in scene.passwords :
        /\ Enqueue(c, "create", a, p, revision + 1)
        /\ revision' = revision + 1
        /\ UNCHANGED <<payload, held, scope, loose, session, lockedAt>>

\* destroy() locks at once and removes the record on the lane.
IssueDestroy(c) == /\ Enqueue(c, "destroy", None, None, revision + 1)
                   /\ LockSession

\* unlock() and changePassword() take a password and capture the revision.
IssueUnlock(c) == \E op \in {"unlock", "change"}, p \in scene.passwords :
                      /\ Enqueue(c, op, None, p, revision)
                      /\ UNCHANGED memory

\* reEncrypt() is refused before the lane when there is nothing open.
IssueReEncrypt(c) == \E p \in scene.passwords :
                         /\ payload # None
                         /\ Enqueue(c, "reEncrypt", None, p, revision)
                         /\ UNCHANGED memory

\* The account mutations and destroyIfEmpty().
IssueOther(c) == \E op \in {"add", "remove", "update", "setActive", "destroyIfEmpty"},
                    a \in scene.accounts :
                     /\ Enqueue(c, op, a, None, revision)
                     /\ UNCHANGED memory

Issue(c) == \/ IssueCreate(c) \/ IssueDestroy(c) \/ IssueUnlock(c)
            \/ IssueReEncrypt(c) \/ IssueOther(c)

----------------------------------------------------------------------------
(* unlock(): guard, derivation, installation, then the two repairs.        *)

StartUnlock(c) ==
    /\ Running(c, "queued") /\ call[c].op \in {"unlock", "change"}
    /\ IF Overtaken(c) THEN Finish(c, "overtaken")
       ELSE IF guard.shut \/ disk = None THEN Finish(c, "rejected")
       ELSE Goto(c, "derive")
    /\ UNCHANGED <<store, memory, spent>>

\* The derivation settles on a password that does not open the record.
DeriveWrong(c) == /\ Running(c, "derive") /\ call[c].pw # disk.key.pw
                  /\ Goto(c, "charge")
                  /\ UNCHANGED <<store, memory, spent>>

ChargeGuard(c) ==
    /\ Running(c, "charge")
    /\ \/ Finish(c, "wrong") /\ guard' = NextGuard /\ UNCHANGED spent
       \/ Finish(c, "rejected") /\ Fault /\ UNCHANGED guard
    /\ UNCHANGED <<disk, memory>>

\* A record without a cache key has one minted by the reader.
Opened(c) == [disk.body EXCEPT !.cacheKey = IF @ = "absent" THEN c ELSE @]

\* Slip: the revision is not looked at again after the derivation.
DeriveRightUnchecked(c) ==
    /\ Running(c, "derive") /\ call[c].pw = disk.key.pw
    /\ Install(c, Opened(c), disk.key)
    /\ Continue(c, [call[c] EXCEPT !.pc = "clear", !.minted = disk.body.cacheKey = "absent"])
    /\ UNCHANGED <<store, spent>>

DeriveRight(c) ==
    /\ Running(c, "derive") /\ call[c].pw = disk.key.pw
    /\ IF Overtaken(c)
       THEN Finish(c, "overtaken") /\ UNCHANGED memory
       ELSE /\ Install(c, Opened(c), disk.key)
            /\ Continue(c, [call[c] EXCEPT !.pc = "clear",
                                           !.minted = disk.body.cacheKey = "absent"])
    /\ UNCHANGED <<store, spent>>

\* The guard is removed once the session is already open.
ClearGuard(c) ==
    /\ Running(c, "clear")
    /\ \/ Goto(c, "restore") /\ guard' = FreshGuard /\ UNCHANGED spent
       \/ Finish(c, "rejected") /\ Fault /\ UNCHANGED guard
    /\ UNCHANGED <<disk, memory>>

\* Where unlock() goes once the work-factor upgrade is out of the way.
AfterReseal(c) == IF call[c].minted /\ ~Overtaken(c) THEN Goto(c, "mint")
                  ELSE IF Overtaken(c) THEN Finish(c, "overtaken")
                  ELSE Goto(c, "notify")

\* #restoreAutoLockSetting, awaited by unlock() and by create().
Restore(c) ==
    /\ Running(c, "restore")
    /\ \/ /\ UNCHANGED spent
          /\ IF call[c].op = "create" THEN Goto(c, "notify")
             ELSE IF Overtaken(c) THEN Finish(c, "overtaken")
             ELSE IF ~disk.key.strong THEN Goto(c, "reseal")
             ELSE AfterReseal(c)
       \/ Finish(c, "rejected") /\ Fault
    /\ UNCHANGED <<store, memory>>

\* #saveNow on behalf of a minted cache key: the read, then the write.  A save
\* that fails with the session still its own closes that session.
MintFails(c) ==
    /\ Fault
    /\ UNCHANGED store
    /\ IF Overtaken(c)
       THEN Finish(c, "overtaken") /\ UNCHANGED memory
       ELSE Finish(c, "rejected") /\ LockSession

MintRead(c) ==
    /\ Running(c, "mint")
    /\ \/ /\ IF Overtaken(c) THEN Finish(c, "overtaken")
             ELSE Continue(c, [call[c] EXCEPT !.pc = "mintWrite",
                                 !.write = [key |-> held, body |-> payload]])
          /\ UNCHANGED <<store, memory, spent>>
       \/ MintFails(c)

MintWrite(c) ==
    /\ Running(c, "mintWrite")
    /\ \/ /\ disk' = call[c].write
          /\ IF Overtaken(c) THEN FinishAs(c, "overtaken", TRUE) ELSE Goto(c, "notify")
          /\ UNCHANGED <<guard, memory, spent>>
       \/ MintFails(c)

\* Slip: changePassword() keeps the lane while it waits for its own reEncrypt().
NotifyHoldingLane(c) ==
    /\ Running(c, "notify")
    /\ IF call[c].op = "change" THEN Goto(c, "rekey") ELSE Finish(c, "true")
    /\ UNCHANGED <<store, memory, spent>>

\* The unlock listeners ran; the lane is released.  changePassword() goes on to
\* reEncrypt() on its own, behind whatever queued in the meantime.
Notify(c) ==
    /\ Running(c, "notify")
    /\ IF call[c].op = "change"
       THEN /\ call' = [call EXCEPT ![c] = [IdleCall EXCEPT !.op = "change",
                                              !.rev = call[c].rev, !.pc = "rekey"]]
            /\ lane' = Tail(lane)
       ELSE Finish(c, "true")
    /\ UNCHANGED <<store, memory, spent>>

Rekey(c) ==
    /\ call[c].pc = "rekey"
    /\ IF payload = None
       THEN Continue(c, [call[c] EXCEPT !.pc = "done", !.out = "rejected"])
       ELSE \E p \in scene.passwords :
              /\ call' = [call EXCEPT ![c] = [IdleCall EXCEPT !.op = "reEncrypt", !.pw = p,
                                                !.rev = revision, !.pc = "queued"]]
              /\ lane' = Append(lane, c)
    /\ UNCHANGED <<store, memory, spent>>

----------------------------------------------------------------------------
(* #resealNow, under reEncrypt() and under the work-factor upgrade.        *)

StartReEncrypt(c) ==
    /\ Running(c, "queued") /\ call[c].op = "reEncrypt"
    /\ IF Overtaken(c) \/ payload = None THEN Finish(c, "rejected") ELSE Goto(c, "reseal")
    /\ UNCHANGED <<store, memory, spent>>

\* reEncrypt() reports a failed re-seal, the upgrade inside unlock() swallows it.
ResealFails(c, wrote) ==
    IF call[c].op = "reEncrypt" THEN FinishAs(c, "rejected", wrote) ELSE AfterReseal(c)

Reseal(c) ==
    /\ Running(c, "reseal")
    /\ \/ /\ IF Overtaken(c) THEN ResealFails(c, FALSE)
             ELSE Continue(c, [call[c] EXCEPT !.pc = "rewrite",
                        !.write = [key  |-> [pw |-> call[c].pw, strong |-> TRUE],
                                   body |-> payload]])
          /\ UNCHANGED spent
       \/ ResealFails(c, FALSE) /\ Fault
    /\ UNCHANGED <<store, memory>>

\* Slip: the revision is not looked at again after the write.
RewriteUnchecked(c) ==
    /\ Running(c, "rewrite")
    /\ disk' = call[c].write /\ held' = call[c].write.key
    /\ IF call[c].op = "reEncrypt" THEN FinishAs(c, "true", TRUE) ELSE AfterReseal(c)
    /\ UNCHANGED <<guard, payload, revision, scope, loose, session, lockedAt, spent>>

Rewrite(c) ==
    /\ Running(c, "rewrite")
    /\ \/ /\ disk' = call[c].write
          /\ IF Overtaken(c)
             THEN ResealFails(c, TRUE) /\ UNCHANGED held
             ELSE /\ held' = call[c].write.key
                  /\ IF call[c].op = "reEncrypt" THEN FinishAs(c, "true", TRUE)
                     ELSE AfterReseal(c)
          /\ UNCHANGED spent
       \/ ResealFails(c, FALSE) /\ Fault /\ UNCHANGED <<disk, held>>
    /\ UNCHANGED <<guard, payload, revision, scope, loose, session, lockedAt>>

----------------------------------------------------------------------------
(* create(), destroy() and destroyIfEmpty().                               *)

\* What create() seals: one account or none, and the open session's cache key.
NewBody(c) == [accts    |-> [a \in Accounts |-> IF a = call[c].acct THEN c ELSE "absent"],
               active   |-> call[c].acct,
               cacheKey |-> IF payload = None THEN c ELSE payload.cacheKey]

StartCreate(c) ==
    /\ Running(c, "queued") /\ call[c].op = "create"
    /\ IF Overtaken(c) THEN Finish(c, "rejected")
       ELSE Continue(c, [call[c] EXCEPT !.pc = "seal",
                  !.write = [key |-> [pw |-> call[c].pw, strong |-> TRUE], body |-> NewBody(c)]])
    /\ UNCHANGED <<store, memory, spent>>

Seal(c) == /\ Running(c, "seal")
           /\ IF Overtaken(c) THEN Finish(c, "rejected") ELSE Goto(c, "createWrite")
           /\ UNCHANGED <<store, memory, spent>>

CreateWrite(c) ==
    /\ Running(c, "createWrite")
    /\ \/ /\ disk' = call[c].write
          /\ Continue(c, [call[c] EXCEPT !.pc = "createGuard", !.wrote = TRUE])
          /\ UNCHANGED spent
       \/ Finish(c, "rejected") /\ Fault /\ UNCHANGED disk
    /\ UNCHANGED <<guard, memory>>

CreateGuard(c) ==
    /\ Running(c, "createGuard")
    /\ \/ /\ guard' = FreshGuard
          /\ IF Overtaken(c)
             THEN Finish(c, "rejected") /\ UNCHANGED memory
             ELSE Install(c, call[c].write.body, call[c].write.key) /\ Goto(c, "restore")
          /\ UNCHANGED spent
       \/ Finish(c, "rejected") /\ Fault /\ UNCHANGED <<guard, memory>>
    /\ UNCHANGED disk

StartDestroy(c) ==
    /\ Running(c, "queued") /\ call[c].op = "destroy"
    /\ Goto(c, "wipe")
    /\ UNCHANGED <<store, memory, spent>>

\* Only an open, empty vault is destroyed; the lock is taken inside the lane.
StartDestroyIfEmpty(c) ==
    /\ Running(c, "queued") /\ call[c].op = "destroyIfEmpty"
    /\ IF payload = None \/ (payload # None /\ Present(payload) # {})
       THEN Finish(c, "false") /\ UNCHANGED memory
       ELSE /\ Continue(c, [call[c] EXCEPT !.pc = "wipe", !.rev = revision + 1])
            /\ LockSession
    /\ UNCHANGED <<store, spent>>

Wipe(c) ==
    /\ Running(c, "wipe")
    /\ \/ disk' = None /\ Goto(c, "wipeGuard") /\ UNCHANGED spent
       \/ Finish(c, "rejected") /\ Fault /\ UNCHANGED disk
    /\ UNCHANGED <<guard, memory>>

WipeGuard(c) ==
    /\ Running(c, "wipeGuard")
    /\ \/ guard' = FreshGuard /\ Goto(c, "listeners") /\ UNCHANGED spent
       \/ Finish(c, "rejected") /\ Fault /\ UNCHANGED guard
    /\ UNCHANGED <<disk, memory>>

\* The destroy listeners ran; the session is zeroed once more, without a new one.
Destroyed(c) == /\ Running(c, "listeners")
                /\ Finish(c, "true")
                /\ LockNow
                /\ UNCHANGED <<store, revision, loose, session, lockedAt, spent>>

----------------------------------------------------------------------------
(* #mutate and setActiveAccountId: applied in memory, then saved.          *)

Mutations    == {"add", "remove", "update", "setActive"}
\* Slip: a removal declared 'no-secrets'.
TouchSecretsButRemoval == {"update"}
TouchSecrets == {"remove", "update"}      \* mutations declared 'secrets'

\* Slip: a missing account is not refused.
RefusedAddOnly(c) == call[c].op = "add" /\ call[c].acct \in Present(payload)

\* What apply() throws on.
Refused(c) == IF call[c].op = "add" THEN call[c].acct \in Present(payload)
              ELSE call[c].acct \notin Present(payload)

Applied(c) ==
    LET a == call[c].acct
        left == Present(payload) \ {a}
    IN  CASE call[c].op \in {"add", "update"} -> [payload EXCEPT !.accts[a] = c]
          [] call[c].op = "setActive"         -> [payload EXCEPT !.active = a]
          [] call[c].op = "remove"            ->
               [payload EXCEPT !.accts[a] = "absent",
                  !.active = IF @ # a THEN @ ELSE IF left = {} THEN None
                             ELSE CHOOSE b \in left : TRUE]

\* The secret a mutation takes out of the payload, and keeps for its undo.
Detached(c) == IF call[c].op \in TouchSecrets THEN {payload.accts[call[c].acct]} ELSE {}

StartMutation(c) ==
    /\ Running(c, "queued") /\ call[c].op \in Mutations
    /\ IF Overtaken(c) \/ payload = None THEN Finish(c, "rejected") /\ UNCHANGED memory
       ELSE LET rev == IF call[c].op \in TouchSecrets THEN revision + 1 ELSE revision
            IN  /\ revision' = rev
                /\ IF Refused(c)
                   THEN Finish(c, "rejected") /\ UNCHANGED <<payload, loose>>
                   ELSE IF call[c].op = "setActive" /\ payload.active = call[c].acct
                   THEN Finish(c, "true") /\ UNCHANGED <<payload, loose>>
                   ELSE /\ Continue(c, [call[c] EXCEPT !.pc = "read", !.rev = rev,
                                                       !.before = payload])
                        /\ payload' = Applied(c)
                        /\ loose' = Detached(c)
                /\ UNCHANGED <<held, scope, session, lockedAt>>
    /\ UNCHANGED <<store, spent>>

\* Undone on the payload it was applied to, abandoned if a lock zeroed that one.
\* setActiveAccountId() has neither.
SelectionCleared(c) == Overtaken(c) /\ payload.active = None

\* Slip: a failed save changes nothing in memory.
MutationFailsKept(c) == /\ Finish(c, "rejected")
                        /\ loose' = {}
                        /\ UNCHANGED <<disk, guard, payload, held, revision, scope, session,
                                      lockedAt>>

MutationFails(c) ==
    /\ Finish(c, "rejected")
    /\ loose' = {}
    /\ payload' = IF payload = None \/ call[c].op = "setActive" THEN payload
                  ELSE [call[c].before EXCEPT !.active =
                          IF SelectionCleared(c) THEN None ELSE @]
    /\ UNCHANGED <<disk, guard, held, revision, scope, session, lockedAt>>

\* #saveNow: the record is read for its passkeys, and what is in memory is sealed.
MutationRead(c) ==
    /\ Running(c, "read")
    /\ IF Overtaken(c) THEN MutationFails(c) /\ UNCHANGED spent
       ELSE \/ /\ Continue(c, [call[c] EXCEPT !.pc = "write",
                               !.write = [key |-> held, body |-> payload]])
               /\ UNCHANGED <<store, memory, spent>>
            \/ MutationFails(c) /\ Fault

MutationWrite(c) ==
    /\ Running(c, "write")
    /\ \/ /\ disk' = call[c].write
          /\ loose' = {}
          /\ FinishAs(c, "true", TRUE)
          /\ UNCHANGED <<guard, payload, held, revision, scope, session, lockedAt, spent>>
       \/ MutationFails(c) /\ Fault

----------------------------------------------------------------------------
(* What never queues: locks, the selection clear, and the scoped callbacks.*)

\* lock(), called by a user or by the auto-lock timer.
Lock == /\ spent.locks < scene.locks
        /\ spent' = [spent EXCEPT !.locks = @ + 1]
        /\ LockSession
        /\ UNCHANGED <<store, lane, call>>

\* clearActiveAccount(): in memory only, and the session moves on.
ClearActive == /\ spent.clears < scene.clears
               /\ payload # None
               /\ payload.active # None
               /\ payload' = [payload EXCEPT !.active = None]
               /\ revision' = revision + 1
               /\ spent' = [spent EXCEPT !.clears = @ + 1]
               /\ UNCHANGED <<store, held, lane, call, scope, loose, session, lockedAt>>

\* withPrivkey and its siblings copy the secret and register the copy.
Begin(s) == /\ scope[s].st = "idle" /\ s \in scene.callbacks
            /\ payload # None
            /\ \E a \in Present(payload) :
                 scope' = [scope EXCEPT ![s] = [st |-> "running", acct |-> a,
                             stamp |-> payload.accts[a], rev |-> revision, live |-> TRUE]]
            /\ UNCHANGED <<store, payload, held, revision, lane, call, loose, session,
                          lockedAt, spent>>

\* The callback settles: its result is handed back only under its own session.
End(s) == /\ scope[s].st = "running"
          /\ scope' = [scope EXCEPT ![s].live = FALSE,
                ![s].st = IF scope[s].rev = revision THEN "returned" ELSE "voided"]
          /\ UNCHANGED <<store, payload, held, revision, lane, call, loose, session,
                        lockedAt, spent>>

\* The lockout window passes.
LockoutEnds == /\ guard.shut
               /\ guard' = [guard EXCEPT !.shut = FALSE]
               /\ UNCHANGED <<disk, memory, lane, call, spent>>

\* The process dies and another starts: only the store is left.  Revisions go on
\* counting, which names the sessions of the new process apart from the old ones.
Restart ==
    /\ spent.restarts < scene.restarts
    /\ spent' = [spent EXCEPT !.restarts = @ + 1]
    /\ payload' = None /\ held' = None /\ loose' = {}
    /\ revision' = revision + 1 /\ lockedAt' = revision + 1
    /\ lane' = <<>>
    /\ scope' = [s \in Scopes |-> IF scope[s].st = "running"
                                  THEN [scope[s] EXCEPT !.st = "voided", !.live = FALSE]
                                  ELSE scope[s]]
    /\ call' = [c \in Calls |-> IF call[c].pc \in {"idle", "done"} THEN call[c]
                 ELSE [IdleCall EXCEPT !.op = call[c].op, !.rev = call[c].rev,
                                       !.pc = "done", !.out = "lost"]]
    /\ UNCHANGED <<store, session>>

----------------------------------------------------------------------------
\* A stored vault, not opened yet, or open under the key of its record.
Init ==
    /\ \E s \in Scenes :
         /\ disk \in s.stored
         /\ spent = [scene |-> s, locks |-> 0, clears |-> 0, faults |-> 0, restarts |-> 0]
    /\ guard = FreshGuard
    /\ \/ payload = None /\ held = None
       \/ /\ disk # None /\ disk.body.cacheKey # "absent"
          /\ payload = disk.body /\ held = disk.key
    /\ revision = 0 /\ session = 0 /\ lockedAt = 0
    /\ lane = <<>> /\ loose = {}
    /\ call = [c \in Calls |-> IdleCall]
    /\ scope = [s \in Scopes |-> IdleScope]

UnlockStep(c) == \/ StartUnlock(c) \/ DeriveWrong(c) \/ ChargeGuard(c) \/ DeriveRight(c)
                 \/ ClearGuard(c) \/ Restore(c) \/ MintRead(c) \/ MintWrite(c) \/ Notify(c)
ResealStep(c) == StartReEncrypt(c) \/ Reseal(c) \/ Rewrite(c)
CreateStep(c) == StartCreate(c) \/ Seal(c) \/ CreateWrite(c) \/ CreateGuard(c)
DestroyStep(c) == \/ StartDestroy(c) \/ StartDestroyIfEmpty(c)
                  \/ Wipe(c) \/ WipeGuard(c) \/ Destroyed(c)
MutateStep(c) == StartMutation(c) \/ MutationRead(c) \/ MutationWrite(c)

Work(c) == UnlockStep(c) \/ Rekey(c) \/ ResealStep(c) \/ CreateStep(c)
           \/ DestroyStep(c) \/ MutateStep(c)

Next == \/ \E c \in Calls : Issue(c) \/ Work(c)
        \/ \E s \in Scopes : Begin(s) \/ End(s)
        \/ Lock \/ ClearActive \/ LockoutEnds \/ Restart

Spec == Init /\ [][Next]_vars

\* The event loop runs what has been queued; nobody has to call anything.
FairSpec == Spec /\ \A c \in Calls : WF_vars(Work(c))

----------------------------------------------------------------------------
Outcomes == {"none", "true", "false", "wrong", "overtaken", "rejected", "lost"}
Queued   == {"queued"}
AtWork   == {"derive", "charge", "clear", "restore", "reseal", "rewrite", "mint", "mintWrite",
             "notify", "seal", "createWrite", "createGuard", "wipe", "wipeGuard",
             "listeners", "read", "write"}

CallType == [op : AllOps \cup {"none"}, acct : Accounts \cup {None},
             pw : Passwords \cup {None}, rev : Nat,
             pc : Queued \cup AtWork \cup {"idle", "rekey", "done"}, out : Outcomes,
             minted : BOOLEAN, before : Body \cup {None}, write : Record \cup {None},
             wrote : BOOLEAN]

ScopeType == [st : {"idle", "running", "returned", "voided"}, acct : Accounts \cup {None},
              stamp : Stamp \cup {"absent"}, rev : Nat, live : BOOLEAN]

SpentType == [scene : Scenes, locks : Nat, clears : Nat, faults : Nat, restarts : Nat]

\* Every variable holds what the code keeps there.
TypeOK ==
    /\ disk \in Record \cup {None}
    /\ guard \in [failures : Nat, shut : BOOLEAN]
    /\ payload \in Body \cup {None}
    /\ held \in Key \cup {None}
    /\ revision \in Nat /\ session \in Nat /\ lockedAt \in Nat
    /\ lane \in Seq(Calls)
    /\ call \in [Calls -> CallType]
    /\ scope \in [Scopes -> ScopeType]
    /\ loose \subseteq Stamp
    /\ spent \in SpentType

\* The payload and the key a save encrypts under come and go together: a re-seal
\* whose session was locked under it never leaves a live vault key behind.
HeldIffOpen == payload = None <=> held = None

\* A lock wins over whatever was in flight: an open session was never installed on
\* behalf of a call made before the last lock(), however long its derivation took.
LockWins == payload # None => session >= lockedAt

\* A write landed and its call reports a failure: a reEncrypt() overtaken during it, see
\* OvertakenResealEndsSession below, or a create() over an open session that is overtaken
\* before it installs its own, or cannot remove the guard.
RejectedAfterWrite ==
    \E c \in Calls : call[c].op \in {"reEncrypt", "create"} /\ call[c].wrote /\ call[c].out = "rejected"

\* With nothing in the lane, an open session is the stored record: the key that will
\* encrypt the next save opens it, and it holds the same secrets.  A session under the
\* key or without the cache key of an earlier release is left to the next unlock.
SessionMatchesRecord ==
    /\ payload # None /\ Idle /\ ~RejectedAfterWrite
    /\ held.strong /\ (disk # None => disk.body.cacheKey # "absent")
    => /\ disk # None
       /\ held = disk.key
       /\ payload.accts = disk.body.accts /\ payload.cacheKey = disk.body.cacheKey

\* What is over leaves nothing behind.  Once the vault is locked no running callback holds a
\* readable copy, and when the lane has drained no mutation has left a detached secret
\* un-zeroed (lock, #mutate); and when destroy() has resolved, only a create() issued after
\* it brings back a record or a session.
EndedIsGone ==
    /\ payload = None => /\ \A s \in Scopes : ~scope[s].live
                         /\ Idle => loose = {}
    /\ \A d \in Calls :
         /\ call[d].pc = "done" /\ call[d].op \in {"destroy", "destroyIfEmpty"}
         /\ call[d].out = "true"
         /\ \A c \in Calls : call[c].op = "create" => call[c].rev < call[d].rev
         => disk = None /\ payload = None

\* The guard against guessing (guard.ts): no password is stretched while the lockout runs,
\* and every wrong one is charged, across locks and concurrent attempts: until some other
\* kind of outcome may have cleared it, the counter holds them all.
GuardHolds ==
    /\ guard.shut => \A c \in Calls : call[c].pc # "derive"
    /\ (\A c \in Calls : /\ call[c].op \in {"none", "unlock", "change"}
                          /\ \/ call[c].pc \in {"idle", "queued", "derive", "charge"}
                             \/ call[c].out = "wrong")
       => guard.failures = Cardinality({c \in Calls : call[c].out = "wrong"})

Leaves(c, out) == call[c].pc # "done" /\ call'[c].pc = "done" /\ call'[c].out = out

Returns(s) == scope[s].st = "running" /\ scope'[s].st = "returned"

\* The secret a callback holds was taken from it by what moves no session: a create() that
\* had been called before the callback began, the failed save of the mutation that brought
\* the secret, or an unlock() that read another vault than the open one (RejectedAfterWrite).
Overruled(s) ==
    \/ \E c \in Calls : call[c].op = "create" /\ call[c].rev = scope[s].rev
    \/ \E c \in Calls : call[c].op \in {"add", "update"} /\ call[c].out = "rejected" /\ scope[s].stamp = c
    \/ RejectedAfterWrite

\* What is reported is so.  unlock() that reports success left a session the record can
\* reproduce, the work factor upgraded or not and the cache key minted or not; and no result
\* of a callback is handed back over a copy a lock has zeroed, or under a secret the vault
\* has since removed or replaced, but for what overrules it (#scoped, #mutate).
ReportsAreTrue ==
    [][/\ \A c \in Calls :
            Leaves(c, "true") /\ call[c].op = "unlock" /\ payload' # None =>
                held' = disk'.key /\ payload'.cacheKey = disk'.body.cacheKey
       /\ \A s \in Scopes : Returns(s) =>
            /\ scope[s].live /\ payload # None
            /\ payload.accts[scope[s].acct] = scope[s].stamp \/ Overruled(s)]_vars

\* The lane never jams: every call that queued settles.
Waits(c)   == call[c].pc = "queued"
Settled(c) == call[c].pc = "done"
EveryCallSettles == \A c \in Calls : Waits(c) ~> Settled(c)

----------------------------------------------------------------------------
(* What the comments of vault.ts say, and the code does not always do.     *)

\* #resealNow: when the write landed under a session that moved, "it is only this
\* session that is over" (vault.ts:1698).
OvertakenResealEndsSession ==
    [][\A c \in Calls : Leaves(c, "rejected") /\ call[c].op = "reEncrypt" /\ call'[c].wrote
                            => payload' = None]_vars
=============================================================================
