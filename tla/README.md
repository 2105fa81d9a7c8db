# Verification of the Nostr WoT SDK's concurrent core

This directory holds TLA+ models of the parts of the SDK in which several things happen at
once, the TLC instances that check them, and TLAPS proofs of what matters most for every
value of the constants. It is a companion of the source: each definition of a model stands
for the lines that `PROJECT.json` names under `map`.

Contents: [The system](#the-system) · [Modules](#modules) · [Vault](#the-vault) ·
[Signing pipeline](#the-signing-pipeline-and-its-queue) ·
[Permissions](#the-permission-store) · [Bunker](#the-bunker) · [Relays](#the-relay-side) ·
[Clients](#the-client-side) · [Runs](#the-runs) ·
[Proofs](#the-proofs) · [Divergences](#divergences-from-what-the-code-says) ·
[Plan](#plan) · [Not modelled](#not-modelled)

## The system

The SDK is a set of TypeScript packages that run in one JavaScript process (a browser
extension, a page, a server). There are no threads: concurrency is the interleaving of
asynchronous calls at their `await`s, of timers, of callbacks handed to the host, and of
whatever the user does meanwhile. State that must outlive the process is in a key-value
store that is written one key at a time and may fail; the process may die between two
writes. Nearly every defect the code guards against has the same shape: a value is read or
a decision taken before an `await` and acted on after it.

| component | state it keeps | operations | talks to | what is hard | what makes it correct |
|---|---|---|---|---|---|
| **identity vault** `identity/vault/vault.ts` | the stored record and unlock guard; in memory the payload, the held key, a session revision, the lane, scoped copies | `create unlock lock changePassword reEncrypt destroy destroyIfEmpty`, account mutations, `setActiveAccountId`, `clearActiveAccount`, `withPrivkey` and siblings | store, crypto, auto-lock timer | `lock()` is synchronous and lands inside any operation; saves fail half-way; restarts | a lock always wins; memory equals the record; secrets are zeroed; attempts are charged |
| **vault passkeys and recovery** `passkey*.ts recovery.ts nosskey.ts` | none in memory; a blob in the authenticator, recovery events on relays | discover, resolve, restore, save to blob or relays | authenticator, relays, the host's session | outputs are dropped, relays hold old, broken or foreign events, the session ends meanwhile | what is opened is what the handle names; what is replaced was shown and agreed to |
| accounts `accounts/*` | none | derivation, import, encodings | | | pure functions |
| **approval queue** `signing/queue.ts` | pending entries by caller, kind and id; a disposed flag | `track`, its settlement, `reject`, `rejectPendingForAccount`, `rejectOrigin`, `dispose` | the pipeline | five ways for one entry to end | the three caps; one entry per key; no orphan |
| **signing pipeline** `signing/core.ts` | cooldowns, revocation serials, the queue | `handle handleSelf handleBatch cancel onActiveAccountChanged revokeOrigin clearCooldown dispose` | vault, permissions, grants, identity, prompts, remote signer | anything can change at any of a dozen awaits | no key used unasked, nothing answered for the account the user left, a cut-off caller is not answered |
| **authentication grants** `permissions/authenticationGrants.ts` | one decision per caller, account and destination | `save decisionFor revoke` | store, pipeline | two prompts answered at once | a refusal is not overwritten |
| **permission store** `permissions/store.ts` | a tree of decisions, a cache of it, a migration journal | `check save clear`, modes, migrations | store | reads are not serialised with writes; a migration dies half-way | deny wins; the cache never shows what was not written; a migration resumes |
| **bunker** `identity/bunker/*` | clients, secrets and generations, pending admissions, seen sets, relay subscriptions | mint, connect, scan, requests, logout, `revoke*`, `disconnect`, `exportState`, `restore`, `addRelay` | pipeline, relays, the host's storage | duplicated and late requests; revocation during a prompt; old copies of the state | a secret admits one client; nothing is answered after a revocation; what was exported restores |
| **relay hub** `sdk/relay/hub/*` | sockets with leases and back-off, subscriptions by key, AUTH records, queries in flight, caches | connect, subscribe, query, publish, `setIdentity`, leases | relays, signer | reconnection races, caps, idle timers, prompts that outlive a connection | no lost or doubled subscription; AUTH only where leased; a shared answer is each one's own |
| **relay pool, manager and query batcher** `sdk/relay/*` | the feed, its timers, relay statuses and scores; batched queries in flight | feed, follow, add and remove relays, publish; query, flush | relays | partial EOSE, timeouts, a reconnection that ends what it replaces | the feed comes back; each query is answered with its own events |
| **data coalescer and caches** `sdk/data/*` | requests grouped per window; observable entries, their persisted copies and flights | subscribe, query, get, set, clear | pool, local storage | results after dispose or out of order; a clear during a flight | nobody is stranded; a cell that loads is being loaded |
| **signers** `sdk/signers/*` | a pairing and its transport; requests to a frame | connect, read, sign, cancel, close | relays, frame, extension | late and foreign replies | what was given up owns nothing; one account per connection |
| **direct messages** `dm/*` | the cache by partner, seen ids, cursors, the sealed snapshot | open, ingest, back-fill, send, evict, save, clear | relays, signer, storage | saves and sessions that overlap; eviction against what comes again | one copy per id; what is not kept can come again |
| **web of trust** `wot/*` | an interned graph and its storage; hooks with questions under way | crawl, load, clear, distance; ask the oracle | relays, IndexedDB, oracle | transactions abort, pages go away, answers arrive out of order | every edge was published; a hook shows the answer to its question |
| **http auth** `auth/*` | nothing on the server but a secret; a cookie in the browser | issue, verify, `me`, logout | http, signer | replay, expiry, clocks | a session rests on a proof of that account, in time |
| **wallet** `wallet/*` | calls in flight | call | relays, wallet | lost requests, answers and acknowledgements | what is said about the money is so |
| schema, post-quantum, blossom, UI, storage, re-exports | none of their own | | | | pure code, rendering or ports |

The bold rows are modelled, in whole or in part; every component and its status is also in `PROJECT.json`.
`hazards` there lists, line by line, what in this code is hard to test, and which property
covers it.

## Modules

| module | what it is |
|---|---|
| `Vault` | `vault.ts`, `guard.ts`, `record.ts`: the vault over a store that fails |
| `VaultProofs` | its inductive invariants: what a call at each `await` may rely on; and who owns a session, a copy, a charge |
| `MC_Vault` | records to start from, and the scenes of the runs |
| `ApprovalQueue` | `queue.ts`: both the queue's operations and, as `QueueSpec`, its abstract specification |
| `SignerCore` | `core.ts` with the grant store's lock, built on `ApprovalQueue` |
| `SignerProofs` | the queue's caps, keys and disposal; types, and that the pipeline implements `QueueSpec`; who was asked, what was answered, what still stands |
| `MC_SignerCore` | a batch to sign, and the scenes of the runs |
| `PermissionRules` | `key.ts`, `scope.ts` and the pure part of `store.ts`: what a tree of rules says and what each edit and migration makes of it |
| `Permissions` | `store.ts` and `lock.ts`: the calls over a store, a cache, a lock and a journal, built on `PermissionRules` |
| `PermissionsProofs` | its inductive invariant and four properties |
| `MC_Permissions` | stored trees to start from, and the scenes of the runs |
| `Bunker`, `MC_Bunker` | `bunker/server.ts`, `state.ts`: secrets, admissions, revocation, restoration |
| `BunkerProofs` | its inductive invariant and four properties |
| `BunkerRelays` | `server.ts`, "Subscriptions": the relays a bunker listens on and who owns them |
| `RelaySockets` | `sockets.ts`, `socket-entry.ts`, `socket-supervisor.ts`, `hub-publish.ts`: the socket table |
| `RelayHub` | `registry.ts`, `sub-scheduler.ts`, `live-sub.ts`, `auth.ts`, `auth-policy.ts`, `auth-leases.ts`, `hub.ts`: what one socket carries |
| `Subscription` | what a subscription is for its holder: the abstract specification that `RelayHub` implements |
| `HubQuery`, `BoundedCache`, `ProfileCache` | `query.ts`, `bounded-map.ts`, `profile-cache.ts` |
| `AuthorBatches`, `PoolLike` | `batch.ts`, `pool-like.ts` |
| `RelayFeed`, `QueryBatcher` | `RelayManager.ts` over `RelayPool.ts` and `RelayStats.ts`; `QueryBatcher.ts` |
| `Coalescer`, `ReadCaches` | `data/coalescer.ts`; `data/cache/*` with their fetchers |
| `WalletClient`, `RemoteSigner`, `NosskeySigner`, `HttpAuth` | `nwc/client.ts`; `signers/nip46`; `signers/nosskey.ts`; `packages/auth` |
| `DmCache`, `WotGraph`, `WotOracle`, `Passkeys` | `dm/cache`; `wot/graph`; `wot.ts` with `react/hooks.ts`; `vault/passkey*.ts` with `recovery.ts` |
| `Clients`, `MC_Clients` | the modules of the client side, one part each, for any scenes; the scenes |
| `ClientsProofs` | the invariants of five of these parts and the properties they give |
| `RelaySide`, `MC_Relay` | the modules of the relay side, one part each, for any scenes; the instance that plays them |
| `RelayProofs` | the invariants of the sockets, the feed and a bunker's relays, and the properties they give |
| `HubProofs` | the invariant of one socket of the hub, and what it gives of AUTH |
| `FoldFacts` | what a fold over a finite set keeps: the induction `HubProofs` takes its loops by |
| `HubScenes`, `MC_Settles` | the scenes of the hub; the instance of the fair run |

Conventions. One TLA+ step is the code between two `await`s of one call; `pc` names the
`await` a call is at. Store writes take effect in the step that settles them or fail there
without effect. A definition whose comment starts with *Slip* is a plausible mistake in the
definition after it; `PROJECT.json` names the property each slip breaks. History variables
and fields are marked as such where they are declared.

A *scene* is a small instance: which calls may be made by how many callers, on which
accounts, over which stored state, and how often a lock, a switch, a fault and so on may
happen. `Init` picks one of the constant `Scenes` and keeps it (in `spent.scene` or `scene`),
so that one run checks several instances whose full product would be out of reach. The theorems hold for
any set of scenes, whatever the numbers in them.

A *part*: `RelaySide`, `Clients` and `MC_Settles` each instantiate several modules that
share no state in the code (a profile cache and a socket table, a wallet and a follow graph).
Their variables are slots; `Init` picks a part and hands the slots to the variables of its
module, and the actions of that part are the only ones that may run. Such a run is the union
of the parts' behaviours, not their product; a property of it names, for each part, what must
hold there. Where components of the code do interact, the modules do: `SignerCore` extends
`ApprovalQueue`, `Permissions` extends `PermissionRules`, `HubQuery` and `ProfileCache` extend
`BoundedCache`, and `RelayHub` takes the whole of a socket, its subscriptions, its AUTH record
and its leases, as one state.

## The vault

| in the model | in `vault.ts` |
|---|---|
| `disk`, `guard` | the stored record; the brute-force guard's count and lockout |
| `payload`, `held` | `#payload` and `#held`, the key a save encrypts under |
| `revision` | `#sessionRevision`, moved by `lock`, `create`, `destroy`, `clearActiveAccount` and secret-changing mutations |
| `lane` | `#lane`: the calls queued, the head running |
| `scope`, `loose` | the copies lent to `withPrivkey` callbacks; secrets a mutation detached but may still restore |
| `Issue*` | what a call does before its first `await`: capture the revision, queue |
| `StartUnlock DeriveRight DeriveWrong ChargeGuard ClearGuard Restore Mint* Notify` | `unlock()`: guard, derivation, installation, the guard's removal, settings, and the two repairs of old records |
| `Reseal Rewrite` | `#resealNow`, under `reEncrypt()` and under the work-factor upgrade |
| `StartCreate Seal CreateWrite CreateGuard`, `Wipe WipeGuard Destroyed` | `create()`, `destroy()`, `destroyIfEmpty()` |
| `StartMutation MutationRead MutationWrite MutationFails` | `#mutate`, `#saveNow` and the undo; `setActiveAccountId` |
| `Lock ClearActive Begin End LockoutEnds Restart` | what never queues, the passing of time, the death of the process |

Properties. `LockWins`: a session that is open was never installed for a call made before
the last lock. `HeldIffOpen`: the key a save would use comes and goes with the payload.
`SessionMatchesRecord`: with the lane drained the session is the record, in key and in
secrets. `EndedIsGone`: no readable copy survives a lock, nor, once the lane drains, a
detached secret; and what was destroyed comes back only by a `create()` issued later.
`GuardHolds`: every wrong password is charged, and none is derived during a lockout.
`ReportsAreTrue`: a successful unlock, repairs included, can be reproduced from the record,
and a callback's result is dropped when its copy was zeroed or its secret left the vault.
`EveryCallSettles`: the lane never jams.

Two of them have exceptions, each a behaviour of the code (see
[Divergences](#divergences-from-what-the-code-says)). `SessionMatchesRecord` leaves out the
sessions of records of an earlier release (weak key or no cache key) until they have been
repaired, and what follows a call rejected after its write: a `reEncrypt()`, the subject of
`vault_reseal_bug`, or a `create()` over an open session. `ReportsAreTrue` names three ways
(`Overruled`) in which a secret leaves the vault without moving the session: a `create()` that
had been called before the callback began, the failed save of the mutation that brought the
secret, and an unlock over a record that a rejected call had written.

## The signing pipeline and its queue

| in the model | in `core.ts` / `queue.ts` |
|---|---|
| `queue`, `disposed` | `#pending` of the queue, its disposed flag |
| `Admits Refusal Track Settle Matching OnAccount Dispose` | `track` with its refusals, `settle`, `reject`, `rejectPendingForAccount`, `dispose` |
| `cooldown`, `serial`, `revoked` | `#cooldowns`, `#revocationSerial`, `#revocations` |
| `active`, `told` | the identity port's account, and the switch the host has not reported yet |
| `locked`, `epoch`, `rules`, `grants` | the vault, permission and grant ports |
| `Request Account Check Stored StillEarly Build Answer Approved Save Unlocked Still` | `#run` and `#runBatch` from validation to the unlocked vault |
| `RecheckRule RecheckWanted RecheckGrant SaveGrantCheck SaveGrant` | `#revalidateAuthentication` before the key is used and after, and the grant store's locked write |
| `Sign RemoteAnswer Gap Yield Answered Record` | execution, the gap between two items of a batch, the last account check, `#record` |
| `Timeout Cancel Tell Revoke CooldownEnds DisposeSigner` | the entry's timer, `cancel`, `onActiveAccountChanged`, `revokeOrigin`, `clearCooldown`, `dispose` |
| `Switch Lock Unlock Edit PortFails` | the user and the ports |
| `asked keep wrote stored cut away said shared` | history: what the user was asked and answered to keep, what a login wrote in the grant store and found there when it signed, and what happened to a request meanwhile |

Properties. `AccountIsMeant`: a caller that must ask learns a public key only of an account
the user has shown to it, whatever cooldown another account earned; and a single request whose
account had been left when its key was used is not answered (stated for one switch: with two
the user may have come back). `KeyUsedWithConsent`: no local key is used unless the user said
yes to this request or every rule it touches was allowed, and still is unless another request of
the caller was answered *never* since (stated for no edit of the rules in the settings).
`CutOffIsFinal`: a login is answered only if its caller was not revoked and the stored
decision still allowed it when it was signed, unless that was changed and changed back, by two
edits or by an edit and another login's answer; and a stop seen between
two items of a batch refuses all the rest by its name. `RefusalStands`: only the user undoes a
refusal. `WaitersQueued`: the queue holds exactly the requests that wait. `QueueSpec`: the
pipeline implements the abstract queue; the refinement mapping is the identity on `queue` and
`disposed`. `EveryRequestSettles`: the timer answers when nobody else does.

Abstractions. A caller has one permission key (sites that share a key are one caller). A
login has one destination, so a stored consent is one decision per caller and account. A
port's answer is read in the step that resumes on it, and a port that throws is `PortFails`
at any `await`. The vault is locked or not and counts its sessions, as the `Vault` module
justifies: `epoch` plays its revision, and a `withPrivkey` overtaken by a lock is void. All
attestations of a batch are built in one step. The host reports each switch before the next
one. Validity windows, author mismatches and the resolver are among the ports' failures.
The three caps are 1 prompt and 2 entries instead of 5, 20 and 100.

## The permission store

| in the model | in `store.ts`, `key.ts`, `scope.ts`, `lock.ts` |
|---|---|
| `disk` | the store's keys: the tree, `signerUseGlobalDefaults`, the marks of inheritance and of consolidation, the migration version, the journal |
| `cache` | `#cachedPerms` and `#cachedUseGlobalDefaults` |
| `lane` | the chain of `AsyncLock`, its holder first |
| `Begin ReadInherit ReadShared Load Answer` | `check()`: the mode, the tree, and the question whether rules are inherited once more |
| `Effective OriginBucket Resolve` | `effectiveOriginPermissions`, `originPermissionBucket`, the cascade of `resolveDetailed` |
| `Draft Commit` | `#draft` and `#commit` around the edit of whichever mutator it is (`Edited`) |
| `ClearAll Flip` | `clear()` of everything, which reads nothing; `setUseGlobalDefaults()`, which takes no lock |
| `Program`, `Separated`, `Last` | the stages of `migrate()`, of `migrateToGlobalRules()` and of `setupNewAccountPermissions()`, each of which takes the lock anew |
| `StartMigration Journal WriteTree WriteMode WriteMark WriteGlobal Remove` | the journaled migrations, a write at a time (`#finishMigration`) |
| `Stamp` | `migrate()` recording its version |
| `WriteFails Crash` | a rejected write at any of them; the death of the process, which loses cache, lock and calls |

Properties. `CacheHonest`: outside a migration the instance holds nothing the store does not.
`ChecksAnswerTheStore`: a check is answered as a tree and a mode, each in force at some moment
of it, would have answered it; the two moments may differ, since the code reads them one after
the other and a switch may land between. `WritesOnlyItsOwn`: a commit changes only entries
its operation is about, whatever was committed since the caller asked. `SharingNeverLoosens`:
the tree a migration is about to install allows nobody what was not allowed and keeps every
refusal, in terms of answers, for every caller the host named, but for what rules at `_global`
say (`GlobalSpeaks`: see [Divergences](#divergences-from-what-the-code-says)); and a new account
that was set up with nothing is allowed nothing when `setupNewAccountPermissions()` returns,
unless the rules are consolidated or a host asked meanwhile to share them again.
`MigrateKeepsDenials`: the older migrations, a stage at a time and rerun after a crash, keep
every stored refusal.

Abstractions. Permission keys are the levels the cascade tells apart: a kind of its own, the
retired direct message kinds and the group they fold into, kind 22242, and the blanket keys
(the bare method and the wildcard as one). Labels are in their canonical spelling; an origin
has one hostname under it. `Flat` is the bucket of rules that sit directly on a label, as the
oldest stores have them. A store operation and what its answer sets off in the instance are
one step, so the store is assumed to answer in the order in which it acts; the reads that a
mutator makes in the lock are one step with its draft, as nobody else writes what they read,
the mode apart, which is read first. `serial` states the host's duty to run one instance per
store and to serialize migrations with other calls (`packages/permissions/README.md:82`): an
unserialized migration may be overlapped by a check that answers from the old tree as if it
were the new layers. The host names every account and every connected caller. Left out: reads
for settings screens (`getAll`, the raw trees, `checkBlanketSignEvent`), `subscribe`, empty
account ids and labels, which throw, and the revocation of authentication grants with which a
clear begins (a store and a lock of their own).

## The bunker

| in the model (`Bunker`) | in `bunker/server.ts` |
|---|---|
| `secrets`, `clients`, `seen` | `#secrets`, `#clients`, the window of request ids per sender |
| `runs` | a dispatched request or a `nostrconnect://` scan: in its handler, about to reply, over |
| `approvals`, `admissions` | `#pendingApprovals`, `#pendingAdmissions`: what is at the user's prompt |
| `generation`, `host` | `#generation`; what the host keeps: the generation in its keychain, the state in its storage, and a copy of the storage that may be put back |
| `Mint Sweep Lapse` | `mintSecret`, the sweep, the passing of a secret's time |
| `Deliver` with `Connect`, `Scan`, `Discard`, `Approve`, `Answer`, `Reject`, `Sent` | `#dispatch`, `#connect`, `acceptNostrConnect` before the prompt, after it, and the reply that completes or rolls back an admission |
| `Kick Revoke RevokeCutShort` | `disconnect`, `revokeSecret`, and a death between its two writes |
| `Crash Copy Restore RestoreSaved` with `Valid`, `Restorable`, `Rejoined` | the process dies; the host keeps or puts back a copy; `restore()` with `#validateState` |

`BunkerRelays` is the section "Subscriptions" of the same file: who owns a relay (the server,
or a client paired there), one dial and one request at a time, the resubscription with its
failure count.

Properties. `RevokedStaysOut`: a mint that was revoked connects nobody, whether its name was
minted again during the prompt or an old copy of the storage was put back. `OneClientPerSecret`:
of all who race for one mint, with retries, redelivery and restarts, one client is admitted
(unless the host puts an old copy back: the code detects an older *generation*, and a copy of
the same generation from before the admission is within it). `PendingCounted`: the ceilings hold
with admissions in flight, and each count of pending approvals is the number of executions that
await one; a leak would keep a secret from expiring, a place taken or `restore()` refused for
ever. `ExportsRestore`: what was last handed out to be persisted is accepted by the next process,
for hosts that require a secret and restore before they serve. `FeedsHeld` (of `relay`) has the
relays: each that a client is reached through is subscribed, dialled or about to be retried, and
one that nobody owns is let go.

Abstractions. Times are events (`Lapse`); a sweep happens with the write that runs it; the windows
of the rate limits and the 256 remembered ids are not filled. A handler's answer and the reply it
sends are two steps (`reply`); the await of the new subscription in an admission belongs to the
second. The windows of a sender that disconnected or of a process that died are lost, as in the
code. What the pipeline does with a request is `SignerCore`'s subject: here it is allowed or not.

## The relay side

| module | state ↔ code | what one step is |
|---|---|---|
| `RelaySockets` | `table.entry`: the entries of the socket map with their status, attempt, timers and holds; `call`: `connect`, `relayFor` and `publish` calls | a call up to its next `await`, a handshake's end, a timer, a browser event |
| `RelayHub` | `hub.live`: the live records; `hub.subs`: `registry`'s buckets; `hub.auth`, `hub.ops`: the AUTH record and the signatures asked for; `hub.rides`: subscriptions waiting for a verdict; `lease`: `#leases`; `ident`: the identity | a handler with everything it calls, as a composition of operators over the one record `hub` |
| `HubQuery` | `run`: one query over its relays; `ask`: the callers; `cache`: the result cache | a frame, a deadline, a settling microtask |
| `AuthorBatches` | `filters`: the list so far | one filter more; `Wire` is the plan, `Demux` the answer |
| `PoolLike` | `sub`: facade subscriptions; `live`: what stands for them at the registry | a call, or one notice of the registry |
| `QueryBatcher` | `pending`, `execs`, `answer`, `batcher` | a call, the debounce timer, a relay's frame, a window's end |
| `RelayFeed` | `pool` and `open`: `RelayPool`; `feed`, `host`: the manager; `stats`: `RelayStats` | an init, a list change, a drop, a timer |
| `BoundedCache`, `ProfileCache` | a list in order of use with bounds; the two caches of profiles and the asked-for table | a read, a write, a trim |

Properties. `NobodyForgotten`: a socket somebody holds is up, on its way, or was given up after
every attempt it is allowed, and no call waits for a socket that is not coming.
`HeldSocketsStay`: the socket budget never closes one in use. `HubServes` joins `SubsAlive`
(through drops, refusals, quotas, parking, changes of identity: a subscription that is held and
was not told otherwise is on the wire, or a timer, a prompt or a place in the line will bring it
back) and `WireInBudget` (nothing is on the wire beyond the budget, for nobody, for the told, or
on another connection). `SubsAlive` excepts the records in
`spent.taken`: those whose place in the bucket a handle of an earlier identity took with it when
it was let go, after the identity and the key had come back (`registry.ts:208-212`; the scene
`Returned`). `AuthIsCurrent`: *authenticated* is said only of this connection and the
key it acts for, and a challenge is put to the user once on a connection, unless the signature
came to nothing or another challenge was signed in between. `QueriesAnswered` joins, for the four
ways to share a request, that each caller gets what it asked for and nothing else, complete only
if it is, and that nothing is left open behind it: `QuerySound`, `BatchSound`, `FacadeHonest`,
`BatcherAnswers`. Two of them state an exception. In `BatchSound` a filter gets what it would have
got alone as long as those it is merged with are `Roomy`, that is, ask for as many events as their
authors can have. In `FacadeHonest` a caller that has heard nothing may be one that joined a
record after its EOSE, which the registry does not repeat (`registry.ts:106-114`). `FeedsHeld` joins `FeedReturns` (a started feed is up, opening, or has a
reconnect set, until it is destroyed) and the bunker's `RelaysHeld`. `KeepsTheRecent`: the caches
drop the least recently used first, and a profile is never both known and missing.

The abstract specification of a subscription is `Subscription`: idle, live, told, gone; what is
told or gone is never served again; and again and again everybody alive is served or waits for
somebody who is. `RelayHub` implements it (`KeepsPromise`, in the run `settles`) under the mapping
`Phase` (a handle's own state, with the notice), `Served` (its record has a request on the wire)
and `Waiters` (its record is parked).

Abstractions. One socket per instance of `RelayHub`: what sockets share, the budget, is
`RelaySockets`. The AUTH record belongs to one identity: two identities of one public key, which
share it in the code, are left out. After a record has lost its place its later requests follow
it only as far as its own timers go. A caller's filters are a key; a relay's reasons are the classes
`sub-scheduler.ts` sorts them into. Back-off delays are flags: a timer may fire whenever it is
set. In `HubQuery` every filter matches what a relay stores. In `RelayFeed` the polling that
follows a live feed only repeats it, and `limit`s are not counted.

## The client side

| module | state ↔ code |
|---|---|
| `Coalescer` | `handle`, `pending`, `batch`, `timer`: `Handle`s, groups that wait, active batches, the debounce |
| `ReadCaches` | `slots` and `told`: observable entries and what their subscribers saw; `disk`; `flight`: single flights; `call`: callers of the fetchers |
| `WalletClient` | `info`, `call`, `wallet`: the info event, each call with its subscription and timer, what the wallet did |
| `RemoteSigner` | `pair`, `conn`, `socket`, `reader`: the pairing, `Nip46Connection`, the pool it owns, readers of the key |
| `NosskeySigner` | `port`, `pending`, `call`, `account`: the frame, its requests, the account in it |
| `HttpAuth` | clock, `login` per browser, `posts` under way, events `signed`, tokens `minted`, what `/me` said |
| `Passkeys` | `blob` per credential, events on relays, the call of each device, what was saved and replaced |
| `DmCache` | `cache`, `seen`, cursors, sessions, `disk` and its key, walks and sends under way |
| `WotGraph` | `mem` and `db`: the interned graph in memory and as committed; the crawl with its fetches; the search cache |
| `WotOracle` | `props`, `shown`, `latest` of a hook; questions under way |

Properties. `ReadsHonest`: a consumer of a shared request is in the batch it belongs to until it
is told or lets go, and no other batch keeps it; a cell that says *loading* is being loaded by
somebody; subscribers know the value of their slot; a page is made of notes the cache has, and its
cursor is its oldest row. `MoneyHonest`: a payment that failed *not-paid* was not and will not be
made, one that succeeded was, whatever was lost, late or acknowledged twice. `SignersOwn`: a
transport that was given up owns no socket and no signer, however late they come; a frame signer
answers for the account it first saw and for no other. `LoginsProven`: a token is for an account
whose signer signed a challenge of that service, in time, replays and skewed clocks included.
`InboxSound`: there is one copy per id; an id counts as seen only while its message is kept or
replaced by another, so what is not kept can come again; eviction spares the partners followed at
the time; what is on disk opens. `TrustSound`: memory, disk and answers are made of follow lists
that were published, over aborted transactions and reloads; a hook shows the answer to what it asks
now; a passkey opens what its handle names, and a blob the inspection showed is replaced with
consent only; a tagged passkey is never opened from an older vault than one a relay showed, broken
or not, and an untagged one from none older than the newest whose content can be read at all
(`recovery.ts:108`).

Exceptions that the properties state, each a behaviour of the code described under
[Divergences](#divergences-from-what-the-code-says): a profile or follow list re-read after a
clear during its flight may load for ever; two sessions that first open at once may mint two
cache keys; an encryption may outlast a switch of account that came and went; a direct-message
session open across `clearDMSession` is deaf: it neither evicts nor saves from then on.

Abstractions. Ciphers and encodings keep what tells their outcomes apart (which key, which
author, whole or broken). Clocks are small counters and a deadline may pass at any step after it
is due. Of nostr-tools, the frame, the wallet, the oracle, IndexedDB and authenticators, what the
code relies on is modelled and marked external in `map`. Hydration of the message cache loads,
decrypts and replaces in one step; the disk is a set of rows, so that an entry whose thread became
empty is not on it. Left out: an event whose id a forged copy has already marked as seen
(`coalescer.ts:198-200`); the ceiling of six seconds on a lookup (`profile-cache.ts:58`); a signer
that is attached before `connect()` has ended (`nip46/index.ts:115-119`); an `onVerify` hook that
returns another public key (`service.ts:107-110`); a crawl stopped by `onProgress` within a batch
and not between two (`crawl.ts:153`).

## The runs

| run | instance | shows |
|---|---|---|
| `vault` | 5 scenes of 3 calls, 2 accounts, 2 passwords, 1 callback; per scene up to 1 lock, 1 clear, 2 faults, 1 restart; 2.6 M states | types and six joint safety properties of the vault |
| `signer_pipeline` | 8 scenes of 2 or 3 requests, 1 batch of 3 or 2 logins, 1 caller, 4 kinds of account, up to 2 switches, 1 lock, 1 revocation, 1 edit, 1 fault; 2.1 M states | six properties, the refinement of the queue among them |
| `perms_main` | 2 or 3 calls at 2 accounts, an origin over its hostname and another caller; per scene up to 1 fault and 1 crash; every tree over the entries a scene names; 1.5 M states | six properties of the permission store |
| `bunker` | 7 scenes of 2 clients and 2 secrets; 3 executions at a time; up to 2 mints, 2 crashes, 2 restores, an old copy, 1 revocation; 1.2 M states | four properties of the bunker |
| `relay` | 9 parts: 2 sockets, 3 subscriptions over 1 socket, 3 queries over 2 relays, 3 filters merged over chunks of 3 of 4 authors, 2 facade subscriptions, 3 batched queries, a feed of 2 relays, 3 profiles, 2 bunker relays; 1.2 M states | seven properties of the relay side |
| `clients` | 10 parts, each of 2 or 3 actors over 1 to 3 values; 1.5 M states | six properties of the client side |
| `settles` | 2 calls of the vault, 2 requests of the pipeline, 2 or 3 subscriptions; fair; 73 k states | what must happen in the end, and that the hub implements `Subscription` |
| `vault_reseal_bug` `signer_cooldown_bug` `perms_clear_bug` `hub_decline_bug` `feed_loop_bug` | 1 to 3 actors | each refutes one sentence of a comment: see [Divergences](#divergences-from-what-the-code-says) |

Every property of a passing run has a mutant: one definition changed as a plausible bug would
change it, under which the run finds the property violated. A property that joins parts has its
mutant in one of them.

Why the bounds are enough. An interleaving hazard of this code involves one call that is
overtaken, one that overtakes it, and at most one more that observes the result in the lane;
three calls give every order of them. A lock, clear, switch or revocation may land at every
`await`, and a second one of a kind only repeats the effect of the first on revision and
serial, except for switches, where coming back matters: two are allowed there. Two requests of
one caller are not enough where one reads what a second wrote over a third: there a scene has
three. Two faults are needed where one operation does two writes (the reseal and the mint of `unlock()`).
A lockout after two failures instead of five, and caps of 1 and 2, make the limits reachable
with two or three callers; the theorems hold for all values. For the permission store the
trees matter more than the schedule: the migrations are checked over every tree of five or six
entries that between them have a hostname and an origin, a shared and an account's bucket, a
key and the blanket key, and every decision; two calls then suffice, since migrations are
serial, and where they are not involved a third observes what two made. A secret's race needs
two clients and one retry; a place under the ceiling, one who leaves it and one who takes it; a
rollback, two processes after the first. On a socket, three subscriptions over one or two slots
have one served, one parked behind it and one that shares a record; two connections tell a
current verdict from a stale one, and a third life of a record tells a detached one from its
successor; one key taken away and set again, with a handle of its first time still out, takes the
record of its second. Shared requests need two who share and one who does not, and a chunk needs three authors before a shared limit can
starve one; a cap on queries, entries,
messages or targets is one below the number of those who come.

Deadlock is not checked: calls and interruptions are bounded, and a behaviour in which all of
them are over has nothing left to do.

Fairness (`MC_Settles!FairSpec`; the same as the modules' own `FairSpec`). Of the vault, weak
fairness of each call's own steps: a promise that can resume does, because the event loop runs
its queue; store and crypto promises settle, one way or the other. No call, lock, clear or
restart has to happen. Of the pipeline, weak fairness of a request's own steps and of its timer
(`setTimeout` in `track`); nobody has to answer a prompt, an unlock screen or a remote signer.
Of the hub, weak fairness of its timers, of the socket that opens again (the supervisor retries
and the network is there in the end), of the end of a quota's penalty, and of the end of a
prompt. The last is what the code does not ensure when the user declines: those scenes have
no declined prompts, and `hub_decline_bug` is about them.

## The proofs

All are checked by TLAPS for every set of calls, requests, callers, accounts and passwords
and every bound, from the named assumptions on constants only (`VaultAssumption`,
`QueueAssumption`, `SignerAssumption`, `RulesAssumption`, `ScenesAssumption`, `BunkerAssumption`,
`ClientsAssumption`, `RelayAssumption`).
Only `BunkerAssumption` assumes that sets are finite: the clients and the secrets of a bunker,
which it counts. All the others that are counted (the entries of the queue, the executions at a prompt,
the wrong passwords) are finite by the invariants.

Vault.

* `VaultProofs!VaultInvariant`: `Spec => []IInv`. `TypeOK` is not inductive: an installation
  needs to know that a call that is deriving has a record to derive from, a write that the
  call carries a sealed record, an undo that `before` was saved. `IInv` adds exactly what a
  call at each `pc` may rely on (`CallsOK`), that the payload and the key are both there or
  both not, and that a running session was installed under a revision between the last lock
  and now (`StateOK`). `TypeCorrect`, `HeldWithPayload` and `LockAlwaysWins` follow.
* `VaultProofs!SessionInvariant`: `Spec => []EInv`, on top of it. `LaneOK`: the lane holds
  each call that waits or works, once. `Guarded`: the counter, as long as calls have only guessed.
  `Ended`: who holds a readable copy or a detached secret; that a `destroy()` that waits has
  locked, with everything ahead of it already overtaken (`Awaits`, `Wipes`); and that one that
  resolved is the last word (`Gone`). `Matched`: the session is `Synced` with the record whenever
  no call is between its change of memory and its write, and a call that is there can restore what
  it replaced and writes what memory holds (`Follows`). `GuardAlwaysHolds`, `NothingLeftBehind` and
  `SessionIsTheRecord` follow.
* `VaultProofs!ReportsHold`: a callback holds the secret its account has, or somebody whose
  undo or write will say so has taken it (`CInv`); that somebody never ceases to have done it, so
  `Overruled` is for good. The attempt found the last two cases of `Overruled` and the rejected
  `create()`, which the runs had no scene for; they have one now.

Signing pipeline and queue.

* `SignerProofs!QueueInvariant`: finiteness has to be part of the invariant, since a
  cap on the cardinality of an infinite set says nothing. `QueueCapped`, `QueueKeys` and
  `QueueDisposed` follow.
* `SignerProofs!SignerInvariant`, `SignerTypeCorrect`: types, and what the record of a
  request holds at each `pc` (a waiting request has a caller, an id and an account, so that
  the entry it stands for is an entry).
* `SignerProofs!SignerUsesQueue`: `Spec => QueueSpec`, step by step. A timer, a
  cancellation, a switch and a revocation each settle exactly a set the abstract queue may
  settle, and every admission goes through `Admits`. `SignerCapped` and `SignerKeys` carry the
  queue's theorems over to the pipeline.
* `SignerProofs!ConsentInvariant`: `Spec => []Consent`. Each operator of the pipeline has a
  contract (`Went`, `Reminded`, `Replied`, `Kept`, `Rechecked`, `Served`...): what a request
  becomes by it. From the contracts come six invariants. `Fits`: what a request at each `await`
  has been asked, remembers of the user's answer, and has in its results. `Told`: who has been
  shown which account, and that no cooldown was earned otherwise. `RulesRead`: a request that is
  past its check holds no rule that was refused, but for what another request of its caller was
  answered since (`Clear`, `Free`). `GrantLock`: at most one login writes, and one that will write
  *allow* does so over no refusal. `GrantKept`: between what a login read in the grant store and
  what stands there now lies an edit or another login's write (`Keeps`, `Fallen`). And
  `WaitersQueued` is inductive as it stands: every step of one request lets its entry be, makes it
  or takes it out (`Moved`). The five properties of the pipeline follow.
* What the attempt found: `KeyUsedWithConsent` and `CutOffIsFinal` had been stated as only two
  requests can show them. With three of one caller, an allowed rule is refused by the answer to
  another request while the first executes, and a consent is revoked in the settings and granted
  again by another login. Both are what the code means to do; the properties now say so, and a
  scene has three requests.

Permission store.

* `PermissionsProofs!Always`: `Spec => []Inv`. That the cache is honest is not inductive: a
  commit is, only if the call that commits still has the lock it drafted under. `Inv` says for
  each call what it may rely on: from the draft to the commit and through the journal it has
  the lock, a finishing call has a journal to finish, and what it will commit is *its edit of
  the tree as it is now*. That conjunct is the one that gives `OnlyItsOwn` (with a lemma on the
  reach of each edit) and `KeepsDenials` (with a lemma on each stage of `migrate()`), for every
  tree, every number of calls and every failure. `Typed` rests on a type lemma for each edit,
  the inheriting and the consolidating one included. `Honest` is the cache itself.
* `PermissionsProofs!ChecksAnswered` is for hosts that serialise migrations (`Scenes[n].serial`):
  without, a check may load the tree before a migration and ask for the mark after it, and it
  then reads the old rules as if they were the new layers. Its invariant `Serves` says that a
  migration runs alone (`Alone`), who it is that journals (`Doer`), and of each check, wherever
  it is, what it has seen (`Answers`): its answers so far include what the store says now in
  either mode (`Knows`), its bucket is one of a mode it saw (`Aims`), and the tree it loaded
  would give one of those answers in each mode (`Holding`).
* `PermissionsProofs!SharingKept`, of the same hosts. Half of it is about trees, not steps.
  `InheritanceKeeps`: under `Inheritance` the rule of every key follows the old one, or the one
  kept at `_global` (`Follows`), and that is enough for every method (`FollowsDecides`).
  `ConsolidationKeeps`: each round of `Restored` mends the labels it is about and disturbs no
  other (`RestoredTells`, `RestoredElsewhere`), hostnames before the origins that inherit from
  them, so every key is told as before up to "ask" (`ConsolidatedTells`). `SetUpAsks`: a new
  bucket has an "ask" over every shared rule. The other half is the invariant `Planned`: where a
  call is goes with its next stage (`Placed`), a setup with nothing ends with the stage that
  empties its bucket, right after the accounts were separated (`SettingUp`), and what is about
  to be journaled was made of the tree as it is (`Migrating`).
* What the attempt found: `SharingNeverLoosens` had been stated without the rules at `_global`,
  which no scene had before inheritance. With them it is false in the three ways the property
  now names, each of which a run refutes when it is taken out.

Bunker.

* `BunkerProofs!Invariant`: `Spec => []IInv`, of three parts. `Sound`: the memory of one process;
  ids of records are unique, a client agrees with the record that admitted it, and every count of
  open approvals is the number of executions that wait, which gives `PendingCountedHolds`.
  `Outside`: what the host keeps does not contradict memory (`HandedOut`, `Copied`), and what was
  revoked is in no state that `restore()` would take (`Revocations`), which gives
  `RevokedStaysOutHolds`. `Owners`: who was admitted over a record has it for good, which gives
  `OneClientPerSecretHolds`. Every handler is shown to be `Onward` (records go on under their ids
  or are new; clients go on or are backed by the record that admitted them), so that what is
  persisted is compared once and not for each of them.
* `BunkerProofs!ExportsRestoreHolds` is for hosts none of whose clients uses one secret both in a
  `connect` and in a scan (`OneDoor`). Without that it is false: `connect` takes the relays of its
  record before the user is asked, and a scan of the same client and secret that is approved
  meanwhile replaces them, so that the state then exported names relays its record does not have
  and is refused.

Client side. The parts share nothing, so a proof is of one module at a time; `PartStays` and
`ClientsKeep` put them together. The invariants are the modules' own `Inv`.

* `ClientsProofs!PaymentsTold`: what a call knows is compared with what the wallet did. A wallet
  acts only on a request that may have reached it, *not-paid* is said only if it cannot have, or
  after the wallet's refusal (`Sound`).
* `ClientsProofs!SignersOwnTheirs`. Of a pairing: a connection is disposed exactly when it was
  cancelled, aborted, closed or has failed (`PairingTold`), one that is disposed has no open socket
  of its own (`SocketsOwned`), and who waits for the key waits for a read under way
  (`ReadersServed`). Of a frame: what each call has been answered is of the account that is pinned
  (`CallInv`), also when the answer to the first question comes after the user has switched.
* `ClientsProofs!LoginsAreProven`: nothing posted is unsigned and nothing signed or checked is dated
  after now, so a redelivered event can be dated only by the challenge it answers.
* `ClientsProofs!MessagesKeptOnce`: ids of messages are hashes (`dm/src/index.ts:268` checks them),
  so an id stands for one message, in the mail, in memory, in the saves under way and on disk
  (`MailKnown`, `StoreKnown`); and until two sessions minted at once there is one key, which whoever
  is past its minting has (`OneKey`).

Relay side. Again one module at a time, put together by `PartStays` and `RelayKeeps`
(`RelayInvariant`; the hub's is `HubInvariant`). The invariants are in `RelayProofs` and `HubProofs`,
since they say more than the runs check.

* `RelayProofs!SocketsNotForgotten` (`NobodyForgotten`), by `SocketsInv`. Of each entry: which of
  its timers and handshakes may be set in which status (`Shape`), and that one that is wanted is up,
  coming or out of attempts (`Kept`, `Coming`). Of the table: an id is given once (`IdsGiven`), so that a
  call waits for one life of an entry, and that one is on its way (`Awaited`). A handler is one of
  four things to the table: an entry replaced, an entry gone, all rebuilt, or nothing (`EntryReplaced`,
  `EntryGone`, `TableRebuilt`, `TableStays`), so what a call waits for is compared four times
  and not once for each handler.
* `RelayProofs!SocketsInUseStay` (`HeldSocketsStay`): each of these handlers also gives that step;
  only the ones that make room (`Room`) drop an entry nobody asked to drop, and they choose among
  those without holders and uses.
* `RelayProofs!FeedsAlwaysHeld` (`FeedsHeld`). Of the feed: one that was started has a pool or had
  one that is gone, and the pool knows the handle of every open subscription (`FeedHeld`,
  `FeedScored`). Of the
  bunker: ids of dials and requests are given once, a dial that finds its record is the one that
  record waits for, and a record that is connecting is not subscribed yet (`RecordHeld`, `DialHeld`,
  `ReqHeld`); without the first two, a late dial could subscribe a relay that was let go and taken
  again meanwhile.
* What the attempt found: the part of `FeedReturns` that says the pool knows what is open had
  been parsed as belonging to the implication before it, and said nothing. It is a
  conjunct now, and holds. The order in which the manager ranks relays
  (`getPrioritizedUrls`) was dropped from `RelayFeed`: no property told one order from another.

Hub. A handler of `RelayHub` is a composition of operators over one record, some of them loops
over all subscriptions of the socket, so the proof follows the operators and not the actions.

* `FoldFacts!FoldKeeps`: what holds of the start, and is kept by each element, holds after the
  fold. The library's induction theorems take an operator as parameter, which the provers cannot
  instantiate; here the step and what is kept are the constants of a module, the induction is by
  a least counterexample among the sizes of subsets, and a proof about a particular loop takes an
  `INSTANCE` of it.
* `HubProofs!HubInvariant`: `Spec => [](part = "hub" => HubInv)`. What the scheduler does is `Beside` the
  registry, the holders and the AUTH record: it moves requests, and tells holders that it is over
  (`FoldsBeside` for its loops). `Registry`: a bucket names records that exist and have its key,
  and ids are given once. `Holds`: the record of a held handle counts it among its holders.
  `AuthSane`: signatures are named in order, `OfRecord` and `Follows` relate the record to the
  connection and to the signature it follows, `Remembers` says which signatures of this
  connection the memo and the pin have let go, and `SignedOnce` what follows of two of them.
* `HubProofs!AuthStays` (`AuthIsCurrent`) follows.
* What the attempt found: `AuthIsCurrent` had said that a challenge is put to the user once on a
  connection, without exception, and TLC had agreed, because no scene went back to an earlier
  challenge. `Remembers` was not inductive without the exception, and TLC confirms
  the reason on the scene `Fickle`: the memo and the pin hold one challenge, so a relay that sends
  c1, c2 and c1 again on one connection has c1 signed twice.

Only model-checked: `QueriesAnswered`, `HubServes` and `KeepsTheRecent` of the relay side;
`ReadsHonest` and `TrustSound` of the client side; the refinement of `Subscription`, since it
includes fairness, and liveness: fairness and `ENABLED` are outside the prover's reach. What a recursive
definition computes for every input is within it only where it is a fold whose invariant can be
stated (`FoldFacts`); the recursive operators of `PermissionRules`, the batcher and the caches stay
with TLC.

## Divergences from what the code says

Five runs end in a violation on purpose: the property is what a comment says, the model is
what the code does. `PROJECT.json` quotes the comments under `findings`.

* `vault_reseal_bug`: `clearActiveAccount()` during the write of `reEncrypt()` leaves the
  session open under the old key over a record under the new one.
* `signer_cooldown_bug`: a revocation between an approval and the pipeline's resumption does
  not undo the cooldown that follows.
* `perms_clear_bug`: clearing every rule leaves the journal of an interrupted migration in the
  store, and the retry writes the cleared rules back.
* `hub_decline_bug`: a subscription that waits for a prompt the user declines waits for a promise
  that never settles, until the socket drops.
* `feed_loop_bug`: closing the feed in order to reconnect it counts as a disconnection and sets
  the next reconnect, so a feed that was reconnected once is torn down every few seconds.

Met while modelling and not among the runs:

* Vault. `clearActiveAccount()` during the save of a minted cache key, when that save fails,
  makes `unlock()` answer *false* with the vault open (`vault.ts:414`). The undo of a failed
  mutation does not move the session on, so a callback that copied the new secret is returned
  after that secret is gone (`vault.ts:1543`). `create()` whose removal of the guard fails has
  already replaced the record and leaves the old lockout in force (`vault.ts:325` says a new
  vault starts with a clean slate); over an open session, that one stays open, above a record it
  did not come from. The revision moves when `create()` is called, so a callback that begins while
  it waits in the lane belongs to the vault that it replaces and is answered all the same, though
  whatever was in flight against the old one is to be cancelled (`vault.ts:303`). A failed save of `setActiveAccountId()` leaves memory on an
  account the record does not name.
* Pipeline. A batch approved before a revocation but not executing yet runs in full, since the
  serial is read when execution begins (`core.ts:471`). A revocation during `yieldToHost()` stops
  a batch one item late (`core.ts:208`). An identity port that throws between two items discards
  the outcome of those already signed (`core.ts:588`). The grant of a login stands when its
  signature then fails, which the comment at `core.ts:800` accepts.
* Permissions. Consolidation restores an unset key as *ask*, which is narrower than the
  account's own blanket allow at that site (`docs/extension-shared-core.md:19`). It also drops an
  account's own rules at `_global`, and takes an "ask" there for no rule (`store.ts:826`), so that a
  blanket allow may answer where the account had asked to be asked (`store.ts:799` says existing
  site decisions are preserved). Rules saved at `_global` before inheritance answer nobody, and
  come into force for everybody with the migration that is to "preserve active legacy rules"
  (`store.ts:775`).
* Passkeys. An untagged passkey whose newest record has content that cannot be read is opened
  from an older record, since `recovery.ts:108` drops the newest before the choice, although it is
  "never rolled back to an older one" (`passkey-identity.ts:17`). Derived and unknown keys are given out without asking whether the session still is
  the one that asked. A blob that another save wrote after the inspection is replaced: consent
  covers what was inspected.
* Bunker. With `requireSecret: false` a client admitted under a secret nobody minted makes the
  exported state unrestorable (`types.ts:186`), as does one client that uses one secret by both
  doors. A redelivered request is answered again after a logout
  (`packages/bunker/README.md:85`). A logout that races a fresh connect of the same client
  disconnects the new session.
* Hub. A challenge that comes again after another one on the same connection is put to the user
  again, even one that was refused, if the other was refused too (`auth.ts:13`: "challenge
  pinned, never re-signed"; the memo and the pin hold one). `detach` of an old handle, after `removeIdentity`, `setIdentity` and a new subscription
  under the same key, deletes the new record; a stale lease release is alike. A verdict that
  comes late ends a pending subscription the reconnection would have healed (`registry.ts:11`).
  `setIdentity` with another key clears the query cache, and a query under way then caches, or
  shares, what it read for the former one (`query.ts:94`). A terminated record that another
  holder keeps is joined by the next identical subscription (`registry.ts:22`), and a slot freed
  by a watchdog is not offered to those parked (`registry.ts:35`). A shared limit is not "at least
  limit_i" (`batch.ts:26`): not for events of which relays keep several per author, and not for
  one event per author when a chunk holds three authors and a member asks for fewer events than it
  names authors, for the newest of the others then fill the limit. The facade's
  `oneose` is not called for one that joins a record that has had its EOSE (`pool-like.ts:5`).
* Manager and batcher. Overlapping feed connections orphan a subscription; the follow subscription
  is not opened again by a reconnect; relays nobody knows are ranked behind those that back off;
  publishing to an empty list never settles. Merging by kind drops `limit`; an answer may come
  after, and be smaller than, an update; immediate queries use up the retries of a missing pool.
* Data. Over several relays, a pool that calls `oneose` once for all (`pool-like.ts:5`, `:72`, the
  repository's own) leaves `querySync` to its timeout, since `coalescer.ts:202` counts one call
  for each relay, with its URL. A query ends early when two of its filters share a subscription (`coalescer.ts:19`), and
  live streams end in silence at the ceiling. A profile asked for again after a clear may stay
  *loading*; a refresh may put an older copy over a newer one; pages loaded at once overwrite each
  other.
* Signers and login. Pairing by a bunker URI has no timeout. Prompts of five minutes
  (`packages/auth/README.md:111`) fail the check of `created_at`, and `challenge.ts:13` mentions a
  hook that is not there.
* Direct messages. A NIP-17 note to oneself is kept twice: the echo under `local:` and the id of
  the wrap (`send.ts:48`), the note that comes back under the inner id (`inbox.ts:155`), though
  `send.ts:44` says that it is skipped as seen. Opening a cache twice replaces it
  (`cache/index.ts:59` says idempotent). `clearDMSession` leaves the follow set and the cursors that
  it is said to wipe (`cache/index.ts:121`), what is being saved or decrypted survives it, and a
  session that is open across it goes deaf;
  two first sessions at once mint two keys; saves may land out of order.
* Web of trust. After interleaved crawls and stops a distance may be measured from another root
  (`wot-graph.ts:140`). A hook whose account becomes empty or is skipped is still shown the answer
  to its older question; a batch ignores a local source.

## Plan

In this order:

1. Proof: `HubServes`, by `FoldFacts` over `HubInv`; then the caches of `KeepsTheRecent`, whose
   eviction is a fold over a list.
2. Modelling: the vault's startup gate and auto-lock timer composed with its lane, and two sockets
   with their subscriptions in one instance.

## Not modelled

Of the modelled files: the startup gate and the auto-lock timer of the vault (its `lock()` may
come at any step), its raw-key doors, the exact text of what is stored; registration of passkeys
and the zeroing of PRF outputs; the cut-off of a relay's answer by `limit`, but for the shares of
merged filters; the bunker's rate limits and full windows; the adapter of the hub to nostr-tools
and its read-only views; the one-shot calls of `RelayManager`, which keep nothing; closing and
reopening the graph with unwritten changes. Hosts are assumed to do what the documentation asks:
one permission store per storage with serialised migrations, and `clear()` of the graph awaited
before the next crawl.

Of the rest: pure cryptography and encodings (accounts, post-quantum envelopes), request schemas
and parsing, scores of trust, rendering, stateless HTTP calls (blossom) and the packages that only
re-export; the key-value store is a variable that is read and written one call at a time.
