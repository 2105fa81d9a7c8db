------------------------------ MODULE RelaySide ------------------------------
(***************************************************************************)
(* The modules between an app and its relays, side by side.  They share    *)
(* nothing, so a state is of one of them: `part` says of which, and the    *)
(* slots are that part's variables, in the order its module declares them. *)
(* A part's actions are listed one by one, so that each of them is counted.*)
(***************************************************************************)
EXTENDS Naturals, Sequences, FiniteSets

CONSTANTS
    SocketUrls, SocketCalls, SocketScenes,                          \* the socket table
    Askers, AskedRelays, StoredAt, Asker, QueryScenes,              \* one-shot queries
    ProfileKeys, ProfileMax, ProfileNegativeMax, ProfileTrimTo, ProfileTrimAfter, ProfileTtl, ProfileCooldown, ProfileEnd,
    BatchFilters, BatchNoLimit, BatchAuthors, BatchMaxLimit, BatchMaxFilters, BatchStores,   \* merged filters
    FacadeSubs, FacadeEvents, FacadeScenes,                         \* the facade of a pool
    BatcherEvents, BatcherScenes,                                   \* the query batcher
    FeedUrls, FeedScenes,                                           \* the feed
    HeldUrls, HeldClients, HeldServer, HeldMaxFailures, HeldScenes, \* the relays of a bunker
    HubHandles, HubKeys, HubLeases, HubPubkeys, HubChallenges, HubLives, HubOps, HubPlays,   \* what a socket carries
    Parts, None

VARIABLES part, slot1, slot2, slot3, slot4, slot5, slot6, slot7, slot8
all == <<part, slot1, slot2, slot3, slot4, slot5, slot6, slot7, slot8>>

Sockets == INSTANCE RelaySockets WITH
    Urls <- SocketUrls, Calls <- SocketCalls, Scenes <- SocketScenes,
    table <- slot1, call <- slot2, env <- slot3, spent <- slot4
Queries == INSTANCE HubQuery WITH
    Calls <- Askers, Relays <- AskedRelays, Stored <- StoredAt, Scenes <- QueryScenes,
    ask <- slot1, run <- slot2, cache <- slot3, clock <- slot4, spent <- slot5
Profiles == INSTANCE ProfileCache WITH
    Pubkeys <- ProfileKeys, MaxEntries <- ProfileMax, NegativeMax <- ProfileNegativeMax, TrimTo <- ProfileTrimTo,
    TrimAfter <- ProfileTrimAfter, Ttl <- ProfileTtl, Cooldown <- ProfileCooldown, End <- ProfileEnd,
    entries <- slot1, negative <- slot2, tab <- slot3, clock <- slot4, view <- slot5, used <- slot6
Batches == INSTANCE AuthorBatches WITH
    Filters <- BatchFilters, NoLimit <- BatchNoLimit, AuthorsPerChunk <- BatchAuthors, MaxMergedLimit <- BatchMaxLimit,
    MaxFilters <- BatchMaxFilters, Stores <- BatchStores, filters <- slot1
Facade == INSTANCE PoolLike WITH
    Subs <- FacadeSubs, Relays <- AskedRelays, Events <- FacadeEvents, Scenes <- FacadeScenes,
    sub <- slot1, live <- slot2, spent <- slot3
Batcher == INSTANCE QueryBatcher WITH
    Calls <- Askers, Events <- BatcherEvents, Scenes <- BatcherScenes,
    pending <- slot1, execs <- slot2, answer <- slot3, batcher <- slot4, spent <- slot5
Feed == INSTANCE RelayFeed WITH
    Urls <- FeedUrls, Scenes <- FeedScenes,
    pool <- slot1, open <- slot2, feed <- slot3, host <- slot4, stats <- slot5, publish <- slot6, env <- slot7, spent <- slot8
Held == INSTANCE BunkerRelays WITH
    Urls <- HeldUrls, Clients <- HeldClients, Server <- HeldServer, MaxFailures <- HeldMaxFailures, Scenes <- HeldScenes,
    phase <- slot1, subs <- slot2, dials <- slot3, reqs <- slot4, opened <- slot5, answered <- slot6, spent <- slot7
Hub == INSTANCE RelayHub WITH
    Handles <- HubHandles, Keys <- HubKeys, Leases <- HubLeases, Pubkeys <- HubPubkeys, Challenges <- HubChallenges,
    Lives <- HubLives, Ops <- HubOps, Scenes <- HubPlays,
    hub <- slot1, handle <- slot2, lease <- slot3, ident <- slot4, spent <- slot5

\* What the modules need to know of the scenes they are played on.
ASSUME RelayAssumption ==
    /\ Hub!RelayHubAssumption
    /\ None \notin Sockets!Entry
    /\ \A n \in DOMAIN SocketScenes :
          /\ SocketScenes[n].maxSockets \in Nat /\ SocketScenes[n].maxAttempts \in Nat
          /\ SocketScenes[n].bounds \in [scene : Nat, calls : Nat, subs : Nat, disconnects : Nat, recycles : Nat,
                                         rebinds : Nat, ends : Nat, failures : Nat, drops : Nat, offline : Nat]
    /\ None \notin {"feed", "follow"} \X Nat
    /\ \A n \in DOMAIN FeedScenes :
          /\ FeedScenes[n].urls \in (SUBSET FeedUrls) \ {{}} /\ FeedScenes[n].maxBackoff \in Nat
          /\ FeedScenes[n].bounds \in [scene : Nat, feeds : Nat, answers : Nat, follows : Nat, drops : Nat, fires : Nat,
                                       relays : Nat, destroys : Nat, publishes : Nat]
    /\ None \notin Held!Record
    /\ \A n \in DOMAIN HeldScenes : HeldScenes[n].closes \in Nat /\ HeldScenes[n].admissions \in Nat
-----------------------------------------------------------------------------
Free8 == slot8 = None
Free7 == slot7 = None /\ Free8
Free6 == slot6 = None /\ Free7
Free5 == slot5 = None /\ Free6
Free4 == slot4 = None /\ Free5
Free2 == slot2 = None /\ slot3 = None /\ Free4

Init == /\ part \in Parts
        /\ \/ part = "sockets" /\ Sockets!Init /\ Free5
           \/ part = "queries" /\ Queries!Init /\ Free6
           \/ part = "profiles" /\ Profiles!Init /\ Free7
           \/ part = "batches" /\ Batches!Init /\ Free2
           \/ part = "facade" /\ Facade!Init /\ Free4
           \/ part = "batcher" /\ Batcher!Init /\ Free6
           \/ part = "feed" /\ Feed!Init
           \/ part = "held" /\ Held!Init /\ Free8
           \/ part = "hub" /\ Hub!Init /\ Free6

InSockets  == part = "sockets" /\ UNCHANGED <<part, slot5, slot6, slot7, slot8>>
InQueries  == part = "queries" /\ UNCHANGED <<part, slot6, slot7, slot8>>
InProfiles == part = "profiles" /\ UNCHANGED <<part, slot7, slot8>>
InBatches  == part = "batches" /\ UNCHANGED <<part, slot2, slot3, slot4, slot5, slot6, slot7, slot8>>
InFacade   == part = "facade" /\ UNCHANGED <<part, slot4, slot5, slot6, slot7, slot8>>
InBatcher  == part = "batcher" /\ UNCHANGED <<part, slot6, slot7, slot8>>
InFeed     == part = "feed" /\ UNCHANGED part
InHeld     == part = "held" /\ UNCHANGED <<part, slot8>>
InHub      == part = "hub" /\ UNCHANGED <<part, slot6, slot7, slot8>>

Next ==
    \/ \E c \in SocketCalls, u \in SocketUrls, do \in {"connect", "relayFor", "publish"} : InSockets /\ Sockets!Begin(c, do, u)
    \/ \E u \in SocketUrls :
          \/ InSockets /\ Sockets!Subscribed(u)
          \/ InSockets /\ Sockets!Unsubscribed(u)
          \/ InSockets /\ Sockets!GraceEnds(u)
          \/ InSockets /\ Sockets!Recycle(u)
          \/ InSockets /\ Sockets!RetryFires(u)
          \/ InSockets /\ Sockets!Opened(u)
          \/ InSockets /\ Sockets!Failed(u)
          \/ InSockets /\ Sockets!Dropped(u)
          \/ \E g \in BOOLEAN : InSockets /\ Sockets!Disconnect(u, g)
    \/ InSockets /\ Sockets!Rebind
    \/ \E g \in BOOLEAN : InSockets /\ Sockets!CloseAll(g)
    \/ InSockets /\ Sockets!GoesOffline
    \/ InSockets /\ Sockets!GoesOnline
    \/ InSockets /\ Sockets!Announced
    \/ \E c \in SocketCalls :
          \/ InSockets /\ Sockets!WaitLapses(c)
          \/ InSockets /\ Sockets!PublishAuths(c)
          \/ InSockets /\ Sockets!PublishGoesOn(c)
          \/ \E how \in {"ok", "timeout", "rejected"} : InSockets /\ Sockets!PublishEnds(c, how)

    \/ \E c \in Askers :
          \/ InQueries /\ Queries!Query(c)
          \/ InQueries /\ Queries!Record(c)
          \/ InQueries /\ Queries!Deadline(c)
    \/ \E c \in Askers, u \in AskedRelays :
          \/ InQueries /\ Queries!EoseSettles(c, u)
          \/ InQueries /\ Queries!Connected(c, u)
          \/ InQueries /\ Queries!Unreachable(c, u)
          \/ InQueries /\ Queries!Eose(c, u)
          \/ \E e \in StoredAt[u] : InQueries /\ Queries!Event(c, u, e)
          \/ \E made \in BOOLEAN : InQueries /\ Queries!Closed(c, u, made)
    \/ InQueries /\ Queries!ClearIdentity(Asker)
    \/ InQueries /\ Queries!Tick

    \/ \E p \in ProfileKeys :
          \/ InProfiles /\ Profiles!Get(p)
          \/ InProfiles /\ Profiles!Set(p, slot4)
          \/ InProfiles /\ Profiles!MarkMissing(p)
          \/ InProfiles /\ Profiles!Asked(p)
          \/ InProfiles /\ Profiles!Delete({p})
    \/ InProfiles /\ Profiles!Delete(ProfileKeys)
    \/ InProfiles /\ Profiles!OnVisibility
    \/ InProfiles /\ Profiles!HiddenTrim
    \/ InProfiles /\ Profiles!Dispose
    \/ InProfiles /\ Profiles!Tick

    \/ InBatches /\ Batches!Next

    \/ \E s \in FacadeSubs :
          \/ InFacade /\ \E R \in SUBSET (Facade!Urls(s) \cap Facade!Scene.refusing) : Facade!Subscribe(s, R)
          \/ InFacade /\ Facade!CloseSub(s)
          \/ \E u \in AskedRelays : InFacade /\ Facade!RefusalTold(s, u)
    \/ InFacade /\ \E k \in DOMAIN slot2 : Facade!EoseComes(k)
    \/ InFacade /\ \E k \in DOMAIN slot2 : Facade!Terminated(k)
    \/ InFacade /\ \E k \in DOMAIN slot2 : Facade!Reissued(k)
    \/ InFacade /\ \E k \in DOMAIN slot2, e \in FacadeEvents : Facade!EventComes(k, e)

    \/ \E c \in Askers, i \in BOOLEAN : InBatcher /\ Batcher!Query(c, i)
    \/ InBatcher /\ Batcher!TimerFires
    \/ InBatcher /\ Batcher!Destroy
    \/ \E h \in BOOLEAN : InBatcher /\ Batcher!SetPool(h)
    \/ InBatcher /\ \E x \in slot2 : Batcher!Answers(x)
    \/ InBatcher /\ \E x \in slot2 : \E r \in x.parts : Batcher!WindowEnds(x, r)
    \/ InBatcher /\ \E x \in slot2 : \E r \in x.parts : Batcher!Closes(x, r)
    \/ InBatcher /\ \E x \in slot2 : \E r \in x.parts, e \in BatcherEvents : Batcher!Event(x, r, e)

    \/ InFeed /\ Feed!InitPool
    \/ InFeed /\ Feed!InitFeed
    \/ InFeed /\ Feed!FeedOpens
    \/ InFeed /\ Feed!Follow
    \/ InFeed /\ Feed!TimerFires
    \/ InFeed /\ Feed!Destroy
    \/ InFeed /\ Feed!Publish
    \/ InFeed /\ Feed!Tick
    \/ \E ok \in BOOLEAN : InFeed /\ Feed!Credited(ok)
    \/ \E ok \in BOOLEAN, u \in FeedUrls : InFeed /\ Feed!RelayAnswers(u, ok)
    \/ \E ok \in BOOLEAN, u \in FeedUrls : InFeed /\ Feed!SetRelay(u, ok)
    \/ InFeed /\ \E s \in slot2 : Feed!Drops(s)
    \/ \E up \in SUBSET FeedUrls : InFeed /\ Feed!Refresh(up)

    \/ InHeld /\ Held!Start
    \/ InHeld /\ Held!Stop
    \/ \E u \in HeldUrls : InHeld /\ Held!TimerFires(u)
    \/ \E u \in HeldUrls, o \in Held!Owners : InHeld /\ Held!AddRelay(u, o)
    \/ \E u \in HeldUrls, o \in Held!Owners : InHeld /\ Held!Release(u, o)
    \/ InHeld /\ \E d \in slot3 : Held!Connected(d)
    \/ InHeld /\ \E d \in slot3 : Held!ConnectFails(d)
    \/ InHeld /\ \E r \in slot4 : Held!Eose(r)
    \/ InHeld /\ \E r \in slot4 : Held!Closes(r)

    \/ \E h \in HubHandles :
          \/ InHub /\ Hub!Subscribe(h)
          \/ InHub /\ Hub!Release(h)
          \/ InHub /\ Hub!SetPriority(h)
    \/ \E l \in HubLeases :
          \/ InHub /\ Hub!Acquire(l)
          \/ InHub /\ Hub!ReleaseLease(l)
    \/ \E k \in HubPubkeys, a \in BOOLEAN : InHub /\ Hub!SetIdentity(k, a)
    \/ InHub /\ Hub!RemoveIdentity
    \/ InHub /\ Hub!Dispose
    \/ InHub /\ Hub!Forgotten
    \/ InHub /\ Hub!Dropped
    \/ \E x \in HubChallenges : InHub /\ Hub!Challenged(x)
    \/ \E i \in HubLives :
          \/ InHub /\ Hub!RelaySpeaks(i)
          \/ InHub /\ Hub!Silence(i)
          \/ InHub /\ Hub!Deadline(i)
          \/ InHub /\ Hub!RetryFires(i)
    \/ \E i \in HubLives, r \in Hub!Reasons, H \in SUBSET HubHandles : InHub /\ Hub!RelayCloses(i, r, H)
    \/ InHub /\ Hub!Opened
    \/ InHub /\ Hub!PenaltyEnds
    \/ \E o \in HubOps, ok \in BOOLEAN : InHub /\ Hub!SignerAnswers(o, ok)
    \/ \E o \in HubOps, v \in {"ok", "refused", "late"} : InHub /\ Hub!Verdict(o, v)
Spec == Init /\ [][Next]_all
-----------------------------------------------------------------------------
(* Properties: what each part's module says of it.                         *)

\* sockets.ts, socket-entry.ts: a socket somebody holds is up, on its way, or given up after the
\* attempts it is allowed, and no caller waits for one that is not on its way.
NobodyForgotten == part = "sockets" => Sockets!NobodyForgotten
\* sockets.ts (evictionVictim): the budget never closes a socket in use.
HeldSocketsStay == [][part = "sockets" => Sockets!HeldStay]_all
\* query.ts, batch.ts, pool-like.ts, QueryBatcher.ts: who shares a request is given what it asked
\* for and nothing else, complete only if it is, and when it is over nothing of it is left open.
QueriesAnswered == /\ part = "queries" => Queries!QuerySound
                   /\ part = "batches" => Batches!BatchSound
                   /\ part = "facade" => Facade!FacadeHonest
                   /\ part = "batcher" => Batcher!BatcherAnswers
\* registry.ts, sub-scheduler.ts: no subscription is lost through drops, refusals, parking and
\* changes of identity, except to the release of an older handle whose identity was removed and
\* brought back since (registry.ts:208-212); and none that its socket counts is on the wire beyond
\* the budget, or at all beyond its owner or its connection.
HubServes == part = "hub" => Hub!SubsAlive /\ Hub!WireInBudget
\* RelayManager.ts, RelayPool.ts and the bunker's #subscribe: a feed that was started, and a relay
\* a client is reached through, is up or will be tried again, until it is let go and then closed.
FeedsHeld == /\ part = "feed" => Feed!FeedReturns
             /\ part = "held" => Held!RelaysHeld
\* auth.ts: a socket counts as authenticated for the connection it has and the key it acts for,
\* and a challenge is put to the user once.
AuthIsCurrent == part = "hub" => Hub!AuthIsCurrent
\* profile-cache.ts, bounded-map.ts: what is kept is what was used last, and never also missing.
KeepsTheRecent == part = "profiles" => Profiles!KeepsTheRecent
\* RelayManager.ts:170: the feed "auto-reconnects on disconnect", not while it is up.
ReconnectsOnDisconnect == [][part = "feed" => Feed!FiresWhenDown]_all
\* registry.ts:28: a subscription that waits for a prompt is retried, so the prompt it waits
\* for is one that can end.
RidesEnd == part = "hub" => Hub!RidesEnd
=============================================================================
