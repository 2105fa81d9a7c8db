------------------------------ MODULE Clients ------------------------------
(***************************************************************************)
(* The modules an app is built over, side by side.  They share nothing, so *)
(* a state is of one of them: `part` says of which, and the slots are that *)
(* part's variables, in the order its module declares them.  A part's      *)
(* actions are listed one by one, so that each of them is counted.         *)
(***************************************************************************)
EXTENDS Naturals, Sequences, FiniteSets

CONSTANTS
    Callers, Events, CoalescerScenes,                               \* the data coalescer
    CacheKeys, CacheFlights, ReadScenes,                            \* the observable caches
    Calls, WalletScenes,                                            \* the wallet client
    Sockets, Readers, MaxTries, RemoteScenes,                       \* the NIP-46 client
    FrameAccounts, MaxPending, NosskeyScenes,                       \* the frame signer
    Browsers, Services, ChallengeTtl, Skew, JwtTtl, LastTime, LoginScenes,   \* HTTP login
    Sessions, InboxScenes,                                          \* the message cache
    Accounts, Lanes, BatchSize, GraphScenes,                        \* the web-of-trust graph
    OracleMaxHops, OracleMaxTargets, OracleScenes,                  \* the oracle's hooks
    Devices, Credentials, Authors, PasskeyRelays, Default, PasskeyTime, PasskeyScenes, Junk,   \* passkeys
    Parts, None

VARIABLES part, slot1, slot2, slot3, slot4, slot5, slot6, slot7, slot8, slot9, slot10, slot11, slot12, slot13
all == <<part, slot1, slot2, slot3, slot4, slot5, slot6, slot7, slot8, slot9, slot10, slot11, slot12, slot13>>

Coalesced == INSTANCE Coalescer WITH
    Consumers <- Callers, Scenes <- CoalescerScenes,
    handle <- slot1, pending <- slot2, batch <- slot3, timer <- slot4, spent <- slot5
Reads == INSTANCE ReadCaches WITH
    Keys <- CacheKeys, Flights <- CacheFlights, Scenes <- ReadScenes,
    slots <- slot1, told <- slot2, disk <- slot3, flight <- slot4, call <- slot5, spent <- slot6
Wallet == INSTANCE WalletClient WITH
    Scenes <- WalletScenes,
    info <- slot1, call <- slot2, wallet <- slot3, spent <- slot4
Remote == INSTANCE RemoteSigner WITH
    Scenes <- RemoteScenes,
    pair <- slot1, conn <- slot2, socket <- slot3, read <- slot4, reader <- slot5, spent <- slot6
Nosskey == INSTANCE NosskeySigner WITH
    Accounts <- FrameAccounts, Scenes <- NosskeyScenes,
    port <- slot1, pending <- slot2, call <- slot3, account <- slot4, spent <- slot5
Login == INSTANCE HttpAuth WITH
    Scenes <- LoginScenes,
    now <- slot1, login <- slot2, posts <- slot3, signed <- slot4, minted <- slot5, jar <- slot6, seen <- slot7, spent <- slot8
Inbox == INSTANCE DmCache WITH
    Scenes <- InboxScenes,
    cache <- slot1, seen <- slot2, follows <- slot3, cursors <- slot4, session <- slot5, opening <- slot6, walk <- slot7,
    mail <- slot8, keys <- slot9, disk <- slot10, saves <- slot11, history <- slot12, spent <- slot13
Graph == INSTANCE WotGraph WITH
    Scenes <- GraphScenes,
    mem <- slot1, db <- slot2, txs <- slot3, root <- slot4, crawl <- slot5, fetches <- slot6, clear <- slot7, loads <- slot8,
    cache <- slot9, spent <- slot10
Oracle == INSTANCE WotOracle WITH
    Scenes <- OracleScenes,
    props <- slot1, shown <- slot2, latest <- slot3, asked <- slot4, ran <- slot5, spent <- slot6
Keys == INSTANCE Passkeys WITH
    Relays <- PasskeyRelays, LastTime <- PasskeyTime, Scenes <- PasskeyScenes,
    now <- slot1, blob <- slot2, relays <- slot3, session <- slot4, op <- slot5, result <- slot6, saved <- slot7, replaced <- slot8,
    spent <- slot9
ASSUME ClientsAssumption ==
    /\ MaxPending \in Nat /\ MaxTries \in Nat \ {0} /\ ChallengeTtl \in Nat /\ JwtTtl \in Nat
    /\ None \notin FrameAccounts \cup Sessions \cup {"timeout"}
    /\ \A n \in DOMAIN NosskeyScenes : /\ NosskeyScenes[n].switches \in Nat
                                       /\ \A c \in Callers : NosskeyScenes[n].does[c] \in {"key", "sign", "crypt"}
    /\ \A n \in DOMAIN RemoteScenes : RemoteScenes[n].drops \in Nat
    /\ \A n \in DOMAIN LoginScenes : LoginScenes[n].logins \in Nat /\ LoginScenes[n].again \in Nat
    /\ \A n \in DOMAIN InboxScenes : \A m, k \in Inbox!Messages(n) : m.id = k.id => m = k    \* ids are hashes
-----------------------------------------------------------------------------
Free11 == slot11 = None /\ slot12 = None /\ slot13 = None
Free10 == slot10 = None /\ Free11
Free9  == slot9 = None /\ Free10
Free7  == slot7 = None /\ slot8 = None /\ Free9
Free6  == slot6 = None /\ Free7
Free5  == slot5 = None /\ Free6

Init == /\ part \in Parts
        /\ \/ part = "coalescer" /\ Coalesced!Init /\ Free6
           \/ part = "reads" /\ Reads!Init /\ Free7
           \/ part = "wallet" /\ Wallet!Init /\ Free5
           \/ part = "remote" /\ Remote!Init /\ Free7
           \/ part = "nosskey" /\ Nosskey!Init /\ Free6
           \/ part = "login" /\ Login!Init /\ Free9
           \/ part = "inbox" /\ Inbox!Init
           \/ part = "graph" /\ Graph!Init /\ Free11
           \/ part = "oracle" /\ Oracle!Init /\ Free7
           \/ part = "keys" /\ Keys!Init /\ Free10

Keep10 == UNCHANGED <<part, slot10, slot11, slot12, slot13>>
Keep9  == UNCHANGED slot9 /\ Keep10
Keep7  == UNCHANGED <<slot7, slot8>> /\ Keep9
Keep6  == UNCHANGED slot6 /\ Keep7
InCoalescer == part = "coalescer" /\ Keep6
InReads     == part = "reads" /\ Keep7
InWallet    == part = "wallet" /\ UNCHANGED slot5 /\ Keep6
InRemote    == part = "remote" /\ Keep7
InNosskey   == part = "nosskey" /\ Keep6
InLogin     == part = "login" /\ Keep9
InInbox     == part = "inbox" /\ UNCHANGED part
InGraph     == part = "graph" /\ UNCHANGED <<part, slot11, slot12, slot13>>
InOracle    == part = "oracle" /\ Keep7
InKeys      == part = "keys" /\ Keep10

Next ==
    \/ \E h \in Callers :
          \/ InCoalescer /\ Coalesced!Enqueue(h)
          \/ InCoalescer /\ Coalesced!Teardown(h)
          \/ InCoalescer /\ Coalesced!QueryTimesOut(h)
    \/ InCoalescer /\ Coalesced!Flush
    \/ InCoalescer /\ \E b \in DOMAIN slot3, e \in Events : Coalesced!EventComes(b, e)
    \/ InCoalescer /\ \E b \in DOMAIN slot3 : \E s \in slot3[b].subs, u \in slot3[b].relays \cup {None} : Coalesced!EoseComes(b, s, u)
    \/ InCoalescer /\ \E b \in DOMAIN slot3 : Coalesced!Ceiling(b)

    \/ \E c \in Callers : InReads /\ Reads!Ask(c)
    \/ \E f \in CacheFlights :
          \/ InReads /\ Reads!LookedUp(f)
          \/ \E s \in {"sub", "reaction", "repost", "zap"} : InReads /\ Reads!SubEnds(f, s)
          \/ InReads /\ slot4[f] # None /\ \E e \in Reads!Offered(f, slot4[f]) : Reads!EventComes(f, e)
    \/ \E k \in CacheKeys :
          \/ InReads /\ Reads!Ages(k)
          \/ InReads /\ Reads!ClearStore(k[1])

    \/ \E c \in Calls :
          \/ InWallet /\ Wallet!Start(c)
          \/ InWallet /\ Wallet!Subscribe(c)
          \/ InWallet /\ Wallet!Send(c)
          \/ InWallet /\ Wallet!AnswerTimer(c)
          \/ \E ack \in {"reached", "no", "threw"} : InWallet /\ Wallet!Published(c, ack)
          \/ \E did \in {"done", "refused"} : InWallet /\ Wallet!WalletActs(c, did)
          \/ \E says \in {"foreign", "unreadable", "error", "result", "no preimage"} : InWallet /\ Wallet!AnswerComes(c, says)
    \/ InWallet /\ Wallet!InfoFails
    \/ InWallet /\ \E methods \in Wallet!Scene.offers : Wallet!InfoComes(methods)

    \/ InRemote /\ Remote!StartNostrConnect
    \/ InRemote /\ Remote!FromBunkerUri
    \/ InRemote /\ Remote!HandshakeDone
    \/ InRemote /\ Remote!Retry
    \/ InRemote /\ Remote!KeyComes
    \/ InRemote /\ Remote!KeyFails
    \/ InRemote /\ Remote!RequestLost
    \/ \E stubborn \in SUBSET Sockets :
          \/ InRemote /\ Remote!HandshakeFails(stubborn)
          \/ InRemote /\ Remote!PairTimeout(stubborn)
          \/ InRemote /\ Remote!Cancel(stubborn)
          \/ InRemote /\ Remote!Close(stubborn)
    \/ \E s \in Sockets :
          \/ InRemote /\ Remote!Dial(s)
          \/ InRemote /\ Remote!SocketOpens(s)
          \/ InRemote /\ Remote!SocketDrops(s)
    \/ \E r \in Readers : InRemote /\ Remote!GetPublicKey(r)

    \/ InNosskey /\ Nosskey!Shutdown
    \/ InNosskey /\ Nosskey!Ready
    \/ InNosskey /\ Nosskey!Loads
    \/ \E a \in FrameAccounts : InNosskey /\ Nosskey!Switch(a)
    \/ \E c \in Callers :
          \/ InNosskey /\ Nosskey!Begin(c)
          \/ InNosskey /\ Nosskey!Post(c)
          \/ InNosskey /\ Nosskey!Computes(c)
          \/ InNosskey /\ Nosskey!Answered(c)
          \/ InNosskey /\ Nosskey!Fails(c)

    \/ InLogin /\ Login!Tick
    \/ \E b \in Browsers, v \in Services :
          \/ InLogin /\ Login!FetchChallenge(b, v)
          \/ InLogin /\ Login!Logout(b, v)
          \/ InLogin /\ \E t \in slot5 \cup {None} : Login!Me(b, v, t)
          \/ InLogin /\ \E e \in slot4 : Login!Redelivered(e, b, v)
    \/ \E b \in Browsers :
          \/ InLogin /\ Login!BuildAuthEvent(b)
          \/ InLogin /\ Login!LoginFails(b)
          \/ InLogin /\ Login!SignerAnswers(b, Login!Scene.user[b])
    \/ InLogin /\ \E r \in slot3 : Login!Verify(r)
    \/ InLogin /\ \E r \in slot3 : Login!HookAccepts(r)
    \/ InLogin /\ \E r \in slot3 : Login!HookRejects(r)

    \/ InInbox /\ \E f \in Inbox!Scene.followSets : Inbox!SetFollowSet(f)
    \/ InInbox /\ \E p \in DOMAIN slot4, t \in Inbox!Scene.times : Inbox!SetReadCursor(p, t)
    \/ \E s \in Sessions :
          \/ InInbox /\ Inbox!SubscribeInbox(s)
          \/ InInbox /\ Inbox!InboxRelaysFound(s)
          \/ InInbox /\ Inbox!LeaveInbox(s)
          \/ InInbox /\ Inbox!GetOrCreateCacheKey(s)
          \/ InInbox /\ Inbox!KeyReady(s)
          \/ InInbox /\ Inbox!HydrateMessages(s)
          \/ InInbox /\ Inbox!PersistDMSession(s)
          \/ InInbox /\ Inbox!CloseDMSession(s)
          \/ InInbox /\ \E e \in slot8 : Inbox!EventComes(s, e)
    \/ InInbox /\ \E o \in slot6 : Inbox!Handled(o)
    \/ InInbox /\ \E c \in Inbox!Scene.sends : Inbox!SendDM(c)
    \/ InInbox /\ Inbox!BackfillInbox
    \/ InInbox /\ \E es \in SUBSET slot8 : Inbox!WindowAnswered(es)
    \/ InInbox /\ \E e \in slot8 : Inbox!WalkOpens(e)
    \/ InInbox /\ \E v \in slot11 : Inbox!SaveLands(v)
    \/ InInbox /\ Inbox!ClearDMSession
    \/ InInbox /\ Inbox!Reload

    \/ InGraph /\ \E r \in Graph!Scene.roots : Graph!Crawl(r)
    \/ InGraph /\ Graph!CrawlOpens
    \/ InGraph /\ Graph!LevelEnds
    \/ InGraph /\ Graph!WritesMeta
    \/ InGraph /\ Graph!Stop
    \/ InGraph /\ Graph!Load
    \/ InGraph /\ Graph!Loaded
    \/ InGraph /\ Graph!Clear
    \/ InGraph /\ Graph!ClearStarts
    \/ InGraph /\ Graph!ClearsMemory
    \/ InGraph /\ Graph!Commits
    \/ InGraph /\ Graph!Aborts
    \/ InGraph /\ Graph!Restart
    \/ InGraph /\ \E h \in Graph!Scene.hops : Graph!GetDistance(h)
    \/ InGraph /\ \E as \in SUBSET (IF slot5 = None THEN {} ELSE slot5.todo) : Graph!BatchStarts(as)
    \/ InGraph /\ \E f \in slot6 : Graph!FetchEnds(f)
    \/ InGraph /\ \E f \in slot6 : Graph!FetchFails(f)
    \/ InGraph /\ \E f \in slot6, e \in Graph!Scene.events : Graph!EventComes(f, e)

    \/ InOracle /\ \E ts \in Oracle!Scene.targets, skip \in BOOLEAN, h \in Oracle!Scene.hops : Oracle!Render(ts, skip, h)
    \/ InOracle /\ Oracle!Effect
    \/ InOracle /\ Oracle!Refetch
    \/ InOracle /\ \E q \in slot4 : Oracle!Answers(q)
    \/ InOracle /\ \E q \in slot4 : Oracle!NetworkFails(q)
    \/ InOracle /\ \E q \in slot4 : Oracle!Refuses(q)

    \/ InKeys /\ Keys!Tick
    \/ \E d \in Devices :
          \/ InKeys /\ Keys!Cancelled(d)
          \/ InKeys /\ Keys!Refused(d)
          \/ InKeys /\ Keys!ResolveDerived(d)
          \/ InKeys /\ Keys!ResolveStored(d)
          \/ InKeys /\ Keys!ResolveLegacy(d)
          \/ InKeys /\ Keys!ResolveUnknown(d)
          \/ InKeys /\ Keys!OpenTagged(d)
          \/ InKeys /\ Keys!OpenLegacy(d)
          \/ InKeys /\ Keys!Sealed(d)
          \/ InKeys /\ Keys!PublishAll(d)
          \/ InKeys /\ Keys!SessionMoves(d)
          \/ \E b \in BOOLEAN : InKeys /\ Keys!Inspected(d, b)
          \/ \E b \in BOOLEAN : InKeys /\ Keys!ConfirmOverwrite(d, b)
          \/ \E b \in BOOLEAN : InKeys /\ Keys!Signed(d, b)
          \/ \E b, k \in BOOLEAN : InKeys /\ Keys!WriteBlob(d, b, k)
          \/ InKeys /\ \E got \in SUBSET {"stored", "legacy", Keys!Known, Default} : Keys!FollowedUp(d, got)
          \/ \E r \in PasskeyRelays : InKeys /\ Keys!RelayAnswers(d, r)
          \/ \E r \in PasskeyRelays : InKeys /\ Keys!RelaySilent(d, r)
          \/ \E r \in PasskeyRelays, b, k \in BOOLEAN : InKeys /\ Keys!Publish(d, r, b, k)
          \/ \E c \in Credentials : InKeys /\ Keys!Restore(d, c)
          \/ \E c \in Credentials : InKeys /\ Keys!DerivePasskeyIdentity(d, c)
          \/ \E c \in Credentials : InKeys /\ Keys!OpenPasskeyRecord(d, c)
          \/ \E c \in Credentials : InKeys /\ \E got \in SUBSET {"stored", Keys!Known}, b \in BOOLEAN : Keys!Discover(d, c, got, b)
          \/ \E c \in Credentials : InKeys /\ \E p \in Keys!Scene.payloads : Keys!SaveStoredRecord(d, c, p)
          \/ \E c \in Credentials : InKeys /\ \E p \in Keys!Scene.payloads : Keys!SaveRecovery(d, c, p)
          \/ \E c \in Credentials : InKeys /\ \E n \in Keys!Scene.accounts : Keys!RecoverNosskeyAccount(d, c, n)
Spec == Init /\ [][Next]_all
-----------------------------------------------------------------------------
(* Properties: what each part's module says of it.                         *)

\* data/coalescer.ts, data/cache: a consumer that shares a request is in the one batch it belongs
\* to until it is told or lets go, and a cell that is loading is being loaded by somebody.
ReadsHonest == /\ part = "coalescer" => Coalesced!NothingStranded
               /\ part = "reads" => Reads!CachesHonest
\* nwc/client.ts: what a payment that failed says about the money is true of the wallet.
MoneyHonest == part = "wallet" => Wallet!MoneyHonest
\* nip46/connection.ts, nosskey.ts: a connection given up owns nothing, and one that pins an
\* account answers for no other.
SignersOwn  == /\ part = "remote" => Remote!TransportOwned
               /\ part = "nosskey" => Nosskey!AccountPinned
\* auth/challenge.ts, jwt.ts, service.ts: a session is opened by a proof of that account and in time.
LoginsProven == part = "login" => Login!SessionProven
\* dm/cache: there is one copy per message id, and a message that is not kept can come again.
InboxSound  == part = "inbox" => Inbox!InboxSound
\* wot/graph, wot/react and vault/passkey-*.ts: distances come from follow lists that were published,
\* what a component shows answers what it asks now, and a passkey opens, saves and replaces what the
\* user was shown.
TrustSound  == /\ part = "graph" => Graph!GraphSound
               /\ part = "oracle" => Oracle!ShowsTheQuestion
               /\ part = "keys" => Keys!PasskeysHonest
=============================================================================
