-------------------------------- MODULE DmCache --------------------------------
(***************************************************************************)
(* The direct-message cache of one account (packages/dm/src/cache): events *)
(* arrive live, by a walk back through the history or as the echo of a     *)
(* send, are decrypted and kept by partner; a cap evicts what strangers    *)
(* wrote; a debounced save writes the snapshot, sealed under a key that    *)
(* the signer wraps; sessions are opened, closed and cleared meanwhile.    *)
(* The signer, the relays and localStorage are external.                   *)
(***************************************************************************)
EXTENDS Naturals, FiniteSets, FiniteSetsExt

CONSTANTS Sessions, Scenes, None
VARIABLES cache,     \* the messages in memory: [id, partner, at]
          seen,      \* the ids of those ingested
          follows,   \* the follow set, or None while it is not known
          cursors,   \* partner -> read up to
          session,   \* session -> [at, inbox, timer, key]
          opening,   \* events a handler is decrypting: [ev, by]
          walk,      \* the backfill: [left, todo, partners, found], or None
          mail,      \* the events at the relays
          keys,      \* the cache key: [stored, ram, minting]
          disk, saves, history, spent
vars == <<cache, seen, follows, cursors, session, opening, walk, mail, keys, disk, saves, history, spent>>

Scene == Scenes[spent.scene]
Ids(ms) == {m.id : m \in ms}
Partners(ms) == {m.partner : m \in ms}
Hydrated == {s \in Sessions : session[s].at = "live"}
\* A handle outlives clearDMSession(), deaf to the cache that takes the old one's place.
Handles == {s \in Sessions : session[s].at \in {"live", "deaf"}}

-----------------------------------------------------------------------------
(* Ingestion and eviction (store.ts, eviction.ts).                         *)

Evictable(ms) == IF follows = None THEN {} ELSE {m \in ms : m.partner \notin follows}
\* What is dropped: the oldest of the strangers' messages, down to the cap.
Victims(ms) == LET e == Evictable(ms)
               IN  IF Cardinality(e) <= Scene.cap THEN {{}}
                   ELSE {d \in kSubset(Cardinality(e) - Scene.cap, e) : \A x \in d, y \in e \ d : x.at <= y.at}
\* Slip: what was evicted still counts as seen.
ForgottenButSeen(ms, ids, d) == cache' = ms \ d /\ seen' = ids
Forgotten(ms, ids, d) == cache' = ms \ d /\ seen' = ids \ Ids(d)
\* A change of the conversation list: every open session evicts, and puts its save off.
Changed(ms, ids, past) ==
    \E d \in IF Hydrated = {} THEN {{}} ELSE Victims(ms) :
      /\ Forgotten(ms, ids, d)
      /\ history' = [past EXCEPT !.evicted = @ \cup {[msg |-> m, follows |-> follows] : m \in d}]
Saving(ses) == session' = [s \in Sessions |-> IF s \in Hydrated THEN [ses[s] EXCEPT !.timer = TRUE] ELSE ses[s]]
IngestMessage(m) == IF m.id \in seen THEN UNCHANGED <<cache, seen, session, history>>
                    ELSE Changed(cache \cup {m}, seen \cup {m.id}, history) /\ Saving(session)
SetFollowSet(f) == /\ spent.follows > 0 /\ follows' = f /\ spent' = [spent EXCEPT !.follows = @ - 1]
                   /\ UNCHANGED <<cache, seen, cursors, session, opening, walk, mail, keys, disk, saves, history>>
\* Read cursors never go back.
SetReadCursor(p, t) == /\ cursors[p] < t /\ cursors' = [cursors EXCEPT ![p] = t]
                       /\ UNCHANGED <<cache, seen, follows, session, opening, walk, mail, keys, disk, saves, history, spent>>

-----------------------------------------------------------------------------
(* Events (inbox.ts, index.ts): three subscriptions, one per kind of       *)
(* event; what does not open, or was written by another than its seal      *)
(* says, is skipped.                                                       *)

Opens(e) == e.opens
SubscribeInbox(s) == /\ s \in Handles /\ session[s].inbox = "none"
                     /\ session' = [session EXCEPT ![s].inbox = "looking"]
                     /\ UNCHANGED <<cache, seen, follows, cursors, opening, walk, mail, keys, disk, saves, history, spent>>
InboxRelaysFound(s) == /\ session[s].inbox = "looking" /\ session' = [session EXCEPT ![s].inbox = "open"]
                       /\ UNCHANGED <<cache, seen, follows, cursors, opening, walk, mail, keys, disk, saves, history, spent>>
LeaveInbox(s) == /\ session[s].inbox # "none" /\ session' = [session EXCEPT ![s].inbox = "none"]
                 /\ UNCHANGED <<cache, seen, follows, cursors, opening, walk, mail, keys, disk, saves, history, spent>>
EventComes(s, e) ==
    /\ session[s].inbox = "open" /\ spent.deliveries > 0 /\ spent' = [spent EXCEPT !.deliveries = @ - 1]
    /\ opening' = opening \cup {[ev |-> e, by |-> s]}
    /\ UNCHANGED <<cache, seen, follows, cursors, session, walk, mail, keys, disk, saves, history>>
Handled(o) ==
    /\ opening' = opening \ {o}
    /\ IF Opens(o.ev) THEN IngestMessage(o.ev.msg) ELSE UNCHANGED <<cache, seen, session, history>>
    /\ UNCHANGED <<follows, cursors, walk, mail, keys, disk, saves, spent>>
\* sendDM(): the echo goes into the cache, then the event to the relays.  A sealed message has
\* another id in its echo than in its envelope, which comes back only to a sender who wrote to itself.
SendDM(c) ==
    /\ Handles # {} /\ c \notin spent.sent /\ spent' = [spent EXCEPT !.sent = @ \cup {c}]
    /\ IngestMessage(c.echo) /\ mail' = mail \cup c.wire
    /\ UNCHANGED <<follows, cursors, opening, walk, keys, disk, saves>>

-----------------------------------------------------------------------------
(* The walk back (backfill.ts).                                            *)

In(w) == {e \in mail : e.window = w}
BackfillInbox == /\ walk = None /\ Handles # {} /\ spent.walks > 0 /\ spent' = [spent EXCEPT !.walks = @ - 1]
                 /\ walk' = [window |-> 1, at |-> "query", todo |-> {}, partners |-> {}]
                 /\ UNCHANGED <<cache, seen, follows, cursors, session, opening, mail, keys, disk, saves, history>>
Enough(k) == k.window > Scene.windows \/ Cardinality(k.partners) >= Scene.minPartners
\* A window's answer is what arrived in its time; an empty one, or the deadline, ends the walk.
WindowAnswered(es) ==
    /\ walk # None /\ walk.at = "query" /\ es \subseteq In(walk.window)
    /\ walk' = IF es = {} THEN None ELSE [walk EXCEPT !.at = "open", !.todo = es]
    /\ UNCHANGED <<cache, seen, follows, cursors, session, opening, mail, keys, disk, saves, history, spent>>
WalkOpens(e) ==
    /\ walk # None /\ walk.at = "open" /\ e \in walk.todo
    /\ LET new == Opens(e) /\ e.msg.id \notin seen
           left == [walk EXCEPT !.todo = @ \ {e}, !.partners = IF new THEN @ \cup {e.msg.partner} ELSE @]
           next == IF left.todo = {} THEN [left EXCEPT !.at = "query", !.window = @ + 1] ELSE left
       IN  /\ walk' = IF next.at = "query" /\ Enough(next) THEN None ELSE next
           /\ IF Opens(e) THEN IngestMessage(e.msg) ELSE UNCHANGED <<cache, seen, session, history>>
    /\ UNCHANGED <<follows, cursors, opening, mail, keys, disk, saves, spent>>

-----------------------------------------------------------------------------
(* Sessions and the store (cache/index.ts, encrypted-storage.ts).          *)

\* The account's key: from memory, unwrapped from the store, or new and wrapped.
GetOrCreateCacheKey(s) ==
    /\ session[s].at = "new" /\ spent.opens > 0 /\ spent' = [spent EXCEPT !.opens = @ - 1]
    /\ LET k == IF keys.ram # None THEN keys.ram ELSE IF keys.stored # None THEN keys.stored ELSE s
       IN  session' = [session EXCEPT ![s] = [at |-> IF keys.ram # None THEN "load" ELSE "key", key |-> k,
                                               mints |-> keys.ram = None /\ keys.stored = None, inbox |-> "none", timer |-> FALSE]]
    /\ UNCHANGED <<cache, seen, follows, cursors, opening, walk, mail, keys, disk, saves, history>>
KeyReady(s) ==
    /\ session[s].at = "key" /\ session' = [session EXCEPT ![s].at = "load"]
    /\ keys' = [stored |-> IF session[s].mints THEN session[s].key ELSE keys.stored, ram |-> session[s].key]
    /\ history' = [history EXCEPT !.remint = @ \/ (session[s].mints /\ keys.stored # None)]
    /\ UNCHANGED <<cache, seen, follows, cursors, opening, walk, mail, disk, saves, spent>>
\* Hydration puts the stored threads in the place of those in memory, whatever of them opens.
Readable(k) == {r.msg : r \in {x \in disk : x.key = k}}
HydrateMessages(s) ==
    LET rows == Readable(session[s].key)
        kept == {m \in cache : m.partner \notin Partners({r.msg : r \in disk})}
    IN  /\ session[s].at = "load" /\ Saving([session EXCEPT ![s].at = "live"])
        /\ Changed(kept \cup rows, seen \cup Ids(rows), [history EXCEPT !.replaced = @ \cup ((cache \ kept) \ rows)])
        /\ UNCHANGED <<follows, cursors, opening, walk, mail, keys, disk, saves, spent>>
\* The timer: the snapshot is sealed row by row, and lands later.
PersistDMSession(s) ==
    /\ session[s].timer /\ session' = [session EXCEPT ![s].timer = FALSE]
    /\ saves' = saves \cup {[by |-> s, rows |-> {[msg |-> m, key |-> session[s].key] : m \in cache}]}
    /\ UNCHANGED <<cache, seen, follows, cursors, opening, walk, mail, keys, disk, history, spent>>
SaveLands(v) == /\ saves' = saves \ {v} /\ disk' \in {v.rows, disk}
                /\ UNCHANGED <<cache, seen, follows, cursors, session, opening, walk, mail, keys, history, spent>>
CloseDMSession(s) == /\ s \in Handles /\ session' = [session EXCEPT ![s].at = "closed", ![s].timer = FALSE]
                     /\ UNCHANGED <<cache, seen, follows, cursors, opening, walk, mail, keys, disk, saves, history, spent>>
\* clearDMSession(): whoever has not closed stays subscribed to what is gone, its timer running.
ClearDMSession ==
    /\ spent.clears > 0 /\ spent' = [spent EXCEPT !.clears = @ - 1]
    /\ cache' = {} /\ seen' = {} /\ disk' \in {{}, disk}
    /\ session' = [s \in Sessions |-> IF s \in Hydrated THEN [session[s] EXCEPT !.at = "deaf"] ELSE session[s]]
    /\ UNCHANGED <<follows, cursors, opening, walk, mail, keys, saves, history>>
\* The page goes away and comes back; the store stays.
Reload == /\ spent.reloads > 0 /\ spent' = [spent EXCEPT !.reloads = @ - 1]
          /\ cache' = {} /\ seen' = {} /\ follows' = None /\ opening' = {} /\ walk' = None /\ saves' = {}
          /\ session' = [s \in Sessions |-> IF session[s].at = "new" THEN session[s] ELSE [session[s] EXCEPT !.at = "closed", !.inbox = "none", !.timer = FALSE]]
          /\ keys' = [keys EXCEPT !.ram = None] /\ UNCHANGED <<cursors, mail, disk, history>>

Fresh == [at |-> "new", key |-> None, mints |-> FALSE, inbox |-> "none", timer |-> FALSE]
InitOf(n) == /\ spent = [scene |-> n, sent |-> {}, follows |-> Scenes[n].follows, deliveries |-> Scenes[n].deliveries,
                         walks |-> Scenes[n].walks, opens |-> Scenes[n].opens, clears |-> Scenes[n].clears, reloads |-> Scenes[n].reloads]
             /\ cache = {} /\ seen = {} /\ follows = None /\ cursors = [p \in Scenes[n].partners |-> 0]
             /\ session = [s \in Sessions |-> Fresh] /\ opening = {} /\ walk = None /\ mail = Scenes[n].mail
             /\ keys = [stored |-> None, ram |-> None] /\ disk = {} /\ saves = {}
             /\ history = [evicted |-> {}, replaced |-> {}, remint |-> FALSE]
Init == \E n \in DOMAIN Scenes : InitOf(n)
Next == \/ \E f \in Scene.followSets : SetFollowSet(f)
        \/ \E p \in DOMAIN cursors, t \in Scene.times : SetReadCursor(p, t)
        \/ \E s \in Sessions : \/ SubscribeInbox(s) \/ InboxRelaysFound(s) \/ LeaveInbox(s) \/ GetOrCreateCacheKey(s)
                               \/ KeyReady(s) \/ HydrateMessages(s) \/ PersistDMSession(s) \/ CloseDMSession(s)
                               \/ \E e \in mail : EventComes(s, e)
        \/ \E o \in opening : Handled(o)
        \/ \E c \in Scene.sends : SendDM(c)
        \/ BackfillInbox \/ (\E es \in SUBSET mail : WindowAnswered(es)) \/ \E e \in mail : WalkOpens(e)
        \/ \E v \in saves : SaveLands(v)
        \/ ClearDMSession \/ Reload
Spec == Init /\ [][Next]_vars

-----------------------------------------------------------------------------
(* Properties.                                                             *)

Kept(ms, ids, gone) == /\ \A m, k \in ms : m.id = k.id => m = k
                       /\ Ids(ms) \subseteq ids /\ ids \subseteq Ids(ms) \cup Ids(gone)
StrangersEvicted == \A d \in history.evicted : d.follows # None /\ d.msg.partner \notin d.follows
DiskOpens == ~history.remint => \A r \in disk : r.key = keys.stored
\* There is one copy per id, and what is not kept can come again: an id counts as seen only while
\* its message is in memory, or was replaced by a session opened over it.  Eviction never takes a
\* message of a partner who was followed, and what is on disk opens with the stored key, unless
\* two sessions minted a key at once.
InboxSound == Kept(cache, seen, history.replaced) /\ StrangersEvicted /\ DiskOpens

\* What keeps it: every message is one of the account's, which their ids tell apart; until a key
\* was minted twice there is one key, and whoever is past its minting has it.
Messages(n) == LET sends == Scenes[n].sends
               IN  {e.msg : e \in Scenes[n].mail \cup UNION {c.wire : c \in sends}} \cup {c.echo : c \in sends}
Known(m)    == m \in Messages(spent.scene)
MailKnown   == /\ \A e \in mail : Known(e.msg)
               /\ \A o \in opening : Known(o.ev.msg)
               /\ walk # None => /\ DOMAIN walk = {"window", "at", "todo", "partners"}
                                 /\ \A e \in walk.todo : Known(e.msg)
StoreKnown  == /\ \A m \in cache : Known(m)
               /\ \A r \in disk : Known(r.msg)
               /\ \A v \in saves : \A r \in v.rows : Known(r.msg)
SessionsSound ==
    /\ keys \in [stored : Sessions \cup {None}, ram : Sessions \cup {None}]
    /\ session \in [Sessions -> [at : {"new", "key", "load", "live", "deaf", "closed"}, key : Sessions \cup {None}, mints : BOOLEAN,
                                 inbox : {"none", "looking", "open"}, timer : BOOLEAN]]
    /\ \A s \in Sessions : /\ session[s].timer => session[s].at \in {"live", "deaf"}
                           /\ session[s].at = "key" => session[s].key # None
OneKey ==
    /\ keys.ram \in {None, keys.stored}
    /\ \A r \in disk : r.key = keys.stored /\ keys.stored # None
    /\ \A v \in saves : \A r \in v.rows : r.key = keys.stored /\ keys.stored # None
    /\ \A s \in Sessions :
         session[s].at \in {"load", "live", "deaf"} \/ (session[s].at = "key" /\ ~session[s].mints) =>
           session[s].key = keys.stored /\ keys.stored # None
Inv ==
    /\ "scene" \in DOMAIN spent /\ spent.scene \in DOMAIN Scenes
    /\ DOMAIN history = {"evicted", "replaced", "remint"} /\ history.remint \in BOOLEAN
    /\ MailKnown /\ StoreKnown /\ SessionsSound
    /\ ~history.remint => OneKey
    /\ InboxSound
=============================================================================
