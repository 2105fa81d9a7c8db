------------------------------- MODULE WotGraph -------------------------------
(***************************************************************************)
(* The local follow graph (packages/wot/src/graph): a crawl fetches the    *)
(* newest follow list of every account level by level, the storage interns *)
(* accounts as numbers, keeps the lists in memory and flushes what changed *)
(* in one transaction; distances are read from a search cached by root and *)
(* revision.  Relays and IndexedDB are external: a transaction commits or  *)
(* aborts, in order, and the page may go away between any two steps.       *)
(***************************************************************************)
EXTENDS Naturals, FiniteSets, Sequences, SequencesExt, FiniteSetsExt

CONSTANTS Accounts, Lanes, BatchSize, Scenes, None
VARIABLES mem,     \* [ids, rows, vers, dirtyIds, dirtyRows, rev, root, lastRoot, open]
          db,      \* [ids, rows, vers, root]: what is committed
          txs,     \* the transactions under way, in order
          root,    \* the account queries answer from
          crawl,   \* the crawl in flight, or None
          fetches, \* its subscriptions
          clear, loads, cache, spent
vars == <<mem, db, txs, root, crawl, fetches, clear, loads, cache, spent>>

Scene == Scenes[spent.scene]
Newer(x, y) == x.at > y.at \/ (x.at = y.at /\ x.id < y.id)
IdOf(ids, p) == CHOOSE n \in DOMAIN ids : ids[n] = p
Interned(ids, ps) == ids \o SetToSeq(ps \ Range(ids))
Empty == [ids |-> <<>>, rows |-> [p \in {} |-> {}], vers |-> [p \in {} |-> 0], root |-> None]
Forget(m) == [ids |-> <<>>, rows |-> Empty.rows, vers |-> Empty.vers, dirtyIds |-> <<>>, dirtyRows |-> [n \in {} |-> {}],
              rev |-> m.rev + 1, root |-> None, open |-> m.open]
Put(f, k, v) == [x \in DOMAIN f \cup {k} |-> IF x = k THEN v ELSE f[x]]

-----------------------------------------------------------------------------
(* Storage (storage.ts).  Rows are kept by number: the numbers are what a  *)
(* flush writes.                                                           *)

GetFollows(m, p) == IF p \notin Range(m.ids) \/ IdOf(m.ids, p) \notin DOMAIN m.rows THEN {}
                    ELSE {m.ids[n] : n \in m.rows[IdOf(m.ids, p)]}
SaveFollows(m, e) ==
    LET ids == Interned(Interned(m.ids, {e.author}), e.follows)
        n == IdOf(ids, e.author)
        row == {IdOf(ids, q) : q \in e.follows}
        changed == n \notin DOMAIN m.rows \/ (n \in DOMAIN m.rows /\ m.rows[n] # row)
    IN  IF n \in DOMAIN m.vers /\ ~Newer(e, m.vers[n]) THEN m
        ELSE [m EXCEPT !.ids = ids, !.dirtyIds = @ \o [i \in 1..(Len(ids) - Len(m.ids)) |-> <<Len(m.ids) + i, ids[Len(m.ids) + i]>>],
                       !.vers = Put(@, n, [at |-> e.at, id |-> e.id]), !.rows = IF changed THEN Put(@, n, row) ELSE @,
                       !.dirtyRows = Put(@, n, row), !.rev = IF changed THEN @ + 1 ELSE @]
\* Slip: a follow list that changed leaves the revision alone.
SaveUnrevised(m, e) == [SaveFollows(m, e) EXCEPT !.rev = m.rev]
Saved(m, e) == SaveFollows(m, e)
Clean == mem.dirtyIds = <<>> /\ mem.dirtyRows = [n \in {} |-> {}]
FlushTx == [kind |-> "flush", ids |-> mem.dirtyIds, rows |-> mem.dirtyRows, vers |-> mem.vers]
FlushCommits(t) ==
    /\ db' = [db EXCEPT !.ids = [i \in DOMAIN @ \cup {x[1] : x \in Range(t.ids)} |->
                                   IF \E x \in Range(t.ids) : x[1] = i THEN (CHOOSE x \in Range(t.ids) : x[1] = i)[2] ELSE @[i]],
                        !.rows = [n \in DOMAIN @ \cup DOMAIN t.rows |-> IF n \in DOMAIN t.rows THEN t.rows[n] ELSE @[n]],
                        !.vers = [n \in DOMAIN @ \cup DOMAIN t.rows |-> IF n \in DOMAIN t.rows THEN t.vers[n] ELSE @[n]]]
    /\ mem' = [mem EXCEPT !.dirtyIds = SubSeq(@, Len(t.ids) + 1, Len(@)),
                          !.dirtyRows = [n \in {k \in DOMAIN @ : k \notin DOMAIN t.rows \/ @[k] # t.rows[k]} |-> @[n]]]
LoadAll == [ids |-> IF DOMAIN db.ids = {} THEN <<>> ELSE [n \in 1..Max(DOMAIN db.ids) |-> IF n \in DOMAIN db.ids THEN db.ids[n] ELSE None],
            rows |-> db.rows, vers |-> db.vers, dirtyIds |-> mem.dirtyIds, dirtyRows |-> mem.dirtyRows, rev |-> mem.rev + 1, root |-> db.root, open |-> TRUE]
Opened == IF mem.open THEN mem ELSE LoadAll

-----------------------------------------------------------------------------
(* Distances (graph.ts): one search by levels, cached.                     *)

Ball(m, r, h) == LET b[n \in 0..h] == IF n = 0 THEN {r} ELSE b[n - 1] \cup UNION {GetFollows(m, p) : p \in b[n - 1]} IN b[h]
Hops(m, r, p, h) == IF ~\E n \in 0..h : p \in Ball(m, r, n) THEN None ELSE CHOOSE n \in 0..h : p \in Ball(m, r, n) /\ (n > 0 => p \notin Ball(m, r, n - 1))
NoCache == [root |-> None, rev |-> 0, hops |-> 0, dist |-> None]
BuildCache(r, h) == IF r \notin Range(mem.ids) THEN NoCache
                    ELSE [root |-> r, rev |-> mem.rev, hops |-> h, dist |-> [p \in Range(mem.ids) |-> Hops(mem, r, p, h)]]
EnsureCache(r, h) == IF cache.root # r \/ cache.hops < h \/ cache.rev # mem.rev THEN BuildCache(r, h) ELSE cache
Answer(c, r, p, h) == IF r = None THEN None ELSE IF r = p THEN 0
                      ELSE IF c.root # r \/ (c.root = r /\ p \notin DOMAIN c.dist) THEN None
                      ELSE IF c.dist[p] # None /\ c.dist[p] <= h THEN c.dist[p] ELSE None
GetDistance(h) == /\ root # None /\ cache' = EnsureCache(root, h) /\ cache' # cache
                  /\ UNCHANGED <<mem, db, txs, root, crawl, fetches, clear, loads, spent>>

-----------------------------------------------------------------------------
(* The crawl (wot-graph.ts, crawl.ts).                                     *)

\* A host waits for clear() before it crawls again.
Crawl(r) ==
    /\ crawl = None /\ clear = None /\ spent.crawls > 0 /\ spent' = [spent EXCEPT !.crawls = @ - 1]
    /\ root' = r /\ crawl' = [root |-> r, at |-> "open", depth |-> 0, todo |-> {r}, next |-> {}, seen |-> {r}, aborted |-> FALSE, failed |-> FALSE]
    /\ UNCHANGED <<mem, db, txs, fetches, clear, loads, cache>>
CrawlOpens == /\ crawl # None /\ crawl.at = "open" /\ crawl' = [crawl EXCEPT !.at = "level"] /\ mem' = Opened
              /\ UNCHANGED <<db, txs, root, fetches, clear, loads, cache, spent>>
BatchStarts(as) ==
    /\ crawl # None /\ crawl.at = "level" /\ ~crawl.aborted /\ Cardinality(fetches) < Lanes
    /\ Cardinality(as) = (IF Cardinality(crawl.todo) < BatchSize THEN Cardinality(crawl.todo) ELSE BatchSize) /\ as # {}
    /\ crawl' = [crawl EXCEPT !.todo = @ \ as] /\ fetches' = fetches \cup {[authors |-> as, got |-> {}]}
    /\ UNCHANGED <<mem, db, txs, root, clear, loads, cache, spent>>
\* A follow list arrives: the newest of each author counts.
Kept(got, e) == {x \in got : x.author # e.author \/ ~Newer(e, x)} \cup (IF \E x \in got : x.author = e.author /\ ~Newer(e, x) THEN {} ELSE {e})
EventComes(f, e) == /\ e.author \in f.authors /\ Kept(f.got, e) # f.got
                    /\ fetches' = (fetches \ {f}) \cup {[f EXCEPT !.got = Kept(@, e)]}
                    /\ UNCHANGED <<mem, db, txs, root, crawl, clear, loads, cache, spent>>
\* EOSE, the timeout, or the abort ends a fetch; an aborted crawl keeps nothing of it.
FetchEnds(f) ==
    LET m == FoldSet(LAMBDA e, acc : Saved(acc, e), mem, f.got)
        more == UNION {GetFollows(m, p) : p \in f.authors} \ crawl.seen
    IN  /\ fetches' = fetches \ {f} /\ UNCHANGED <<db, txs, root, clear, loads, cache, spent>>
        /\ IF crawl.aborted THEN UNCHANGED <<mem, crawl>>
           ELSE /\ mem' = m
                /\ crawl' = IF crawl.depth < Scene.depth THEN [crawl EXCEPT !.next = @ \cup more, !.seen = @ \cup more] ELSE crawl
\* The transport throws: the crawl stops and fails, after its flush.
FetchFails(f) == /\ spent.faults > 0 /\ spent' = [spent EXCEPT !.faults = @ - 1] /\ fetches' = fetches \ {f}
                 /\ crawl' = [crawl EXCEPT !.aborted = TRUE, !.failed = TRUE]
                 /\ UNCHANGED <<mem, db, txs, root, clear, loads, cache>>
LevelEnds ==
    /\ crawl # None /\ crawl.at = "level" /\ fetches = {} /\ (crawl.aborted \/ crawl.todo = {})
    /\ UNCHANGED <<db, root, fetches, clear, loads, cache, spent>>
    /\ IF ~crawl.aborted /\ crawl.depth < Scene.depth /\ crawl.next # {}
       THEN /\ crawl' = [crawl EXCEPT !.depth = @ + 1, !.todo = crawl.next, !.next = {}] /\ UNCHANGED <<mem, txs>>
       ELSE IF Scene.memory THEN /\ mem' = [mem EXCEPT !.dirtyIds = <<>>, !.dirtyRows = [n \in {} |-> {}]]
                                 /\ crawl' = [crawl EXCEPT !.at = "meta"] /\ UNCHANGED txs
       ELSE IF Clean THEN crawl' = [crawl EXCEPT !.at = "meta"] /\ UNCHANGED <<mem, txs>>
       ELSE crawl' = [crawl EXCEPT !.at = "flush"] /\ txs' = Append(txs, FlushTx) /\ UNCHANGED mem
CrawlEnds == crawl' = None /\ cache' = NoCache
\* The record of the crawl, unless it failed.
WritesMeta ==
    /\ crawl # None /\ crawl.at = "meta" /\ UNCHANGED <<db, root, fetches, clear, loads, spent>>
    /\ IF crawl.failed THEN CrawlEnds /\ UNCHANGED <<mem, txs>>
       ELSE IF Scene.memory THEN CrawlEnds /\ mem' = [mem EXCEPT !.root = crawl.root] /\ UNCHANGED txs
       ELSE /\ txs' = Append(txs, [kind |-> "meta", root |-> crawl.root]) /\ crawl' = [crawl EXCEPT !.at = "metaTx"] /\ UNCHANGED <<mem, cache>>
Stop == /\ crawl # None /\ ~crawl.aborted /\ spent.stops > 0 /\ spent' = [spent EXCEPT !.stops = @ - 1]
        /\ crawl' = [crawl EXCEPT !.aborted = TRUE]
        /\ UNCHANGED <<mem, db, txs, root, fetches, clear, loads, cache>>

-----------------------------------------------------------------------------
(* Load and clear (wot-graph.ts), transactions and restarts.               *)

Load == /\ spent.loads > 0 /\ spent' = [spent EXCEPT !.loads = @ - 1] /\ loads' = loads + 1
        /\ UNCHANGED <<mem, db, txs, root, crawl, fetches, clear, cache>>
Loaded == /\ loads > 0 /\ loads' = loads - 1 /\ mem' = Opened /\ root' = mem'.root /\ cache' = NoCache
          /\ UNCHANGED <<db, txs, crawl, fetches, clear, spent>>
Clear == /\ clear = None /\ spent.clears > 0 /\ spent' = [spent EXCEPT !.clears = @ - 1] /\ clear' = "wait"
         /\ crawl' = IF crawl = None THEN None ELSE [crawl EXCEPT !.aborted = TRUE]
         /\ UNCHANGED <<mem, db, txs, root, fetches, loads, cache>>
ClearStarts == /\ clear = "wait" /\ crawl = None /\ UNCHANGED <<db, root, crawl, fetches, loads, cache, spent>>
               /\ mem' = Opened /\ clear' = "tx" /\ txs' = IF Scene.memory THEN txs ELSE Append(txs, [kind |-> "clear"])
Wiped == /\ mem' = Forget(mem) /\ root' = None /\ cache' = NoCache /\ clear' = None
ClearsMemory == /\ clear = "tx" /\ Scene.memory /\ Wiped /\ UNCHANGED <<db, txs, crawl, fetches, loads, spent>>
Commits ==
    /\ txs # <<>> /\ txs' = Tail(txs) /\ UNCHANGED <<fetches, loads, spent>>
    /\ LET t == Head(txs)
       IN  \/ t.kind = "flush" /\ FlushCommits(t) /\ crawl' = [crawl EXCEPT !.at = "meta"] /\ UNCHANGED <<root, clear, cache>>
           \/ t.kind = "meta" /\ db' = [db EXCEPT !.root = t.root] /\ mem' = [mem EXCEPT !.root = t.root] /\ CrawlEnds /\ UNCHANGED <<root, clear>>
           \/ t.kind = "clear" /\ db' = [ids |-> [n \in {} |-> None], rows |-> Empty.rows, vers |-> Empty.vers, root |-> None] /\ Wiped /\ UNCHANGED crawl
Aborts ==
    /\ txs # <<>> /\ txs' = Tail(txs) /\ spent.faults > 0 /\ spent' = [spent EXCEPT !.faults = @ - 1]
    /\ UNCHANGED <<mem, db, root, fetches, loads>>
    /\ IF Head(txs).kind = "clear" THEN clear' = None /\ UNCHANGED <<crawl, cache>> ELSE CrawlEnds /\ UNCHANGED clear
Restart == /\ spent.restarts > 0 /\ spent' = [spent EXCEPT !.restarts = @ - 1]
           /\ mem' = [Forget(mem) EXCEPT !.open = FALSE, !.rev = 0] /\ txs' = <<>> /\ root' = None /\ crawl' = None /\ fetches' = {}
           /\ clear' = None /\ loads' = 0 /\ cache' = NoCache /\ UNCHANGED db

InitOf(n) == /\ spent = [scene |-> n, crawls |-> Scenes[n].crawls, faults |-> Scenes[n].faults, stops |-> Scenes[n].stops,
                         loads |-> Scenes[n].loads, clears |-> Scenes[n].clears, restarts |-> Scenes[n].restarts]
             /\ db = [ids |-> [k \in {} |-> None], rows |-> Empty.rows, vers |-> Empty.vers, root |-> None]
             /\ mem = [Forget([rev |-> 0, open |-> FALSE]) EXCEPT !.rev = 0]
             /\ txs = <<>> /\ root = None /\ crawl = None /\ fetches = {} /\ clear = None /\ loads = 0 /\ cache = NoCache
Init == \E n \in DOMAIN Scenes : InitOf(n)
Next == \/ \E r \in Scene.roots : Crawl(r)
        \/ CrawlOpens \/ LevelEnds \/ WritesMeta \/ Stop \/ Load \/ Loaded \/ Clear \/ ClearStarts \/ ClearsMemory
        \/ Commits \/ Aborts \/ Restart
        \/ \E h \in Scene.hops : GetDistance(h)
        \/ \E as \in SUBSET (IF crawl = None THEN {} ELSE crawl.todo) : BatchStarts(as)
        \/ \E f \in fetches : FetchEnds(f) \/ FetchFails(f) \/ \E e \in Scene.events : EventComes(f, e)
Spec == Init /\ [][Next]_vars

-----------------------------------------------------------------------------
(* Properties.                                                             *)

\* The graph is made of the follow lists that were published: in memory, on disk (numbers that
\* name nobody or somebody else would be follows nobody declared), and in what a query answers.
Published(ids, rows) == \A n \in DOMAIN rows : /\ n \in DOMAIN ids /\ ids[n] # None /\ rows[n] \subseteq DOMAIN ids
                          /\ \E e \in Scene.events : e.author = ids[n] /\ e.follows = {ids[k] : k \in rows[n]}
GraphSound ==
    /\ Published(mem.ids, mem.rows) /\ Published(db.ids, db.rows)
    /\ \A i, j \in DOMAIN db.ids : db.ids[i] = db.ids[j] => i = j
    /\ root # None => \A p \in Accounts, h \in Scene.hops : Answer(EnsureCache(root, h), root, p, h) = (IF p = root THEN 0 ELSE Hops(mem, root, p, h))
=============================================================================
