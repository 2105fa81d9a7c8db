------------------------------ MODULE ReadCaches ------------------------------
(***************************************************************************)
(* The read caches of the data package (data/cache): one keyed observable  *)
(* store per kind of data, the copies some of them keep in local storage,  *)
(* and the single-flight fetches that fill them from relays.  A key is a   *)
(* bucket and an id; each has a subscriber.  A replaceable entry is its    *)
(* version, a note its age, newer ones greater.                            *)
(***************************************************************************)
EXTENDS Naturals, Sequences, SequencesExt, FiniteSets, FiniteSetsExt

CONSTANTS Callers, Keys, Flights, Scenes, None

VARIABLES slots,   \* key -> [value, status]
          told,    \* key -> the slot its subscriber was last told
          disk,    \* key -> the persisted copy [v, old], old when past its time
          flight,  \* single-flight key -> the fetch in progress
          call, spent
vars == <<slots, told, disk, flight, call, spent>>

Scene == Scenes[spent.scene]
W == [slots |-> slots, told |-> told, disk |-> disk, flight |-> flight]
Goes(w) == slots' = w.slots /\ told' = w.told /\ disk' = w.disk /\ flight' = w.flight

-----------------------------------------------------------------------------
(* The observable store (keyed-observable.ts).                             *)

Empty == [value |-> None, status |-> "idle"]
\* Stores that say which values are equal do not tell their subscribers of an equal one.
Equalled(k) == k[1] \in {"profile", "engagement"}
Notify(w, k, slot) == [w EXCEPT !.told[k] = slot]
Set(w, k, v) ==
    LET next == [value |-> v, status |-> "fresh"]
        kept == [w EXCEPT !.slots[k] = next]
    IN  IF Equalled(k) /\ w.slots[k].value = v THEN kept ELSE Notify(kept, k, next)
SetStatus(w, k, s) == LET next == [w.slots[k] EXCEPT !.status = s] IN Notify([w EXCEPT !.slots[k] = next], k, next)
\* Slip: every subscriber is told of the empty slot, whatever another one has put there meanwhile.
ClearTellsEmpty(w, b) ==
    LET held == {k \in Keys : k[1] = b /\ w.slots[k] # Empty}
        gone == [w EXCEPT !.slots = [k \in Keys |-> IF k \in held THEN Empty ELSE @[k]]]
        Tell(k, x) == LET heard == Notify(x, k, Empty)
                      IN  IF Scene.rewrites[k] = None THEN heard ELSE Set(heard, Scene.rewrites[k], 1)
    IN  FoldSet(Tell, gone, held)
\* clear(): all slots first, then each subscriber is told what its slot now holds; one may write
\* another key of the store when told that its own is empty.
Clear(w, b) ==
    LET held == {k \in Keys : k[1] = b /\ w.slots[k] # Empty}
        gone == [w EXCEPT !.slots = [k \in Keys |-> IF k \in held THEN Empty ELSE @[k]]]
        Tell(k, x) == LET heard == Notify(x, k, x.slots[k])
                      IN  IF x.slots[k] # Empty \/ Scene.rewrites[k] = None THEN heard ELSE Set(heard, Scene.rewrites[k], 1)
    IN  FoldSet(Tell, gone, held)

(* Local storage (persistence.ts) and single flights (inflight.ts).        *)

OnDisk(w, k)       == w.disk[k] # None /\ ~w.disk[k].old
Purged(w, k)       == IF w.disk[k] # None /\ w.disk[k].old THEN [w EXCEPT !.disk[k] = None] ELSE w
WriteDisk(w, k, v) == [w EXCEPT !.disk[k] = [v |-> v, old |-> FALSE]]
SingleFlight(w, f, new) == IF w.flight[f] # None THEN w ELSE [w EXCEPT !.flight[f] = new]
Landed(w, f)   == [w EXCEPT !.flight[f] = None]
NewFlight(k, errs) == [key |-> k, open |-> {"sub"}, got |-> {}, errs |-> errs, limit |-> 0, page |-> None]

-----------------------------------------------------------------------------
(* What a read does before it waits.                                       *)

\* A read that answers from the persisted copy and refreshes behind it; errs: whether such a
\* refresh that finds nothing marks the slot.
Refreshing(w, k, errs) ==
    CASE w.slots[k].value # None -> w
      [] OnDisk(w, k) -> SingleFlight(Set(w, k, w.disk[k].v), k, NewFlight(k, errs))
      [] OTHER -> SingleFlight(SetStatus(Purged(w, k), k, "loading"), k, NewFlight(k, TRUE))
\* The profile's fetch looks the author's relays up first.
GetProfile(w, p) ==
    LET k == <<"profile", p>>   x == Refreshing(w, k, TRUE)
    IN  IF w.flight[k] = None /\ x.flight[k] # None THEN [x EXCEPT !.flight[k].open = {"lookup"}] ELSE x
\* The caller writes the slot when its flight lands, its own or one it joined.
GetRelayList(w, p) ==
    LET k == <<"relays", p>>   x == Refreshing(w, k, FALSE)
    IN  IF w.slots[k].value = None /\ ~OnDisk(w, k) THEN [x EXCEPT !.flight[k].errs = TRUE] ELSE x
GetFollows(w, p) ==
    LET k == <<"follows", p>>   x == Refreshing(w, k, FALSE)
    IN  IF w.flight[k] = None /\ x.flight[k] # None THEN GetRelayList(x, p) ELSE x
GetNote(w, i) ==
    LET k == <<"note", i>>
    IN  CASE w.slots[k].value # None -> w
          [] OnDisk(w, k) -> Set(w, k, w.disk[k].v)
          [] OTHER -> SingleFlight(SetStatus(Purged(w, k), k, "loading"), k, NewFlight(k, TRUE))
GetThread(w, i) ==
    LET k == <<"thread", i>>
    IN  IF w.slots[k].value # None THEN w ELSE SingleFlight(SetStatus(w, k, "loading"), k, NewFlight(k, TRUE))
Enough(w, k, limit) == w.slots[k].value # None /\ Len(w.slots[k].value.ids) >= limit
GetAuthorNotes(w, p, limit) ==
    LET k == <<"notes", p>>
    IN  IF Enough(w, k, limit) THEN w
        ELSE SingleFlight(SetStatus(GetRelayList(w, p), k, "loading"), <<"notes", p, limit>>,
                          [NewFlight(k, TRUE) EXCEPT !.limit = limit])
HasPage(w, k) == w.slots[k].value # None /\ w.slots[k].value.oldest # 0
LoadMore(w, p, count) ==
    LET k == <<"notes", p>>   current == w.slots[k].value
    IN  IF ~HasPage(w, k) THEN GetAuthorNotes(w, p, count)
        ELSE SingleFlight(w, <<"more", p, current.oldest>>, [NewFlight(k, TRUE) EXCEPT !.page = current])
Nothing == [reaction |-> 0, repost |-> 0, zap |-> 0]
FetchEngagementBatch(w, ids) ==
    LET f == <<"batch", ids>>
        Zero(i, x) == IF x.slots[<<"engagement", i>>].value = None THEN Set(x, <<"engagement", i>>, Nothing) ELSE x
    IN  IF w.flight[f] # None \/ ids = {} THEN w
        ELSE SingleFlight(FoldSet(Zero, w, ids), f, [NewFlight(f, TRUE) EXCEPT !.open = {"reaction", "repost", "zap"}])

-----------------------------------------------------------------------------
(* The fetches (internal/sub.ts, fetchers).                                *)

\* Notes of an author as one entry: the newest, to the limit.
BuildEntry(notes, limit) ==
    LET ids == SubSeq(SetToSortSeq(notes, >), 1, Min({limit, Cardinality(notes)}))
    IN  [ids |-> ids, oldest |-> IF ids = <<>> THEN 0 ELSE ids[Len(ids)]]
Appended(page, notes) ==
    LET new == notes \ ToSet(page.ids)
    IN  [ids |-> page.ids \o SetToSortSeq(new, >), oldest |-> Min(new \cup {page.oldest})]
Counted(got, i) == [what \in DOMAIN Nothing |-> Cardinality({e \in got : e[1] = what /\ e[2] = i})]
PutNote(w, n) == Set(w, <<"note", n>>, 1)
\* What relays hold for a fetch.  A page asks for notes older than the one before.
Offered(f, fl) == IF fl.page = None THEN Scene.world[fl.key] ELSE {n \in Scene.world[fl.key] : n < fl.page.oldest}
\* An event of an open subscription: collected, and streamed into the store by the readers that do.
Streamed(w, f, e) ==
    LET fl == w.flight[f]   heard == [w EXCEPT !.flight[f].got = @ \cup {e}]
    IN  CASE fl.key[1] = "profile" -> IF \A o \in fl.got : e > o THEN WriteDisk(Set(heard, fl.key, e), fl.key, e) ELSE heard
          [] fl.key[1] = "notes" /\ fl.page = None -> Set(PutNote(heard, e), fl.key, BuildEntry(fl.got \cup {e}, fl.limit))
          [] fl.key[1] = "notes" /\ fl.page # None -> Set(PutNote(heard, e), fl.key, Appended(fl.page, fl.got \cup {e}))
          [] OTHER -> heard
\* The fetch ends: by the end of stored events, a timeout, or the first event where one is enough.
Settled(w, f) ==
    LET fl == w.flight[f]   k == fl.key   down == Landed(w, f)
    IN  CASE k[1] \in {"follows", "relays", "note"} ->
               IF fl.got # {} THEN WriteDisk(Set(down, k, Max(fl.got)), k, Max(fl.got))
               ELSE IF fl.errs THEN SetStatus(down, k, "error") ELSE down
          [] k[1] = "profile" -> IF fl.got = {} THEN SetStatus(down, k, "error") ELSE down
          [] k[1] = "notes" -> IF fl.page = None THEN Set(down, k, BuildEntry(fl.got, fl.limit)) ELSE down
          [] k[1] = "thread" ->
               FetchEngagementBatch(Set(FoldSet(LAMBDA n, x : PutNote(x, n), down, fl.got), k, SetToSortSeq(fl.got, <)), fl.got)
          [] k[1] = "batch" -> FoldSet(LAMBDA i, x : Set(x, <<"engagement", i>>, Counted(fl.got, i)), down, k[2])

-----------------------------------------------------------------------------
(* Steps.                                                                  *)

Waits(c, f, now) == call' = [call EXCEPT ![c] = [at |-> IF now THEN "answered" ELSE "waits", flight |-> f]]
Ask(c) ==
    LET op == Scene.ops[c]   k == <<op.do, op.id>>   here == slots[k].value # None \/ OnDisk(W, k)
    IN  /\ call[c].at = "idle" /\ UNCHANGED spent
        /\ \/ op.do = "profile" /\ Goes(GetProfile(W, op.id)) /\ Waits(c, k, here)
           \/ op.do = "relays" /\ Goes(GetRelayList(W, op.id)) /\ Waits(c, k, here)
           \/ op.do = "follows" /\ Goes(GetFollows(W, op.id)) /\ Waits(c, k, here)
           \/ op.do = "note" /\ Goes(GetNote(W, op.id)) /\ Waits(c, k, here)
           \/ op.do = "thread" /\ Goes(GetThread(W, op.id)) /\ Waits(c, k, slots[k].value # None)
           \/ op.do = "notes" /\ ~op.more /\ Goes(GetAuthorNotes(W, op.id, op.n))
              /\ Waits(c, <<"notes", op.id, op.n>>, Enough(W, k, op.n))
           \/ op.do = "notes" /\ op.more /\ Goes(LoadMore(W, op.id, op.n))
              /\ Waits(c, IF HasPage(W, k) THEN <<"more", op.id, slots[k].value.oldest>> ELSE <<"notes", op.id, op.n>>,
                       ~HasPage(W, k) /\ Enough(W, k, op.n))
LookedUp(f) == /\ flight[f] # None /\ flight[f].open = {"lookup"} /\ UNCHANGED <<slots, told, disk, call, spent>>
               /\ flight' = [flight EXCEPT ![f].open = {"sub"}]
Lands(f, w) == /\ Goes(Settled(w, f)) /\ UNCHANGED spent
               /\ call' = [c \in Callers |-> IF call[c].at = "waits" /\ call[c].flight = f THEN [call[c] EXCEPT !.at = "answered"] ELSE call[c]]
EventComes(f, e) ==
    /\ flight[f] # None /\ e \in Offered(f, flight[f]) \ flight[f].got
    /\ "sub" \in flight[f].open \/ (f[1] = "batch" /\ e[1] \in flight[f].open)
    /\ IF flight[f].key[1] = "note" THEN Lands(f, Streamed(W, f, e)) ELSE Goes(Streamed(W, f, e)) /\ UNCHANGED <<call, spent>>
SubEnds(f, s) ==
    /\ flight[f] # None /\ s \in flight[f].open \ {"lookup"}
    /\ LET ended == [W EXCEPT !.flight[f].open = @ \ {s}]
       IN  IF ended.flight[f].open = {} THEN Lands(f, ended) ELSE Goes(ended) /\ UNCHANGED <<call, spent>>
Ages(k) == /\ disk[k] # None /\ ~disk[k].old /\ disk' = [disk EXCEPT ![k].old = TRUE]
           /\ UNCHANGED <<slots, told, flight, call, spent>>
\* clear() is the host's; once per run of the model.
ClearStore(b) == /\ b \in spent.clears /\ spent' = [spent EXCEPT !.clears = @ \ {b}] /\ Goes(Clear(W, b)) /\ UNCHANGED call

InitOf(n) ==
    /\ spent = [scene |-> n, clears |-> Scenes[n].clears]
    /\ slots = [k \in Keys |-> Empty] /\ told = [k \in Keys |-> Empty]
    /\ disk = [k \in Keys |-> IF k \in Scenes[n].disk THEN [v |-> 1, old |-> FALSE] ELSE None]
    /\ flight = [f \in Flights |-> None] /\ call = [c \in Callers |-> [at |-> "idle"]]
Init == \E n \in DOMAIN Scenes : InitOf(n)
Next == \/ \E c \in Callers : Ask(c)
        \/ \E f \in Flights : \/ LookedUp(f) \/ \E s \in {"sub", "reaction", "repost", "zap"} : SubEnds(f, s)
                              \/ flight[f] # None /\ \E e \in Offered(f, flight[f]) : EventComes(f, e)
        \/ \E k \in Keys : Ages(k) \/ ClearStore(k[1])
Spec == Init /\ [][Next]_vars

-----------------------------------------------------------------------------
(* Properties.                                                             *)

\* A slot that says it is loading has a fetch that will settle it.  The exceptions: a profile or a
\* follow list asked for again after a clear, behind a fetch that began before it and that has
\* streamed what it had, or marks no error.
LoadingIsCarried ==
    \A k \in Keys : slots[k].status = "loading" =>
        \/ \E f \in Flights : flight[f] # None /\ flight[f].key = k /\ flight[f].open # {}
        \/ k[1] \in {"profile", "follows"} /\ k[1] \in Scene.clears \ spent.clears
\* A subscriber knows the value of its slot, through writes, refreshes and clears, with the
\* status that goes with it unless the store calls the new value equal to the old.
SubscribersCurrent ==
    \A k \in Keys : /\ told[k].value = slots[k].value
                    /\ told[k].status # slots[k].status => Equalled(k) /\ slots[k].status = "fresh"
\* The rows of an author's page are notes the note cache has, and its cursor is its oldest row.
PagesWhole ==
    \A k \in Keys : k[1] = "notes" /\ slots[k].value # None =>
        LET page == slots[k].value
        IN  /\ IsInjective(page.ids) /\ page.oldest = (IF page.ids = <<>> THEN 0 ELSE Min(ToSet(page.ids)))
            /\ "note" \notin Scene.clears => \A n \in ToSet(page.ids) : slots[<<"note", n>>].value # None
CallsCarried == \A c \in Callers : call[c].at = "waits" => flight[call[c].flight] # None
CachesHonest == LoadingIsCarried /\ SubscribersCurrent /\ PagesWhole /\ CallsCarried
=============================================================================
