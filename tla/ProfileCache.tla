---------------------------- MODULE ProfileCache -----------------------------
(***************************************************************************)
(* The kind-0 cache of the relay hub (profile-cache.ts) over BoundedCache: *)
(* profiles by recent use, pubkeys without one by age, the trim of a tab   *)
(* that stays hidden, and the view a host keeps of it through onEvict.     *)
(***************************************************************************)
EXTENDS BoundedCache, FiniteSets

CONSTANTS Pubkeys, MaxEntries, NegativeMax, TrimTo, TrimAfter, Ttl, Cooldown, End

VARIABLES entries, negative,   \* the two maps
          tab,                 \* hidden; the time of the hidden-tab timer (0: none); watched
          clock,
          view,                \* what the host has been left with
          used                 \* history: pubkeys by last use, oldest first
vars == <<entries, negative, tab, clock, view, used>>

Positive == [max |-> MaxEntries, maxBytes |-> 0, lru |-> TRUE]
Missing  == [max |-> NegativeMax, maxBytes |-> 0, lru |-> FALSE]

\* onEvict: the cap and the trim are reported, and only they.
Evicted(before, after) == KeysOf(before) \ KeysOf(after)
Used(p) == used' = Append(SelectSeq(used, LAMBDA q : q # p), p)

Get(p) == /\ entries' = Got(entries, p, clock, Positive)
          /\ IF p \in KeysOf(entries) THEN Used(p) ELSE UNCHANGED used
          /\ UNCHANGED <<negative, tab, clock, view>>
Set(p, at) == /\ negative' = Without(negative, p)
              /\ entries' = Put(entries, p, at, 0, 0, Positive)
              /\ view' = (view \cup {p}) \ Evicted(entries, entries') /\ Used(p)
              /\ UNCHANGED <<tab, clock>>
\* Slip: the mark does not ask whether there is a profile.
MarkMissingAlways(p) == /\ negative' = Put(negative, p, clock, 0, clock + Cooldown, Missing)
                        /\ UNCHANGED <<entries, tab, clock, view, used>>
MarkMissing(p) == /\ negative' = IF p \in KeysOf(entries) THEN negative
                                 ELSE Put(negative, p, clock, 0, clock + Cooldown, Missing)
                  /\ UNCHANGED <<entries, tab, clock, view, used>>
Fresh(p) == p \in KeysOf(entries) /\ clock - EntryOf(entries, p).v < Ttl
ShouldFetch(p) == ~Fresh(p) /\ ~Hit(negative, p, clock)
\* Reading it removes an expired mark.
Asked(p) == /\ negative' = IF Fresh(p) THEN negative ELSE Peeked(negative, p, clock)
            /\ UNCHANGED <<entries, tab, clock, view, used>>
\* The caller's own delete() and clear(), after which it drops the keys from its view itself.
Delete(P) == /\ entries' = SelectSeq(entries, LAMBDA e : e.k \notin P)
             /\ negative' = SelectSeq(negative, LAMBDA e : e.k \notin P)
             /\ view' = view \ P /\ used' = SelectSeq(used, LAMBDA p : p \notin P)
             /\ UNCHANGED <<tab, clock>>

\* The document is hidden or shown; the timer is armed once and cancelled when it is shown.
Armed(hidden) == IF ~hidden THEN 0 ELSE IF tab.timer # 0 THEN tab.timer ELSE clock + TrimAfter
OnVisibility == /\ tab' = [tab EXCEPT !.hidden = ~@, !.timer = IF tab.watched THEN Armed(~tab.hidden) ELSE @]
                /\ UNCHANGED <<entries, negative, clock, view, used>>
HiddenTrim == /\ tab.timer # 0 /\ clock >= tab.timer /\ tab' = [tab EXCEPT !.timer = 0]
              /\ entries' = Trimmed(entries, TrimTo) /\ view' = view \ Evicted(entries, entries')
              /\ UNCHANGED <<negative, clock, used>>
Dispose == /\ tab.watched /\ tab' = [tab EXCEPT !.watched = FALSE, !.timer = 0]
           /\ UNCHANGED <<entries, negative, clock, view, used>>
Tick == clock < End /\ clock' = clock + 1 /\ UNCHANGED <<entries, negative, tab, view, used>>

\* A cache made in a hidden tab arms its timer at once.
InitOf(n) == /\ entries = <<>> /\ negative = <<>> /\ clock = 1 /\ view = {} /\ used = <<>>
             /\ tab = [hidden |-> n = 2, timer |-> IF n = 2 THEN 1 + TrimAfter ELSE 0, watched |-> TRUE]
Init == \E n \in 1..2 : InitOf(n)
Next == \/ \E p \in Pubkeys : Get(p) \/ Set(p, clock) \/ MarkMissing(p) \/ Asked(p) \/ Delete({p})
        \/ Delete(Pubkeys) \/ OnVisibility \/ HiddenTrim \/ Dispose \/ Tick
Spec == Init /\ [][Next]_vars

-----------------------------------------------------------------------------
\* The profiles that are kept are the most recently used of those the host has not deleted; a view that follows onEvict holds the same keys; a pubkey is not both present
\* and marked missing, and one that should be fetched is neither fresh nor in its cooldown.
KeepsTheRecent ==
    /\ Bounded(entries, Positive) /\ Bounded(negative, Missing)
    /\ IsSuffix([i \in DOMAIN entries |-> entries[i].k], used)
    /\ view = KeysOf(entries)
    /\ KeysOf(entries) \cap KeysOf(negative) = {}
    /\ tab.timer # 0 => tab.hidden
    /\ \A p \in Pubkeys : ShouldFetch(p) =>
          \A i \in DOMAIN negative : negative[i].k = p => clock - negative[i].v >= Cooldown
=============================================================================
