--------------------------- MODULE PermissionRules ---------------------------
(***************************************************************************)
(* What a stored permission tree says: the scopes of scope.ts, the layers  *)
(* and edits of store.ts and the cascade of key.ts, as functions of a      *)
(* tree.  A tree gives every entry, a label's bucket and key, a decision   *)
(* or "none".  A rule that sits directly on its label, as those of the     *)
(* oldest stores do, is in the bucket Flat.                                *)
(*                                                                         *)
(* Keys stand for the levels the cascade tells apart: "note" for a kind    *)
(* that is its own key, "dm" for the retired keys of the direct message    *)
(* kinds, "send" for the group they became, "relay" for kind 22242, and    *)
(* "blanket" for the bare method and the wildcard, which every method of   *)
(* one kind consults after its own key.                                    *)
(***************************************************************************)
EXTENDS Naturals

CONSTANTS
    Labels,     \* what rules are stored under: origins, hostnames, and Global
    HostOf,     \* the hostname under an http origin; any other label itself
    Global,     \* _global, the scope of the shared rules
    Accounts,
    Keys        \* the keys of this instance

AllKeys == {"note", "dm", "send", "relay", "blanket"}

ASSUME RulesAssumption ==
    /\ Global \in Labels /\ HostOf \in [Labels -> Labels] /\ HostOf[Global] = Global
    /\ \A l \in Labels : HostOf[HostOf[l]] = HostOf[l]
    /\ Keys \subseteq AllKeys
    /\ {"_default", "flat", "none"} \cap Accounts = {}

Default == "_default"
Flat    == "flat"
Buckets == Accounts \cup {Default, Flat}
Callers == Labels \ {Global}
Entries == Labels \X Buckets \X Keys

Decisions == {"allow", "ask", "deny"}
Tree      == [Entries -> Decisions \cup {"forward", "none"}]
Empty     == [x \in Entries |-> "none"]

Over(upper, lower) == IF upper # "none" THEN upper ELSE lower
Asked(d)           == Over(d, "ask")

----------------------------------------------------------------------------
(* Reading.                                                                *)

Scopes(l) == {l, HostOf[l]}

\* The exact origin's rules over its hostname's.
OriginBucket(t, l, b) == [k \in Keys |-> Over(t[<<l, b, k>>], t[<<HostOf[l], b, k>>])]

\* With inheritance: global rules, the site's, the account's, the later the stronger.
Effective(t, l, a) ==
    [k \in Keys |-> Over(OriginBucket(t, l, a)[k],
                    Over(OriginBucket(t, l, Default)[k],
                    Over(OriginBucket(t, Global, a)[k], OriginBucket(t, Global, Default)[k])))]

\* The rules one request is answered from.
Active(t, inherit, shared, l, a) ==
    IF inherit THEN Effective(t, l, a)
    ELSE OriginBucket(t, l, IF shared THEN Default ELSE a)

Methods   == {"note", "dm", "relay"}
KeyOf(m)  == IF m = "dm" THEN "send" ELSE m
Rule(v, k) == IF k \in Keys THEN v[k] ELSE "none"

\* Deny wins at every level; an allow never answers for a relay; then the narrower level.
Resolve(v, m) ==
    IF "deny" \in {Rule(v, KeyOf(m)), Rule(v, "blanket")} THEN "deny"
    ELSE IF m = "relay" THEN "ask"
    ELSE Asked(Over(Rule(v, KeyOf(m)), Rule(v, "blanket")))

----------------------------------------------------------------------------
(* Edits.                                                                  *)

Dropped(t, X) == [x \in Entries |-> IF x \in X THEN "none" ELSE t[x]]

Holds(t, l, b)  == \E k \in Keys : t[<<l, b, k>>] # "none"
Stored(t)       == {l \in Labels : \E b \in Buckets : Holds(t, l, b)}
SiteEntries(l)  == Scopes(l) \X Buckets \X Keys
Bucket(l, b)    == Scopes(l) \X {b} \X Keys

\* copyPermissions(): a bucket that has rules replaces the target's, label by label.
Copied(t, from, to, consolidated) ==
    LET sources == {l \in Labels : Holds(t, l, from)} \ (IF consolidated THEN {Global} ELSE {})
    IN  [x \in Entries |-> IF x[2] = to /\ x[1] \in sources THEN t[<<x[1], from, x[3]>>] ELSE t[x]]

\* setupNewAccountPermissions() with inheritance: the new account's bucket is made anew
\* at every label there is, from the source's rules or, at first, so as to ask.
SetUp(t, new, source, consolidated) ==
    LET ls == Stored(t) \ (IF consolidated THEN {Global} ELSE {})
        Anew(l, k) ==
            LET shared == OriginBucket(t, l, Default)[k]
            IN  IF consolidated THEN (IF source = "none" THEN "none" ELSE t[<<l, source, k>>])
                ELSE IF source = "none" THEN (IF shared = "none" THEN "none" ELSE "ask")
                ELSE Over(OriginBucket(t, l, source)[k], shared)
    IN  [x \in Entries |-> IF x[2] = new /\ x[1] \in ls THEN Anew(x[1], x[3]) ELSE t[x]]

\* resetAccountRules(): the shared rules alone.
Reset(t) == [x \in Entries |-> IF x[2] = Default THEN t[x] ELSE "none"]

----------------------------------------------------------------------------
(* The migrations of earlier releases.                                     *)

\* Slip: a blanket refusal is retired with the blanket grants.
PerKindAll(t) ==
    [x \in Entries |-> IF x[3] = "blanket" /\ (x[2] = Flat <=> ~Holds(t, x[1], Default))
                       THEN "none" ELSE t[x]]

\* A blanket grant is retired: in the buckets of a label that has the shared one, else
\* only among the rules that sit directly on it.
PerKind(t) ==
    [x \in Entries |->
        IF x[3] = "blanket" /\ t[x] # "deny" /\ (x[2] = Flat <=> ~Holds(t, x[1], Default))
        THEN "none" ELSE t[x]]

\* Rules directly on a label without a shared bucket become that bucket.
PerAccount(t) ==
    [x \in Entries |->
        IF Holds(t, x[1], Default) THEN t[x]
        ELSE IF x[2] = Default THEN t[<<x[1], Flat, x[3]>>]
        ELSE IF x[2] = Flat THEN "none" ELSE t[x]]

ForwardToAsk(t) == [x \in Entries |-> IF x[2] # Flat /\ t[x] = "forward" THEN "ask" ELSE t[x]]

Restrictiveness == [none |-> 0, forward |-> 0, allow |-> 1, ask |-> 2, deny |-> 3]

\* The direct message kinds fold into their group, the most restrictive decision of both.
DmFold(t) ==
    LET Chosen(l, b) ==
          LET dm == t[<<l, b, "dm">>]  send == t[<<l, b, "send">>]
          IN  IF dm # "none" /\ (send = "none" \/ Restrictiveness[dm] > Restrictiveness[send])
              THEN dm ELSE send
    IN  IF ~{"dm", "send"} \subseteq Keys THEN t
        ELSE [x \in Entries |-> IF x[2] = Flat THEN t[x]
                                ELSE IF x[3] = "dm" THEN "none"
                                ELSE IF x[3] = "send" THEN Chosen(x[1], x[2]) ELSE t[x]]

----------------------------------------------------------------------------
(* Inheritance and global rules.                                           *)

\* Slip: an account keeps its own rules and nothing is put over the shared ones.
InheritanceUncovered(t, shared) ==
    LET Own(l, k, a) == OriginBucket(t, l, a)[k]
    IN  [x \in Entries |->
            IF x[1] \notin Stored(t) THEN t[x]
            ELSE IF shared THEN (IF x[2] = Default THEN t[x] ELSE "none")
            ELSE IF x[2] \in Accounts THEN Own(x[1], x[3], x[2]) ELSE t[x]]

\* migrateToInheritance(): the shared rules alone if they were in force; else the account's,
\* with an "ask" over every shared rule that was not.
Inheritance(t, shared) ==
    LET Own(l, k, a) ==
          Over(OriginBucket(t, l, a)[k],
               IF OriginBucket(t, l, Default)[k] # "none" THEN "ask" ELSE "none")
    IN  [x \in Entries |->
            IF x[1] \notin Stored(t) THEN t[x]
            ELSE IF shared THEN (IF x[2] = Default THEN t[x] ELSE "none")
            ELSE IF x[2] \in Accounts THEN Own(x[1], x[3], x[2]) ELSE t[x]]

\* The shared rules of all sites become one set, the most restrictive of each key.
Merged(t) ==
    LET At(k)        == {t[<<l, Default, k>>] : l \in Callers}
        Strictest(k) == IF "deny" \in At(k) THEN "deny" ELSE IF "ask" \in At(k) THEN "ask"
                        ELSE IF "allow" \in At(k) THEN "allow" ELSE "none"
    IN  [x \in Entries |->
            IF x[1] # Global THEN (IF x[2] = Default THEN "none" ELSE t[x])
            ELSE IF x[2] # Default THEN "none"
            ELSE Over(t[x], Strictest(x[3]))]

\* Where that changes what an account is told at these labels, its own rule restores it.
Restored(old, t, ls) ==
    [x \in Entries |->
        LET was == Asked(Effective(old, x[1], x[2])[x[3]])
        IN  IF x[1] \in ls /\ x[2] \in Accounts /\ Asked(Effective(t, x[1], x[2])[x[3]]) # was
            THEN was ELSE t[x]]

\* Slip: what was unset is left unset, for the merged rules to answer.
ConsolidatedOverAbsence(t, known) ==
    LET origins == (Stored(t) \ {Global}) \cup known
        hosts   == {l \in origins : HostOf[l] = l}
        Back(old, u, ls) ==
            [x \in Entries |->
                IF x[1] \in ls /\ x[2] \in Accounts /\ Effective(old, x[1], x[2])[x[3]] # "none"
                THEN Restored(old, u, ls)[x] ELSE u[x]]
    IN  Back(t, Back(t, Merged(t), hosts), origins \ hosts)

\* migrateToGlobalRules(): hostnames first, since origins inherit what they are given.
Consolidated(t, known) ==
    LET origins == (Stored(t) \ {Global}) \cup known
        hosts   == {l \in origins : HostOf[l] = l}
    IN  Restored(t, Restored(t, Merged(t), hosts), origins \ hosts)
=============================================================================
