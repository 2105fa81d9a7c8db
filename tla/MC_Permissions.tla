--------------------------- MODULE MC_Permissions ---------------------------
(* Small instances of Permissions: what the store may hold when a scene starts, and *)
(* the calls that are made of it.                                                   *)
EXTENDS Permissions, TLC

MCHostOf == [l \in Labels |-> IF l = "site" THEN "host" ELSE l]

\* The tree with these rules and no other.
Rules(f) == [x \in Entries |-> IF x \in DOMAIN f THEN f[x] ELSE "none"]

Trees(X, D) == {Rules(f) : f \in [X -> D]}

Legacy(ts)       == {Disk(t, s, FALSE, FALSE) : t \in ts, s \in BOOLEAN}
Inherited(ts)    == {Disk(t, FALSE, TRUE, FALSE) : t \in ts}
GlobalRules(ts)      == {Disk(t, FALSE, TRUE, TRUE) : t \in ts}

Op(do, o, key, d, acct) == [NoOp EXCEPT !.do = do, !.o = o, !.key = key, !.d = d, !.acct = acct]
Check(o, m, a)     == Op("check", o, m, "ask", a)
Save(o, k, d, a)   == Op("save", o, k, d, a)
Of(do, o, a)       == Op(do, o, "note", "ask", a)
From(do, a, from)  == [Of(do, Global, a) EXCEPT !.from = from, !.others = <<"alice">>]
Plain(do)          == Of(do, Global, Default)

Scn(calls, ops, disks) ==
    [calls |-> calls, ops |-> ops, disks |-> disks, faults |-> 0, crashes |-> 0, serial |-> TRUE]

SharedRules == [x \in {<<"site", Default, "note">>} |-> "allow"]
BothRules   == SharedRules @@ [x \in {<<"site", "alice", "note">>} |-> "deny"]

\* Checks against writes, clears and the mode, before inheritance.
LegacyScene ==
    [Scn(3, {Check("site", "note", "alice"), Save("site", "note", "allow", "alice"),
          Save("host", "note", "deny", "alice"), Save("site", "dm", "deny", "alice"),
          Of("clear", "site", "alice"), Of("clearSite", "site", "alice"),
          Of("clearAll", Global, "alice"), Plain("share"), Plain("separate")},
         Legacy({Empty, Rules(BothRules)})) EXCEPT !.faults = 1, !.crashes = 1]

\* Edits of inherited and of consolidated rules.
EditScene ==
    [Scn(3, {Check("site", "note", "alice"), Save("site", "note", "allow", "alice"),
          Save(Global, "note", "deny", Default), Save("site", "note", "allow", Default),
          Op("saveRetired", "site", "dm", "allow", "alice"), Op("inheritRule", "site", "note", "ask", "alice"), Of("clearBucket", "site", "alice"),
          Of("clearAccount", Global, "alice"), Plain("reset"), From("copy", "bob", "alice"),
          From("setup", "bob", "none"), From("setup", "bob", "alice")},
         Inherited({Rules(BothRules)}) \cup
         GlobalRules({Rules([x \in {<<Global, Default, "note">>} |-> "allow"])}))
     EXCEPT !.faults = 1]

\* A new account where rules are shared, or each account's own.
SetupScene ==
    [Scn(3, {From("setup", "bob", "none"), From("setup", "bob", "alice"), Check("site", "note", "bob"),
          Of("clearSite", "site", "alice"), Plain("share")},
         Legacy({Rules(f) : f \in [{"site", "host"} \X {Default, "bob"} \X {"note"}
                                    -> {"allow", "none"}]})) EXCEPT !.faults = 1]

\* migrate() over what earlier releases stored, cut off and run again.
MigrateScene ==
    [Scn(2, {Plain("migrate"), Check("site", "dm", "alice")},
         {Disk(t, TRUE, FALSE, FALSE) : t \in
            Trees({<<"site", Flat, "blanket">>, <<"site", Flat, "dm">>, <<"site", Flat, "send">>,
                   <<"host", Default, "blanket">>, <<"host", Default, "dm">>,
                   <<"host", "alice", "send">>}, {"none", "allow", "deny", "forward"})})
     EXCEPT !.crashes = 1]

\* The journaled migrations over rules in either mode, failing and cut off.
JournalTrees ==
    Trees({<<"site", Default, "note">>, <<"host", Default, "note">>, <<"other", Default, "blanket">>,
           <<"site", "alice", "note">>, <<"host", "alice", "blanket">>}, {"none", "allow", "deny"})
    \cup Trees({<<"site", Default, "note">>, <<"host", "alice", "note">>, <<"other", Default, "note">>},
               Decisions \cup {"none"})
    \cup Trees({<<Global, Default, "note">>, <<Global, "alice", "note">>,
                <<"site", Default, "note">>, <<"site", "alice", "blanket">>}, Decisions \cup {"none"})
JournalScene ==
    [Scn(2, {Plain("toInherit"), Plain("toGlobal"), Check("site", "note", "alice")},
         Legacy(JournalTrees)) EXCEPT !.faults = 1, !.crashes = 1]

MainScenes == [legacy |-> LegacyScene, edit |-> EditScene, setup |-> SetupScene,
               migrate |-> MigrateScene, journal |-> JournalScene]

\* A migration is cut off, and the user clears everything before it is run again.
ClearScenes ==
    [clear |-> [Scn(3, {Plain("toInherit"), Of("clearAll", Global, "alice")},
                    Legacy({Rules(SharedRules)})) EXCEPT !.crashes = 1]]

SymCalls == Permutations(Calls)
=============================================================================
