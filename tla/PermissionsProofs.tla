------------------------- MODULE PermissionsProofs -------------------------
(***************************************************************************)
(* What Permissions promises, for all labels, accounts, keys, calls and    *)
(* scenes: its types; that the cache is what the store holds; that a       *)
(* commit touches only what its operation is about; that no stage of       *)
(* migrate() loses a refusal; and, of hosts that let no migration overlap  *)
(* another call, that a check is answered from the store, and that no      *)
(* migration and no setup of a new account with nothing loosens a rule.    *)
(***************************************************************************)
EXTENDS Permissions, SequenceTheorems, TLAPS

Vals == Decisions \cup {"forward", "none"}

----------------------------------------------------------------------------
(* Entries and trees.                                                      *)

LEMMA EntryParts ==
    ASSUME NEW x \in Entries
    PROVE  /\ x[1] \in Labels /\ x[2] \in Buckets /\ x[3] \in Keys
           /\ x = <<x[1], x[2], x[3]>>
  BY DEF Entries

LEMMA EntryOf ==
    ASSUME NEW l \in Labels, NEW b \in Buckets, NEW k \in Keys
    PROVE  <<l, b, k>> \in Entries
  BY DEF Entries

LEMMA ReadType ==
    ASSUME NEW t \in Tree, NEW l \in Labels, NEW b \in Buckets, NEW k \in Keys
    PROVE  t[<<l, b, k>>] \in Vals
  BY EntryOf DEF Tree, Vals

LEMMA BucketParts == Default \in Buckets /\ Flat \in Buckets /\ Accounts \subseteq Buckets /\ Global \in Labels
  BY RulesAssumption DEF Buckets

LEMMA HostType == ASSUME NEW l \in Labels PROVE HostOf[l] \in Labels
  BY RulesAssumption

LEMMA OriginType ==
    ASSUME NEW t \in Tree, NEW l \in Labels, NEW b \in Buckets
    PROVE  OriginBucket(t, l, b) \in [Keys -> Vals]
  BY ReadType, HostType DEF OriginBucket, Over

LEMMA EffectiveType ==
    ASSUME NEW t \in Tree, NEW l \in Labels, NEW a \in Buckets
    PROVE  Effective(t, l, a) \in [Keys -> Vals]
  BY OriginType, BucketParts DEF Effective, Over

LEMMA DroppedType == ASSUME NEW t \in Tree, NEW X PROVE Dropped(t, X) \in Tree
  BY DEF Dropped, Tree

LEMMA CopiedType ==
    ASSUME NEW t \in Tree, NEW from \in Buckets, NEW to, NEW cons
    PROVE  Copied(t, from, to, cons) \in Tree
  BY ReadType, EntryParts DEF Copied, Tree, Vals

LEMMA SetUpType ==
    ASSUME NEW t \in Tree, NEW new, NEW source \in Buckets \cup {"none"}, NEW cons
    PROVE  SetUp(t, new, source, cons) \in Tree
  <1> DEFINE Anew(l, k) ==
            LET shared == OriginBucket(t, l, Default)[k]
            IN  IF cons THEN (IF source = "none" THEN "none" ELSE t[<<l, source, k>>])
                ELSE IF source = "none" THEN (IF shared = "none" THEN "none" ELSE "ask")
                ELSE Over(OriginBucket(t, l, source)[k], shared)
  <1>1. ASSUME NEW l \in Labels, NEW k \in Keys PROVE Anew(l, k) \in Vals
    BY <1>1, ReadType, OriginType, BucketParts DEF Over, Vals, Decisions, Buckets
  <1>2. \A x \in Entries : Anew(x[1], x[3]) \in Vals
    BY <1>1, EntryParts
  <1> HIDE DEF Anew
  <1>3. SetUp(t, new, source, cons) =
          [x \in Entries |-> IF x[2] = new /\ x[1] \in Stored(t) \ (IF cons THEN {Global} ELSE {})
                             THEN Anew(x[1], x[3]) ELSE t[x]]
    BY DEF SetUp, Anew
  <1> QED BY <1>2, <1>3 DEF Tree, Vals

LEMMA ResetType == ASSUME NEW t \in Tree PROVE Reset(t) \in Tree
  BY DEF Reset, Tree

LEMMA PerKindType == ASSUME NEW t \in Tree PROVE PerKind(t) \in Tree
  BY DEF PerKind, Tree

LEMMA PerAccountType == ASSUME NEW t \in Tree PROVE PerAccount(t) \in Tree
  BY ReadType, EntryParts, BucketParts DEF PerAccount, Tree, Vals

LEMMA ForwardType == ASSUME NEW t \in Tree PROVE ForwardToAsk(t) \in Tree
  BY DEF ForwardToAsk, Tree, Decisions

LEMMA DmFoldType == ASSUME NEW t \in Tree PROVE DmFold(t) \in Tree
  BY ReadType, EntryParts DEF DmFold, Tree, Vals

LEMMA InheritanceType == ASSUME NEW t \in Tree, NEW sh PROVE Inheritance(t, sh) \in Tree
  <1> DEFINE Own(l, k, a) ==
          Over(OriginBucket(t, l, a)[k],
               IF OriginBucket(t, l, Default)[k] # "none" THEN "ask" ELSE "none")
  <1>1. ASSUME NEW l \in Labels, NEW k \in Keys, NEW a \in Accounts PROVE Own(l, k, a) \in Vals
    BY OriginType, BucketParts DEF Over, Vals, Decisions
  <1>2. \A x \in Entries : x[2] \in Accounts => Own(x[1], x[3], x[2]) \in Vals
    BY <1>1, EntryParts
  <1> HIDE DEF Own
  <1>3. Inheritance(t, sh) =
          [x \in Entries |->
            IF x[1] \notin Stored(t) THEN t[x]
            ELSE IF sh THEN (IF x[2] = Default THEN t[x] ELSE "none")
            ELSE IF x[2] \in Accounts THEN Own(x[1], x[3], x[2]) ELSE t[x]]
    BY DEF Inheritance, Own
  <1> QED BY <1>2, <1>3 DEF Tree, Vals

LEMMA MergedType == ASSUME NEW t \in Tree PROVE Merged(t) \in Tree
  <1> DEFINE At_(k) == {t[<<l, Default, k>>] : l \in Callers}
             S(k)   == IF "deny" \in At_(k) THEN "deny" ELSE IF "ask" \in At_(k) THEN "ask"
                       ELSE IF "allow" \in At_(k) THEN "allow" ELSE "none"
  <1>1. \A k : S(k) \in Vals
    BY DEF Vals, Decisions
  <1> HIDE DEF S
  <1>2. Merged(t) =
          [x \in Entries |->
            IF x[1] # Global THEN (IF x[2] = Default THEN "none" ELSE t[x])
            ELSE IF x[2] # Default THEN "none"
            ELSE Over(t[x], S(x[3]))]
    BY DEF Merged, S
  <1> QED BY <1>1, <1>2 DEF Tree, Vals, Over

LEMMA RestoredType ==
    ASSUME NEW old \in Tree, NEW t \in Tree, NEW ls
    PROVE  Restored(old, t, ls) \in Tree
  <1> DEFINE W(x) == Asked(Effective(old, x[1], x[2])[x[3]])
  <1>1. \A x \in Entries : W(x) \in Vals
    BY EffectiveType, EntryParts DEF Asked, Over, Vals, Decisions
  <1> HIDE DEF W
  <1>2. Restored(old, t, ls) =
          [x \in Entries |->
            IF x[1] \in ls /\ x[2] \in Accounts /\ Asked(Effective(t, x[1], x[2])[x[3]]) # W(x)
            THEN W(x) ELSE t[x]]
    BY DEF Restored, W
  <1> QED BY <1>1, <1>2 DEF Tree, Vals

LEMMA ConsolidatedType == ASSUME NEW t \in Tree, NEW known PROVE Consolidated(t, known) \in Tree
  BY MergedType, RestoredType DEF Consolidated

LEMMA EmptyType == Empty \in Tree
  BY DEF Empty, Tree

----------------------------------------------------------------------------
(* What a check is told.                                                   *)

LEMMA ResolveType ==
    ASSUME NEW v \in [Keys -> Vals], NEW m
    PROVE  Resolve(v, m) \in Said \ {"refused"}
  <1>1. \A k : Rule(v, k) \in Vals
    BY DEF Rule, Vals
  <1> QED BY <1>1 DEF Resolve, Asked, Over, Said, Vals, Decisions

LEMMA ActiveType ==
    ASSUME NEW t \in Tree, NEW i, NEW s, NEW l \in Labels, NEW a \in Buckets
    PROVE  Active(t, i, s, l, a) \in [Keys -> Vals]
  BY OriginType, EffectiveType, BucketParts DEF Active

LEMMA OpParts ==
    ASSUME NEW op \in Ops
    PROVE  /\ op.do \in OpNames /\ op.o \in Labels /\ op.d \in Decisions
           /\ op.acct \in Buckets /\ op.from \in Buckets \cup {"none"}
           /\ op.others \in Seq(Accounts)
           /\ op.do = "copy" => op.from \in Buckets
  BY BucketParts DEF Ops, Buckets

LEMMA CouldType ==
    ASSUME NEW d \in Disks, NEW op \in Ops
    PROVE  Could(d, op) \in SUBSET (BOOLEAN \X Said)
  <1>1. ASSUME NEW e \in Disks PROVE Told(e, op) \in Said
    BY ActiveType, ResolveType, OpParts DEF Told, Disks, Said
  <1>2. \A s \in BOOLEAN : [d EXCEPT !.shared = s] \in Disks
    BY DEF Disks
  <1>3. \A s \in BOOLEAN : Told([d EXCEPT !.shared = s], op) \in Said
    BY <1>1, <1>2
  <1>4. \A s \in BOOLEAN : <<s, Told([d EXCEPT !.shared = s], op)>> \in BOOLEAN \X Said
    BY <1>3
  <1> QED BY <1>4 DEF Could

----------------------------------------------------------------------------
(* What an edit makes of a tree.                                           *)

LEMMA EditedType ==
    ASSUME NEW s \in Ops, NEW b \in Buckets, NEW t \in Tree
    PROVE  Edited(s, b, t) \in Tree
  <1>1. CASE s.do \in {"save", "saveRetired"}
    BY <1>1, OpParts DEF Edited, Tree
  <1>2. CASE s.do = "copy"
    BY <1>2, OpParts, CopiedType DEF Edited
  <1>3. CASE s.do = "setUp"
    BY <1>3, OpParts, SetUpType DEF Edited
  <1>4. CASE s.do = "reset"
    BY <1>4, ResetType DEF Edited
  <1>5. CASE s.do \in {"perKind", "perAccount", "forward", "dmFold"}
    BY <1>5, PerKindType, PerAccountType, ForwardType, DmFoldType DEF Edited
  <1>6. CASE s.do \notin {"save", "saveRetired", "copy", "setUp", "reset",
                           "perKind", "perAccount", "forward", "dmFold"}
    BY <1>6, DroppedType DEF Edited
  <1> QED BY <1>1, <1>2, <1>3, <1>4, <1>5, <1>6

LEMMA EditedReach ==
    ASSUME NEW s \in Ops, NEW b \in Buckets, NEW t \in Tree, NEW x \in Entries \ Reach(s, b)
    PROVE  Edited(s, b, t)[x] = t[x]
  <1>1. CASE s.do \in {"save", "saveRetired"}
    <2>1. x # <<s.o, b, s.key>>
      BY <1>1 DEF Reach
    <2> QED BY <1>1, <2>1 DEF Edited, Tree
  <1>2. CASE s.do \in {"copy", "setUp"}
    <2>1. x[2] # s.acct
      BY <1>2, EntryParts DEF Reach
    <2>2. CASE s.do = "copy"
      BY <2>1, <2>2 DEF Edited, Copied
    <2>3. CASE s.do = "setUp"
      BY <2>1, <2>3 DEF Edited, SetUp
    <2> QED BY <1>2, <2>2, <2>3
  <1>3. CASE s.do = "reset"
    BY <1>3 DEF Reach, Edited, Reset
  <1>4. CASE s.do \in {"clear", "clearSite", "inheritRule", "clearBucket", "clearAccount"}
    BY <1>4 DEF Edited, Dropped
  <1>5. CASE s.do \notin {"save", "saveRetired", "copy", "setUp", "reset", "clear", "clearSite",
                           "inheritRule", "clearBucket", "clearAccount"}
    <2>1. Reach(s, b) = Entries
      BY <1>5 DEF Reach
    <2> QED BY <2>1
  <1> QED BY <1>1, <1>2, <1>3, <1>4, <1>5

MigrateStages == {"perKind", "perAccount", "forward", "dmFold"}

LEMMA StagesKeepDenials ==
    ASSUME NEW s \in Ops, s.do \in MigrateStages, NEW b \in Buckets, NEW t \in Tree,
           NEW x \in Entries, t[x] = "deny"
    PROVE  \E y \in {x[2], Default}, k \in {x[3], "send"} \cap Keys :
              Edited(s, b, t)[<<x[1], y, k>>] = "deny"
  <1>1. x = <<x[1], x[2], x[3]>> /\ x[1] \in Labels /\ x[2] \in Buckets /\ x[3] \in Keys
    BY EntryParts
  <1>2. CASE s.do = "perKind"
    <2>1. Edited(s, b, t)[x] = "deny"
      BY <1>2 DEF Edited, PerKind
    <2> QED BY <1>1, <2>1
  <1>3. CASE s.do = "perAccount"
    <2>1. CASE Holds(t, x[1], Default) \/ x[2] \notin {Default, Flat}
      <3>1. Edited(s, b, t)[x] = "deny"
        BY <1>3, <2>1 DEF Edited, PerAccount
      <3> QED BY <1>1, <3>1
    <2>2. CASE ~Holds(t, x[1], Default) /\ x[2] = Flat
      <3> DEFINE y == <<x[1], Default, x[3]>>
      <3>1. y \in Entries /\ y[1] = x[1] /\ y[2] = Default /\ y[3] = x[3]
        BY <1>1, EntryOf, BucketParts
      <3>2. Edited(s, b, t)[y] = t[<<x[1], Flat, x[3]>>]
        BY <1>3, <2>2, <3>1 DEF Edited, PerAccount
      <3>3. t[<<x[1], Flat, x[3]>>] = "deny"
        BY <1>1, <2>2
      <3> QED BY <1>1, <3>2, <3>3
    <2>3. ~(~Holds(t, x[1], Default) /\ x[2] = Default)
      BY <1>1 DEF Holds
    <2> QED BY <2>1, <2>2, <2>3
  <1>4. CASE s.do = "forward"
    <2>1. Edited(s, b, t)[x] = "deny"
      BY <1>4 DEF Edited, ForwardToAsk
    <2> QED BY <1>1, <2>1
  <1>5. CASE s.do = "dmFold"
    <2> DEFINE y == <<x[1], x[2], "send">>
    <2>1. CASE ~({"dm", "send"} \subseteq Keys) \/ x[2] = Flat \/ x[3] \notin {"dm", "send"}
      <3>1. Edited(s, b, t)[x] = "deny"
        BY <1>5, <2>1 DEF Edited, DmFold
      <3> QED BY <1>1, <3>1
    <2>2. CASE {"dm", "send"} \subseteq Keys /\ x[2] # Flat /\ x[3] \in {"dm", "send"}
      <3>1. y \in Entries /\ y[1] = x[1] /\ y[2] = x[2] /\ y[3] = "send"
        BY <1>1, <2>2, EntryOf
      <3>2. t[<<x[1], x[2], "dm">>] = "deny" \/ t[<<x[1], x[2], "send">>] = "deny"
        BY <1>1, <2>2
      <3>3. t[<<x[1], x[2], "dm">>] \in Vals /\ t[<<x[1], x[2], "send">>] \in Vals
        BY <1>1, <2>2, ReadType
      <3>4. Edited(s, b, t)[y] = "deny"
        BY <1>5, <2>2, <3>1, <3>2, <3>3 DEF Edited, DmFold, Restrictiveness, Vals, Decisions
      <3> QED BY <1>1, <2>2, <3>4
    <2> QED BY <2>1, <2>2
  <1> QED BY <1>2, <1>3, <1>4, <1>5 DEF MigrateStages

----------------------------------------------------------------------------
(* The inductive invariant.  A call that drafts, journals or finishes has  *)
(* the lock, so nobody else writes the tree or the journal meanwhile, and  *)
(* what it will commit is still an edit of the tree as it is.              *)

Staged == {"lane", "commit", "flip", "stamp", "journal"} \cup Finishing
Locked == {"commit", "journal"} \cup Finishing

CallInv(c) ==
    /\ call[c].at \in Staged => call[c].todo # <<>>
    /\ call[c].at \in Locked => HasLock(c)
    /\ call[c].at \in Finishing => disk.pending # None
    /\ call[c].at \in {"load", "again?", "commit"} => call[c].bucket \in Buckets
    /\ call[c].at \in {"again?", "commit", "journal"} => call[c].tree \in Tree
    /\ call[c].at = "commit" => call[c].tree = Edited(Stage(c), call[c].bucket, disk.tree)
    /\ call[c].at \in Locked \cup {"lane"} => Stage(c).do # "stamp"
    /\ call[c].at \in {"inherit?", "shared?"} => call[c].op.do \in {"check", "setup"}
    /\ call[c].op.do = "migrate" =>
          \A i \in 1..Len(call[c].todo) : call[c].todo[i].do \in MigrateStages \cup {"stamp"}

Inv == TypeOK /\ CacheHonest /\ \A c \in Calls : CallInv(c)

----------------------------------------------------------------------------
(* Calls and the lock.                                                     *)

LEMMA AsType ==
    ASSUME NEW op \in Ops, NEW do \in OpNames, do = "copy" => op.from # "none"
    PROVE  As(op, do) \in Ops /\ As(op, do).do = do
  BY DEF As, Ops

LEMMA ProgramType ==
    ASSUME NEW op \in Ops
    PROVE  /\ Program(op) \in Seq(Ops) /\ Program(op) # <<>>
           /\ op.do = "migrate" =>
                 \A i \in 1..Len(Program(op)) : Program(op)[i].do \in MigrateStages \cup {"stamp"}
  <1>1. CASE op.do = "migrate"
    <2>1. Program(op) = <<As(op, "perKind"), As(op, "perAccount"), As(op, "forward"),
                          As(op, "dmFold"), As(op, "stamp")>>
      BY <1>1 DEF Program
    <2>2. ASSUME NEW n \in MigrateStages \cup {"stamp"} PROVE As(op, n) \in Ops /\ As(op, n).do = n
      <3>1. n \in OpNames /\ n # "copy"
        BY DEF MigrateStages, OpNames
      <3> QED BY <3>1, AsType
    <2>3. Program(op) \in Seq(Ops) /\ Len(Program(op)) = 5
      BY <2>1, <2>2 DEF MigrateStages
    <2>4. ASSUME NEW i \in 1..5 PROVE Program(op)[i].do \in MigrateStages \cup {"stamp"}
      <3>1. i = 1 \/ i = 2 \/ i = 3 \/ i = 4 \/ i = 5
        OBVIOUS
      <3>2. \A n \in {"perKind", "perAccount", "forward", "dmFold", "stamp"} : As(op, n).do = n
        BY <2>2 DEF MigrateStages
      <3>3. Program(op)[i] \in {As(op, "perKind"), As(op, "perAccount"), As(op, "forward"),
                               As(op, "dmFold"), As(op, "stamp")}
        BY <3>1, <2>1
      <3> QED BY <3>2, <3>3 DEF MigrateStages
    <2>5. Program(op) # <<>>
      BY <2>3, EmptySeq
    <2>6. \A i \in 1..Len(Program(op)) : Program(op)[i].do \in MigrateStages \cup {"stamp"}
      BY <2>3, <2>4
    <2> QED BY <2>3, <2>5, <2>6
  <1>2. CASE op.do = "toGlobal"
    <2>1. Program(op) = <<As(op, "toInherit"), op>>
      BY <1>2 DEF Program
    <2>2. As(op, "toInherit") \in Ops
      BY AsType DEF OpNames
    <2> QED BY <2>1, <2>2, <1>2
  <1>3. CASE op.do \notin {"migrate", "toGlobal"}
    BY <1>3 DEF Program
  <1> QED BY <1>1, <1>2, <1>3

LEMMA LastType ==
    ASSUME NEW op \in Ops
    PROVE  Last(op) \in Ops
  BY AsType DEF Last, OpNames

LEMMA SeparatedType ==
    ASSUME NEW op \in Ops
    PROVE  Separated(op) \in Seq(Ops) /\ Separated(op) # <<>>
  <1> DEFINE n     == Len(op.others)
             e(i)  == [As(op, "copy") EXCEPT !.acct = op.others[i], !.from = Default]
             end   == <<As(op, "separate"), Last(op)>>
  <1>1. n \in Nat /\ \A i \in 1..n : op.others[i] \in Accounts
    BY OpParts
  <1>2. ASSUME NEW i \in 1..n PROVE e(i) \in Ops
    <2>1. op.others[i] \in Accounts
      BY <1>1
    <2> HIDE DEF n
    <2> QED BY <2>1 DEF As, Ops, OpNames, Default
  <1>4. end \in Seq(Ops) /\ Len(end) = 2
    BY AsType, LastType DEF OpNames
  <1>5. Separated(op) = [i \in 1..n |-> e(i)] \o end
    BY DEF Separated
  <1> HIDE DEF n, e, end
  <1> DEFINE copies == [i \in 1..n |-> e(i)]
  <1>3. copies \in Seq(Ops) /\ Len(copies) = n
    BY <1>1, <1>2
  <1> HIDE DEF copies
  <1>6. copies \o end \in Seq(Ops) /\ Len(copies \o end) = n + 2
    <2>1. copies \o end \in Seq(Ops) /\ Len(copies \o end) = Len(copies) + Len(end)
      BY <1>3, <1>4, ConcatProperties, Zenon
    <2> QED BY <2>1, <1>3, <1>4
  <1>7. copies \o end # <<>>
    BY <1>1, <1>6, EmptySeq
  <1>8. Separated(op) = copies \o end
    BY <1>5 DEF copies
  <1> QED BY <1>6, <1>7, <1>8

LEMMA AtType ==
    ASSUME NEW todo \in Seq(Ops)
    PROVE  /\ At(todo) \in {"done", "lane", "flip", "stamp"}
           /\ todo = <<>> <=> At(todo) = "done"
           /\ At(todo) = "lane" => Head(todo).do # "stamp"
  BY DEF At

LEMMA QueuedType ==
    ASSUME lane \in Seq(Calls), NEW c \in Calls, NEW todo
    PROVE  /\ Queued(c, todo) \in Seq(Calls)
           /\ \A d \in Calls \ {c} : HasLock(d) =>
                 Queued(c, todo) # <<>> /\ Head(Queued(c, todo)) = d
  <1>1. Released(c) \in Seq(Calls)
    BY DEF Released, HasLock
  <1>2. ASSUME NEW d \in Calls \ {c}, HasLock(d)
        PROVE  Released(c) = lane /\ lane # <<>> /\ Head(lane) = d
    BY <1>2 DEF HasLock, Released
  <1>3. ASSUME NEW d \in Calls \ {c}, HasLock(d)
        PROVE  Append(lane, c) # <<>> /\ Head(Append(lane, c)) = d
    BY <1>3 DEF HasLock
  <1> QED BY <1>1, <1>2, <1>3 DEF Queued

LEMMA ReleasedType ==
    ASSUME lane \in Seq(Calls), NEW c \in Calls
    PROVE  /\ Released(c) \in Seq(Calls)
           /\ \A d \in Calls \ {c} : HasLock(d) => Released(c) # <<>> /\ Head(Released(c)) = d
  BY DEF Released, HasLock

\* A call keeps what the invariant says of it while another one moves.
Kept(d) ==
    /\ call'[d].at = call[d].at /\ call'[d].op = call[d].op /\ call'[d].todo = call[d].todo
    /\ call'[d].tree = call[d].tree /\ call'[d].bucket = call[d].bucket
    /\ HasLock(d) => HasLock(d)'

\* Only the call that has the lock writes the tree, the journal or the rules' version.
Apart(c) ==
    HasLock(c) \/ (/\ disk'.tree = disk.tree /\ disk'.pending = disk.pending
                   /\ disk'.consolidated = disk.consolidated)

LEMMA Frame ==
    ASSUME Inv, NEW c \in Calls, \A d \in Calls \ {c} : Kept(d), Apart(c), CallInv(c)'
    PROVE  \A d \in Calls : CallInv(d)'
  <1> SUFFICES ASSUME NEW d \in Calls \ {c} PROVE CallInv(d)'
    OBVIOUS
  <1>1. Kept(d) /\ CallInv(d)
    BY DEF Inv
  <1>2. Stage(d)' = Stage(d)
    BY <1>1 DEF Kept, Stage
  <1>3. CASE call[d].at \in Locked
    <2>1. HasLock(d) /\ ~HasLock(c)
      BY <1>1, <1>3 DEF CallInv, HasLock
    <2>2. /\ disk'.tree = disk.tree /\ disk'.pending = disk.pending
          /\ disk'.consolidated = disk.consolidated
      BY <2>1 DEF Apart
    <2>3. Edited(Stage(d), call[d].bucket, disk.tree)' = Edited(Stage(d), call[d].bucket, disk.tree)
      BY <1>1, <1>2, <2>2 DEF Kept, Edited, Reach
    <2> QED BY <1>1, <1>2, <2>1, <2>2, <2>3 DEF Kept, CallInv
  <1>4. CASE call[d].at \notin Locked
    BY <1>1, <1>2, <1>4 DEF Kept, CallInv, Locked
  <1> QED BY <1>3, <1>4

\* The calls after one of them has moved, and after it has written as well.
LEMMA MovedType ==
    ASSUME TypeOK, NEW c \in Calls, NEW r \in CallT, call' = [call EXCEPT ![c] = r]
    PROVE  /\ call' \in [Calls -> CallT] /\ call'[c] = r
           /\ \A d \in Calls \ {c} : call'[d] = call[d]
  BY DEF TypeOK

LEMMA WritesType ==
    ASSUME TypeOK, NEW c \in Calls, NEW d \in Disks, NEW r \in CallT, Writes(c, d, r)
    PROVE  /\ call' \in [Calls -> CallT] /\ call'[c] = r /\ disk' = d
           /\ \A x \in Calls \ {c} :
                 /\ call'[x].at = call[x].at /\ call'[x].op = call[x].op
                 /\ call'[x].todo = call[x].todo /\ call'[x].tree = call[x].tree
                 /\ call'[x].bucket = call[x].bucket
  <1> DEFINE Seen(x) == [call[x] EXCEPT !.could = @ \cup Could(d, call[x].op),
                                       !.modes = @ \cup {d.shared}]
  <1>1. ASSUME NEW x \in Calls PROVE
            /\ call[x] \in CallT /\ Seen(x) \in CallT
            /\ Seen(x).at = call[x].at /\ Seen(x).op = call[x].op /\ Seen(x).todo = call[x].todo
            /\ Seen(x).tree = call[x].tree /\ Seen(x).bucket = call[x].bucket
    <2>1. call[x] \in CallT /\ call[x].op \in Ops
      BY DEF TypeOK, CallT
    <2>2. Could(d, call[x].op) \in SUBSET (BOOLEAN \X Said) /\ d.shared \in BOOLEAN
      BY <2>1, CouldType DEF Disks
    <2> QED BY <2>1, <2>2 DEF CallT
  <1> HIDE DEF Seen
  <1>2. /\ disk' = d
        /\ call' = [x \in Calls |-> IF x = c THEN r
                                    ELSE IF call[x].op.do = "check" /\ Running(x) THEN Seen(x)
                                    ELSE call[x]]
    BY DEF Writes, Seen
  <1> QED BY <1>1, <1>2

\* What Onward does to a record, for any field sets.
LEMMA EndStage ==
    ASSUME NEW A, NEW O, NEW S, NEW T, NEW B, NEW U, NEW M, NEW V, NEW a \in A, NEW s \in S, NEW t \in T,
           NEW r \in [at : A, op : O, todo : S, tree : T, bucket : B, could : U, modes : M, said : V]
    PROVE  [r EXCEPT !.at = a, !.todo = s, !.tree = t] \in
               [at : A, op : O, todo : S, tree : T, bucket : B, could : U, modes : M, said : V]
  OBVIOUS

LEMMA OnwardType ==
    ASSUME TypeOK, NEW c \in Calls, NEW todo \in Seq(Ops)
    PROVE  /\ Onward(c, todo) \in CallT
           /\ Onward(c, todo).at = At(todo) /\ Onward(c, todo).todo = todo
           /\ Onward(c, todo).op = call[c].op
  <1>1. call[c] \in CallT /\ At(todo) \in Ats
    BY AtType DEF TypeOK, Ats, Ended
  <1>2. Onward(c, todo) \in CallT
    BY <1>1, EndStage, Zenon DEF CallT, Onward
  <1>3. /\ Onward(c, todo).at = At(todo) /\ Onward(c, todo).todo = todo
        /\ Onward(c, todo).op = call[c].op
    BY <1>1 DEF CallT, Onward
  <1> QED BY <1>2, <1>3

LEMMA FailedType ==
    ASSUME TypeOK, NEW c \in Calls
    PROVE  /\ Failed(c) \in CallT /\ Failed(c).at = "failed" /\ Failed(c).todo = <<>>
           /\ Failed(c).op = call[c].op
  <1>1. call[c] \in CallT /\ <<>> \in Seq(Ops) /\ "failed" \in Ats
    BY DEF TypeOK, Ats, Ended
  <1> QED BY <1>1 DEF CallT, Failed

LEMMA LoadedType ==
    ASSUME TypeOK
    PROVE  /\ Loaded \in Tree /\ Shared \in BOOLEAN
           /\ CacheHonest /\ disk.pending = None => Loaded = disk.tree /\ Shared = disk.shared
  BY DEF TypeOK, Loaded, Shared, Disks, CacheHonest

\* What is left of a program after a stage.
LEMMA RestType ==
    ASSUME TypeOK, NEW c \in Calls, call[c].todo # <<>>
    PROVE  /\ Stage(c) \in Ops /\ Tail(call[c].todo) \in Seq(Ops)
           /\ Len(Tail(call[c].todo)) = Len(call[c].todo) - 1 /\ Len(call[c].todo) \in Nat \ {0}
           /\ Stage(c) = call[c].todo[1]
           /\ \A i \in 1..Len(Tail(call[c].todo)) : Tail(call[c].todo)[i] = call[c].todo[i + 1]
  <1>1. call[c].todo \in Seq(Ops)
    BY DEF TypeOK, CallT
  <1> QED BY <1>1 DEF Stage

----------------------------------------------------------------------------
(* The steps of a check, and the mode a setup reads.                       *)

LEMMA NoCallType == NoCall \in CallT /\ NoCall.todo = <<>>
  <1>1. NoOp \in Ops
    BY BucketParts DEF NoOp, Ops, OpNames, Methods, Decisions
  <1> QED BY <1>1 DEF NoCall, CallT, Ats, Ended

LEMMA InitInv == Init => Inv
  <1> SUFFICES ASSUME Init PROVE Inv
    OBVIOUS
  <1>1. PICK n \in DOMAIN Scenes :
          /\ scene = [name |-> n, faults |-> Scenes[n].faults, crashes |-> Scenes[n].crashes]
          /\ disk \in Scenes[n].disks
    BY DEF Init
  <1>2. disk \in Disks /\ Scenes[n].faults \in Nat /\ Scenes[n].crashes \in Nat
    BY <1>1, ScenesAssumption
  <1>5. TypeOK
    <2>1. lane \in Seq(Calls) /\ call \in [Calls -> CallT] /\ swept \in BOOLEAN
      <3>1. lane = <<>> /\ call = [c \in Calls |-> NoCall] /\ swept = FALSE
        BY DEF Init
      <3>2. <<>> \in Seq(Calls)
        BY EmptySeq
      <3> QED BY <3>1, <3>2, NoCallType
    <2>2. cache \in [perms : Tree \cup {None}, shared : BOOLEAN \cup {None}]
      BY DEF Init, NoCache
    <2>3. scene \in [name : DOMAIN Scenes, faults : Nat, crashes : Nat]
      BY <1>1, <1>2
    <2> QED BY <1>2, <2>1, <2>2, <2>3 DEF TypeOK
  <1>6. CacheHonest
    BY DEF Init, CacheHonest, NoCache
  <1>7. ASSUME NEW c \in Calls PROVE CallInv(c)
    BY DEF Init, CallInv, NoCall, NoOp, Staged, Locked, Finishing
  <1> QED BY <1>5, <1>6, <1>7 DEF Inv

LEMMA BeginInv == ASSUME Inv, NEW c \in Calls, Begin(c) PROVE Inv'
  <1>1. PICK op \in Scene.ops :
          LET begun == [NoCall EXCEPT !.op = op]
              todo  == IF Idle(op) THEN <<>> ELSE Program(op)
          IN  IF op.do \in {"check", "setup"}
              THEN /\ call' = [call EXCEPT ![c] = [begun EXCEPT
                                  !.at = "inherit?",
                                  !.could = IF op.do = "check" THEN Could(disk, op) ELSE {},
                                  !.modes = IF op.do = "check" THEN {disk.shared} ELSE {}]]
                   /\ UNCHANGED lane
              ELSE /\ call' = [call EXCEPT ![c] = [begun EXCEPT !.at = At(todo), !.todo = todo]]
                   /\ lane' = Queued(c, todo)
    BY DEF Begin
  <1>2. op \in Ops
    BY ScenesAssumption DEF Inv, TypeOK, Scene
  <1>3. UNCHANGED <<disk, cache, scene, swept>>
    BY DEF Begin
  <1> DEFINE todo == IF Idle(op) THEN <<>> ELSE Program(op)
             r    == IF op.do \in {"check", "setup"}
                     THEN [NoCall EXCEPT !.op = op, !.at = "inherit?",
                             !.could = IF op.do = "check" THEN Could(disk, op) ELSE {},
                             !.modes = IF op.do = "check" THEN {disk.shared} ELSE {}]
                     ELSE [NoCall EXCEPT !.op = op, !.at = At(todo), !.todo = todo]
  <1>4. todo \in Seq(Ops)
    BY <1>2, ProgramType
  <1>5. r \in CallT /\ r.op = op
    <2>1. Could(disk, op) \in SUBSET (BOOLEAN \X Said) /\ disk.shared \in BOOLEAN
      BY <1>2, CouldType DEF Inv, TypeOK, Disks
    <2>2. At(todo) \in Ats /\ "inherit?" \in Ats
      BY <1>4, AtType DEF Ats, Ended
    <2> HIDE DEF todo
    <2>3. CASE op.do \in {"check", "setup"}
      <3>1. /\ (IF op.do = "check" THEN Could(disk, op) ELSE {}) \in SUBSET (BOOLEAN \X Said)
            /\ (IF op.do = "check" THEN {disk.shared} ELSE {}) \in SUBSET BOOLEAN
        BY <2>1
      <3> QED BY <1>2, <2>2, <2>3, <3>1, NoCallType DEF CallT
    <2>4. CASE op.do \notin {"check", "setup"}
      BY <1>2, <1>4, <2>2, <2>4, NoCallType DEF CallT
    <2> QED BY <2>3, <2>4
  <1>6. /\ r.at \in {"inherit?", "done", "lane", "flip", "stamp"}
        /\ r.at # "inherit?" => r.at = At(todo) /\ r.todo = todo
        /\ r.at = "inherit?" => r.todo = <<>> /\ op.do \in {"check", "setup"}
    BY <1>4, AtType, NoCallType DEF CallT
  <1>7. call' = [call EXCEPT ![c] = r]
    BY <1>1 DEF NoCall
  <1>8. lane' \in Seq(Calls) /\ \A d \in Calls \ {c} : HasLock(d) => HasLock(d)'
    BY <1>1, QueuedType DEF Inv, TypeOK, HasLock
  <1>9. op.do = "migrate" => \A i \in 1..Len(todo) : todo[i].do \in MigrateStages \cup {"stamp"}
    BY <1>2, ProgramType
  <1> HIDE DEF r, todo
  <1>10. /\ call' \in [Calls -> CallT] /\ call'[c] = r
         /\ \A d \in Calls \ {c} : call'[d] = call[d]
    BY <1>5, <1>7, MovedType DEF Inv
  <1>11. CallInv(c)'
    BY <1>4, <1>5, <1>6, <1>9, <1>10, AtType DEF CallInv, Staged, Locked, Finishing, Stage
  <1>12. \A d \in Calls : CallInv(d)'
    BY <1>3, <1>8, <1>10, <1>11, Frame DEF Kept, Apart
  <1>13. TypeOK'
    BY <1>3, <1>8, <1>10 DEF Inv, TypeOK
  <1>14. CacheHonest'
    BY <1>3 DEF Inv, CacheHonest
  <1> QED BY <1>12, <1>13, <1>14 DEF Inv

\* A call that has moved without writing.
LEMMA QuietStep ==
    ASSUME Inv, NEW c \in Calls, NEW r \in CallT, call' = [call EXCEPT ![c] = r],
           UNCHANGED <<disk, scene, swept>>,
           lane' \in Seq(Calls), \A d \in Calls \ {c} : HasLock(d) => HasLock(d)',
           cache' \in [perms : Tree \cup {None}, shared : BOOLEAN \cup {None}], CacheHonest',
           CallInv(c)'
    PROVE  Inv'
  <1>1. /\ call' \in [Calls -> CallT] /\ call'[c] = r
        /\ \A d \in Calls \ {c} : call'[d] = call[d]
    BY MovedType DEF Inv
  <1>2. \A d \in Calls : CallInv(d)'
    BY <1>1, Frame DEF Kept, Apart
  <1>3. TypeOK'
    BY <1>1 DEF Inv, TypeOK
  <1> QED BY <1>2, <1>3 DEF Inv

\* A call that goes on to its next stage keeps its own invariant.
LEMMA OnwardInv ==
    ASSUME Inv, NEW c \in Calls, NEW todo \in Seq(Ops), call' \in [Calls -> CallT],
           call'[c] = Onward(c, todo),
           call[c].op.do = "migrate" =>
             \A i \in 1..Len(todo) : todo[i].do \in MigrateStages \cup {"stamp"}
    PROVE  CallInv(c)'
  BY OnwardType, AtType DEF Inv, CallInv, Staged, Locked, Finishing, Stage

LEMMA FailedInv ==
    ASSUME Inv, NEW c \in Calls, call' \in [Calls -> CallT], call'[c].at = "failed",
           call'[c].todo = <<>>
    PROVE  CallInv(c)'
  BY DEF CallInv, Staged, Locked, Finishing

\* The rest of a program is a program.
LEMMA RestInv ==
    ASSUME Inv, NEW c \in Calls, call[c].todo # <<>>, call[c].op.do = "migrate"
    PROVE  \A i \in 1..Len(Tail(call[c].todo)) :
              Tail(call[c].todo)[i].do \in MigrateStages \cup {"stamp"}
  <1> SUFFICES ASSUME NEW i \in 1..Len(Tail(call[c].todo))
               PROVE  Tail(call[c].todo)[i].do \in MigrateStages \cup {"stamp"}
    OBVIOUS
  <1>1. i + 1 \in 1..Len(call[c].todo) /\ Tail(call[c].todo)[i] = call[c].todo[i + 1]
    BY RestType DEF Inv
  <1> QED BY <1>1 DEF Inv, CallInv

LEMMA LockStays ==
    ASSUME lane' = lane PROVE \A d \in Calls : HasLock(d) => HasLock(d)'
  BY DEF HasLock

LEMMA WithModeInv ==
    ASSUME Inv, NEW c \in Calls, NEW bucket \in Buckets, NEW todo \in Seq(Ops), WithMode(c, bucket, todo),
           call[c].at \in {"inherit?", "shared?"}, call[c].op.do \in {"check", "setup"},
           UNCHANGED <<disk, scene, swept>>,
           cache' \in [perms : Tree \cup {None}, shared : BOOLEAN \cup {None}], CacheHonest'
    PROVE  Inv'
  <1>1. CASE call[c].op.do = "check"
    <2> DEFINE r == [call[c] EXCEPT !.at = "load", !.bucket = bucket]
    <2>1. r \in CallT /\ r.at = "load" /\ r.op = call[c].op /\ r.bucket = bucket
      <3>1. call[c] \in CallT /\ "load" \in Ats
        BY DEF Inv, TypeOK, Ats
      <3> QED BY <3>1 DEF CallT
    <2>2. call' = [call EXCEPT ![c] = r] /\ lane' = lane
      BY <1>1 DEF WithMode
    <2> HIDE DEF r
    <2>3. call'[c] = r
      BY <2>2 DEF Inv, TypeOK
    <2>4. CallInv(c)'
      BY <1>1, <2>1, <2>3 DEF CallInv, Staged, Locked, Finishing
    <2> QED BY <2>1, <2>2, <2>4, QuietStep, LockStays DEF Inv, TypeOK
  <1>2. CASE call[c].op.do = "setup"
    <2>1. call' = [call EXCEPT ![c] = Onward(c, todo)] /\ lane' = Queued(c, todo)
      BY <1>2 DEF WithMode
    <2>2. Onward(c, todo) \in CallT
      BY OnwardType DEF Inv
    <2>3. call' \in [Calls -> CallT] /\ call'[c] = Onward(c, todo)
      BY <2>1, <2>2, MovedType DEF Inv
    <2>4. CallInv(c)'
      BY <1>2, <2>3, OnwardInv
    <2>5. lane' \in Seq(Calls) /\ \A d \in Calls \ {c} : HasLock(d) => HasLock(d)'
      BY <2>1, QueuedType DEF Inv, TypeOK, HasLock
    <2> QED BY <2>1, <2>2, <2>4, <2>5, QuietStep
  <1> QED BY <1>1, <1>2

LEMMA CacheOf ==
    ASSUME Inv, UNCHANGED disk,
           cache' = cache \/ cache' = NoCache \/
           (/\ cache' = [perms |-> cache'.perms, shared |-> cache'.shared]
            /\ cache'.perms \in {cache.perms, Loaded} /\ cache'.shared \in {cache.shared, Shared})
    PROVE  /\ cache' \in [perms : Tree \cup {None}, shared : BOOLEAN \cup {None}]
           /\ CacheHonest'
  <1>1. cache \in [perms : Tree \cup {None}, shared : BOOLEAN \cup {None}] /\ CacheHonest
    BY DEF Inv, TypeOK
  <1>2. Loaded \in Tree /\ Shared \in BOOLEAN
    BY LoadedType DEF Inv
  <1>3. disk.pending = None => Loaded \in {disk.tree} /\ Shared \in {disk.shared}
    BY <1>1 DEF CacheHonest, Loaded, Shared
  <1>4. CASE cache' = cache
    BY <1>1, <1>4 DEF CacheHonest
  <1>5. CASE cache' = NoCache
    BY <1>5 DEF NoCache, CacheHonest
  <1>6. CASE /\ cache' = [perms |-> cache'.perms, shared |-> cache'.shared]
             /\ cache'.perms \in {cache.perms, Loaded} /\ cache'.shared \in {cache.shared, Shared}
    <2>1. cache'.perms \in Tree \cup {None} /\ cache'.shared \in BOOLEAN \cup {None}
      BY <1>1, <1>2, <1>6
    <2>2. CacheHonest'
      BY <1>1, <1>3, <1>6 DEF CacheHonest
    <2> QED BY <1>6, <2>1, <2>2
  <1> QED BY <1>4, <1>5, <1>6

LEMMA ReadInheritInv == ASSUME Inv, NEW c \in Calls, ReadInherit(c) PROVE Inv'
  <1>1. /\ call[c] \in CallT /\ call[c].op \in Ops /\ call[c].at = "inherit?"
        /\ UNCHANGED <<disk, cache, scene, swept>> /\ call[c].op.do \in {"check", "setup"}
    BY DEF Inv, TypeOK, CallT, ReadInherit, CallInv
  <1>2. cache' \in [perms : Tree \cup {None}, shared : BOOLEAN \cup {None}] /\ CacheHonest'
    BY <1>1, CacheOf
  <1>3. CASE disk.inherit
    <2>1. WithMode(c, call[c].op.acct, <<As(call[c].op, "setUp")>>)
      BY <1>3 DEF ReadInherit
    <2>2. As(call[c].op, "setUp") \in Ops /\ call[c].op.acct \in Buckets
      BY <1>1, AsType, OpParts DEF OpNames
    <2>3. <<As(call[c].op, "setUp")>> \in Seq(Ops)
      BY <2>2
    <2> QED BY <1>1, <1>2, <2>1, <2>2, <2>3, WithModeInv
  <1>4. CASE ~disk.inherit
    <2> DEFINE r == [call[c] EXCEPT !.at = "shared?"]
    <2>1. r \in CallT /\ r.at = "shared?" /\ r.op = call[c].op
      <3>1. "shared?" \in Ats
        BY DEF Ats
      <3> QED BY <1>1, <3>1 DEF CallT
    <2>2. call' = [call EXCEPT ![c] = r] /\ lane' = lane
      BY <1>4 DEF ReadInherit
    <2> HIDE DEF r
    <2>3. call'[c] = r
      BY <2>2 DEF Inv, TypeOK
    <2>4. CallInv(c)'
      BY <1>1, <2>1, <2>3 DEF CallInv, Staged, Locked, Finishing
    <2> QED BY <1>1, <1>2, <2>1, <2>2, <2>4, QuietStep, LockStays DEF Inv, TypeOK
  <1> QED BY <1>3, <1>4

LEMMA ReadSharedInv == ASSUME Inv, NEW c \in Calls, ReadShared(c) PROVE Inv'
  <1>1. /\ call[c] \in CallT /\ call[c].op \in Ops /\ call[c].at = "shared?"
        /\ UNCHANGED <<disk, scene, swept>> /\ call[c].op.do \in {"check", "setup"}
        /\ cache' = [cache EXCEPT !.shared = Shared]
    BY DEF Inv, TypeOK, CallT, ReadShared, CallInv, Shared
  <1>2. cache' \in [perms : Tree \cup {None}, shared : BOOLEAN \cup {None}] /\ CacheHonest'
    <2>1. /\ cache' = [perms |-> cache.perms, shared |-> Shared]
      BY <1>1 DEF Inv, TypeOK
    <2> QED BY <1>1, <2>1, CacheOf
  <1>3. \/ WithMode(c, Default, Separated(call[c].op))
        \/ WithMode(c, call[c].op.acct, <<Last(call[c].op)>>)
    BY DEF ReadShared
  <1>4. Separated(call[c].op) \in Seq(Ops) /\ <<Last(call[c].op)>> \in Seq(Ops)
    BY <1>1, SeparatedType, LastType
  <1>5. Default \in Buckets /\ call[c].op.acct \in Buckets
    BY <1>1, BucketParts, OpParts
  <1> QED BY <1>1, <1>2, <1>3, <1>4, <1>5, WithModeInv

LEMMA LoadInv == ASSUME Inv, NEW c \in Calls, Load(c) PROVE Inv'
  <1>1. /\ call[c] \in CallT /\ call[c].at = "load" /\ UNCHANGED <<disk, lane, scene, swept>>
        /\ CallInv(c) /\ {"again?", "failed"} \subseteq Ats /\ "refused" \in Said
    BY DEF Inv, TypeOK, Load, Ats, Ended, Said
  <1>2. Loaded \in Tree
    BY LoadedType DEF Inv
  <1>3. CASE disk.pending # None
    <2> DEFINE r == [Failed(c) EXCEPT !.said = "refused"]
    <2>1. r \in CallT /\ r.at = "failed" /\ r.todo = <<>>
      <3>1. Failed(c) \in CallT /\ Failed(c).at = "failed" /\ Failed(c).todo = <<>>
        BY FailedType DEF Inv
      <3> QED BY <1>1, <3>1 DEF CallT
    <2>2. call' = [call EXCEPT ![c] = r] /\ cache' = cache
      BY <1>3 DEF Load
    <2> HIDE DEF r
    <2>3. call'[c] = r /\ call' \in [Calls -> CallT]
      BY <2>1, <2>2 DEF Inv, TypeOK
    <2>4. CallInv(c)'
      BY <2>1, <2>3, FailedInv
    <2>5. cache' \in [perms : Tree \cup {None}, shared : BOOLEAN \cup {None}] /\ CacheHonest'
      BY <1>1, <2>2, CacheOf
    <2> QED BY <1>1, <2>1, <2>2, <2>4, <2>5, QuietStep, LockStays DEF Inv, TypeOK
  <1>4. CASE disk.pending = None
    <2> DEFINE r == [call[c] EXCEPT !.at = "again?", !.tree = Loaded]
    <2>1. r \in CallT /\ r.at = "again?" /\ r.tree = Loaded /\ r.op = call[c].op
          /\ r.bucket = call[c].bucket /\ r.todo = call[c].todo
      BY <1>1, <1>2 DEF CallT
    <2>2. call' = [call EXCEPT ![c] = r] /\ cache' = [cache EXCEPT !.perms = Loaded]
      BY <1>4 DEF Load
    <2> HIDE DEF r
    <2>3. call'[c] = r
      BY <2>2 DEF Inv, TypeOK
    <2>4. CallInv(c)'
      BY <1>1, <1>2, <2>1, <2>3 DEF CallInv, Staged, Locked, Finishing
    <2>5. cache' \in [perms : Tree \cup {None}, shared : BOOLEAN \cup {None}] /\ CacheHonest'
      <3>1. cache' = [perms |-> Loaded, shared |-> cache.shared]
        BY <2>2 DEF Inv, TypeOK
      <3> QED BY <1>1, <3>1, CacheOf
    <2> QED BY <1>1, <2>1, <2>2, <2>4, <2>5, QuietStep, LockStays DEF Inv, TypeOK
  <1> QED BY <1>3, <1>4

LEMMA AnswerInv == ASSUME Inv, NEW c \in Calls, Answer(c) PROVE Inv'
  <1>1. /\ call[c] \in CallT /\ call[c].at = "again?" /\ UNCHANGED <<disk, cache, lane, scene, swept>>
        /\ CallInv(c) /\ "done" \in Ats /\ call[c].op \in Ops
    BY DEF Inv, TypeOK, Answer, Ats, Ended, CallT
  <1> DEFINE b == IF disk.inherit THEN Effective(call[c].tree, call[c].op.o, call[c].op.acct)
                  ELSE OriginBucket(call[c].tree, call[c].op.o, call[c].bucket)
             r == [call[c] EXCEPT !.at = "done", !.tree = None, !.said = Resolve(b, call[c].op.key)]
  <1>2. Resolve(b, call[c].op.key) \in Said
    <2>1. b \in [Keys -> Vals]
      BY <1>1, OpParts, OriginType, EffectiveType DEF CallInv
    <2> QED BY <2>1, ResolveType
  <1>3. r \in CallT /\ r.at = "done" /\ r.op = call[c].op /\ r.todo = call[c].todo
    <2> HIDE DEF b
    <2> QED BY <1>1, <1>2 DEF CallT
  <1>4. call' = [call EXCEPT ![c] = r]
    BY DEF Answer
  <1> HIDE DEF r, b
  <1>5. call'[c] = r
    BY <1>4 DEF Inv, TypeOK
  <1>6. CallInv(c)'
    BY <1>1, <1>3, <1>5 DEF CallInv, Staged, Locked, Finishing
  <1>7. cache' \in [perms : Tree \cup {None}, shared : BOOLEAN \cup {None}] /\ CacheHonest'
    BY <1>1, CacheOf
  <1> QED BY <1>1, <1>3, <1>4, <1>6, <1>7, QuietStep, LockStays DEF Inv, TypeOK

----------------------------------------------------------------------------
(* The steps of a stage in the lock.                                       *)

\* A call at a stage: what is known of it, and of the stages after it.
LEMMA AtStage ==
    ASSUME Inv, NEW c \in Calls, call[c].at \in Staged
    PROVE  /\ call[c] \in CallT /\ CallInv(c) /\ call[c].todo # <<>>
           /\ Stage(c) \in Ops /\ Tail(call[c].todo) \in Seq(Ops)
           /\ WriteBucket(Stage(c)) \in Buckets
           /\ call[c].op.do = "migrate" =>
                 \A i \in 1..Len(Tail(call[c].todo)) :
                    Tail(call[c].todo)[i].do \in MigrateStages \cup {"stamp"}
  <1>1. call[c] \in CallT /\ CallInv(c) /\ call[c].todo # <<>>
    BY DEF Inv, TypeOK, CallInv
  <1>2. Stage(c) \in Ops /\ Tail(call[c].todo) \in Seq(Ops)
    BY <1>1, RestType DEF Inv
  <1>3. WriteBucket(Stage(c)) \in Buckets
    BY <1>2, OpParts, BucketParts DEF WriteBucket
  <1> QED BY <1>1, <1>2, <1>3, RestInv

LEMMA GoesOn ==
    ASSUME Inv, NEW c \in Calls, call[c].at \in Staged, NEW todo \in Seq(Ops),
           todo = Tail(call[c].todo), call' = [call EXCEPT ![c] = Onward(c, todo)],
           lane' = Queued(c, todo), UNCHANGED <<disk, scene, swept>>,
           cache' \in [perms : Tree \cup {None}, shared : BOOLEAN \cup {None}], CacheHonest'
    PROVE  Inv'
  <1>1. Onward(c, todo) \in CallT
    BY OnwardType DEF Inv
  <1>2. call' \in [Calls -> CallT] /\ call'[c] = Onward(c, todo)
    BY <1>1, MovedType DEF Inv
  <1>3. CallInv(c)'
    BY <1>2, AtStage, OnwardInv
  <1>4. lane' \in Seq(Calls) /\ \A d \in Calls \ {c} : HasLock(d) => HasLock(d)'
    BY QueuedType DEF Inv, TypeOK, HasLock
  <1> QED BY <1>1, <1>3, <1>4, QuietStep

LEMMA Fails ==
    ASSUME Inv, NEW c \in Calls, call' = [call EXCEPT ![c] = Failed(c)], lane' = Released(c),
           UNCHANGED disk, scene' \in [name : DOMAIN Scenes, faults : Nat, crashes : Nat],
           UNCHANGED swept, cache' = cache \/ cache' = NoCache
    PROVE  Inv'
  <1>1. Failed(c) \in CallT /\ Failed(c).at = "failed" /\ Failed(c).todo = <<>>
    BY FailedType DEF Inv
  <1>2. /\ call' \in [Calls -> CallT] /\ call'[c] = Failed(c)
        /\ \A d \in Calls \ {c} : call'[d] = call[d]
    BY <1>1, MovedType DEF Inv
  <1>3. CallInv(c)'
    BY <1>1, <1>2, FailedInv
  <1>4. lane' \in Seq(Calls) /\ \A d \in Calls \ {c} : HasLock(d) => HasLock(d)'
    BY ReleasedType DEF Inv, TypeOK, HasLock
  <1>5. cache' \in [perms : Tree \cup {None}, shared : BOOLEAN \cup {None}] /\ CacheHonest'
    BY CacheOf
  <1>6. \A d \in Calls : CallInv(d)'
    BY <1>2, <1>3, <1>4, Frame DEF Kept, Apart
  <1>7. TypeOK'
    BY <1>2, <1>4, <1>5 DEF Inv, TypeOK
  <1> QED BY <1>5, <1>6, <1>7 DEF Inv

LEMMA DraftInv == ASSUME Inv, NEW c \in Calls, Draft(c) PROVE Inv'
  <1> DEFINE s     == Stage(c)
             b     == WriteBucket(s)
             draft == Edited(s, b, Loaded)
             rest  == Tail(call[c].todo)
  <1>1. call[c].at = "lane" /\ HasLock(c) /\ UNCHANGED <<disk, scene, swept>>
    BY DEF Draft, Drafting
  <1>2. /\ call[c] \in CallT /\ CallInv(c) /\ call[c].todo # <<>> /\ s \in Ops
        /\ rest \in Seq(Ops) /\ b \in Buckets
    BY <1>1, AtStage DEF Staged
  <1>3. Loaded \in Tree /\ draft \in Tree
    BY <1>2, LoadedType, EditedType DEF Inv
  <1>4. CASE OutOfScope(s) \/ disk.pending # None
    <2>1. call' = [call EXCEPT ![c] = Failed(c)] /\ lane' = Released(c) /\ cache' = cache
      BY <1>1, <1>4 DEF Draft, Released
    <2> QED BY <1>1, <2>1, Fails DEF Inv, TypeOK
  <1>5. CASE ~OutOfScope(s) /\ disk.pending = None
    <2>1. cache' \in [perms : Tree \cup {None}, shared : BOOLEAN \cup {None}] /\ CacheHonest'
      <3> DEFINE sh == IF s.do \in {"save", "saveRetired", "clear"} /\ ~disk.inherit
                       THEN Shared ELSE cache.shared
      <3>1. cache' = [cache EXCEPT !.perms = Loaded, !.shared = sh]
        BY <1>5 DEF Draft
      <3>2. sh \in {cache.shared, Shared}
        OBVIOUS
      <3> HIDE DEF sh
      <3>3. cache' = [perms |-> Loaded, shared |-> sh]
        BY <3>1 DEF Inv, TypeOK
      <3> QED BY <1>1, <3>2, <3>3, CacheOf
    <2>2. CASE s.do \in IfChanged /\ draft = Loaded
      <3>1. call' = [call EXCEPT ![c] = Onward(c, rest)] /\ lane' = Queued(c, rest)
        BY <1>5, <2>2 DEF Draft
      <3> QED BY <1>1, <1>2, <2>1, <3>1, GoesOn DEF Staged
    <2>3. CASE ~(s.do \in IfChanged /\ draft = Loaded)
      <3> DEFINE r == [call[c] EXCEPT !.at = "commit", !.tree = draft, !.bucket = b]
      <3>1. call' = [call EXCEPT ![c] = r] /\ lane' = lane
        BY <1>5, <2>3 DEF Draft
      <3>2. draft = Edited(s, b, disk.tree)
        BY <1>5, LoadedType DEF Inv
      <3>3. "commit" \in Ats
        BY DEF Ats
      <3> HIDE DEF draft, b
      <3>4. /\ r \in CallT /\ r.at = "commit" /\ r.tree = draft /\ r.bucket = b
            /\ r.todo = call[c].todo /\ r.op = call[c].op
        BY <1>2, <1>3, <3>3 DEF CallT
      <3> HIDE DEF r
      <3>5. call'[c] = r
        BY <3>1 DEF Inv, TypeOK
      <3>6. Stage(c)' = s /\ HasLock(c)'
        BY <1>1, <3>1, <3>4, <3>5 DEF Stage, HasLock
      <3>7. Edited(Stage(c), call[c].bucket, disk.tree)' = Edited(s, b, disk.tree)
        BY <1>1, <3>4, <3>5, <3>6 DEF Edited, Reach
      <3>8. s.do # "stamp"
        BY <1>1, <1>2 DEF CallInv
      <3> HIDE DEF s
      <3>9. CallInv(c)'
        BY <1>1, <1>2, <1>3, <3>2, <3>4, <3>5, <3>6, <3>7, <3>8
        DEF CallInv, Staged, Locked, Finishing
      <3> QED BY <1>1, <2>1, <3>1, <3>4, <3>9, QuietStep, LockStays DEF Inv, TypeOK
    <2> QED BY <2>2, <2>3
  <1> QED BY <1>4, <1>5

\* A call that has written.
LEMMA WriteStep ==
    ASSUME Inv, NEW c \in Calls, NEW d \in Disks, NEW r \in CallT, Writes(c, d, r),
           UNCHANGED scene, swept' \in BOOLEAN,
           HasLock(c) \/ (d.tree = disk.tree /\ d.pending = disk.pending
                          /\ d.consolidated = disk.consolidated),
           lane' \in Seq(Calls), \A x \in Calls \ {c} : HasLock(x) => HasLock(x)',
           cache' \in [perms : Tree \cup {None}, shared : BOOLEAN \cup {None}], CacheHonest',
           CallInv(c)'
    PROVE  Inv'
  <1>1. /\ call' \in [Calls -> CallT] /\ call'[c] = r /\ disk' = d
        /\ \A x \in Calls \ {c} :
              /\ call'[x].at = call[x].at /\ call'[x].op = call[x].op
              /\ call'[x].todo = call[x].todo /\ call'[x].tree = call[x].tree
              /\ call'[x].bucket = call[x].bucket
    BY WritesType DEF Inv
  <1>2. \A x \in Calls : CallInv(x)'
    BY <1>1, Frame DEF Kept, Apart
  <1>3. TypeOK'
    BY <1>1 DEF Inv, TypeOK
  <1> QED BY <1>2, <1>3 DEF Inv

\* A call that has written the last of a stage, and goes on with an empty cache.
LEMMA WritesOn ==
    ASSUME Inv, NEW c \in Calls, call[c].at \in Staged, NEW todo \in Seq(Ops),
           todo = Tail(call[c].todo), NEW d \in Disks, Writes(c, d, Onward(c, todo)),
           UNCHANGED scene, swept' \in BOOLEAN, lane' = Queued(c, todo), cache' = NoCache,
           HasLock(c) \/ (d.tree = disk.tree /\ d.pending = disk.pending
                          /\ d.consolidated = disk.consolidated)
    PROVE  Inv'
  <1>1. Onward(c, todo) \in CallT
    BY OnwardType DEF Inv
  <1>2. call' \in [Calls -> CallT] /\ call'[c] = Onward(c, todo)
    BY <1>1, WritesType DEF Inv
  <1>3. CallInv(c)'
    BY <1>2, AtStage, OnwardInv
  <1>4. lane' \in Seq(Calls) /\ \A x \in Calls \ {c} : HasLock(x) => HasLock(x)'
    BY QueuedType DEF Inv, TypeOK, HasLock
  <1>5. cache' \in [perms : Tree \cup {None}, shared : BOOLEAN \cup {None}] /\ CacheHonest'
    BY DEF NoCache, CacheHonest
  <1> QED BY <1>1, <1>3, <1>4, <1>5, WriteStep

LEMMA CommitInv == ASSUME Inv, NEW c \in Calls, Commit(c) PROVE Inv'
  <1> DEFINE d == [disk EXCEPT !.tree = call[c].tree]
  <1>1. /\ call[c].at = "commit" /\ Writes(c, d, Onward(c, Tail(call[c].todo)))
        /\ lane' = Queued(c, Tail(call[c].todo)) /\ cache' = NoCache /\ UNCHANGED scene
        /\ swept' = (swept /\ Stage(c).do \notin {"save", "saveRetired"})
    BY DEF Commit
  <1>2. HasLock(c) /\ call[c].tree \in Tree /\ swept' \in BOOLEAN
    BY <1>1 DEF Inv, CallInv, Locked, TypeOK
  <1>3. d \in Disks
    BY <1>2 DEF Inv, TypeOK, Disks
  <1> HIDE DEF d
  <1> QED BY <1>1, <1>2, <1>3, AtStage, WritesOn DEF Staged

LEMMA ClearAllInv == ASSUME Inv, NEW c \in Calls, ClearAll(c) PROVE Inv'
  <1> DEFINE d == [disk EXCEPT !.tree = Empty]
  <1>1. /\ call[c].at = "lane" /\ HasLock(c) /\ Writes(c, d, Onward(c, Tail(call[c].todo)))
        /\ lane' = Queued(c, Tail(call[c].todo)) /\ cache' = NoCache /\ UNCHANGED scene
        /\ swept' = TRUE
    BY DEF ClearAll, Drafting
  <1>2. d \in Disks
    BY EmptyType DEF Inv, TypeOK, Disks
  <1> HIDE DEF d
  <1> QED BY <1>1, <1>2, AtStage, WritesOn DEF Staged

LEMMA FlipInv == ASSUME Inv, NEW c \in Calls, Flip(c) PROVE Inv'
  <1> DEFINE d == [disk EXCEPT !.shared = (Stage(c).do = "share")]
  <1>1. /\ call[c].at = "flip" /\ Writes(c, d, Onward(c, Tail(call[c].todo)))
        /\ lane' = Queued(c, Tail(call[c].todo)) /\ cache' = NoCache /\ UNCHANGED <<scene, swept>>
    BY DEF Flip
  <1>2. d \in Disks /\ swept' \in BOOLEAN
    BY <1>1 DEF Inv, TypeOK, Disks
  <1>3. d.tree = disk.tree /\ d.pending = disk.pending /\ d.consolidated = disk.consolidated
    BY DEF Inv, TypeOK, Disks
  <1> HIDE DEF d
  <1> QED BY <1>1, <1>2, <1>3, AtStage, WritesOn DEF Staged

LEMMA StampInv == ASSUME Inv, NEW c \in Calls, Stamp(c) PROVE Inv'
  <1> DEFINE d == [disk EXCEPT !.version = TRUE]
  <1>1. /\ Writes(c, d, Onward(c, <<>>)) /\ UNCHANGED <<cache, lane, scene, swept>>
    BY DEF Stamp
  <1>2. /\ d \in Disks /\ d.tree = disk.tree /\ d.pending = disk.pending
        /\ d.consolidated = disk.consolidated /\ d.shared = disk.shared
    BY DEF Inv, TypeOK, Disks
  <1> HIDE DEF d
  <1>3. <<>> \in Seq(Ops) /\ Onward(c, <<>>) \in CallT
    BY EmptySeq, OnwardType DEF Inv
  <1>4. call' \in [Calls -> CallT] /\ call'[c] = Onward(c, <<>>) /\ disk' = d
    BY <1>1, <1>2, <1>3, WritesType DEF Inv
  <1>5. CallInv(c)'
    <2>1. 1..Len(<<>>) = {}
      OBVIOUS
    <2> QED BY <1>3, <1>4, <2>1, OnwardInv
  <1>6. CacheHonest'
    BY <1>1, <1>2, <1>4 DEF Inv, CacheHonest
  <1> QED BY <1>1, <1>2, <1>3, <1>5, <1>6, WriteStep, LockStays DEF Inv, TypeOK

----------------------------------------------------------------------------
(* The steps of the journaled migrations.                                  *)

LEMMA StartMigrationInv == ASSUME Inv, NEW c \in Calls, StartMigration(c) PROVE Inv'
  <1> DEFINE s     == Stage(c)
             rest  == Tail(call[c].todo)
             made  == IF s.do = "toInherit" THEN disk.inherit ELSE disk.consolidated
             draft == IF s.do = "toInherit" THEN Inheritance(Loaded, Shared)
                      ELSE Consolidated(Loaded, Callers)
  <1>1. /\ call[c].at = "lane" /\ HasLock(c) /\ s.do \in Journaled
        /\ UNCHANGED <<disk, scene, swept>>
    BY DEF StartMigration, Drafting
  <1>2. /\ call[c] \in CallT /\ CallInv(c) /\ call[c].todo # <<>> /\ rest \in Seq(Ops)
    BY <1>1, AtStage DEF Staged
  <1>3. Loaded \in Tree /\ draft \in Tree
    BY LoadedType, InheritanceType, ConsolidatedType DEF Inv
  <1>4. {"tree", "journal"} \subseteq Ats /\ s.do # "stamp"
    BY <1>1 DEF Ats, Finishing, Journaled
  <1>5. CASE disk.pending # None
    <2> DEFINE r == [call[c] EXCEPT !.at = "tree"]
    <2>1. call' = [call EXCEPT ![c] = r] /\ cache' = cache /\ lane' = lane
      BY <1>5 DEF StartMigration
    <2>2. r \in CallT /\ r.at = "tree" /\ r.todo = call[c].todo /\ r.op = call[c].op
      BY <1>2, <1>4 DEF CallT
    <2> HIDE DEF r
    <2>3. call'[c] = r
      BY <2>1 DEF Inv, TypeOK
    <2>4. Stage(c)' = s /\ HasLock(c)'
      BY <1>1, <2>1, <2>2, <2>3 DEF Stage, HasLock
    <2> HIDE DEF s
    <2>5. CallInv(c)'
      BY <1>1, <1>2, <1>4, <1>5, <2>2, <2>3, <2>4 DEF CallInv, Staged, Locked, Finishing
    <2>6. cache' \in [perms : Tree \cup {None}, shared : BOOLEAN \cup {None}] /\ CacheHonest'
      BY <1>1, <2>1, CacheOf
    <2> QED BY <1>1, <2>1, <2>2, <2>5, <2>6, QuietStep, LockStays DEF Inv, TypeOK
  <1>6. CASE disk.pending = None /\ made
    <2>1. /\ call' = [call EXCEPT ![c] = Onward(c, rest)] /\ lane' = Queued(c, rest)
          /\ cache' = cache
      BY <1>6 DEF StartMigration
    <2>2. cache' \in [perms : Tree \cup {None}, shared : BOOLEAN \cup {None}] /\ CacheHonest'
      BY <1>1, <2>1, CacheOf
    <2> QED BY <1>1, <1>2, <2>1, <2>2, GoesOn DEF Staged
  <1>7. CASE disk.pending = None /\ ~made
    <2> DEFINE r  == [call[c] EXCEPT !.at = "journal", !.tree = draft]
               sh == IF s.do = "toInherit" THEN Shared ELSE cache.shared
    <2>1. /\ call' = [call EXCEPT ![c] = r] /\ lane' = lane
          /\ cache' = [perms |-> Loaded, shared |-> sh]
      BY <1>7 DEF StartMigration
    <2>2. sh \in {cache.shared, Shared}
      OBVIOUS
    <2> HIDE DEF draft, sh
    <2>3. /\ r \in CallT /\ r.at = "journal" /\ r.tree = draft /\ r.todo = call[c].todo
          /\ r.op = call[c].op
      BY <1>2, <1>3, <1>4 DEF CallT
    <2> HIDE DEF r
    <2>4. call'[c] = r
      BY <2>1 DEF Inv, TypeOK
    <2>5. Stage(c)' = s /\ HasLock(c)'
      BY <1>1, <2>1, <2>3, <2>4 DEF Stage, HasLock
    <2> HIDE DEF s
    <2>6. CallInv(c)'
      BY <1>1, <1>2, <1>3, <1>4, <2>3, <2>4, <2>5 DEF CallInv, Staged, Locked, Finishing
    <2>7. cache' \in [perms : Tree \cup {None}, shared : BOOLEAN \cup {None}] /\ CacheHonest'
      BY <1>1, <2>1, <2>2, CacheOf
    <2> QED BY <1>1, <2>1, <2>3, <2>6, <2>7, QuietStep, LockStays DEF Inv, TypeOK
  <1> QED BY <1>5, <1>6, <1>7

\* One write of the journal's, whichever it is.
LEMMA JournalsInv ==
    ASSUME Inv, NEW c \in Calls, NEW at \in {"journal"} \cup Finishing,
           NEW next \in Finishing \cup {"lane"}, NEW d \in Disks, Journals(c, at, next, d),
           next \in Finishing => d.pending # None,
           cache' \in [perms : Tree \cup {None}, shared : BOOLEAN \cup {None}], CacheHonest'
    PROVE  Inv'
  <1> DEFINE r == [call[c] EXCEPT !.at = next, !.tree = None]
  <1>1. call[c].at = at /\ Writes(c, d, r) /\ UNCHANGED <<lane, scene, swept>>
    BY DEF Journals
  <1>2. /\ call[c] \in CallT /\ CallInv(c) /\ call[c].todo # <<>> /\ HasLock(c)
        /\ Stage(c).do # "stamp"
    BY <1>1, AtStage DEF Staged, Locked, CallInv
  <1>3. next \in Ats
    BY DEF Ats, Finishing
  <1>4. r \in CallT /\ r.at = next /\ r.todo = call[c].todo /\ r.op = call[c].op
    BY <1>2, <1>3 DEF CallT
  <1> HIDE DEF r
  <1>5. call'[c] = r /\ disk' = d
    BY <1>1, <1>4, WritesType DEF Inv
  <1>6. Stage(c)' = Stage(c) /\ HasLock(c)'
    BY <1>1, <1>2, <1>4, <1>5 DEF Stage, HasLock
  <1>7. CallInv(c)'
    BY <1>2, <1>4, <1>5, <1>6 DEF CallInv, Staged, Locked, Finishing
  <1> QED BY <1>1, <1>2, <1>4, <1>7, WriteStep, LockStays DEF Inv, TypeOK

\* While a journal is there, anything the instance holds is honest.
LEMMA PendingCache ==
    ASSUME Inv, disk'.pending # None, cache' = cache
    PROVE  /\ cache' \in [perms : Tree \cup {None}, shared : BOOLEAN \cup {None}]
           /\ CacheHonest'
  BY DEF Inv, TypeOK, CacheHonest

LEMMA JournalInv == ASSUME Inv, NEW c \in Calls, Journal(c) PROVE Inv'
  <1> DEFINE p == [tree |-> call[c].tree, global |-> Stage(c).do = "toGlobal"]
             d == [disk EXCEPT !.pending = p]
  <1>1. Journals(c, "journal", "tree", d) /\ cache' = cache
    BY DEF Journal
  <1>2. call[c].tree \in Tree
    BY <1>1 DEF Inv, CallInv, Journals
  <1>3. p \in [tree : Tree, global : BOOLEAN] /\ p # None
    <2> DEFINE g == (Stage(c).do = "toGlobal")
    <2>1. g \in BOOLEAN
      OBVIOUS
    <2> HIDE DEF g
    <2>2. [tree |-> call[c].tree, global |-> g] \in [tree : Tree, global : BOOLEAN]
      BY <1>2, <2>1
    <2>3. p \in [tree : Tree, global : BOOLEAN]
      BY <2>2 DEF g
    <2> HIDE DEF p
    <2> QED BY <2>3, ScenesAssumption
  <1> HIDE DEF p
  <1>4. d \in Disks /\ d.pending # None
    BY <1>3 DEF Inv, TypeOK, Disks
  <1> HIDE DEF d
  <1>5. disk' = d
    BY <1>1 DEF Journals, Writes
  <1> QED BY <1>1, <1>4, <1>5, PendingCache, JournalsInv DEF Finishing

\* A write from the journal leaves the journal where it is.
LEMMA FinishInv ==
    ASSUME Inv, NEW c \in Calls, NEW at \in Finishing, NEW next \in Finishing, NEW d \in Disks,
           d.pending = disk.pending, Journals(c, at, next, d), cache' = cache
    PROVE  Inv'
  <1>1. disk.pending # None
    BY DEF Inv, CallInv, Journals
  <1>2. disk' = d
    BY DEF Journals, Writes
  <1> QED BY <1>1, <1>2, PendingCache, JournalsInv

LEMMA WriteTreeInv == ASSUME Inv, NEW c \in Calls, WriteTree(c) PROVE Inv'
  <1> DEFINE d == [disk EXCEPT !.tree = disk.pending.tree]
  <1>1. Journals(c, "tree", "mode", d) /\ cache' = cache
    BY DEF WriteTree
  <1>2. disk.pending # None
    BY <1>1 DEF Inv, CallInv, Journals, Finishing
  <1>3. d \in Disks /\ d.pending = disk.pending
    BY <1>2 DEF Inv, TypeOK, Disks
  <1> HIDE DEF d
  <1> QED BY <1>1, <1>3, FinishInv DEF Finishing

LEMMA WriteModeInv == ASSUME Inv, NEW c \in Calls, WriteMode(c) PROVE Inv'
  <1> DEFINE d == [disk EXCEPT !.shared = FALSE]
  <1>1. Journals(c, "mode", "mark", d) /\ cache' = cache
    BY DEF WriteMode
  <1>2. d \in Disks /\ d.pending = disk.pending
    BY DEF Inv, TypeOK, Disks
  <1> HIDE DEF d
  <1> QED BY <1>1, <1>2, FinishInv DEF Finishing

LEMMA WriteMarkInv == ASSUME Inv, NEW c \in Calls, WriteMark(c) PROVE Inv'
  <1> DEFINE d == [disk EXCEPT !.inherit = TRUE]
             n == IF disk.pending.global THEN "global" ELSE "remove"
  <1>1. Journals(c, "mark", n, d) /\ cache' = cache
    BY DEF WriteMark
  <1>2. d \in Disks /\ d.pending = disk.pending
    BY DEF Inv, TypeOK, Disks
  <1>3. n \in Finishing
    BY DEF Finishing
  <1> HIDE DEF d, n
  <1> QED BY <1>1, <1>2, <1>3, FinishInv DEF Finishing

LEMMA WriteGlobalInv == ASSUME Inv, NEW c \in Calls, WriteGlobal(c) PROVE Inv'
  <1> DEFINE d == [disk EXCEPT !.consolidated = TRUE]
  <1>1. Journals(c, "global", "remove", d) /\ cache' = cache
    BY DEF WriteGlobal
  <1>2. d \in Disks /\ d.pending = disk.pending
    BY DEF Inv, TypeOK, Disks
  <1> HIDE DEF d
  <1> QED BY <1>1, <1>2, FinishInv DEF Finishing

LEMMA RemoveInv == ASSUME Inv, NEW c \in Calls, Remove(c) PROVE Inv'
  <1> DEFINE d == [disk EXCEPT !.pending = None]
  <1>1. Journals(c, "remove", "lane", d) /\ cache' = NoCache
    BY DEF Remove
  <1>2. d \in Disks
    BY DEF Inv, TypeOK, Disks
  <1>3. cache' \in [perms : Tree \cup {None}, shared : BOOLEAN \cup {None}] /\ CacheHonest'
    BY <1>1 DEF NoCache, CacheHonest
  <1> HIDE DEF d
  <1> QED BY <1>1, <1>2, <1>3, JournalsInv DEF Finishing

----------------------------------------------------------------------------
(* Failures.                                                               *)

LEMMA WriteFailsInv == ASSUME Inv, NEW c \in Calls, WriteFails(c) PROVE Inv'
  <1>1. scene' \in [name : DOMAIN Scenes, faults : Nat, crashes : Nat]
    BY DEF Inv, TypeOK, WriteFails
  <1> QED BY <1>1, Fails DEF WriteFails

LEMMA CrashInv == ASSUME Inv, Crash PROVE Inv'
  <1> DEFINE r(c) == IF Running(c) THEN [call[c] EXCEPT !.at = "dead", !.todo = <<>>, !.tree = None,
                                                        !.could = {}, !.modes = {}]
                     ELSE call[c]
  <1>1. /\ call' = [c \in Calls |-> r(c)] /\ lane' = <<>> /\ cache' = NoCache
        /\ scene' = [scene EXCEPT !.crashes = @ - 1] /\ scene.crashes > 0
        /\ UNCHANGED <<disk, swept>>
    BY DEF Crash
  <1>2. ASSUME NEW c \in Calls
        PROVE  /\ r(c) \in CallT /\ r(c).at \in Ended
               /\ r(c).op = call[c].op
               /\ r(c).todo = <<>> \/ r(c).todo = call[c].todo
    <2>1. call[c] \in CallT /\ "dead" \in Ats /\ <<>> \in Seq(Ops)
      BY EmptySeq DEF Inv, TypeOK, Ats, Ended
    <2>2. CASE Running(c)
      BY <2>1, <2>2 DEF CallT, Ended
    <2>3. CASE ~Running(c)
      BY <2>1, <2>3 DEF Running
    <2> QED BY <2>2, <2>3
  <1> HIDE DEF r
  <1>3. call' \in [Calls -> CallT] /\ \A c \in Calls : call'[c] = r(c)
    BY <1>1, <1>2
  <1>4. ASSUME NEW c \in Calls PROVE CallInv(c)'
    <2>1. CallInv(c) /\ call'[c] = r(c)
      BY <1>3 DEF Inv
    <2> QED BY <1>2, <2>1 DEF CallInv, Ended, Staged, Locked, Finishing
  <1>5. cache' \in [perms : Tree \cup {None}, shared : BOOLEAN \cup {None}] /\ CacheHonest'
    BY <1>1, CacheOf
  <1>6. scene' \in [name : DOMAIN Scenes, faults : Nat, crashes : Nat]
    BY <1>1 DEF Inv, TypeOK
  <1>7. lane' \in Seq(Calls)
    BY <1>1, EmptySeq
  <1>8. TypeOK'
    BY <1>1, <1>3, <1>5, <1>6, <1>7 DEF Inv, TypeOK
  <1> QED BY <1>4, <1>5, <1>8 DEF Inv

----------------------------------------------------------------------------
(* The theorems.                                                           *)

LEMMA StepInv == Inv /\ [Next]_vars => Inv'
  <1> SUFFICES ASSUME Inv, [Next]_vars PROVE Inv'
    OBVIOUS
  <1>1. CASE UNCHANGED vars
    <2>1. UNCHANGED <<disk, cache, lane, call, scene, swept>>
      BY <1>1 DEF vars
    <2>2. TypeOK' /\ CacheHonest'
      BY <2>1 DEF Inv, TypeOK, CacheHonest
    <2>3. ASSUME NEW c \in Calls PROVE CallInv(c)'
      <3>1. Edited(Stage(c), call[c].bucket, disk.tree)' = Edited(Stage(c), call[c].bucket, disk.tree)
        BY <2>1 DEF Edited, Reach, Stage
      <3> QED BY <2>1, <3>1 DEF Inv, CallInv, HasLock, Stage
    <2> QED BY <2>2, <2>3 DEF Inv
  <1>2. CASE Crash
    BY <1>2, CrashInv
  <1>3. ASSUME NEW c \in Calls,
               \/ Begin(c) \/ ReadInherit(c) \/ ReadShared(c) \/ Load(c) \/ Answer(c)
               \/ Draft(c) \/ Commit(c) \/ ClearAll(c) \/ Flip(c) \/ Stamp(c)
        PROVE  Inv'
    BY <1>3, BeginInv, ReadInheritInv, ReadSharedInv, LoadInv, AnswerInv, DraftInv, CommitInv,
       ClearAllInv, FlipInv, StampInv
  <1>4. ASSUME NEW c \in Calls,
               \/ StartMigration(c) \/ Journal(c) \/ WriteTree(c) \/ WriteMode(c)
               \/ WriteMark(c) \/ WriteGlobal(c) \/ Remove(c) \/ WriteFails(c)
        PROVE  Inv'
    BY <1>4, StartMigrationInv, JournalInv, WriteTreeInv, WriteModeInv, WriteMarkInv,
       WriteGlobalInv, RemoveInv, WriteFailsInv
  <1> QED BY <1>1, <1>2, <1>3, <1>4 DEF Next

\* The inductive invariant holds of every behaviour: whoever drafts, journals or finishes a
\* migration has the lock, and will commit an edit of the tree as it then is.
THEOREM Always == Spec => []Inv
  BY InitInv, StepInv, PTL DEF Spec

\* The variables of the store, the instance and its calls have their types.
THEOREM Typed == Spec => []TypeOK
  <1>1. Inv => TypeOK
    BY DEF Inv
  <1> QED BY <1>1, Always, PTL

\* The cached tree and mode are those of the store whenever no journal is there (#draft and
\* #commit of store.ts), for every schedule of calls, failures and crashes.
THEOREM Honest == Spec => []CacheHonest
  <1>1. Inv => CacheHonest
    BY DEF Inv
  <1> QED BY <1>1, Always, PTL

\* A commit changes nothing its operation is not about: nobody's decision is lost under an
\* older draft, however many calls save, clear and copy at once (AsyncLock of lock.ts).
THEOREM OnlyItsOwn == Spec => WritesOnlyItsOwn
  <1> DEFINE A == \A c \in Calls : Commit(c) =>
                    \A x \in Entries \ Reach(Stage(c), call[c].bucket) : disk'.tree[x] = disk.tree[x]
  <1>1. Inv /\ [Next]_vars => A
    <2> SUFFICES ASSUME Inv, NEW c \in Calls, Commit(c),
                        NEW x \in Entries \ Reach(Stage(c), call[c].bucket)
                 PROVE  disk'.tree[x] = disk.tree[x]
      OBVIOUS
    <2>1. call[c].at = "commit" /\ disk' = [disk EXCEPT !.tree = call[c].tree]
      BY DEF Commit, Writes
    <2>2. disk'.tree = Edited(Stage(c), call[c].bucket, disk.tree)
      BY <2>1 DEF Inv, CallInv, TypeOK, Disks
    <2>3. Stage(c) \in Ops /\ call[c].bucket \in Buckets /\ disk.tree \in Tree
      BY <2>1, AtStage DEF Staged, CallInv, Inv, TypeOK, Disks
    <2> QED BY <2>2, <2>3, EditedReach
  <1>2. Spec => [][A]_vars
    BY <1>1, Always, PTL DEF Spec
  <1> QED BY <1>2 DEF WritesOnlyItsOwn

\* No stage of migrate() loses a refusal, wherever it stands and whatever raced it.
THEOREM KeepsDenials == Spec => MigrateKeepsDenials
  <1> DEFINE A == \A c \in Calls : Commit(c) /\ call[c].op.do = "migrate" =>
                    \A x \in Entries : disk.tree[x] = "deny" =>
                        \E b \in {x[2], Default}, k \in {x[3], "send"} \cap Keys :
                            disk'.tree[<<x[1], b, k>>] = "deny"
  <1>1. Inv /\ [Next]_vars => A
    <2> SUFFICES ASSUME Inv, NEW c \in Calls, Commit(c), call[c].op.do = "migrate",
                        NEW x \in Entries, disk.tree[x] = "deny"
                 PROVE  \E b \in {x[2], Default}, k \in {x[3], "send"} \cap Keys :
                            disk'.tree[<<x[1], b, k>>] = "deny"
      OBVIOUS
    <2>1. call[c].at = "commit" /\ disk' = [disk EXCEPT !.tree = call[c].tree]
      BY DEF Commit, Writes
    <2>2. disk'.tree = Edited(Stage(c), call[c].bucket, disk.tree)
      BY <2>1 DEF Inv, CallInv, TypeOK, Disks
    <2>3. Stage(c) \in Ops /\ call[c].bucket \in Buckets /\ disk.tree \in Tree
      BY <2>1, AtStage DEF Staged, CallInv, Inv, TypeOK, Disks
    <2>4. Stage(c).do \in MigrateStages
      <3>1. call[c].todo # <<>> /\ CallInv(c)
        BY <2>1, AtStage DEF Staged
      <3>2. Stage(c) = call[c].todo[1] /\ 1 \in 1..Len(call[c].todo)
        BY <3>1, RestType DEF Inv
      <3>3. Stage(c).do # "stamp"
        BY <2>1, <3>1 DEF CallInv, Locked
      <3> QED BY <3>1, <3>2, <3>3 DEF CallInv
    <2>5. \E b \in {x[2], Default}, k \in {x[3], "send"} \cap Keys :
            Edited(Stage(c), call[c].bucket, disk.tree)[<<x[1], b, k>>] = "deny"
      BY <2>3, <2>4, StagesKeepDenials
    <2> QED BY <2>2, <2>5
  <1>2. Spec => [][A]_vars
    BY <1>1, Always, PTL DEF Spec
  <1> QED BY <1>2 DEF MigrateKeepsDenials

----------------------------------------------------------------------------
(* Checks, of a host that serialises its migrations.                       *)

Writing == {"journal"} \cup Finishing

Unjournaled(todo) == \A i \in 1..Len(todo) : todo[i].do \notin Journaled

\* A migration runs alone, and only a migration has a journal.
Alone   == \A x, y \in Calls :
              Running(x) /\ Running(y) /\ call[x].op.do \in Migrations => y = x
Doer(c) == call[c].op.do \notin Migrations =>
              call[c].at \notin Writing /\ Unjournaled(call[c].todo)

\* A running check k: it has seen the store d as it is; it will look in the bucket of a mode
\* it has seen; and what it has loaded would be a right answer in either mode.
Knows(k, d) ==
    /\ k.said = None /\ Could(d, k.op) \subseteq k.could /\ d.shared \in k.modes
Aims(k, d) ==
    k.at \in {"load", "again?"} /\ ~d.inherit /\ d.pending = None =>
        \E s \in k.modes : k.bucket = IF s THEN Default ELSE k.op.acct
Holding(k, d) ==
    k.at = "again?" =>
        /\ d.pending = None
        /\ \A s \in BOOLEAN :
             <<s, Resolve(Active(k.tree, d.inherit, s, k.op.o, k.op.acct), k.op.key)>> \in k.could
Right(k) == k.said # None => \E s \in k.modes : <<s, k.said>> \in k.could

Answers(k, d) ==
    k.op.do = "check" =>
        /\ k.at \in {"inherit?", "shared?", "load", "again?"} \cup Ended
        /\ k.at \notin Ended => Knows(k, d) /\ Aims(k, d) /\ Holding(k, d)
        /\ Right(k)

Serves == Alone /\ \A c \in Calls : Doer(c) /\ Answers(call[c], disk)

\* Call c becomes r and the store d, by a step that is not a check's.
Worked(c, r, d) ==
    /\ Running(c) /\ call[c].op.do # "check"
    /\ r \in CallT /\ d \in Disks /\ r.op = call[c].op
    /\ call[c].op.do \notin Migrations =>
         /\ r.at \notin Writing /\ Unjournaled(r.todo)
         /\ d.inherit = disk.inherit /\ d.pending = disk.pending
    /\ Writes(c, d, r) \/ (d = disk /\ disk' = disk /\ call' = [call EXCEPT ![c] = r])

LEMMA AloneKept ==
    ASSUME Alone, \A x \in Calls : call'[x].op = call[x].op /\ (Running(x)' => Running(x))
    PROVE  Alone'
  BY DEF Alone

\* A check that goes on while another call writes has seen what that one wrote.
LEMMA SeenAnswers ==
    ASSUME NEW k \in CallT, NEW d \in Disks, NEW e \in Disks, Answers(k, d), k.at \notin Ended,
           e.inherit = d.inherit, e.pending = d.pending
    PROVE  Answers([k EXCEPT !.could = @ \cup Could(e, k.op), !.modes = @ \cup {e.shared}], e)
  <1> DEFINE j == [k EXCEPT !.could = @ \cup Could(e, k.op), !.modes = @ \cup {e.shared}]
  <1> SUFFICES ASSUME k.op.do = "check" PROVE Answers(j, e)
    BY DEF Answers, CallT
  <1>1. /\ j.at = k.at /\ j.op = k.op /\ j.tree = k.tree /\ j.bucket = k.bucket /\ j.said = k.said
        /\ j.could = k.could \cup Could(e, k.op) /\ j.modes = k.modes \cup {e.shared}
    BY DEF CallT
  <1> HIDE DEF j
  <1>2. Knows(k, d) /\ Aims(k, d) /\ Holding(k, d)
    BY DEF Answers
  <1>3. Knows(j, e)
    BY <1>1, <1>2 DEF Knows
  <1>4. Aims(j, e)
    BY <1>1, <1>2 DEF Aims
  <1>5. Holding(j, e)
    BY <1>1, <1>2 DEF Holding
  <1> QED BY <1>1, <1>2, <1>3, <1>4, <1>5 DEF Answers, Right, Knows

LEMMA WorkedServes ==
    ASSUME Inv, Serves, NEW c \in Calls, NEW r, NEW d, Worked(c, r, d)
    PROVE  Serves'
  <1>1. /\ \A x \in Calls : call[x] \in CallT /\ Doer(x) /\ Answers(call[x], disk)
        /\ disk \in Disks /\ disk' = d /\ d \in Disks /\ r \in CallT /\ r.op = call[c].op
        /\ Running(c) /\ call[c].op.do # "check"
    BY DEF Inv, TypeOK, Serves, Worked, Writes
  <1>2. call'[c] = r
    BY <1>1 DEF Worked, Writes, Inv, TypeOK
  <1>3. ASSUME NEW x \in Calls \ {c}
        PROVE  /\ \/ call'[x] = call[x] /\ d = disk
                  \/ call'[x] = call[x] /\ ~(call[x].op.do = "check" /\ Running(x))
                  \/ /\ call[x].op.do = "check" /\ Running(x)
                     /\ call'[x] = [call[x] EXCEPT !.could = @ \cup Could(d, call[x].op),
                                                  !.modes = @ \cup {d.shared}]
               /\ call'[x].op = call[x].op /\ call'[x].at = call[x].at /\ call'[x].todo = call[x].todo
    <2> DEFINE seen == [call[x] EXCEPT !.could = @ \cup Could(d, call[x].op), !.modes = @ \cup {d.shared}]
    <2>1. seen.op = call[x].op /\ seen.at = call[x].at /\ seen.todo = call[x].todo
      BY <1>1 DEF CallT
    <2>2. CASE Writes(c, d, r)
      <3>1. call'[x] = IF call[x].op.do = "check" /\ Running(x) THEN seen ELSE call[x]
        BY <2>2 DEF Writes
      <3> HIDE DEF seen
      <3> QED BY <2>1, <3>1 DEF seen
    <2>3. CASE ~Writes(c, d, r)
      <3>1. call'[x] = call[x] /\ d = disk
        BY <2>3 DEF Worked, Inv, TypeOK
      <3> QED BY <3>1
    <2> QED BY <2>2, <2>3
  <1>4. Alone'
    BY <1>1, <1>2, <1>3, AloneKept DEF Serves, Running
  <1>5. ASSUME NEW x \in Calls PROVE Doer(x)'
    BY <1>1, <1>2, <1>3 DEF Doer, Worked
  <1>6. ASSUME NEW x \in Calls PROVE Answers(call'[x], d)
    <2>1. CASE x = c
      BY <1>1, <1>2, <2>1 DEF Answers
    <2>2. CASE x # c /\ call'[x] = call[x] /\ d = disk
      BY <1>1, <2>2
    <2>3. CASE x # c /\ call'[x] = call[x] /\ ~(call[x].op.do = "check" /\ Running(x))
      BY <1>1, <2>3 DEF Answers, Running
    <2>4. CASE /\ x # c /\ call[x].op.do = "check" /\ Running(x)
               /\ call'[x] = [call[x] EXCEPT !.could = @ \cup Could(d, call[x].op),
                                             !.modes = @ \cup {d.shared}]
      <3>1. call[c].op.do \notin Migrations
        BY <1>1, <2>4 DEF Serves, Alone
      <3>2. d.inherit = disk.inherit /\ d.pending = disk.pending
        BY <3>1 DEF Worked
      <3>3. call[x] \in CallT /\ Answers(call[x], disk) /\ call[x].at \notin Ended
        BY <1>1, <2>4 DEF Running
      <3>4. Answers([call[x] EXCEPT !.could = @ \cup Could(d, call[x].op), !.modes = @ \cup {d.shared}], d)
        BY <1>1, <3>2, <3>3, SeenAnswers
      <3> QED BY <2>4, <3>4
    <2> QED BY <1>3, <2>1, <2>2, <2>3, <2>4
  <1> QED BY <1>1, <1>4, <1>5, <1>6 DEF Serves

\* The steps of a call that is not a check.
Atwork == {"lane", "commit", "flip", "stamp"} \cup Writing

LEMMA AtWork ==
    ASSUME Inv, Serves, NEW c \in Calls, call[c].at \in Atwork
    PROVE  /\ Running(c) /\ call[c].op.do # "check" /\ Doer(c) /\ call[c] \in CallT /\ disk \in Disks
           /\ call[c].at \in Writing => call[c].op.do \in Migrations
  BY DEF Serves, Answers, Atwork, Writing, Finishing, Running, Ended, Doer, Inv, TypeOK

LEMMA RestUnjournaled ==
    ASSUME Inv, Serves, NEW c \in Calls, call[c].at \in Staged, call[c].op.do \notin Migrations
    PROVE  Unjournaled(Tail(call[c].todo))
  <1>1. call[c].todo # <<>> /\ Doer(c)
    BY AtStage DEF Serves
  <1>2. \A i \in 1..Len(Tail(call[c].todo)) :
           i + 1 \in 1..Len(call[c].todo) /\ Tail(call[c].todo)[i] = call[c].todo[i + 1]
    BY <1>1, RestType DEF Inv
  <1> QED BY <1>1, <1>2 DEF Doer, Unjournaled

\* It goes on to the stages left, having written or not.
LEMMA OnwardServes ==
    ASSUME Inv, Serves, NEW c \in Calls, call[c].at \in Atwork, NEW todo \in Seq(Ops), NEW d \in Disks,
           call[c].op.do \notin Migrations =>
              Unjournaled(todo) /\ d.inherit = disk.inherit /\ d.pending = disk.pending,
           \/ Writes(c, d, Onward(c, todo))
           \/ d = disk /\ disk' = disk /\ call' = [call EXCEPT ![c] = Onward(c, todo)]
    PROVE  Serves'
  <1>1. Onward(c, todo) \in CallT /\ Onward(c, todo).op = call[c].op
        /\ Onward(c, todo).todo = todo /\ Onward(c, todo).at \notin Writing
    BY OnwardType, AtType DEF Inv, Writing, Finishing
  <1>2. Running(c) /\ call[c].op.do # "check"
    BY AtWork
  <1> DEFINE r == Onward(c, todo)
  <1>3. r = Onward(c, todo)
    OBVIOUS
  <1> HIDE DEF r
  <1>4. Worked(c, r, d)
    BY <1>1, <1>2, <1>3 DEF Worked
  <1> QED BY <1>4, WorkedServes

LEMMA FailedServes ==
    ASSUME Inv, Serves, NEW c \in Calls, call[c].at \in Atwork, disk' = disk,
           call' = [call EXCEPT ![c] = Failed(c)]
    PROVE  Serves'
  <1>1. Failed(c) \in CallT /\ Failed(c).op = call[c].op
        /\ Failed(c).todo = <<>> /\ Failed(c).at \notin Writing
    BY FailedType DEF Inv, Writing, Finishing
  <1>2. Running(c) /\ call[c].op.do # "check" /\ disk \in Disks
    BY AtWork
  <1>3. Unjournaled(<<>>)
    BY DEF Unjournaled
  <1> DEFINE r == Failed(c)
  <1>4. r = Failed(c)
    OBVIOUS
  <1> HIDE DEF r
  <1>5. Worked(c, r, disk)
    BY <1>1, <1>2, <1>3, <1>4 DEF Worked
  <1> QED BY <1>5, WorkedServes

LEMMA DraftServes == ASSUME Inv, Serves, NEW c \in Calls, Draft(c) PROVE Serves'
  <1> DEFINE s     == Stage(c)
             b     == WriteBucket(s)
             draft == Edited(s, b, Loaded)
             rest  == Tail(call[c].todo)
  <1>1. call[c].at = "lane" /\ disk' = disk /\ call[c].at \in Staged /\ call[c].at \in Atwork
    BY DEF Draft, Drafting, Staged, Atwork
  <1>2. rest \in Seq(Ops) /\ s \in Ops /\ b \in Buckets
    BY <1>1, AtStage
  <1>3. call[c].op.do \notin Migrations => Unjournaled(rest)
    BY <1>1, RestUnjournaled
  <1>4. \/ call' = [call EXCEPT ![c] = Failed(c)]
        \/ call' = [call EXCEPT ![c] = Onward(c, rest)]
        \/ call' = [call EXCEPT ![c].at = "commit", ![c].tree = draft, ![c].bucket = b]
    BY DEF Draft
  <1>5. CASE call' = [call EXCEPT ![c].at = "commit", ![c].tree = draft, ![c].bucket = b]
    <2>1. draft \in Tree
      BY <1>2, LoadedType, EditedType DEF Inv
    <2> HIDE DEF draft, b
    <2> DEFINE r == [call[c] EXCEPT !.at = "commit", !.tree = draft, !.bucket = b]
    <2>2. /\ Running(c) /\ call[c].op.do # "check" /\ Doer(c) /\ call[c] \in CallT /\ disk \in Disks
      BY <1>1, AtWork
    <2>3. "commit" \in Ats \ Writing
      BY DEF Ats, Writing, Finishing
    <2>4. r \in CallT /\ r.op = call[c].op /\ r.at = "commit" /\ r.todo = call[c].todo
      BY <1>2, <2>1, <2>2, <2>3 DEF CallT
    <2>5. call' = [call EXCEPT ![c] = r]
      BY <1>5
    <2> HIDE DEF r
    <2>6. Worked(c, r, disk)
      BY <1>1, <2>2, <2>3, <2>4, <2>5 DEF Worked, Doer
    <2> QED BY <2>6, WorkedServes
  <1>6. disk \in Disks
    BY DEF Inv, TypeOK
  <1> HIDE DEF draft, b, rest
  <1> QED BY <1>1, <1>2, <1>3, <1>4, <1>5, <1>6, FailedServes, OnwardServes

\* Commit, clear and the mode change neither the mark nor the journal.
LEMMA WritesServes ==
    ASSUME Inv, Serves, NEW c \in Calls, call[c].at \in Staged \cap Atwork, NEW d \in Disks,
           d.inherit = disk.inherit, d.pending = disk.pending,
           Writes(c, d, Onward(c, Tail(call[c].todo)))
    PROVE  Serves'
  <1>1. Tail(call[c].todo) \in Seq(Ops)
    BY AtStage
  <1> QED BY <1>1, RestUnjournaled, OnwardServes

LEMMA CommitServes == ASSUME Inv, Serves, NEW c \in Calls, Commit(c) PROVE Serves'
  <1> DEFINE d == [disk EXCEPT !.tree = call[c].tree]
  <1>1. call[c].at = "commit" /\ Writes(c, d, Onward(c, Tail(call[c].todo)))
    BY DEF Commit
  <1>2. d \in Disks /\ d.inherit = disk.inherit /\ d.pending = disk.pending
    BY <1>1 DEF Inv, CallInv, Locked, TypeOK, Disks
  <1> HIDE DEF d
  <1> QED BY <1>1, <1>2, WritesServes DEF Staged, Atwork

LEMMA ClearAllServes == ASSUME Inv, Serves, NEW c \in Calls, ClearAll(c) PROVE Serves'
  <1> DEFINE d == [disk EXCEPT !.tree = Empty]
  <1>1. call[c].at = "lane" /\ Writes(c, d, Onward(c, Tail(call[c].todo)))
    BY DEF ClearAll, Drafting
  <1>2. d \in Disks /\ d.inherit = disk.inherit /\ d.pending = disk.pending
    BY EmptyType DEF Inv, TypeOK, Disks
  <1> HIDE DEF d
  <1> QED BY <1>1, <1>2, WritesServes DEF Staged, Atwork

LEMMA FlipServes == ASSUME Inv, Serves, NEW c \in Calls, Flip(c) PROVE Serves'
  <1> DEFINE d == [disk EXCEPT !.shared = (Stage(c).do = "share")]
  <1>1. call[c].at = "flip" /\ Writes(c, d, Onward(c, Tail(call[c].todo)))
    BY DEF Flip
  <1>2. d \in Disks /\ d.inherit = disk.inherit /\ d.pending = disk.pending
    BY DEF Inv, TypeOK, Disks
  <1> HIDE DEF d
  <1> QED BY <1>1, <1>2, WritesServes DEF Staged, Atwork

LEMMA StampServes == ASSUME Inv, Serves, NEW c \in Calls, Stamp(c) PROVE Serves'
  <1> DEFINE d == [disk EXCEPT !.version = TRUE]
  <1>1. call[c].at = "stamp" /\ Writes(c, d, Onward(c, <<>>))
    BY DEF Stamp
  <1>2. d \in Disks /\ d.inherit = disk.inherit /\ d.pending = disk.pending
    BY DEF Inv, TypeOK, Disks
  <1>3. <<>> \in Seq(Ops) /\ Unjournaled(<<>>)
    BY EmptySeq DEF Unjournaled
  <1> HIDE DEF d
  <1> QED BY <1>1, <1>2, <1>3, OnwardServes DEF Atwork

\* The steps of a journaled migration, which is alone.
LEMMA MigrationServes ==
    ASSUME Inv, Serves, NEW c \in Calls, call[c].op.do \in Migrations, call[c].at \in Atwork,
           NEW r \in CallT, NEW d \in Disks, r.op = call[c].op,
           \/ Writes(c, d, r)
           \/ d = disk /\ disk' = disk /\ call' = [call EXCEPT ![c] = r]
    PROVE  Serves'
  <1>1. Worked(c, r, d)
    BY AtWork DEF Worked
  <1> QED BY <1>1, WorkedServes

LEMMA StartMigrationServes == ASSUME Inv, Serves, NEW c \in Calls, StartMigration(c) PROVE Serves'
  <1> DEFINE s     == Stage(c)
             rest  == Tail(call[c].todo)
             draft == IF s.do = "toInherit" THEN Inheritance(Loaded, Shared)
                      ELSE Consolidated(Loaded, Callers)
  <1>1. /\ call[c].at = "lane" /\ disk' = disk /\ call[c].at \in Staged /\ call[c].at \in Atwork
        /\ s.do \in Journaled
    BY DEF StartMigration, Drafting, Staged, Atwork
  <1>2. call[c] \in CallT /\ disk \in Disks /\ call[c].todo # <<>> /\ rest \in Seq(Ops) /\ Doer(c)
    BY <1>1, AtStage, AtWork
  <1>3. call[c].op.do \in Migrations
    <2>1. s = call[c].todo[1] /\ 1 \in 1..Len(call[c].todo)
      BY <1>2, RestType DEF Inv
    <2> QED BY <1>1, <1>2, <2>1 DEF Doer, Unjournaled
  <1>4. Loaded \in Tree /\ draft \in Tree
    BY LoadedType, InheritanceType, ConsolidatedType DEF Inv
  <1>5. {"tree", "journal"} \subseteq Ats
    BY DEF Ats, Finishing
  <1>6. \/ call' = [call EXCEPT ![c].at = "tree"]
        \/ call' = [call EXCEPT ![c] = Onward(c, rest)]
        \/ call' = [call EXCEPT ![c].at = "journal", ![c].tree = draft]
    BY DEF StartMigration
  <1> HIDE DEF draft, s
  <1>7. CASE call' = [call EXCEPT ![c].at = "tree"]
    <2> DEFINE r == [call[c] EXCEPT !.at = "tree"]
    <2>1. r \in CallT /\ r.op = call[c].op
      BY <1>2, <1>5 DEF CallT
    <2>2. call' = [call EXCEPT ![c] = r]
      BY <1>7
    <2> HIDE DEF r
    <2> QED BY <1>1, <1>2, <1>3, <2>1, <2>2, MigrationServes
  <1>8. CASE call' = [call EXCEPT ![c] = Onward(c, rest)]
    <2> DEFINE r == Onward(c, rest)
    <2>1. r \in CallT /\ r.op = call[c].op
      BY <1>2, OnwardType DEF Inv
    <2>2. call' = [call EXCEPT ![c] = r]
      BY <1>8
    <2> HIDE DEF r
    <2> QED BY <1>1, <1>2, <1>3, <2>1, <2>2, MigrationServes
  <1>9. CASE call' = [call EXCEPT ![c].at = "journal", ![c].tree = draft]
    <2> DEFINE r == [call[c] EXCEPT !.at = "journal", !.tree = draft]
    <2>1. r \in CallT /\ r.op = call[c].op
      BY <1>2, <1>4, <1>5 DEF CallT
    <2>2. call' = [call EXCEPT ![c] = r]
      BY <1>9
    <2> HIDE DEF r
    <2> QED BY <1>1, <1>2, <1>3, <2>1, <2>2, MigrationServes
  <1> QED BY <1>6, <1>7, <1>8, <1>9

LEMMA JournalsServes ==
    ASSUME Inv, Serves, NEW c \in Calls, NEW at \in Writing, NEW next, NEW d, Journals(c, at, next, d), Inv'
    PROVE  Serves'
  <1> DEFINE r == [call[c] EXCEPT !.at = next, !.tree = None]
  <1>1. call[c].at = at /\ Writes(c, d, r)
    BY DEF Journals
  <1>2. call[c].op.do \in Migrations /\ call[c].at \in Atwork /\ call[c] \in CallT
    BY <1>1, AtWork DEF Atwork
  <1>3. call'[c] = r /\ disk' = d
    BY <1>1 DEF Writes
  <1>4. r \in CallT /\ d \in Disks
    BY <1>3 DEF Inv, TypeOK
  <1>5. r.op = call[c].op
    BY <1>2 DEF CallT
  <1> HIDE DEF r
  <1> QED BY <1>1, <1>2, <1>4, <1>5, MigrationServes

LEMMA JournalingServes ==
    ASSUME Inv, Serves, NEW c \in Calls, Inv',
           \/ Journal(c) \/ WriteTree(c) \/ WriteMode(c) \/ WriteMark(c) \/ WriteGlobal(c) \/ Remove(c)
    PROVE  Serves'
  <1>1. \E at \in Writing : \E next, d : Journals(c, at, next, d)
    BY DEF Journal, WriteTree, WriteMode, WriteMark, WriteGlobal, Remove, Writing, Finishing
  <1> QED BY <1>1, JournalsServes

LEMMA WriteFailsServes == ASSUME Inv, Serves, NEW c \in Calls, WriteFails(c) PROVE Serves'
  <1>1. call[c].at \in Atwork /\ disk' = disk /\ call' = [call EXCEPT ![c] = Failed(c)]
    BY DEF WriteFails, Drafting, Atwork, Writing
  <1> QED BY <1>1, FailedServes

LEMMA CrashServes == ASSUME Inv, Serves, Crash PROVE Serves'
  <1> DEFINE r(c) == IF Running(c) THEN [call[c] EXCEPT !.at = "dead", !.todo = <<>>, !.tree = None,
                                                        !.could = {}, !.modes = {}]
                     ELSE call[c]
  <1>1. call' = [c \in Calls |-> r(c)] /\ disk' = disk
    BY DEF Crash
  <1>2. ASSUME NEW c \in Calls
        PROVE  /\ r(c) = call[c] \/ (Running(c) /\ r(c).at = "dead" /\ r(c).todo = <<>> /\ r(c).said = call[c].said)
               /\ r(c).op = call[c].op
               /\ ~Running(c) => r(c) = call[c]
    <2>1. call[c] \in CallT
      BY DEF Inv, TypeOK
    <2> QED BY <2>1 DEF CallT
  <1> HIDE DEF r
  <1>3. \A c \in Calls : call'[c] = r(c)
    BY <1>1
  <1>4. Alone'
    BY <1>2, <1>3, AloneKept DEF Running, Ended, Serves
  <1>5. ASSUME NEW c \in Calls PROVE Doer(c)'
    <2>1. Unjournaled(<<>>) /\ "dead" \notin Writing /\ Doer(c)
      BY DEF Unjournaled, Writing, Finishing, Serves
    <2> QED BY <1>2, <1>3, <2>1 DEF Doer
  <1>6. ASSUME NEW c \in Calls PROVE Answers(call'[c], disk)
    <2>1. Answers(call[c], disk)
      BY DEF Serves
    <2> QED BY <1>2, <1>3, <2>1 DEF Answers, Right, Knows, Running, Ended
  <1> QED BY <1>1, <1>4, <1>5, <1>6 DEF Serves

----------------------------------------------------------------------------
(* A call begins.                                                          *)

LEMMA ProgramJournals ==
    ASSUME NEW op \in Ops, op.do \notin Migrations
    PROVE  Unjournaled(Program(op)) /\ Unjournaled(<<>>)
  <1>1. Program(op) = <<op>> /\ op.do \notin Journaled
    BY DEF Program, Migrations, Journaled
  <1> QED BY <1>1 DEF Unjournaled

LEMMA BeginServes ==
    ASSUME Inv, Serves, NEW c \in Calls, Begin(c), Scene.serial
    PROVE  Serves'
  <1>1. PICK op \in Scene.ops :
          LET begun == [NoCall EXCEPT !.op = op]
              todo  == IF Idle(op) THEN <<>> ELSE Program(op)
          IN  /\ MayBegin(op)
              /\ IF op.do \in {"check", "setup"}
                 THEN call' = [call EXCEPT ![c] = [begun EXCEPT
                                  !.at = "inherit?",
                                  !.could = IF op.do = "check" THEN Could(disk, op) ELSE {},
                                  !.modes = IF op.do = "check" THEN {disk.shared} ELSE {}]]
                 ELSE call' = [call EXCEPT ![c] = [begun EXCEPT !.at = At(todo), !.todo = todo]]
    BY DEF Begin
  <1>2. op \in Ops /\ disk' = disk
    BY ScenesAssumption DEF Inv, TypeOK, Scene, Begin
  <1> DEFINE todo == IF Idle(op) THEN <<>> ELSE Program(op)
             r    == IF op.do \in {"check", "setup"}
                     THEN [NoCall EXCEPT !.op = op, !.at = "inherit?",
                             !.could = IF op.do = "check" THEN Could(disk, op) ELSE {},
                             !.modes = IF op.do = "check" THEN {disk.shared} ELSE {}]
                     ELSE [NoCall EXCEPT !.op = op, !.at = At(todo), !.todo = todo]
  <1>3. /\ r.op = op /\ r.said = None
        /\ op.do \in {"check", "setup"} => r.at = "inherit?" /\ r.todo = <<>>
        /\ op.do \notin {"check", "setup"} => r.at = At(todo) /\ r.todo = todo
        /\ op.do = "check" => r.could = Could(disk, op) /\ r.modes = {disk.shared}
    BY DEF NoCall
  <1>4. call' = [call EXCEPT ![c] = r]
    BY <1>1
  <1>5. MayBegin(op)
    BY <1>1
  <1> HIDE DEF r
  <1>6. call'[c] = r /\ \A x \in Calls \ {c} : call'[x] = call[x]
    BY <1>4 DEF Inv, TypeOK
  <1>7. todo \in Seq(Ops) /\ At(todo) \notin Writing
    <2>1. todo \in Seq(Ops)
      BY <1>2, ProgramType
    <2>2. At(todo) \in {"done", "lane", "flip", "stamp"}
      BY <2>1, AtType
    <2> QED BY <2>1, <2>2 DEF Writing, Finishing
  <1>8. op.do \notin Migrations => Unjournaled(todo) /\ Unjournaled(<<>>)
    BY <1>2, ProgramJournals
  <1> HIDE DEF todo
  <1>9. Alone'
    <2> SUFFICES ASSUME NEW x \in Calls, NEW y \in Calls, Running(x)', Running(y)',
                        call'[x].op.do \in Migrations
                 PROVE  y = x
      BY DEF Alone
    <2>1. \A z \in Calls \ {c} : Running(z)
             => call[z].op.do \notin Migrations /\ op.do \notin Migrations
      BY <1>5 DEF MayBegin
    <2>2. \A z \in Calls \ {c} : Running(z)' => Running(z) /\ call'[z] = call[z]
      BY <1>6 DEF Running
    <2> QED BY <1>3, <1>6, <2>1, <2>2 DEF Serves, Alone
  <1>10. ASSUME NEW x \in Calls PROVE Doer(x)'
    <2>1. "inherit?" \notin Writing
      BY DEF Writing, Finishing
    <2> QED BY <1>3, <1>6, <1>7, <1>8, <2>1 DEF Doer, Serves
  <1>11. ASSUME NEW x \in Calls PROVE Answers(call'[x], disk)
    <2>1. CASE x # c
      BY <1>6, <2>1 DEF Serves
    <2>2. CASE x = c
      <3> SUFFICES ASSUME op.do = "check" PROVE Answers(r, disk)
        BY <1>3, <1>6, <2>2 DEF Answers
      <3> QED BY <1>3 DEF Answers, Knows, Aims, Holding, Right
    <2> QED BY <2>1, <2>2
  <1> QED BY <1>2, <1>9, <1>10, <1>11 DEF Serves

----------------------------------------------------------------------------
(* The steps of a check, and of a setup that reads the mode.               *)

LEMMA ReadServes ==
    ASSUME Inv, Serves, NEW c \in Calls, Running(c), NEW r, r.op = call[c].op, disk' = disk,
           call' = [call EXCEPT ![c] = r], Answers(r, disk),
           call[c].op.do \notin Migrations => r.at \notin Writing /\ Unjournaled(r.todo)
    PROVE  Serves'
  <1>1. call'[c] = r /\ \A x \in Calls \ {c} : call'[x] = call[x]
    BY DEF Inv, TypeOK
  <1>2. Alone'
    BY <1>1, AloneKept DEF Running, Serves
  <1>3. ASSUME NEW x \in Calls PROVE Doer(x)'
    BY <1>1 DEF Doer, Serves
  <1>4. ASSUME NEW x \in Calls PROVE Answers(call'[x], disk)
    BY <1>1 DEF Serves
  <1> QED BY <1>2, <1>3, <1>4 DEF Serves

\* What is known of a check at one of its awaits, or of a setup that has not begun.
LEMMA AtRead ==
    ASSUME Inv, Serves, NEW c \in Calls, call[c].at \in {"inherit?", "shared?", "load", "again?"}
    PROVE  /\ call[c] \in CallT /\ call[c].op \in Ops /\ disk \in Disks /\ Running(c) /\ call[c].at \notin Ended
           /\ Answers(call[c], disk) /\ CallInv(c) /\ Doer(c)
           /\ call[c].at \in {"inherit?", "shared?"} => call[c].op.do \in {"check", "setup"}
  <1>1. /\ call[c] \in CallT /\ call[c].op \in Ops /\ disk \in Disks
        /\ Answers(call[c], disk) /\ CallInv(c) /\ Doer(c)
    BY DEF Inv, Serves, TypeOK, CallT
  <1> QED BY <1>1 DEF CallInv, Running, Ended

LEMMA UnjournaledCat ==
    ASSUME NEW S, NEW a \in Seq(S), NEW b \in Seq(S), Unjournaled(a), Unjournaled(b)
    PROVE  Unjournaled(a \o b)
  <1>1. Len(a \o b) = Len(a) + Len(b) /\ Len(a) \in Nat /\ Len(b) \in Nat
    OBVIOUS
  <1>2. ASSUME NEW i \in 1..Len(a \o b)
        PROVE  (a \o b)[i] = IF i <= Len(a) THEN a[i] ELSE b[i - Len(a)]
    BY <1>1
  <1>3. ASSUME NEW i \in 1..Len(a \o b) PROVE (a \o b)[i].do \notin Journaled
    <2>1. CASE i <= Len(a)
      <3>1. i \in 1..Len(a)
        BY <1>1, <2>1
      <3> QED BY <1>2, <2>1, <3>1 DEF Unjournaled
    <2>2. CASE ~(i <= Len(a))
      <3>1. i - Len(a) \in 1..Len(b)
        BY <1>1, <2>2
      <3> QED BY <1>2, <2>2, <3>1 DEF Unjournaled
    <2> QED BY <2>1, <2>2
  <1> QED BY <1>3 DEF Unjournaled

LEMMA SetupUnjournaled ==
    ASSUME NEW op \in Ops, op.do = "setup"
    PROVE  /\ Unjournaled(<<As(op, "setUp")>>) /\ Unjournaled(<<Last(op)>>)
           /\ Unjournaled(Separated(op))
  <1>1. \A do \in OpNames \ Journaled : As(op, do).do \notin Journaled
    BY DEF As, Ops
  <1>2. {"setUp", "clearAccount", "copy", "separate"} \subseteq OpNames \ Journaled
    BY DEF OpNames, Journaled
  <1>3. As(op, "setUp").do \notin Journaled /\ As(op, "separate").do \notin Journaled
        /\ As(op, "copy").do \notin Journaled /\ Last(op).do \notin Journaled
    BY <1>1, <1>2 DEF Last
  <1> DEFINE n    == Len(op.others)
             e(i) == [As(op, "copy") EXCEPT !.acct = op.others[i], !.from = Default]
             end  == <<As(op, "separate"), Last(op)>>
             copies == [i \in 1..n |-> e(i)]
  <1>4. ASSUME NEW i \in 1..n PROVE e(i).do \notin Journaled
    BY <1>3 DEF As, Ops
  <1>5. n \in Nat
    BY OpParts
  <1>6. Separated(op) = copies \o end
    BY DEF Separated
  <1> DEFINE S == {e(i) : i \in 1..n} \cup {As(op, "separate"), Last(op)}
  <1> HIDE DEF n, e
  <1>7. copies \in Seq(S) /\ Unjournaled(copies)
    <2>1. \A i \in 1..n : e(i) \in S /\ copies[i] = e(i)
      OBVIOUS
    <2> HIDE DEF S
    <2>2. copies \in Seq(S) /\ Len(copies) = n
      BY <1>5, <2>1
    <2> QED BY <1>4, <2>1, <2>2 DEF Unjournaled
  <1>8. end \in Seq(S) /\ Unjournaled(end)
    <2>1. Len(end) = 2 /\ end[1] = As(op, "separate") /\ end[2] = Last(op)
      OBVIOUS
    <2>2. \A i \in 1..2 : i = 1 \/ i = 2
      OBVIOUS
    <2> QED BY <1>3, <2>1, <2>2 DEF Unjournaled
  <1> HIDE DEF end, copies, S
  <1>9. Unjournaled(Separated(op))
    BY <1>6, <1>7, <1>8, UnjournaledCat
  <1> QED BY <1>3, <1>9 DEF Unjournaled

LEMMA WithModeServes ==
    ASSUME Inv, Serves, NEW c \in Calls, call[c].at \in {"inherit?", "shared?"}, disk' = disk,
           NEW bucket, NEW todo \in Seq(Ops), WithMode(c, bucket, todo),
           call[c].op.do = "setup" => Unjournaled(todo),
           call[c].op.do = "check" /\ ~disk.inherit /\ disk.pending = None =>
              \E s \in call[c].modes : bucket = IF s THEN Default ELSE call[c].op.acct
    PROVE  Serves'
  <1>1. /\ call[c] \in CallT /\ Running(c) /\ call[c].at \notin Ended /\ Answers(call[c], disk)
        /\ Doer(c) /\ call[c].op.do \in {"check", "setup"}
    BY AtRead
  <1>2. CASE call[c].op.do = "check"
    <2> DEFINE r == [call[c] EXCEPT !.at = "load", !.bucket = bucket]
    <2>1. call' = [call EXCEPT ![c] = r]
      BY <1>2 DEF WithMode
    <2>2. /\ r.at = "load" /\ r.op = call[c].op /\ r.bucket = bucket /\ r.todo = call[c].todo
          /\ r.could = call[c].could /\ r.modes = call[c].modes /\ r.said = call[c].said
      BY <1>1 DEF CallT
    <2> HIDE DEF r
    <2>3. Answers(r, disk)
      BY <1>1, <1>2, <2>2 DEF Answers, Knows, Aims, Holding, Right
    <2>4. call[c].op.do \notin Migrations => r.at \notin Writing /\ Unjournaled(r.todo)
      BY <1>1, <2>2 DEF Doer, Writing, Finishing
    <2> QED BY <1>1, <2>1, <2>2, <2>3, <2>4, ReadServes
  <1>3. CASE call[c].op.do = "setup"
    <2> DEFINE r == Onward(c, todo)
    <2>1. call' = [call EXCEPT ![c] = r]
      BY <1>3 DEF WithMode
    <2>2. r.op = call[c].op /\ r.todo = todo /\ r.at \notin Writing
      BY OnwardType, AtType DEF Inv, Writing, Finishing
    <2> HIDE DEF r
    <2>3. Answers(r, disk)
      BY <1>3, <2>2 DEF Answers
    <2> QED BY <1>1, <1>3, <2>1, <2>2, <2>3, ReadServes
  <1> QED BY <1>1, <1>2, <1>3

LEMMA ReadInheritServes == ASSUME Inv, Serves, NEW c \in Calls, ReadInherit(c) PROVE Serves'
  <1>1. /\ call[c].at = "inherit?" /\ disk' = disk /\ call[c] \in CallT /\ call[c].op \in Ops
        /\ Running(c) /\ call[c].at \notin Ended /\ Answers(call[c], disk) /\ Doer(c)
    BY AtRead DEF ReadInherit
  <1>2. CASE disk.inherit
    <2>1. WithMode(c, call[c].op.acct, <<As(call[c].op, "setUp")>>)
      BY <1>2 DEF ReadInherit
    <2>2. <<As(call[c].op, "setUp")>> \in Seq(Ops)
      BY <1>1, AsType DEF OpNames
    <2> QED BY <1>1, <1>2, <2>1, <2>2, SetupUnjournaled, WithModeServes
  <1>3. CASE ~disk.inherit
    <2> DEFINE r == [call[c] EXCEPT !.at = "shared?"]
    <2>1. call' = [call EXCEPT ![c] = r]
      BY <1>3 DEF ReadInherit
    <2>2. /\ r.at = "shared?" /\ r.op = call[c].op /\ r.todo = call[c].todo
          /\ r.could = call[c].could /\ r.modes = call[c].modes /\ r.said = call[c].said
      BY <1>1 DEF CallT
    <2> HIDE DEF r
    <2>3. Answers(r, disk)
      BY <1>1, <2>2 DEF Answers, Knows, Aims, Holding, Right
    <2>4. call[c].op.do \notin Migrations => r.at \notin Writing /\ Unjournaled(r.todo)
      BY <1>1, <2>2 DEF Doer, Writing, Finishing
    <2> QED BY <1>1, <2>1, <2>2, <2>3, <2>4, ReadServes
  <1> QED BY <1>2, <1>3

LEMMA ReadSharedServes == ASSUME Inv, Serves, NEW c \in Calls, ReadShared(c) PROVE Serves'
  <1>1. /\ call[c].at = "shared?" /\ disk' = disk /\ call[c] \in CallT /\ call[c].op \in Ops
        /\ call[c].at \notin Ended /\ Answers(call[c], disk)
    BY AtRead DEF ReadShared
  <1>2. IF Shared THEN WithMode(c, Default, Separated(call[c].op))
        ELSE WithMode(c, call[c].op.acct, <<Last(call[c].op)>>)
    BY DEF ReadShared, Shared
  <1>3. disk.pending = None => Shared = disk.shared
    BY LoadedType DEF Inv
  <1>4. call[c].op.do = "check" => disk.shared \in call[c].modes
    BY <1>1 DEF Answers, Knows
  <1>5. Separated(call[c].op) \in Seq(Ops) /\ <<Last(call[c].op)>> \in Seq(Ops)
    BY <1>1, SeparatedType, LastType
  <1>6. CASE Shared
    BY <1>1, <1>2, <1>3, <1>4, <1>5, <1>6, SetupUnjournaled, WithModeServes
  <1>7. CASE ~Shared
    BY <1>1, <1>2, <1>3, <1>4, <1>5, <1>7, SetupUnjournaled, WithModeServes
  <1> QED BY <1>6, <1>7

LEMMA LoadServes == ASSUME Inv, Serves, NEW c \in Calls, Load(c) PROVE Serves'
  <1> DEFINE k == call[c]
  <1>1. /\ k.at = "load" /\ disk' = disk /\ k \in CallT /\ k.op \in Ops /\ disk \in Disks /\ Running(c)
        /\ k.at \notin Ended /\ Answers(k, disk) /\ Doer(c)
    BY AtRead DEF Load
  <1>2. k.op.do = "check" => Knows(k, disk) /\ Aims(k, disk)
    BY <1>1 DEF Answers
  <1>3. CASE disk.pending # None
    <2> DEFINE r == [Failed(c) EXCEPT !.said = "refused"]
    <2>1. call' = [call EXCEPT ![c] = r]
      BY <1>3 DEF Load
    <2>2. /\ r.at = "failed" /\ r.op = k.op /\ r.todo = <<>> /\ r.said = "refused"
          /\ r.could = k.could /\ r.modes = k.modes
      BY <1>1 DEF CallT, Failed
    <2>3. k.op.do = "check" => <<disk.shared, "refused">> \in Could(disk, k.op) /\ disk.shared \in k.modes
      <3>1. disk.shared \in BOOLEAN /\ [disk EXCEPT !.shared = disk.shared].pending = disk.pending
        BY <1>1 DEF Disks
      <3>2. Told([disk EXCEPT !.shared = disk.shared], k.op) = "refused"
        BY <1>3, <3>1 DEF Told
      <3> QED BY <1>2, <3>1, <3>2 DEF Could, Knows
    <2> HIDE DEF r, k
    <2>4. Answers(r, disk)
      BY <1>2, <2>2, <2>3 DEF Answers, Right, Knows, Ended
    <2>5. Unjournaled(r.todo) /\ r.at \notin Writing
      BY <2>2 DEF Unjournaled, Writing, Finishing
    <2> QED BY <1>1, <2>1, <2>2, <2>4, <2>5, ReadServes DEF k
  <1>4. CASE disk.pending = None
    <2> DEFINE r == [k EXCEPT !.at = "again?", !.tree = Loaded]
    <2>1. call' = [call EXCEPT ![c] = r]
      BY <1>4 DEF Load
    <2>2. /\ r.at = "again?" /\ r.op = k.op /\ r.todo = k.todo /\ r.tree = disk.tree /\ r.bucket = k.bucket
          /\ r.could = k.could /\ r.modes = k.modes /\ r.said = k.said
      BY <1>1, <1>4, LoadedType DEF CallT, Inv
    <2>3. ASSUME NEW s \in BOOLEAN, k.op.do = "check"
          PROVE  <<s, Resolve(Active(disk.tree, disk.inherit, s, k.op.o, k.op.acct), k.op.key)>> \in k.could
      <3> DEFINE d == [disk EXCEPT !.shared = s]
      <3>1. /\ d.shared = s /\ d.tree = disk.tree /\ d.inherit = disk.inherit /\ d.pending = disk.pending
        BY <1>1 DEF Disks
      <3>2. <<s, Told(d, k.op)>> \in Could(disk, k.op)
        BY DEF Could
      <3> HIDE DEF d
      <3>3. Told(d, k.op) = Resolve(Active(disk.tree, disk.inherit, s, k.op.o, k.op.acct), k.op.key)
        BY <1>4, <3>1 DEF Told
      <3> QED BY <1>2, <2>3, <3>2, <3>3 DEF Knows
    <2> HIDE DEF r, k
    <2>4. k.op.do = "check" => Knows(r, disk)
      BY <1>2, <2>2 DEF Knows
    <2>5. k.op.do = "check" => Aims(r, disk)
      BY <1>1, <1>2, <2>2 DEF Aims
    <2>6. k.op.do = "check" => Holding(r, disk)
      BY <1>4, <2>2, <2>3 DEF Holding
    <2>7. Answers(r, disk)
      BY <2>2, <2>4, <2>5, <2>6 DEF Answers, Right, Knows
    <2>8. k.op.do \notin Migrations => r.at \notin Writing /\ Unjournaled(r.todo)
      BY <1>1, <2>2 DEF Doer, Writing, Finishing, k
    <2> QED BY <1>1, <2>1, <2>2, <2>7, <2>8, ReadServes DEF k
  <1> QED BY <1>3, <1>4

LEMMA AnswerServes == ASSUME Inv, Serves, NEW c \in Calls, Answer(c) PROVE Serves'
  <1> DEFINE k == call[c]
             b == IF disk.inherit THEN Effective(k.tree, k.op.o, k.op.acct)
                  ELSE OriginBucket(k.tree, k.op.o, k.bucket)
             r == [k EXCEPT !.at = "done", !.tree = None, !.said = Resolve(b, k.op.key)]
  <1>1. /\ k.at = "again?" /\ disk' = disk /\ k \in CallT /\ k.op \in Ops /\ disk \in Disks /\ Running(c)
        /\ k.at \notin Ended /\ Answers(k, disk) /\ Doer(c)
    BY AtRead DEF Answer
  <1>2. k.op.do = "check" => Knows(k, disk) /\ Aims(k, disk) /\ Holding(k, disk)
    BY <1>1 DEF Answers
  <1>3. call' = [call EXCEPT ![c] = r]
    BY DEF Answer
  <1>4. ASSUME k.op.do = "check"
        PROVE  \E s \in k.modes : s \in BOOLEAN /\ b = Active(k.tree, disk.inherit, s, k.op.o, k.op.acct)
    <2>1. CASE disk.inherit
      BY <1>1, <1>2, <1>4, <2>1 DEF Active, Knows, Disks
    <2>2. CASE ~disk.inherit
      <3>1. PICK s \in k.modes : k.bucket = IF s THEN Default ELSE k.op.acct
        BY <1>1, <1>2, <1>4, <2>2 DEF Aims, Holding
      <3>2. s \in BOOLEAN
        BY <1>1, <3>1 DEF CallT
      <3> QED BY <2>2, <3>1, <3>2 DEF Active
    <2> QED BY <2>1, <2>2
  <1> HIDE DEF b
  <1>5. /\ r.at = "done" /\ r.op = k.op /\ r.todo = k.todo /\ r.said = Resolve(b, k.op.key)
        /\ r.could = k.could /\ r.modes = k.modes
    BY <1>1 DEF CallT
  <1> HIDE DEF r, k
  <1>6. k.op.do = "check" => Right(r)
    BY <1>1, <1>2, <1>4, <1>5 DEF Right, Holding
  <1>7. Answers(r, disk)
    BY <1>5, <1>6 DEF Answers, Ended
  <1>8. k.op.do \notin Migrations => r.at \notin Writing /\ Unjournaled(r.todo)
    BY <1>1, <1>5 DEF Doer, Writing, Finishing, k
  <1> QED BY <1>1, <1>3, <1>5, <1>7, <1>8, ReadServes DEF k

LEMMA ServesStart == Init => Serves
  <1> SUFFICES ASSUME Init PROVE Serves
    OBVIOUS
  <1>1. \A c \in Calls : call[c] = NoCall
    BY DEF Init
  <1>2. NoCall.at = "idle" /\ NoCall.op.do = "none" /\ NoCall.todo = <<>> /\ Unjournaled(<<>>)
    BY DEF NoCall, NoOp, Unjournaled
  <1> QED BY <1>1, <1>2 DEF Serves, Alone, Doer, Answers, Running, Ended, Writing, Finishing

LEMMA ServesStep ==
    ASSUME Inv, Serves, [Next]_vars, Scene.serial
    PROVE  Serves'
  <1>1. CASE UNCHANGED vars
    BY <1>1 DEF vars, Serves, Alone, Doer, Answers, Knows, Aims, Holding, Right, Running
  <1>2. CASE Crash
    BY <1>2, CrashServes
  <1>3. ASSUME NEW c \in Calls,
               \/ Begin(c) \/ ReadInherit(c) \/ ReadShared(c) \/ Load(c) \/ Answer(c)
               \/ Draft(c) \/ Commit(c) \/ ClearAll(c) \/ Flip(c) \/ Stamp(c)
        PROVE  Serves'
    BY <1>3, BeginServes, ReadInheritServes, ReadSharedServes, LoadServes, AnswerServes, DraftServes,
       CommitServes, ClearAllServes, FlipServes, StampServes
  <1>4. ASSUME NEW c \in Calls,
               \/ StartMigration(c) \/ Journal(c) \/ WriteTree(c) \/ WriteMode(c)
               \/ WriteMark(c) \/ WriteGlobal(c) \/ Remove(c) \/ WriteFails(c)
        PROVE  Serves'
    <2>1. Inv'
      BY StepInv
    <2> QED BY <1>4, <2>1, StartMigrationServes, JournalingServes, WriteFailsServes
  <1> QED BY <1>1, <1>2, <1>3, <1>4 DEF Next

\* check(): whatever is written, switched or cleared meanwhile, a check is answered as a tree and
\* a mode, each in force at some moment of it, would have answered it; of a host that lets no
\* migration overlap another call.  Without that a check may load the tree before a migration
\* and ask for the mark after it, and then reads the old rules as if they were the new layers.
THEOREM ChecksAnswered ==
    ASSUME \A n \in DOMAIN Scenes : Scenes[n].serial
    PROVE  Spec => []ChecksAnswerTheStore
  <1>1. Init => Inv /\ Serves
    BY InitInv, ServesStart
  <1>2. Inv /\ Serves /\ [Next]_vars => (Inv /\ Serves)'
    <2> SUFFICES ASSUME Inv, Serves, [Next]_vars PROVE (Inv /\ Serves)'
      OBVIOUS
    <2>1. Scene.serial
      BY DEF Inv, TypeOK, Scene
    <2> QED BY <2>1, StepInv, ServesStep
  <1>3. Inv /\ Serves => ChecksAnswerTheStore
    BY DEF Serves, Answers, Right, ChecksAnswerTheStore
  <1> QED BY <1>1, <1>2, <1>3, PTL DEF Spec

----------------------------------------------------------------------------
(* What a migration makes of an answer.                                    *)

LEMMA OriginReads ==
    ASSUME NEW t, NEW l, NEW b, NEW k \in Keys
    PROVE  OriginBucket(t, l, b)[k] = Over(t[<<l, b, k>>], t[<<HostOf[l], b, k>>])
  BY DEF OriginBucket

LEMMA EffectiveReads ==
    ASSUME NEW t, NEW l, NEW a, NEW k \in Keys
    PROVE  Effective(t, l, a)[k] =
             Over(OriginBucket(t, l, a)[k],
               Over(OriginBucket(t, l, Default)[k],
                 Over(OriginBucket(t, Global, a)[k], OriginBucket(t, Global, Default)[k])))
  BY DEF Effective

LEMMA GlobalReads ==
    ASSUME NEW t, NEW b, NEW k \in Keys
    PROVE  OriginBucket(t, Global, b)[k] = t[<<Global, b, k>>]
  BY OriginReads, RulesAssumption DEF Over

LEMMA Hosts == \A l \in Labels : HostOf[l] \in Labels /\ HostOf[HostOf[l]] = HostOf[l]
  BY HostType, RulesAssumption

\* The keys a method is looked up under.
LEMMA Denied ==
    ASSUME NEW v, NEW m
    PROVE  Resolve(v, m) = "deny" <=> "deny" \in {Rule(v, KeyOf(m)), Rule(v, "blanket")}
  BY DEF Resolve, Asked, Over

LEMMA Allowed ==
    ASSUME NEW v, NEW m
    PROVE  Resolve(v, m) = "allow" <=>
             /\ "deny" \notin {Rule(v, KeyOf(m)), Rule(v, "blanket")}
             /\ m # "relay"
             /\ Over(Rule(v, KeyOf(m)), Rule(v, "blanket")) = "allow"
  BY DEF Resolve, Asked, Over

\* e is the rule o, or where there is none it asks or is the rule g.
Follows(e, o, g) == IF o # "none" THEN e = o ELSE e \in {"none", "ask", g}

LEMMA FollowsDecides ==
    ASSUME NEW v, NEW w, NEW m, NEW g, NEW h,
           Follows(Rule(w, KeyOf(m)), Rule(v, KeyOf(m)), g),
           Follows(Rule(w, "blanket"), Rule(v, "blanket"), h)
    PROVE  /\ Resolve(w, m) = "allow" => Resolve(v, m) = "allow" \/ "allow" \in {g, h}
           /\ Resolve(v, m) = "deny" => Resolve(w, m) = "deny"
  BY Denied, Allowed DEF Follows, Over

\* Asking and having no rule are told the same, but for what a blanket rule adds.
LEMMA AskedDecides ==
    ASSUME NEW v, NEW w, NEW m,
           Asked(Rule(w, KeyOf(m))) = Asked(Rule(v, KeyOf(m))),
           Asked(Rule(w, "blanket")) = Asked(Rule(v, "blanket"))
    PROVE  /\ Resolve(w, m) = "allow" =>
                \/ Resolve(v, m) = "allow"
                \/ Rule(v, KeyOf(m)) = "ask" /\ Rule(w, KeyOf(m)) = "none"
           /\ Resolve(v, m) = "deny" => Resolve(w, m) = "deny"
  BY Denied, Allowed DEF Asked, Over

LEMMA UnstoredNone ==
    ASSUME NEW t \in Tree, NEW l \in Labels \ Stored(t), NEW b \in Buckets, NEW k \in Keys
    PROVE  t[<<l, b, k>>] = "none"
  BY DEF Stored, Holds

LEMMA SharedEntry ==
    ASSUME NEW t \in Tree, NEW l \in Labels, NEW b \in Buckets, NEW k \in Keys
    PROVE  Inheritance(t, TRUE)[<<l, b, k>>] = IF b = Default THEN t[<<l, b, k>>] ELSE "none"
  BY EntryOf, UnstoredNone DEF Inheritance

LEMMA OwnEntry ==
    ASSUME NEW t \in Tree, NEW l \in Labels, NEW b \in Buckets, NEW k \in Keys
    PROVE  Inheritance(t, FALSE)[<<l, b, k>>] =
             IF b \notin Accounts \/ l \notin Stored(t) THEN t[<<l, b, k>>]
             ELSE Over(OriginBucket(t, l, b)[k],
                       IF OriginBucket(t, l, Default)[k] # "none" THEN "ask" ELSE "none")
  <1>1. <<l, b, k>> \in Entries
    BY EntryOf
  <1> QED BY <1>1 DEF Inheritance

\* The account's rule at a label, with an "ask" over a shared one.
LEMMA OwnOrigin ==
    ASSUME NEW t \in Tree, NEW l \in Labels, NEW a \in Accounts, NEW k \in Keys
    PROVE  /\ OriginBucket(Inheritance(t, FALSE), l, a)[k] =
                Over(OriginBucket(t, l, a)[k],
                     IF OriginBucket(t, l, Default)[k] # "none" THEN "ask" ELSE "none")
           /\ OriginBucket(Inheritance(t, FALSE), l, Default)[k] = OriginBucket(t, l, Default)[k]
  <1> DEFINE u      == Inheritance(t, FALSE)
             h      == HostOf[l]
             O(x)   == Over(OriginBucket(t, x, a)[k],
                            IF OriginBucket(t, x, Default)[k] # "none" THEN "ask" ELSE "none")
  <1>1. h \in Labels /\ HostOf[h] = h /\ a \in Buckets /\ Default \in Buckets \ Accounts
    BY Hosts, BucketParts, RulesAssumption DEF Default
  <1>2. ASSUME NEW x \in {l, h}
        PROVE  /\ u[<<x, a, k>>] = IF x \in Stored(t) THEN O(x) ELSE t[<<x, a, k>>]
               /\ u[<<x, Default, k>>] = t[<<x, Default, k>>]
    <2>1. x \in Labels
      BY <1>1
    <2>2. u[<<x, a, k>>] = IF x \in Stored(t) THEN O(x) ELSE t[<<x, a, k>>]
      BY <1>1, <2>1, OwnEntry
    <2>3. u[<<x, Default, k>>] = t[<<x, Default, k>>]
      BY <1>1, <2>1, OwnEntry
    <2> QED BY <2>2, <2>3
  <1>3. \A x \in {l, h}, b \in {a, Default} : x \notin Stored(t) => t[<<x, b, k>>] = "none"
    BY <1>1, UnstoredNone
  <1>4. ASSUME NEW b \in {a, Default}
        PROVE  /\ OriginBucket(t, l, b)[k] = Over(t[<<l, b, k>>], t[<<h, b, k>>])
               /\ OriginBucket(t, h, b)[k] = Over(t[<<h, b, k>>], t[<<h, b, k>>])
               /\ OriginBucket(u, l, b)[k] = Over(u[<<l, b, k>>], u[<<h, b, k>>])
    BY <1>1 DEF OriginBucket
  <1> HIDE DEF u, h
  <1> QED BY <1>2, <1>3, <1>4 DEF Over, u

\* With shared rules only those are left; with each account's own, an "ask" is over the shared.
LEMMA SharedFollows ==
    ASSUME NEW t \in Tree, NEW l \in Labels, NEW a \in Accounts, NEW k \in Keys
    PROVE  Follows(Effective(Inheritance(t, TRUE), l, a)[k], OriginBucket(t, l, Default)[k],
                   t[<<Global, Default, k>>])
  <1> DEFINE u == Inheritance(t, TRUE)
  <1>1. a \in Buckets /\ Default \in Buckets /\ a # Default /\ Global \in Labels
        /\ HostOf[l] \in Labels /\ HostOf[Global] = Global
    BY BucketParts, Hosts, RulesAssumption DEF Default
  <1>2. ASSUME NEW x \in Labels
        PROVE  u[<<x, a, k>>] = "none" /\ u[<<x, Default, k>>] = t[<<x, Default, k>>]
    BY <1>1, SharedEntry
  <1> HIDE DEF u
  <1>3. ASSUME NEW x \in {l, Global}
        PROVE  /\ OriginBucket(u, x, a)[k] = "none"
               /\ OriginBucket(u, x, Default)[k] = OriginBucket(t, x, Default)[k]
    BY <1>1, <1>2 DEF OriginBucket, Over
  <1>4. OriginBucket(t, Global, Default)[k] = t[<<Global, Default, k>>]
    BY GlobalReads
  <1>5. /\ OriginBucket(u, l, a)[k] = "none" /\ OriginBucket(u, Global, a)[k] = "none"
        /\ OriginBucket(u, l, Default)[k] = OriginBucket(t, l, Default)[k]
        /\ OriginBucket(u, Global, Default)[k] = t[<<Global, Default, k>>]
    BY <1>3, <1>4
  <1>6. Effective(u, l, a)[k] =
             Over(OriginBucket(u, l, a)[k],
               Over(OriginBucket(u, l, Default)[k],
                 Over(OriginBucket(u, Global, a)[k], OriginBucket(u, Global, Default)[k])))
    BY EffectiveReads
  <1>7. Follows(Effective(u, l, a)[k], OriginBucket(t, l, Default)[k], t[<<Global, Default, k>>])
    BY <1>5, <1>6 DEF Follows, Over
  <1> QED BY <1>7 DEF u

LEMMA OwnFollows ==
    ASSUME NEW t \in Tree, NEW l \in Labels, NEW a \in Accounts, NEW k \in Keys
    PROVE  Follows(Effective(Inheritance(t, FALSE), l, a)[k], OriginBucket(t, l, a)[k],
                   t[<<Global, a, k>>])
  <1> DEFINE u == Inheritance(t, FALSE)
  <1>1. ASSUME NEW x \in {l, Global}
        PROVE  /\ OriginBucket(u, x, a)[k] =
                    Over(OriginBucket(t, x, a)[k],
                         IF OriginBucket(t, x, Default)[k] # "none" THEN "ask" ELSE "none")
               /\ OriginBucket(u, x, Default)[k] = OriginBucket(t, x, Default)[k]
    <2>1. x \in Labels
      BY BucketParts
    <2> QED BY <2>1, OwnOrigin
  <1> HIDE DEF u
  <1>2. OriginBucket(t, Global, a)[k] = t[<<Global, a, k>>]
    BY GlobalReads
  <1>3. Effective(u, l, a)[k] =
             Over(OriginBucket(u, l, a)[k],
               Over(OriginBucket(u, l, Default)[k],
                 Over(OriginBucket(u, Global, a)[k], OriginBucket(u, Global, Default)[k])))
    BY EffectiveReads
  <1>4. Follows(Effective(u, l, a)[k], OriginBucket(t, l, a)[k], t[<<Global, a, k>>])
    BY <1>1, <1>2, <1>3 DEF Follows, Over
  <1> QED BY <1>4 DEF u

\* What a tree answers before and after a migration to inheritance: the first half of
\* SharingNeverLoosens, of a tree.
Keeps(t, sh, l, a, m) ==
    LET was   == Resolve(Active(t, FALSE, sh, l, a), m)
        will  == Resolve(Effective(Inheritance(t, sh), l, a), m)
        at(k) == IF k \in Keys THEN t[<<Global, IF sh THEN Default ELSE a, k>>] ELSE "none"
    IN  /\ will = "allow" => was = "allow" \/ "allow" \in {at(KeyOf(m)), at("blanket")}
        /\ was = "deny" => will = "deny"

LEMMA InheritanceKeeps ==
    ASSUME NEW t \in Tree, NEW sh \in BOOLEAN, NEW l \in Labels, NEW a \in Accounts, NEW m \in Methods
    PROVE  Keeps(t, sh, l, a, m)
  <1> DEFINE v     == OriginBucket(t, l, IF sh THEN Default ELSE a)
             w     == Effective(Inheritance(t, sh), l, a)
             at(k) == IF k \in Keys THEN t[<<Global, IF sh THEN Default ELSE a, k>>] ELSE "none"
  <1>1. Active(t, FALSE, sh, l, a) = v
    BY DEF Active
  <1>2. ASSUME NEW k PROVE Follows(Rule(w, k), Rule(v, k), at(k))
    <2>1. CASE k \notin Keys
      BY <2>1 DEF Rule, Follows
    <2>2. CASE k \in Keys /\ sh
      <3>1. sh = TRUE
        BY <2>2
      <3> QED BY <2>2, <3>1, SharedFollows DEF Rule
    <2>3. CASE k \in Keys /\ ~sh
      <3>1. sh = FALSE
        BY <2>3
      <3> QED BY <2>3, <3>1, OwnFollows DEF Rule
    <2> QED BY <2>1, <2>2, <2>3
  <1> HIDE DEF v, w, at
  <1>3. /\ Resolve(w, m) = "allow" => Resolve(v, m) = "allow" \/ "allow" \in {at(KeyOf(m)), at("blanket")}
        /\ Resolve(v, m) = "deny" => Resolve(w, m) = "deny"
    BY <1>2, FollowsDecides
  <1> QED BY <1>1, <1>3 DEF w, at, Keeps

LEMMA RestoredEntry ==
    ASSUME NEW old, NEW u, NEW ls, NEW l \in Labels, NEW b \in Buckets, NEW k \in Keys
    PROVE  Restored(old, u, ls)[<<l, b, k>>] =
             IF /\ l \in ls /\ b \in Accounts
                /\ Asked(Effective(u, l, b)[k]) # Asked(Effective(old, l, b)[k])
             THEN Asked(Effective(old, l, b)[k]) ELSE u[<<l, b, k>>]
  <1>1. <<l, b, k>> \in Entries
    BY EntryOf
  <1> QED BY <1>1 DEF Restored

\* Six entries say what is in force.
Six(t, l, h, a, k) ==
    Over(Over(t[<<l, a, k>>], t[<<h, a, k>>]),
      Over(Over(t[<<l, Default, k>>], t[<<h, Default, k>>]),
        Over(t[<<Global, a, k>>], t[<<Global, Default, k>>])))

LEMMA SixEntries ==
    ASSUME NEW t, NEW l \in Labels, NEW a, NEW k \in Keys
    PROVE  Effective(t, l, a)[k] = Six(t, l, HostOf[l], a, k)
  <1>1. ASSUME NEW b PROVE OriginBucket(t, l, b)[k] = Over(t[<<l, b, k>>], t[<<HostOf[l], b, k>>])
    BY OriginReads
  <1>2. ASSUME NEW b PROVE OriginBucket(t, Global, b)[k] = t[<<Global, b, k>>]
    BY GlobalReads
  <1>3. Effective(t, l, a)[k] =
             Over(OriginBucket(t, l, a)[k],
               Over(OriginBucket(t, l, Default)[k],
                 Over(OriginBucket(t, Global, a)[k], OriginBucket(t, Global, Default)[k])))
    BY EffectiveReads
  <1> QED BY <1>1, <1>2, <1>3 DEF Six

LEMMA RestoredElsewhere ==
    ASSUME NEW old, NEW u, NEW ls, NEW l \in Labels, NEW a \in Accounts, NEW k \in Keys,
           l \notin ls, HostOf[l] \notin ls, Global \notin ls
    PROVE  Effective(Restored(old, u, ls), l, a)[k] = Effective(u, l, a)[k]
  <1> DEFINE r == Restored(old, u, ls)
  <1>1. HostOf[l] \in Labels /\ Global \in Labels /\ a \in Buckets /\ Default \in Buckets
    BY Hosts, BucketParts
  <1>2. ASSUME NEW x \in {l, HostOf[l], Global}, NEW b \in {a, Default}
        PROVE  r[<<x, b, k>>] = u[<<x, b, k>>]
    <2>1. x \in Labels /\ b \in Buckets /\ x \notin ls
      BY <1>1
    <2> QED BY <2>1, RestoredEntry
  <1> HIDE DEF r
  <1>3. Six(r, l, HostOf[l], a, k) = Six(u, l, HostOf[l], a, k)
    BY <1>2 DEF Six
  <1>4. /\ Effective(r, l, a)[k] = Six(r, l, HostOf[l], a, k)
        /\ Effective(u, l, a)[k] = Six(u, l, HostOf[l], a, k)
    BY SixEntries
  <1> QED BY <1>3, <1>4 DEF r

LEMMA RestoredTells ==
    ASSUME NEW old, NEW u, NEW ls, NEW l \in Labels, NEW a \in Accounts, NEW k \in Keys,
           l \in ls, HostOf[l] \notin ls \ {l}, Global \notin ls
    PROVE  Asked(Effective(Restored(old, u, ls), l, a)[k]) = Asked(Effective(old, l, a)[k])
  <1> DEFINE r   == Restored(old, u, ls)
             was == Asked(Effective(old, l, a)[k])
             h   == HostOf[l]
  <1>1. h \in Labels /\ Global \in Labels /\ a \in Buckets /\ Default \in Buckets \ Accounts
    BY Hosts, BucketParts, RulesAssumption DEF Default
  <1>2. was # "none"
    BY DEF Asked, Over
  <1>3. CASE Asked(Effective(u, l, a)[k]) # was
    <2>1. r[<<l, a, k>>] = was
      BY <1>1, <1>3, RestoredEntry
    <2> HIDE DEF r, was
    <2>2. Effective(r, l, a)[k] = Six(r, l, h, a, k) /\ Six(r, l, h, a, k) = was
      <3>1. Effective(r, l, a)[k] = Six(r, l, h, a, k)
        BY SixEntries
      <3>2. Six(r, l, h, a, k) = was
        BY <1>2, <2>1 DEF Six, Over
      <3> QED BY <3>1, <3>2
    <2> QED BY <1>2, <2>2 DEF Asked, Over, r, was
  <1>4. CASE Asked(Effective(u, l, a)[k]) = was
    <2>1. r[<<l, a, k>>] = u[<<l, a, k>>]
      BY <1>1, <1>4, RestoredEntry
    <2>2. r[<<h, a, k>>] = u[<<h, a, k>>]
      <3>1. CASE h = l
        BY <2>1, <3>1
      <3>2. CASE h \notin ls
        BY <1>1, <3>2, RestoredEntry
      <3> QED BY <3>1, <3>2
    <2>3. r[<<Global, a, k>>] = u[<<Global, a, k>>]
      BY <1>1, RestoredEntry
    <2>4. ASSUME NEW x \in {l, h, Global} PROVE r[<<x, Default, k>>] = u[<<x, Default, k>>]
      <3>1. x \in Labels
        BY <1>1
      <3> QED BY <1>1, <3>1, RestoredEntry
    <2> HIDE DEF r
    <2>5. Effective(r, l, a)[k] = Effective(u, l, a)[k]
      <3>1. Effective(r, l, a)[k] = Six(r, l, h, a, k) /\ Effective(u, l, a)[k] = Six(u, l, h, a, k)
        BY SixEntries
      <3>2. Six(r, l, h, a, k) = Six(u, l, h, a, k)
        BY <2>1, <2>2, <2>3, <2>4 DEF Six
      <3> QED BY <3>1, <3>2
    <2> QED BY <1>4, <2>5 DEF r
  <1> QED BY <1>3, <1>4

LEMMA RestoredNone ==
    ASSUME NEW old, NEW u, NEW ls, NEW l \in Labels, NEW b \in Buckets, NEW k \in Keys,
           Restored(old, u, ls)[<<l, b, k>>] = "none"
    PROVE  u[<<l, b, k>>] = "none"
  <1>1. Asked(Effective(old, l, b)[k]) # "none"
    BY DEF Asked, Over
  <1>2. Restored(old, u, ls)[<<l, b, k>>] \in {Asked(Effective(old, l, b)[k]), u[<<l, b, k>>]}
    <2>1. <<l, b, k>> \in Entries
      BY EntryOf
    <2> QED BY <2>1 DEF Restored
  <1> QED BY <1>1, <1>2

\* Hostnames are restored first, then the origins over them.
LEMMA ConsolidatedIs ==
    ASSUME NEW t
    PROVE  LET hosts == {l \in Callers : HostOf[l] = l}
           IN  Consolidated(t, Callers) =
                 Restored(t, Restored(t, Merged(t), hosts), Callers \ hosts)
  <1>1. (Stored(t) \ {Global}) \cup Callers = Callers
    BY DEF Stored, Callers
  <1> QED BY <1>1 DEF Consolidated

LEMMA ConsolidatedTells ==
    ASSUME NEW t, NEW l \in Callers, NEW a \in Accounts, NEW k \in Keys
    PROVE  Asked(Effective(Consolidated(t, Callers), l, a)[k]) = Asked(Effective(t, l, a)[k])
  <1> DEFINE hosts == {x \in Callers : HostOf[x] = x}
             u     == Restored(t, Merged(t), hosts)
  <1>1. /\ l \in Labels /\ HostOf[HostOf[l]] = HostOf[l]
        /\ Global \notin hosts /\ Global \notin Callers \ hosts
        /\ Consolidated(t, Callers) = Restored(t, u, Callers \ hosts)
    BY Hosts, ConsolidatedIs DEF Callers
  <1> DEFINE others == Callers \ hosts
  <1>2. CASE l \in hosts
    <2>1. HostOf[l] = l
      BY <1>2
    <2>2. l \notin others /\ HostOf[l] \notin others /\ Global \notin others
      BY <1>1, <1>2, <2>1
    <2> HIDE DEF hosts, others
    <2>3. Asked(Effective(u, l, a)[k]) = Asked(Effective(t, l, a)[k])
      <3>1. HostOf[l] \notin hosts \ {l}
        BY <2>1
      <3> QED BY <1>1, <1>2, <3>1, RestoredTells
    <2> HIDE DEF u
    <2>4. Effective(Restored(t, u, others), l, a)[k] = Effective(u, l, a)[k]
      BY <1>1, <2>2, RestoredElsewhere
    <2> QED BY <1>1, <2>3, <2>4 DEF others
  <1>3. CASE l \notin hosts
    <2>1. l \in others /\ HostOf[l] \notin others \ {l} /\ Global \notin others
      BY <1>1, <1>3
    <2> HIDE DEF u, others
    <2>2. Asked(Effective(Restored(t, u, others), l, a)[k]) = Asked(Effective(t, l, a)[k])
      BY <1>1, <2>1, RestoredTells
    <2> QED BY <1>1, <2>2 DEF others
  <1> QED BY <1>2, <1>3

LEMMA MergedReads ==
    ASSUME NEW t, NEW k \in Keys
    PROVE  /\ \A l \in Callers, a \in Accounts : Merged(t)[<<l, a, k>>] = t[<<l, a, k>>]
           /\ Merged(t)[<<Global, Default, k>>] = "none" =>
                /\ t[<<Global, Default, k>>] = "none"
                /\ \A l \in Callers : t[<<l, Default, k>>] \notin Decisions
  <1> DEFINE S == {t[<<l, Default, k>>] : l \in Callers}
             strictest == IF "deny" \in S THEN "deny" ELSE IF "ask" \in S THEN "ask"
                          ELSE IF "allow" \in S THEN "allow" ELSE "none"
  <1>1. ASSUME NEW l \in Callers, NEW a \in Accounts PROVE Merged(t)[<<l, a, k>>] = t[<<l, a, k>>]
    <2>1. <<l, a, k>> \in Entries /\ l # Global /\ a # Default
      BY EntryOf, BucketParts, RulesAssumption DEF Callers, Default
    <2> QED BY <2>1 DEF Merged
  <1>2. <<Global, Default, k>> \in Entries
    BY EntryOf, BucketParts
  <1>3. Merged(t)[<<Global, Default, k>>] = Over(t[<<Global, Default, k>>], strictest)
    BY <1>2 DEF Merged
  <1>4. strictest = "none" => \A l \in Callers : t[<<l, Default, k>>] \notin Decisions
    BY DEF Decisions
  <1> HIDE DEF strictest
  <1> QED BY <1>1, <1>3, <1>4 DEF Over

\* What is lost of an "ask" is the account's own at `_global`.
LEMMA ConsolidatedLoses ==
    ASSUME NEW t, NEW l \in Callers, NEW a \in Accounts, NEW k \in Keys,
           Effective(t, l, a)[k] = "ask", Effective(Consolidated(t, Callers), l, a)[k] = "none"
    PROVE  t[<<Global, a, k>>] = "ask"
  <1> DEFINE hosts == {x \in Callers : HostOf[x] = x}
             u == Restored(t, Merged(t), hosts)
             w == Restored(t, u, Callers \ hosts)
             h == HostOf[l]
  <1>1. /\ l \in Labels /\ h \in Labels /\ h \in Callers \cup {Global} /\ Global \in Labels
        /\ a \in Buckets /\ Default \in Buckets /\ Consolidated(t, Callers) = w
    BY Hosts, BucketParts, ConsolidatedIs DEF Callers
  <1>2. ASSUME NEW x \in Labels, NEW b \in Buckets, w[<<x, b, k>>] = "none"
        PROVE  Merged(t)[<<x, b, k>>] = "none"
    <2>1. u[<<x, b, k>>] = "none"
      BY <1>2, RestoredNone
    <2> QED BY <2>1, RestoredNone
  <1> HIDE DEF w
  <1>3. w[<<l, a, k>>] = "none" /\ w[<<h, a, k>>] = "none" /\ w[<<Global, Default, k>>] = "none"
    <2>1. Six(w, l, h, a, k) = "none"
      BY <1>1, SixEntries
    <2> QED BY <2>1 DEF Six, Over
  <1>4. /\ Merged(t)[<<l, a, k>>] = "none" /\ Merged(t)[<<h, a, k>>] = "none"
        /\ Merged(t)[<<Global, Default, k>>] = "none"
    BY <1>1, <1>2, <1>3
  <1>5. /\ t[<<l, a, k>>] = "none"
        /\ h \in Callers => t[<<h, a, k>>] = "none"
        /\ t[<<Global, Default, k>>] = "none"
        /\ t[<<l, Default, k>>] \notin Decisions
        /\ h \in Callers => t[<<h, Default, k>>] \notin Decisions
    BY <1>4, MergedReads
  <1> HIDE DEF h
  <1>6. Six(t, l, h, a, k) = "ask"
    BY <1>1, SixEntries DEF h
  <1> DEFINE la == t[<<l, a, k>>]            ha == t[<<h, a, k>>]
             ld == t[<<l, Default, k>>]      hd == t[<<h, Default, k>>]
             ga == t[<<Global, a, k>>]       gd == t[<<Global, Default, k>>]
  <1>7. Over(Over(la, ha), Over(Over(ld, hd), Over(ga, gd))) = "ask"
    BY <1>6 DEF Six
  <1>8. la = "none" /\ gd = "none" /\ ld # "ask"
    BY <1>5 DEF Decisions
  <1>9. \/ ha = "none" /\ hd # "ask"
        \/ ha = ga /\ hd = gd
    BY <1>1, <1>5 DEF Decisions
  <1> HIDE DEF la, ha, ld, hd, ga, gd
  <1>10. ga = "ask"
    BY <1>7, <1>8, <1>9 DEF Over
  <1> QED BY <1>10 DEF ga

\* Nor does one to global rules, of rules that were inherited already.
LEMMA ConsolidationKeeps ==
    ASSUME NEW t, NEW sh, NEW l \in Callers, NEW a \in Accounts, NEW m \in Methods
    PROVE  LET was   == Resolve(Active(t, TRUE, sh, l, a), m)
               will  == Resolve(Effective(Consolidated(t, Callers), l, a), m)
           IN  /\ will = "allow" =>
                     \/ was = "allow"
                     \/ KeyOf(m) \in Keys /\ t[<<Global, a, KeyOf(m)>>] = "ask"
               /\ was = "deny" => will = "deny"
  <1> DEFINE v == Effective(t, l, a)
             w == Effective(Consolidated(t, Callers), l, a)
  <1>1. ASSUME NEW k PROVE Asked(Rule(w, k)) = Asked(Rule(v, k))
    BY ConsolidatedTells DEF Rule
  <1>2. ASSUME Rule(v, KeyOf(m)) = "ask", Rule(w, KeyOf(m)) = "none"
        PROVE  KeyOf(m) \in Keys /\ t[<<Global, a, KeyOf(m)>>] = "ask"
    <2>1. KeyOf(m) \in Keys
      BY <1>2 DEF Rule
    <2> QED BY <1>2, <2>1, ConsolidatedLoses DEF Rule
  <1> HIDE DEF v, w
  <1>3. /\ Resolve(w, m) = "allow" =>
              \/ Resolve(v, m) = "allow"
              \/ Rule(v, KeyOf(m)) = "ask" /\ Rule(w, KeyOf(m)) = "none"
        /\ Resolve(v, m) = "deny" => Resolve(w, m) = "deny"
    BY <1>1, AskedDecides
  <1> QED BY <1>2, <1>3 DEF v, w, Active

----------------------------------------------------------------------------
(* What a new account is told.                                             *)

LEMMA NothingAllowed ==
    ASSUME NEW v, NEW m, \A k \in Keys : v[k] \in {"none", "ask"}
    PROVE  Resolve(v, m) # "allow"
  <1>1. \A k : Rule(v, k) \in {"none", "ask"}
    BY DEF Rule
  <1> QED BY <1>1, Allowed DEF Over

\* An "ask" stands over every shared rule.
LEMMA SetUpAsks ==
    ASSUME NEW t \in Tree, NEW new \in Accounts \cup {Default}, NEW l \in Labels, NEW k \in Keys
    PROVE  Effective(SetUp(t, new, "none", FALSE), l, new)[k] \in {"none", "ask"}
  <1> DEFINE s == SetUp(t, new, "none", FALSE)
             h == HostOf[l]
             D(x) == t[<<x, Default, k>>]
             N(x) == s[<<x, new, k>>]
  <1>1. h \in Labels /\ HostOf[h] = h /\ new \in Buckets /\ Default \in Buckets /\ Global \in Labels
        /\ HostOf[Global] = Global
    BY Hosts, BucketParts, RulesAssumption
  <1>2. ASSUME NEW x \in {l, h, Global}
        PROVE  /\ N(x) = IF x \in Stored(t) /\ OriginBucket(t, x, Default)[k] # "none" THEN "ask" ELSE "none"
               /\ x \notin Stored(t) => D(x) = "none"
               /\ new # Default => s[<<x, Default, k>>] = D(x)
    <2>1. x \in Labels
      BY <1>1
    <2>2. s[<<x, new, k>>] = IF x \in Stored(t)
                            THEN IF OriginBucket(t, x, Default)[k] = "none" THEN "none" ELSE "ask"
                            ELSE t[<<x, new, k>>]
      <3>1. <<x, new, k>> \in Entries
        BY <1>1, <2>1, EntryOf
      <3> QED BY <3>1 DEF SetUp
    <2>3. x \notin Stored(t) => D(x) = "none" /\ t[<<x, new, k>>] = "none"
      BY <1>1, <2>1, UnstoredNone
    <2>4. new # Default => s[<<x, Default, k>>] = t[<<x, Default, k>>]
      <3>1. <<x, Default, k>> \in Entries
        BY <1>1, <2>1, EntryOf
      <3> QED BY <3>1 DEF SetUp
    <2> QED BY <2>2, <2>3, <2>4
  <1>3. /\ OriginBucket(t, l, Default)[k] = Over(D(l), D(h))
        /\ OriginBucket(t, h, Default)[k] = Over(D(h), D(h))
        /\ OriginBucket(t, Global, Default)[k] = Over(D(Global), D(Global))
    BY <1>1 DEF OriginBucket
  <1>4. Effective(s, l, new)[k] = Six(s, l, h, new, k)
    BY SixEntries
  <1> HIDE DEF s, h
  <1>5. \A x \in {l, h, Global} : N(x) \in {"none", "ask"}
    BY <1>2
  <1>6. CASE new = Default
    BY <1>4, <1>5, <1>6 DEF Six, Over, s
  <1>7. CASE new # Default
    <2> DEFINE nl == N(l)  nh == N(h)  ng == N(Global)  dl == D(l)  dh == D(h)  dg == D(Global)
    <2>1. Six(s, l, h, new, k) = Over(Over(nl, nh), Over(Over(dl, dh), Over(ng, dg)))
      BY <1>2, <1>7 DEF Six
    <2>2. nl \in {"none", "ask"} /\ nh \in {"none", "ask"} /\ ng \in {"none", "ask"}
      BY <1>5
    <2>3. /\ dl # "none" => nl = "ask"
          /\ dh # "none" => nh = "ask"
          /\ dg # "none" => ng = "ask"
      BY <1>2, <1>3 DEF Over
    <2> HIDE DEF nl, nh, ng, dl, dh, dg
    <2> QED BY <1>4, <2>1, <2>2, <2>3 DEF Over, s
  <1> QED BY <1>6, <1>7

LEMMA ClearedAsks ==
    ASSUME NEW t, NEW a, NEW l \in Labels, \A x \in Labels, k \in Keys : t[<<x, a, k>>] = "none"
    PROVE  \A k \in Keys : OriginBucket(t, l, a)[k] \in {"none", "ask"}
  BY Hosts DEF OriginBucket, Over

----------------------------------------------------------------------------
(* The stages a call still has before it, and what it has drawn up.        *)

Shares == \E x \in Calls : call[x].op.do = "share"

\* Where a call is goes with its next stage; only who asked to share shares.
Reading == {"inherit?", "shared?", "load", "again?"}
Placed(k) ==
    /\ k.at \in Ended \cup Reading => k.todo = <<>>
    /\ k.at = "idle" => k.op.do = "none"
    /\ k.todo # <<>> =>
         /\ k.at = "flip" <=> Head(k.todo).do \in {"share", "separate"}
         /\ k.at = "stamp" <=> Head(k.todo).do = "stamp"
         /\ k.at = "commit" => Head(k.todo).do \notin Journaled
Sharer(k) == \A i \in 1..Len(k.todo) : k.todo[i].do = "share" => k.op.do = "share"

\* A new account set up with nothing, with each account's own rules: it is cleared last, and
\* before it the accounts are separated.
FromNothing(op) == op.do = "setup" /\ op.from = "none"
OwnStages(todo, op) ==
    /\ todo[Len(todo)] = As(op, "clearAccount")
    /\ Len(todo) > 1 => todo[Len(todo) - 1].do = "separate"
    /\ \A i \in 1..(Len(todo) - 2) : todo[i].do = "copy"
Separate(todo, d, sh) == Len(todo) = 1 /\ d.pending = None /\ d.shared => sh
SettingUp(k, d, sh) ==
    FromNothing(k.op) =>
      /\ k.at \notin {"load", "again?"}
      /\ k.at = "shared?" => ~d.inherit
      /\ k.todo # <<>> => IF d.inherit THEN k.todo = <<As(k.op, "setUp")>>
                           ELSE OwnStages(k.todo, k.op) /\ Separate(k.todo, d, sh)

\* A migration to global rules is of rules that are inherited, and what is about to be
\* journaled was made of the tree as it is.
Migrating(k, d) ==
    /\ k.op.do = "toInherit" /\ k.todo # <<>> => k.todo = <<k.op>>
    /\ k.op.do = "toGlobal" /\ k.todo # <<>> =>
         \/ k.todo = <<As(k.op, "toInherit"), k.op>>
         \/ k.todo = <<k.op>> /\ d.inherit
    /\ k.at = "journal" => IF Head(k.todo).do = "toInherit"
                           THEN ~d.inherit /\ k.tree = Inheritance(d.tree, d.shared)
                           ELSE d.inherit /\ k.tree = Consolidated(d.tree, Callers)

Plan(k, d, sh) == Placed(k) /\ Sharer(k) /\ SettingUp(k, d, sh) /\ Migrating(k, d)
Planned == \A c \in Calls : Plan(call[c], disk, Shares)

LEMMA Aside ==
    ASSUME NEW k, NEW d, NEW sh, k.at \in Ended, k.todo = <<>>, k.at = "idle" => k.op.do = "none"
    PROVE  Plan(k, d, sh)
  BY DEF Plan, Placed, Sharer, SettingUp, Migrating, Ended, Reading

\* A plan holds on while another call changes the tree, or the mode as somebody asked.
LEMMA PlanStays ==
    ASSUME NEW k, NEW j, NEW d, NEW e, NEW sh, Plan(k, d, sh), j.op = k.op, j.at = k.at, j.todo = k.todo,
           j.tree = k.tree, k.at # "journal", e.inherit = d.inherit, e.pending = d.pending,
           e.shared => d.shared \/ sh
    PROVE  Plan(j, e, sh)
  <1>1. Placed(j) /\ Sharer(j)
    BY DEF Plan, Placed, Sharer
  <1>2. SettingUp(j, e, sh)
    BY DEF Plan, SettingUp, Separate
  <1>3. Migrating(j, e)
    BY DEF Plan, Migrating
  <1> QED BY <1>1, <1>2, <1>3 DEF Plan

\* Call c becomes r and the store d.
Goes(c, r, d) ==
    /\ Running(c) /\ r.op = call[c].op /\ Plan(r, d, Shares)
    /\ call[c].op.do \notin Migrations => d.inherit = disk.inherit /\ d.pending = disk.pending
    /\ d.shared => disk.shared \/ Shares
    /\ Writes(c, d, r) \/ (d = disk /\ disk' = disk /\ call' = [call EXCEPT ![c] = r])

LEMMA GoesPlanned ==
    ASSUME Inv, Serves, Planned, NEW c \in Calls, NEW r, NEW d, Goes(c, r, d)
    PROVE  Planned'
  <1>1. disk' = d /\ call'[c] = r
    BY DEF Goes, Writes, Inv, TypeOK
  <1>2. ASSUME NEW x \in Calls \ {c}
        PROVE  /\ (call')[x].op = call[x].op /\ (call')[x].at = call[x].at
               /\ (call')[x].todo = call[x].todo /\ (call')[x].tree = call[x].tree
    <2> DEFINE seen == [call[x] EXCEPT !.could = @ \cup Could(d, call[x].op), !.modes = @ \cup {d.shared}]
    <2>1. /\ seen.op = call[x].op /\ seen.at = call[x].at /\ seen.todo = call[x].todo
          /\ seen.tree = call[x].tree
      BY DEF Inv, TypeOK, CallT
    <2>2. CASE Writes(c, d, r)
      <3>1. call'[x] = IF call[x].op.do = "check" /\ Running(x) THEN seen ELSE call[x]
        BY <2>2 DEF Writes
      <3> HIDE DEF seen
      <3> QED BY <2>1, <3>1
    <2>3. CASE ~Writes(c, d, r)
      <3>1. call'[x] = call[x]
        BY <2>3 DEF Goes, Inv, TypeOK
      <3> QED BY <3>1
    <2> QED BY <2>2, <2>3
  <1>3. Shares' = Shares
    <2>1. \A x \in Calls : call'[x].op = call[x].op
      BY <1>1, <1>2 DEF Goes
    <2> QED BY <2>1 DEF Shares
  <1>4. ASSUME NEW x \in Calls PROVE Plan(call'[x], d, Shares)
    <2>1. CASE x = c
      BY <1>1, <2>1 DEF Goes
    <2>2. CASE x # c /\ call[c].op.do \in Migrations
      <3>1. call[x].at \in Ended
        BY <2>2 DEF Goes, Serves, Alone, Running
      <3>2. call[x].todo = <<>> /\ (call[x].at = "idle" => call[x].op.do = "none")
        BY <3>1 DEF Planned, Plan, Placed
      <3>3. /\ (call')[x].at \in Ended /\ (call')[x].todo = <<>>
            /\ (call')[x].at = "idle" => (call')[x].op.do = "none"
        BY <1>2, <2>2, <3>1, <3>2
      <3> QED BY <3>3, Aside
    <2>3. CASE x # c /\ call[c].op.do \notin Migrations
      <3>1. call[x].at # "journal"
        <4> SUFFICES ASSUME call[x].at = "journal" PROVE FALSE
          OBVIOUS
        <4>1. call[x].op.do \in Migrations /\ Running(x)
          BY DEF Serves, Doer, Writing, Running, Ended
        <4> QED BY <2>3, <4>1 DEF Goes, Serves, Alone
      <3>2. /\ d.inherit = disk.inherit /\ d.pending = disk.pending
            /\ d.shared => disk.shared \/ Shares
        BY <2>3 DEF Goes
      <3>3. Plan(call[x], disk, Shares)
        BY DEF Planned
      <3>4. /\ (call')[x].op = call[x].op /\ (call')[x].at = call[x].at
            /\ (call')[x].todo = call[x].todo /\ (call')[x].tree = call[x].tree
        BY <1>2, <2>3
      <3> QED BY <3>1, <3>2, <3>3, <3>4, PlanStays
    <2> QED BY <2>1, <2>2, <2>3
  <1> QED BY <1>1, <1>3, <1>4 DEF Planned

LEMMA PlacedAt ==
    ASSUME NEW todo \in Seq(Ops), NEW r, r.at = At(todo), r.todo = todo
    PROVE  Placed(r)
  <1>1. /\ At(todo) \in {"done", "lane", "flip", "stamp"}
        /\ todo = <<>> <=> At(todo) = "done"
    BY AtType
  <1>2. todo # <<>> => /\ At(todo) = "flip" <=> Head(todo).do \in {"share", "separate"}
                       /\ At(todo) = "stamp" <=> Head(todo).do = "stamp"
    BY DEF At
  <1> HIDE DEF At
  <1> QED BY <1>1, <1>2 DEF Placed, Ended, Reading

LEMMA PlacedOnward ==
    ASSUME TypeOK, NEW c \in Calls, NEW todo \in Seq(Ops)
    PROVE  Placed(Onward(c, todo))
  BY OnwardType, PlacedAt

LEMMA OwnStagesTail ==
    ASSUME NEW todo \in Seq(Ops), NEW op, OwnStages(todo, op), todo # <<>>, Tail(todo) # <<>>
    PROVE  /\ OwnStages(Tail(todo), op)
           /\ Len(Tail(todo)) = 1 => Head(todo).do = "separate"
  <1> DEFINE rest == Tail(todo)
             n    == Len(todo)
  <1>1. /\ n \in Nat /\ n > 1 /\ Len(rest) = n - 1 /\ Head(todo) = todo[1]
        /\ \A i \in 1..(n - 1) : rest[i] = todo[i + 1]
    OBVIOUS
  <1>2. rest[Len(rest)] = todo[n]
    BY <1>1
  <1>3. Len(rest) > 1 => rest[Len(rest) - 1] = todo[n - 1]
    BY <1>1
  <1>4. ASSUME NEW i \in 1..(Len(rest) - 2) PROVE rest[i] = todo[i + 1] /\ i + 1 \in 1..(n - 2)
    BY <1>1
  <1>5. n = 2 => todo[n - 1] = Head(todo)
    BY <1>1
  <1> HIDE DEF rest, n
  <1>6. OwnStages(rest, op)
    BY <1>1, <1>2, <1>3, <1>4 DEF OwnStages, n
  <1>7. Len(rest) = 1 => Head(todo).do = "separate"
    BY <1>1, <1>5 DEF OwnStages, n
  <1> QED BY <1>6, <1>7 DEF rest

\* A call that goes on to its next stage, the store being d.
LEMMA RestPlan ==
    ASSUME Inv, Planned, NEW c \in Calls, call[c].at \in Staged, NEW d, d.inherit = disk.inherit,
           Stage(c).do = "toInherit" => d.inherit, Stage(c).do = "separate" => ~d.shared
    PROVE  Plan(Onward(c, Tail(call[c].todo)), d, Shares)
  <1> DEFINE k    == call[c]
             rest == Tail(call[c].todo)
             r    == Onward(c, rest)
  <1>1. /\ k.todo # <<>> /\ k.todo \in Seq(Ops) /\ rest \in Seq(Ops) /\ k.op \in Ops
        /\ Plan(k, disk, Shares) /\ Stage(c) = Head(k.todo)
    BY AtStage DEF CallT, Planned, Stage
  <1>2. r.todo = rest /\ r.op = k.op /\ r.at \in {"done", "lane", "flip", "stamp"} /\ Placed(r)
    BY <1>1, OnwardType, AtType, PlacedOnward DEF Inv
  <1>3. Len(rest) = Len(k.todo) - 1 /\ \A i \in 1..Len(rest) : rest[i] = k.todo[i + 1] /\ i + 1 \in 1..Len(k.todo)
    BY <1>1
  <1> HIDE DEF r, rest, k
  <1>4. Sharer(r)
    BY <1>1, <1>2, <1>3 DEF Plan, Sharer
  <1>5. SettingUp(r, d, Shares)
    <2> SUFFICES ASSUME FromNothing(k.op), rest # <<>>
                 PROVE  ~d.inherit /\ OwnStages(rest, k.op) /\ Separate(rest, d, Shares)
      BY <1>2 DEF SettingUp
    <2>1. ~disk.inherit /\ OwnStages(k.todo, k.op)
      <3>1. ASSUME NEW x, k.todo = <<x>> PROVE rest = <<>>
        BY <3>1 DEF rest, k
      <3> QED BY <1>1, <3>1 DEF Plan, SettingUp
    <2>2. OwnStages(rest, k.op) /\ (Len(rest) = 1 => Head(k.todo).do = "separate")
      BY <1>1, <2>1, OwnStagesTail DEF rest, k
    <2> QED BY <1>1, <2>1, <2>2 DEF Separate
  <1>6. Migrating(r, d)
    <2>1. k.op.do = "toInherit" => rest = <<>>
      <3> SUFFICES ASSUME k.op.do = "toInherit" PROVE rest = <<>>
        OBVIOUS
      <3>1. k.todo = <<k.op>>
        BY <1>1 DEF Plan, Migrating
      <3> QED BY <3>1 DEF rest, k
    <2>2. k.op.do = "toGlobal" => rest = <<>> \/ (rest = <<k.op>> /\ d.inherit)
      <3> SUFFICES ASSUME k.op.do = "toGlobal" PROVE rest = <<>> \/ (rest = <<k.op>> /\ d.inherit)
        OBVIOUS
      <3>1. CASE k.todo = <<k.op>>
        BY <3>1 DEF rest, k
      <3>2. CASE k.todo = <<As(k.op, "toInherit"), k.op>>
        <4>1. Head(k.todo) = As(k.op, "toInherit") /\ rest = <<k.op>>
          BY <3>2 DEF rest, k
        <4>2. As(k.op, "toInherit").do = "toInherit"
          BY <1>1 DEF As, Ops
        <4> QED BY <1>1, <4>1, <4>2
      <3> QED BY <1>1, <3>1, <3>2 DEF Plan, Migrating
    <2> QED BY <1>2, <2>1, <2>2 DEF Migrating
  <1> QED BY <1>2, <1>4, <1>5, <1>6 DEF Plan, r, rest, k

\* A call that stays at its stage, and a migration that does.
LEMMA DraftPlan ==
    ASSUME NEW k, NEW j, NEW d, NEW sh, Plan(k, d, sh), j.op = k.op, j.todo = k.todo, k.todo # <<>>,
           k.at = "lane", j.at = "commit", Head(k.todo).do \notin Journaled
    PROVE  Plan(j, d, sh)
  <1>1. Placed(j) /\ Sharer(j)
    BY DEF Plan, Placed, Sharer, Ended, Reading
  <1>2. SettingUp(j, d, sh) /\ Migrating(j, d)
    BY DEF Plan, SettingUp, Migrating
  <1> QED BY <1>1, <1>2 DEF Plan

Drawn(j, d) == IF Head(j.todo).do = "toInherit"
               THEN ~d.inherit /\ j.tree = Inheritance(d.tree, d.shared)
               ELSE d.inherit /\ j.tree = Consolidated(d.tree, Callers)

LEMMA MigrationPlan ==
    ASSUME NEW k, NEW j, NEW d, NEW e, NEW sh, Plan(k, d, sh), k.op.do \in Migrations, j.op = k.op,
           j.todo = k.todo, k.todo # <<>>, k.at \notin {"flip", "stamp"},
           j.at \in {"lane", "journal"} \cup Finishing, d.inherit => e.inherit,
           j.at = "journal" => Drawn(j, e)
    PROVE  Plan(j, e, sh)
  <1>1. Placed(j) /\ Sharer(j)
    BY DEF Plan, Placed, Sharer, Ended, Reading, Finishing
  <1>2. SettingUp(j, e, sh)
    BY DEF SettingUp, FromNothing, Migrations
  <1>3. Migrating(j, e)
    BY DEF Plan, Migrating, Drawn
  <1> QED BY <1>1, <1>2, <1>3 DEF Plan

----------------------------------------------------------------------------
(* The steps of every call keep the plans.                                 *)

\* A call at its stage goes on, or fails.
LEMMA OnwardPlanned ==
    ASSUME Inv, Serves, Planned, NEW c \in Calls, call[c].at \in Staged, NEW todo, NEW d,
           todo = Tail(call[c].todo), d.inherit = disk.inherit, d.pending = disk.pending,
           Stage(c).do = "toInherit" => d.inherit, Stage(c).do = "separate" => ~d.shared,
           d.shared => disk.shared \/ Shares,
           \/ Writes(c, d, Onward(c, todo))
           \/ d = disk /\ disk' = disk /\ call' = [call EXCEPT ![c] = Onward(c, todo)]
    PROVE  Planned'
  <1> DEFINE r == Onward(c, todo)
  <1>1. Running(c) /\ r.op = call[c].op
    BY AtStage, OnwardType DEF Staged, Running, Ended, Inv, Finishing
  <1>2. Plan(r, d, Shares)
    BY RestPlan
  <1>3. Writes(c, d, r) \/ (d = disk /\ disk' = disk /\ call' = [call EXCEPT ![c] = r])
    OBVIOUS
  <1> HIDE DEF r
  <1>4. Goes(c, r, d)
    BY <1>1, <1>2, <1>3 DEF Goes
  <1> QED BY <1>4, GoesPlanned

LEMMA FailedPlanned ==
    ASSUME Inv, Serves, Planned, NEW c \in Calls, Running(c), NEW said, disk' = disk,
           call' = [call EXCEPT ![c] = [Failed(c) EXCEPT !.said = said]]
              \/ call' = [call EXCEPT ![c] = Failed(c)]
    PROVE  Planned'
  <1>1. /\ Failed(c).op = call[c].op /\ Failed(c).at = "failed" /\ Failed(c).todo = <<>>
        /\ [Failed(c) EXCEPT !.said = said].op = call[c].op
        /\ [Failed(c) EXCEPT !.said = said].at = "failed"
        /\ [Failed(c) EXCEPT !.said = said].todo = <<>>
    BY DEF Failed, Inv, TypeOK, CallT
  <1>2. PICK r : /\ call' = [call EXCEPT ![c] = r]
                 /\ r.op = call[c].op /\ r.at = "failed" /\ r.todo = <<>>
    BY <1>1
  <1>3. Plan(r, disk, Shares)
    BY <1>2, Aside DEF Ended
  <1>4. Goes(c, r, disk)
    BY <1>2, <1>3 DEF Goes
  <1> QED BY <1>4, GoesPlanned

LEMMA StageRuns ==
    ASSUME Inv, Planned, NEW c \in Calls, call[c].at \in Staged
    PROVE  /\ Running(c) /\ Plan(call[c], disk, Shares) /\ Stage(c) = Head(call[c].todo)
           /\ call[c] \in CallT /\ call[c].todo # <<>>
           /\ call[c].at = "flip" <=> Stage(c).do \in {"share", "separate"}
           /\ call[c].at = "stamp" <=> Stage(c).do = "stamp"
           /\ call[c].at = "commit" => Stage(c).do \notin Journaled
  <1>1. call[c].todo # <<>> /\ call[c] \in CallT
    BY AtStage
  <1>2. Plan(call[c], disk, Shares)
    BY DEF Planned
  <1> QED BY <1>1, <1>2 DEF Plan, Placed, Stage, Staged, Running, Ended, Finishing

LEMMA DraftPlanned == ASSUME Inv, Serves, Planned, NEW c \in Calls, Draft(c) PROVE Planned'
  <1> DEFINE s     == Stage(c)
             b     == WriteBucket(s)
             draft == Edited(s, b, Loaded)
             rest  == Tail(call[c].todo)
  <1>1. call[c].at = "lane" /\ disk' = disk /\ call[c].at \in Staged /\ s.do \notin Journaled
    BY DEF Draft, Drafting, Staged
  <1>2. \/ call' = [call EXCEPT ![c] = Failed(c)]
        \/ call' = [call EXCEPT ![c] = Onward(c, rest)]
        \/ call' = [call EXCEPT ![c].at = "commit", ![c].tree = draft, ![c].bucket = b]
    BY DEF Draft
  <1>3. /\ Running(c) /\ Plan(call[c], disk, Shares) /\ s = Head(call[c].todo)
        /\ call[c] \in CallT /\ call[c].todo # <<>>
        /\ s.do \notin {"share", "separate"} /\ s.do # "toInherit"
    BY <1>1, StageRuns DEF Journaled
  <1>4. CASE call' = [call EXCEPT ![c] = Failed(c)]
    BY <1>1, <1>3, <1>4, FailedPlanned
  <1>5. CASE call' = [call EXCEPT ![c] = Onward(c, rest)]
    BY <1>1, <1>3, <1>5, OnwardPlanned
  <1>6. CASE call' = [call EXCEPT ![c].at = "commit", ![c].tree = draft, ![c].bucket = b]
    <2> HIDE DEF draft, b
    <2> DEFINE r == [call[c] EXCEPT !.at = "commit", !.tree = draft, !.bucket = b]
    <2>1. r.op = call[c].op /\ r.at = "commit" /\ r.todo = call[c].todo
      BY <1>3 DEF CallT
    <2>2. call' = [call EXCEPT ![c] = r]
      BY <1>6
    <2> HIDE DEF r
    <2>3. Plan(r, disk, Shares)
      BY <1>1, <1>3, <2>1, DraftPlan
    <2>4. Goes(c, r, disk)
      BY <1>1, <1>3, <2>1, <2>2, <2>3 DEF Goes
    <2> QED BY <2>4, GoesPlanned
  <1> QED BY <1>2, <1>4, <1>5, <1>6

LEMMA CommitPlanned == ASSUME Inv, Serves, Planned, NEW c \in Calls, Commit(c) PROVE Planned'
  <1> DEFINE rest == Tail(call[c].todo)
             d    == [disk EXCEPT !.tree = call[c].tree]
  <1>1. Writes(c, d, Onward(c, rest)) /\ call[c].at = "commit" /\ call[c].at \in Staged
    BY DEF Commit, Staged
  <1>2. d.inherit = disk.inherit /\ d.pending = disk.pending /\ d.shared = disk.shared
    BY DEF Inv, TypeOK, Disks
  <1>3. Stage(c).do \notin {"share", "separate"} /\ Stage(c).do # "toInherit"
    BY <1>1, StageRuns DEF Journaled
  <1> HIDE DEF d
  <1> QED BY <1>1, <1>2, <1>3, OnwardPlanned

LEMMA ClearAllPlanned == ASSUME Inv, Serves, Planned, NEW c \in Calls, ClearAll(c) PROVE Planned'
  <1> DEFINE rest == Tail(call[c].todo)
             d    == [disk EXCEPT !.tree = Empty]
  <1>1. /\ Writes(c, d, Onward(c, rest)) /\ call[c].at = "lane" /\ call[c].at \in Staged
        /\ Stage(c).do = "clearAll"
    BY DEF ClearAll, Drafting, Staged
  <1>2. d.inherit = disk.inherit /\ d.pending = disk.pending /\ d.shared = disk.shared
    BY DEF Inv, TypeOK, Disks
  <1> HIDE DEF d
  <1> QED BY <1>1, <1>2, OnwardPlanned

LEMMA FlipPlanned == ASSUME Inv, Serves, Planned, NEW c \in Calls, Flip(c) PROVE Planned'
  <1> DEFINE rest == Tail(call[c].todo)
             d    == [disk EXCEPT !.shared = (Stage(c).do = "share")]
  <1>1. Writes(c, d, Onward(c, rest)) /\ call[c].at = "flip" /\ call[c].at \in Staged
    BY DEF Flip, Staged
  <1>2. d.inherit = disk.inherit /\ d.pending = disk.pending /\ d.shared = (Stage(c).do = "share")
    BY DEF Inv, TypeOK, Disks
  <1>3. /\ Stage(c).do \in {"share", "separate"} /\ Plan(call[c], disk, Shares)
        /\ call[c] \in CallT /\ call[c].todo # <<>>
    BY <1>1, StageRuns
  <1>4. d.shared => Shares
    <2>1. Stage(c) = call[c].todo[1] /\ 1 \in 1..Len(call[c].todo)
      BY <1>3, RestType DEF Inv
    <2> QED BY <1>2, <1>3, <2>1 DEF Plan, Sharer, Shares
  <1> HIDE DEF d
  <1> QED BY <1>1, <1>2, <1>3, <1>4, OnwardPlanned

LEMMA StampPlanned == ASSUME Inv, Serves, Planned, NEW c \in Calls, Stamp(c) PROVE Planned'
  <1> DEFINE r == Onward(c, <<>>)
             d == [disk EXCEPT !.version = TRUE]
  <1>1. Writes(c, d, r) /\ call[c].at = "stamp" /\ call[c].at \in Staged
    BY DEF Stamp, Staged
  <1>2. d.inherit = disk.inherit /\ d.pending = disk.pending /\ d.shared = disk.shared
    BY DEF Inv, TypeOK, Disks
  <1>3. r.op = call[c].op /\ r.at = "done" /\ r.todo = <<>>
    <2>1. <<>> \in Seq(Ops) /\ At(<<>>) = "done"
      BY DEF At
    <2> QED BY <2>1, OnwardType DEF Inv
  <1>4. Running(c)
    BY <1>1, StageRuns
  <1> HIDE DEF r, d
  <1>5. Plan(r, d, Shares)
    BY <1>3, Aside DEF Ended
  <1>6. Goes(c, r, d)
    BY <1>1, <1>2, <1>3, <1>4, <1>5 DEF Goes
  <1> QED BY <1>6, GoesPlanned

LEMMA StartMigrationPlanned ==
    ASSUME Inv, Serves, Planned, NEW c \in Calls, StartMigration(c)
    PROVE  Planned'
  <1> DEFINE k     == call[c]
             s     == Stage(c)
             rest  == Tail(call[c].todo)
             made  == IF s.do = "toInherit" THEN disk.inherit ELSE disk.consolidated
             draft == IF s.do = "toInherit" THEN Inheritance(Loaded, Shared)
                      ELSE Consolidated(Loaded, Callers)
  <1>1. /\ k.at = "lane" /\ disk' = disk /\ k.at \in Staged /\ k.at \in Atwork
        /\ s.do \in Journaled
    BY DEF StartMigration, Drafting, Staged, Atwork
  <1>2. /\ Running(c) /\ Plan(k, disk, Shares) /\ s = Head(k.todo) /\ k \in CallT /\ k.todo # <<>>
    BY <1>1, StageRuns
  <1>3. s = k.todo[1] /\ 1 \in 1..Len(k.todo)
    BY <1>2, RestType DEF Inv
  <1>4. k.op.do \in Migrations
    BY <1>1, <1>3 DEF Serves, Doer, Unjournaled
  <1>5. \/ call' = [call EXCEPT ![c].at = "tree"]
        \/ call' = [call EXCEPT ![c] = Onward(c, rest)] /\ made
        \/ call' = [call EXCEPT ![c].at = "journal", ![c].tree = draft] /\ ~made /\ disk.pending = None
    BY DEF StartMigration
  <1>6. CASE call' = [call EXCEPT ![c].at = "tree"]
    <2> DEFINE r == [call[c] EXCEPT !.at = "tree"]
    <2>1. r.op = k.op /\ r.todo = k.todo /\ r.at = "tree"
      BY <1>2 DEF CallT
    <2>2. call' = [call EXCEPT ![c] = r]
      BY <1>6
    <2> HIDE DEF r, k, s
    <2>3. Plan(r, disk, Shares)
      BY <1>1, <1>2, <1>4, <2>1, MigrationPlan DEF Finishing
    <2>4. Goes(c, r, disk)
      BY <1>1, <1>2, <2>1, <2>2, <2>3 DEF Goes, k
    <2> QED BY <2>4, GoesPlanned
  <1>7. CASE call' = [call EXCEPT ![c] = Onward(c, rest)] /\ made
    <2>1. s.do = "toInherit" => disk.inherit
      BY <1>7
    <2>2. s.do # "separate"
      BY <1>1 DEF Journaled
    <2> QED BY <1>1, <1>7, <2>1, <2>2, OnwardPlanned
  <1>8. CASE /\ call' = [call EXCEPT ![c].at = "journal", ![c].tree = draft]
             /\ ~made /\ disk.pending = None
    <2> DEFINE r == [call[c] EXCEPT !.at = "journal", !.tree = draft]
    <2>1. r.op = k.op /\ r.todo = k.todo /\ r.at = "journal" /\ r.tree = draft
      BY <1>2 DEF CallT
    <2>2. call' = [call EXCEPT ![c] = r]
      BY <1>8
    <2>3. Loaded = disk.tree /\ Shared = disk.shared
      BY <1>8, LoadedType DEF Inv
    <2>4. s.do # "toInherit" => disk.inherit
      <3> SUFFICES ASSUME s.do = "toGlobal" PROVE disk.inherit
        BY <1>1 DEF Journaled
      <3>1. k.op.do # "migrate"
        <4>1. k.op.do = "migrate" => s.do \in MigrateStages \cup {"stamp"}
          BY <1>1, <1>3, AtStage DEF CallInv
        <4> QED BY <4>1 DEF MigrateStages
      <3>2. k.op.do # "toInherit"
        <4>1. k.op.do = "toInherit" => k.todo = <<k.op>>
          BY <1>2 DEF Plan, Migrating
        <4> QED BY <1>3, <4>1
      <3>3. k.todo = <<As(k.op, "toInherit"), k.op>> \/ disk.inherit
        BY <1>2, <1>4, <3>1, <3>2 DEF Plan, Migrating, Migrations
      <3>4. As(k.op, "toInherit").do = "toInherit"
        BY <1>2 DEF As, CallT, Ops
      <3> QED BY <1>3, <3>3, <3>4
    <2>5. Drawn(r, disk)
      <3>1. CASE s.do = "toInherit"
        BY <1>2, <1>8, <2>1, <2>3, <3>1 DEF Drawn
      <3>2. CASE s.do # "toInherit"
        BY <1>2, <2>1, <2>3, <2>4, <3>2 DEF Drawn
      <3> QED BY <3>1, <3>2
    <2> HIDE DEF r, k, s
    <2>6. Plan(r, disk, Shares)
      BY <1>1, <1>2, <1>4, <2>1, <2>5, MigrationPlan
    <2>7. Goes(c, r, disk)
      BY <1>1, <1>2, <2>1, <2>2, <2>6 DEF Goes, k
    <2> QED BY <2>7, GoesPlanned
  <1> HIDE DEF made, draft
  <1> QED BY <1>5, <1>6, <1>7, <1>8

LEMMA JournalsPlanned ==
    ASSUME Inv, Serves, Planned, NEW c \in Calls, NEW at \in Writing, NEW next \in {"lane"} \cup Finishing,
           NEW d, Journals(c, at, next, d), disk.inherit => d.inherit, d.shared => disk.shared
    PROVE  Planned'
  <1> DEFINE r == [call[c] EXCEPT !.at = next, !.tree = None]
  <1>1. call[c].at \in Writing /\ call[c].at \in Staged /\ Writes(c, d, r)
    BY DEF Journals, Staged, Writing
  <1>2. /\ Running(c) /\ Plan(call[c], disk, Shares) /\ call[c] \in CallT /\ call[c].todo # <<>>
        /\ call[c].op.do \in Migrations /\ call[c].at \notin {"flip", "stamp"}
    BY <1>1, StageRuns DEF Serves, Doer, Writing, Finishing
  <1>3. r.op = call[c].op /\ r.todo = call[c].todo /\ r.at = next
    BY <1>2 DEF CallT
  <1>4. next # "journal" /\ next \in {"lane", "journal"} \cup Finishing
    BY DEF Finishing
  <1> HIDE DEF r
  <1>5. Plan(r, d, Shares)
    BY <1>2, <1>3, <1>4, MigrationPlan
  <1>6. Goes(c, r, d)
    BY <1>1, <1>2, <1>3, <1>5 DEF Goes
  <1> QED BY <1>6, GoesPlanned

LEMMA JournalingPlanned ==
    ASSUME Inv, Serves, Planned, NEW c \in Calls,
           \/ Journal(c) \/ WriteTree(c) \/ WriteMode(c) \/ WriteMark(c) \/ WriteGlobal(c) \/ Remove(c)
    PROVE  Planned'
  <1>1. disk \in Disks
    BY DEF Inv, TypeOK
  <1>2. \A v : /\ [disk EXCEPT !.pending = v].inherit = disk.inherit
               /\ [disk EXCEPT !.pending = v].shared = disk.shared
               /\ [disk EXCEPT !.tree = v].inherit = disk.inherit
               /\ [disk EXCEPT !.tree = v].shared = disk.shared
               /\ [disk EXCEPT !.shared = FALSE].inherit = disk.inherit
               /\ [disk EXCEPT !.shared = FALSE].shared = FALSE
               /\ [disk EXCEPT !.inherit = TRUE].inherit = TRUE
               /\ [disk EXCEPT !.inherit = TRUE].shared = disk.shared
               /\ [disk EXCEPT !.consolidated = TRUE].inherit = disk.inherit
               /\ [disk EXCEPT !.consolidated = TRUE].shared = disk.shared
    BY <1>1 DEF Disks
  <1>3. \E at \in Writing : \E next \in {"lane"} \cup Finishing : \E d :
           Journals(c, at, next, d) /\ (disk.inherit => d.inherit) /\ (d.shared => disk.shared)
    <2>1. CASE Journal(c)
      <3>1. PICK v : Journals(c, "journal", "tree", [disk EXCEPT !.pending = v])
        BY <2>1 DEF Journal
      <3> DEFINE d == [disk EXCEPT !.pending = v]
      <3>2. d.inherit = disk.inherit /\ d.shared = disk.shared /\ Journals(c, "journal", "tree", d)
        BY <1>2, <3>1
      <3> HIDE DEF d
      <3> QED BY <3>2 DEF Writing, Finishing
    <2>2. CASE WriteTree(c)
      <3>1. PICK v : Journals(c, "tree", "mode", [disk EXCEPT !.tree = v])
        BY <2>2 DEF WriteTree
      <3> DEFINE d == [disk EXCEPT !.tree = v]
      <3>2. d.inherit = disk.inherit /\ d.shared = disk.shared /\ Journals(c, "tree", "mode", d)
        BY <1>2, <3>1
      <3> HIDE DEF d
      <3> QED BY <3>2 DEF Writing, Finishing
    <2>3. CASE WriteMode(c)
      <3>1. PICK d : Journals(c, "mode", "mark", d) /\ d = [disk EXCEPT !.shared = FALSE]
        BY <2>3 DEF WriteMode
      <3> QED BY <1>2, <3>1 DEF Writing, Finishing
    <2>4. CASE WriteMark(c)
      <3>1. PICK next \in {"global", "remove"}, d \in {[disk EXCEPT !.inherit = TRUE]} :
               Journals(c, "mark", next, d)
        BY <2>4 DEF WriteMark
      <3> QED BY <1>2, <3>1 DEF Writing, Finishing
    <2>5. CASE WriteGlobal(c)
      <3>1. PICK d : Journals(c, "global", "remove", d) /\ d = [disk EXCEPT !.consolidated = TRUE]
        BY <2>5 DEF WriteGlobal
      <3> QED BY <1>2, <3>1 DEF Writing, Finishing
    <2>6. CASE Remove(c)
      <3>1. PICK v : Journals(c, "remove", "lane", [disk EXCEPT !.pending = v])
        BY <2>6 DEF Remove
      <3> DEFINE d == [disk EXCEPT !.pending = v]
      <3>2. d.inherit = disk.inherit /\ d.shared = disk.shared /\ Journals(c, "remove", "lane", d)
        BY <1>2, <3>1
      <3> HIDE DEF d
      <3> QED BY <3>2 DEF Writing, Finishing
    <2> QED BY <2>1, <2>2, <2>3, <2>4, <2>5, <2>6
  <1> QED BY <1>3, JournalsPlanned

LEMMA WriteFailsPlanned == ASSUME Inv, Serves, Planned, NEW c \in Calls, WriteFails(c) PROVE Planned'
  <1>1. call[c].at \in Staged /\ disk' = disk /\ call' = [call EXCEPT ![c] = Failed(c)]
    BY DEF WriteFails, Drafting, Staged
  <1>2. Running(c)
    BY <1>1, StageRuns
  <1> QED BY <1>1, <1>2, FailedPlanned

LEMMA CrashPlanned == ASSUME Inv, Serves, Planned, Crash PROVE Planned'
  <1> DEFINE r(c) == IF Running(c) THEN [call[c] EXCEPT !.at = "dead", !.todo = <<>>, !.tree = None,
                                                        !.could = {}, !.modes = {}]
                     ELSE call[c]
  <1>1. call' = [c \in Calls |-> r(c)] /\ disk' = disk
    BY DEF Crash
  <1>2. ASSUME NEW c \in Calls
        PROVE  /\ r(c).op = call[c].op
               /\ Running(c) => r(c).at = "dead" /\ r(c).todo = <<>>
               /\ ~Running(c) => r(c) = call[c]
    <2>1. call[c] \in CallT
      BY DEF Inv, TypeOK
    <2> QED BY <2>1 DEF CallT
  <1> HIDE DEF r
  <1>3. \A c \in Calls : call'[c] = r(c)
    BY <1>1
  <1>4. Shares' = Shares
    BY <1>2, <1>3 DEF Shares
  <1>5. ASSUME NEW c \in Calls PROVE Plan(r(c), disk, Shares)
    <2>1. CASE Running(c)
      BY <1>2, <2>1, Aside DEF Ended
    <2>2. CASE ~Running(c)
      BY <1>2, <2>2 DEF Planned
    <2> QED BY <2>1, <2>2
  <1> QED BY <1>1, <1>3, <1>4, <1>5 DEF Planned

----------------------------------------------------------------------------
(* A call that begins, and one that reads.                                 *)

LEMMA ProgramSharer ==
    ASSUME NEW op \in Ops, NEW i \in 1..Len(Program(op)), Program(op)[i].do = "share"
    PROVE  op.do = "share"
  <1>1. CASE op.do = "migrate"
    BY <1>1, ProgramType DEF MigrateStages
  <1>2. CASE op.do = "toGlobal"
    <2>1. Program(op) = <<As(op, "toInherit"), op>> /\ As(op, "toInherit").do = "toInherit"
      BY <1>2, AsType DEF Program, OpNames
    <2>2. i = 1 \/ i = 2
      BY <2>1
    <2> QED BY <1>2, <2>1, <2>2
  <1>3. CASE op.do \notin {"migrate", "toGlobal"}
    <2>1. Program(op) = <<op>>
      BY <1>3 DEF Program
    <2> QED BY <2>1
  <1> QED BY <1>1, <1>2, <1>3

\* Nothing is planned that another sharing call could upset.
LEMMA Grown ==
    ASSUME NEW k, NEW d, NEW sh, NEW more, Plan(k, d, sh), sh => more
    PROVE  Plan(k, d, more)
  BY DEF Plan, SettingUp, Separate

LEMMA BeginPlanned == ASSUME Inv, Planned, NEW c \in Calls, Begin(c) PROVE Planned'
  <1>1. PICK op \in Scene.ops :
          LET begun == [NoCall EXCEPT !.op = op]
              todo  == IF Idle(op) THEN <<>> ELSE Program(op)
          IN  IF op.do \in {"check", "setup"}
              THEN call' = [call EXCEPT ![c] = [begun EXCEPT
                               !.at = "inherit?",
                               !.could = IF op.do = "check" THEN Could(disk, op) ELSE {},
                               !.modes = IF op.do = "check" THEN {disk.shared} ELSE {}]]
              ELSE call' = [call EXCEPT ![c] = [begun EXCEPT !.at = At(todo), !.todo = todo]]
    BY DEF Begin
  <1>2. op \in Ops /\ disk' = disk /\ call[c].at = "idle"
    BY ScenesAssumption DEF Inv, TypeOK, Scene, Begin
  <1> DEFINE todo == IF Idle(op) THEN <<>> ELSE Program(op)
             r    == IF op.do \in {"check", "setup"}
                     THEN [NoCall EXCEPT !.op = op, !.at = "inherit?",
                             !.could = IF op.do = "check" THEN Could(disk, op) ELSE {},
                             !.modes = IF op.do = "check" THEN {disk.shared} ELSE {}]
                     ELSE [NoCall EXCEPT !.op = op, !.at = At(todo), !.todo = todo]
  <1>3. /\ r.op = op
        /\ op.do \in {"check", "setup"} => r.at = "inherit?" /\ r.todo = <<>>
        /\ op.do \notin {"check", "setup"} => r.at = At(todo) /\ r.todo = todo
    BY DEF NoCall
  <1>4. call' = [call EXCEPT ![c] = r]
    BY <1>1
  <1> HIDE DEF r
  <1>5. call'[c] = r /\ \A x \in Calls \ {c} : call'[x] = call[x]
    BY <1>4 DEF Inv, TypeOK
  <1>6. Shares => Shares'
    <2>1. call[c].op.do # "share"
      BY <1>2 DEF Planned, Plan, Placed
    <2> QED BY <1>5, <2>1 DEF Shares
  <1>7. op.do = "share" => Shares'
    BY <1>3, <1>5 DEF Shares
  <1>8. /\ todo \in Seq(Ops) /\ todo \in {<<>>, Program(op)}
        /\ \A i \in 1..Len(todo) : todo[i].do = "share" => op.do = "share"
    BY <1>2, ProgramType, ProgramSharer
  <1> HIDE DEF todo
  <1>9. Plan(r, disk, Shares') => Planned'
    <2>1. ASSUME NEW x \in Calls \ {c} PROVE Plan(call'[x], disk', Shares')
      <3>1. Plan(call[x], disk, Shares)
        BY DEF Planned
      <3>2. Plan(call[x], disk, Shares')
        BY <1>6, <3>1, Grown
      <3> QED BY <1>2, <1>5, <3>2
    <2> QED BY <1>2, <1>5, <2>1 DEF Planned
  <1>10. CASE op.do \in {"check", "setup"}
    <2>1. Placed(r) /\ Sharer(r)
      BY <1>3, <1>10 DEF Placed, Sharer, Ended, Reading
    <2>2. SettingUp(r, disk, Shares') /\ Migrating(r, disk)
      BY <1>3, <1>10 DEF SettingUp, Migrating
    <2> QED BY <1>9, <2>1, <2>2 DEF Plan
  <1>11. CASE op.do \notin {"check", "setup"}
    <2>1. Placed(r) /\ Sharer(r)
      BY <1>3, <1>8, <1>11, PlacedAt DEF Sharer
    <2>2. SettingUp(r, disk, Shares')
      BY <1>3, <1>11 DEF SettingUp, FromNothing
    <2>3. At(todo) # "journal"
      BY <1>8, AtType
    <2>4. Migrating(r, disk)
      BY <1>3, <1>8, <1>11, <2>3 DEF Migrating, Program
    <2> QED BY <1>9, <2>1, <2>2, <2>4 DEF Plan
  <1> QED BY <1>10, <1>11

\* A call that goes on reading, or is answered, has no stage before it yet.
LEMMA StageFree ==
    ASSUME NEW r, NEW d, NEW sh, r.todo = <<>>, r.at \in Reading \cup {"done"},
           FromNothing(r.op) => r.at = "shared?" /\ ~d.inherit
    PROVE  Plan(r, d, sh)
  <1>1. r.at \notin {"idle", "journal", "flip", "stamp", "commit"}
    BY DEF Reading
  <1>2. Placed(r) /\ Sharer(r) /\ SettingUp(r, d, sh) /\ Migrating(r, d)
    BY <1>1 DEF Placed, Sharer, SettingUp, Migrating
  <1> QED BY <1>2 DEF Plan

LEMMA ReadPlanned ==
    ASSUME Inv, Serves, Planned, NEW c \in Calls, Running(c), NEW r, r.op = call[c].op, disk' = disk,
           call' = [call EXCEPT ![c] = r], Plan(r, disk, Shares)
    PROVE  Planned'
  <1>1. Goes(c, r, disk)
    BY DEF Goes
  <1> QED BY <1>1, GoesPlanned

LEMMA AtReading ==
    ASSUME Inv, Serves, Planned, NEW c \in Calls, call[c].at \in Reading
    PROVE  /\ call[c] \in CallT /\ call[c].op \in Ops /\ Running(c) /\ call[c].todo = <<>>
           /\ Plan(call[c], disk, Shares)
           /\ call[c].at \in {"inherit?", "shared?"} => call[c].op.do \in {"check", "setup"}
           /\ FromNothing(call[c].op) => /\ call[c].at \notin {"load", "again?"}
                                         /\ call[c].at = "shared?" => ~disk.inherit
  <1>1. Plan(call[c], disk, Shares)
    BY DEF Planned
  <1>2. call[c].todo = <<>>
    BY <1>1 DEF Plan, Placed
  <1>3. FromNothing(call[c].op) => /\ call[c].at \notin {"load", "again?"}
                                   /\ call[c].at = "shared?" => ~disk.inherit
    BY <1>1 DEF Plan, SettingUp
  <1> QED BY <1>1, <1>2, <1>3, AtRead DEF Reading

LEMMA WithModePlanned ==
    ASSUME Inv, Serves, Planned, NEW c \in Calls, call[c].at \in {"inherit?", "shared?"}, disk' = disk,
           NEW bucket, NEW todo \in Seq(Ops), WithMode(c, bucket, todo),
           \A i \in 1..Len(todo) : todo[i].do # "share",
           FromNothing(call[c].op) =>
              IF disk.inherit THEN todo = <<As(call[c].op, "setUp")>>
              ELSE OwnStages(todo, call[c].op) /\ Separate(todo, disk, Shares)
    PROVE  Planned'
  <1>1. /\ call[c] \in CallT /\ Running(c) /\ call[c].todo = <<>>
        /\ call[c].op.do \in {"check", "setup"}
    BY AtReading DEF Reading
  <1>2. CASE call[c].op.do = "check"
    <2> DEFINE r == [call[c] EXCEPT !.at = "load", !.bucket = bucket]
    <2>1. call' = [call EXCEPT ![c] = r]
      BY <1>2 DEF WithMode
    <2>2. r.at = "load" /\ r.op = call[c].op /\ r.todo = <<>>
      BY <1>1 DEF CallT
    <2> HIDE DEF r
    <2>3. Plan(r, disk, Shares)
      BY <1>2, <2>2, StageFree DEF FromNothing, Reading
    <2> QED BY <1>1, <2>1, <2>2, <2>3, ReadPlanned
  <1>3. CASE call[c].op.do = "setup"
    <2> DEFINE r == Onward(c, todo)
    <2>1. call' = [call EXCEPT ![c] = r]
      BY <1>3 DEF WithMode
    <2>2. r.op = call[c].op /\ r.todo = todo /\ r.at \in {"done", "lane", "flip", "stamp"} /\ Placed(r)
      BY OnwardType, AtType, PlacedOnward DEF Inv
    <2> HIDE DEF r
    <2>3. Sharer(r) /\ SettingUp(r, disk, Shares) /\ Migrating(r, disk)
      BY <1>3, <2>2 DEF Sharer, SettingUp, Migrating
    <2>4. Plan(r, disk, Shares)
      BY <2>2, <2>3 DEF Plan
    <2> QED BY <1>1, <2>1, <2>2, <2>4, ReadPlanned
  <1> QED BY <1>1, <1>2, <1>3

LEMMA ReadInheritPlanned ==
    ASSUME Inv, Serves, Planned, NEW c \in Calls, ReadInherit(c)
    PROVE  Planned'
  <1>1. /\ call[c].at = "inherit?" /\ disk' = disk /\ call[c] \in CallT /\ call[c].op \in Ops
        /\ Running(c) /\ call[c].todo = <<>> /\ call[c].at \in Reading
    BY AtReading DEF ReadInherit, Reading
  <1>2. CASE disk.inherit
    <2> DEFINE todo == <<As(call[c].op, "setUp")>>
    <2>1. WithMode(c, call[c].op.acct, todo)
      BY <1>2 DEF ReadInherit
    <2>2. As(call[c].op, "setUp") \in Ops /\ As(call[c].op, "setUp").do = "setUp"
      BY <1>1, AsType DEF OpNames
    <2>3. todo \in Seq(Ops) /\ \A i \in 1..Len(todo) : todo[i].do # "share"
      BY <2>2
    <2>4. call[c].at \in {"inherit?", "shared?"}
      BY <1>1
    <2> QED BY <1>1, <1>2, <2>1, <2>3, <2>4, WithModePlanned
  <1>3. CASE ~disk.inherit
    <2> DEFINE r == [call[c] EXCEPT !.at = "shared?"]
    <2>1. call' = [call EXCEPT ![c] = r]
      BY <1>3 DEF ReadInherit
    <2>2. r.at = "shared?" /\ r.op = call[c].op /\ r.todo = <<>>
      BY <1>1 DEF CallT
    <2> HIDE DEF r
    <2>3. Plan(r, disk, Shares)
      BY <1>3, <2>2, StageFree DEF Reading
    <2> QED BY <1>1, <2>1, <2>2, <2>3, ReadPlanned
  <1> QED BY <1>2, <1>3

LEMMA CatTwo ==
    ASSUME NEW S, NEW a \in Seq(S), NEW x \in S, NEW y \in S
    PROVE  /\ Len(a \o <<x, y>>) = Len(a) + 2
           /\ (a \o <<x, y>>)[Len(a) + 1] = x /\ (a \o <<x, y>>)[Len(a) + 2] = y
           /\ \A i \in 1..Len(a) : (a \o <<x, y>>)[i] = a[i]
  <1>1. Len(a) \in Nat /\ Len(<<x, y>>) = 2 /\ <<x, y>> \in Seq(S)
    OBVIOUS
  <1>2. Len(a \o <<x, y>>) = Len(a) + 2
    BY <1>1
  <1>3. ASSUME NEW i \in 1..(Len(a) + 2)
        PROVE  (a \o <<x, y>>)[i] = IF i <= Len(a) THEN a[i] ELSE <<x, y>>[i - Len(a)]
    BY <1>1
  <1>4. (a \o <<x, y>>)[Len(a) + 1] = x /\ (a \o <<x, y>>)[Len(a) + 2] = y
    BY <1>1, <1>3
  <1>5. \A i \in 1..Len(a) : (a \o <<x, y>>)[i] = a[i]
    BY <1>1, <1>3
  <1> QED BY <1>2, <1>4, <1>5

\* The copies to the other accounts, the switch to own rules, and the new account's own stage.
LEMMA SeparatedStages ==
    ASSUME NEW op \in Ops
    PROVE  /\ Len(op.others) \in Nat /\ Len(Separated(op)) = Len(op.others) + 2
           /\ Separated(op)[Len(op.others) + 1] = As(op, "separate")
           /\ Separated(op)[Len(op.others) + 2] = Last(op)
           /\ \A i \in 1..Len(op.others) : Separated(op)[i].do = "copy"
  <1> DEFINE n    == Len(op.others)
             e(i) == [As(op, "copy") EXCEPT !.acct = op.others[i], !.from = Default]
             copies == [i \in 1..n |-> e(i)]
             S == {e(i) : i \in 1..n} \cup {As(op, "separate"), Last(op)}
  <1>1. n \in Nat
    BY OpParts
  <1>2. Separated(op) = copies \o <<As(op, "separate"), Last(op)>>
    BY DEF Separated
  <1>3. \A i \in 1..n : e(i).do = "copy"
    BY DEF As, Ops
  <1>4. As(op, "separate") \in S /\ Last(op) \in S
    OBVIOUS
  <1> HIDE DEF n, e
  <1>5. \A i \in 1..n : e(i) \in S /\ copies[i] = e(i)
    OBVIOUS
  <1> HIDE DEF S
  <1>6. copies \in Seq(S) /\ Len(copies) = n
    BY <1>1, <1>5
  <1> HIDE DEF copies
  <1>7. /\ Len(Separated(op)) = n + 2
        /\ Separated(op)[n + 1] = As(op, "separate") /\ Separated(op)[n + 2] = Last(op)
        /\ \A i \in 1..n : Separated(op)[i] = copies[i]
    BY <1>2, <1>4, <1>6, CatTwo
  <1> QED BY <1>1, <1>3, <1>5, <1>7 DEF n

LEMMA LastIs ==
    ASSUME NEW op \in Ops
    PROVE  Last(op).do \in {"clearAccount", "copy"}
  BY AsType DEF Last, OpNames

LEMMA ReadSharedPlanned ==
    ASSUME Inv, Serves, Planned, NEW c \in Calls, ReadShared(c)
    PROVE  Planned'
  <1> DEFINE op == call[c].op
             n  == Len(op.others)
  <1>1. /\ call[c].at = "shared?" /\ call[c].at \in {"inherit?", "shared?"} /\ disk' = disk
        /\ op \in Ops /\ (FromNothing(op) => ~disk.inherit)
    BY AtReading DEF ReadShared, Reading
  <1>2. IF Shared THEN WithMode(c, Default, Separated(op))
        ELSE WithMode(c, op.acct, <<Last(op)>>)
    BY DEF ReadShared, Shared
  <1>3. disk.pending = None => Shared = disk.shared
    BY LoadedType DEF Inv
  <1>4. Separated(op) \in Seq(Ops) /\ <<Last(op)>> \in Seq(Ops)
    BY <1>1, SeparatedType, LastType
  <1>5. FromNothing(op) => Last(op) = As(op, "clearAccount")
    BY DEF FromNothing, Last
  <1>6. CASE Shared
    <2> DEFINE todo == Separated(op)
    <2>1. /\ n \in Nat /\ Len(todo) = n + 2 /\ todo[n + 1].do = "separate" /\ todo[n + 2] = Last(op)
          /\ \A i \in 1..n : todo[i].do = "copy"
      <3> HIDE DEF op
      <3>1. As(op, "separate").do = "separate"
        BY <1>1, AsType DEF OpNames
      <3>2. /\ n \in Nat /\ Len(todo) = n + 2 /\ todo[n + 1] = As(op, "separate") /\ todo[n + 2] = Last(op)
            /\ \A i \in 1..n : todo[i].do = "copy"
        BY <1>1, SeparatedStages
      <3> QED BY <3>1, <3>2
    <2>2. todo \in Seq(Ops) /\ WithMode(c, Default, todo)
      BY <1>2, <1>4, <1>6
    <2> HIDE DEF todo, n
    <2>3. ASSUME NEW i \in 1..Len(todo) PROVE todo[i].do # "share"
      <3>1. i \in 1..n \/ i = n + 1 \/ i = n + 2
        BY <2>1
      <3> QED BY <1>1, <2>1, <3>1, LastIs
    <2>4. FromNothing(op) => OwnStages(todo, op) /\ Separate(todo, disk, Shares)
      <3> SUFFICES ASSUME FromNothing(op) PROVE OwnStages(todo, op) /\ Separate(todo, disk, Shares)
        OBVIOUS
      <3>1. todo[Len(todo)] = As(op, "clearAccount") /\ Len(todo) - 1 = n + 1 /\ Len(todo) - 2 = n
            /\ Len(todo) # 1
        BY <1>5, <2>1
      <3> QED BY <2>1, <3>1 DEF OwnStages, Separate
    <2> HIDE DEF op
    <2> QED BY <1>1, <2>2, <2>3, <2>4, WithModePlanned DEF op
  <1>7. CASE ~Shared
    <2> DEFINE todo == <<Last(op)>>
    <2>1. todo \in Seq(Ops) /\ WithMode(c, op.acct, todo) /\ Len(todo) = 1 /\ todo[1] = Last(op)
      BY <1>2, <1>4, <1>7
    <2> HIDE DEF todo
    <2>2. \A i \in 1..Len(todo) : todo[i].do # "share"
      BY <1>1, <2>1, LastIs
    <2>3. FromNothing(op) => OwnStages(todo, op) /\ Separate(todo, disk, Shares)
      BY <1>3, <1>5, <1>7, <2>1 DEF OwnStages, Separate
    <2> HIDE DEF op
    <2> QED BY <1>1, <2>1, <2>2, <2>3, WithModePlanned DEF op
  <1> QED BY <1>6, <1>7

LEMMA LoadPlanned == ASSUME Inv, Serves, Planned, NEW c \in Calls, Load(c) PROVE Planned'
  <1>1. /\ call[c].at = "load" /\ disk' = disk /\ call[c] \in CallT /\ Running(c)
        /\ call[c].todo = <<>> /\ ~FromNothing(call[c].op)
    BY AtReading DEF Load, Reading
  <1>2. CASE disk.pending # None
    BY <1>1, <1>2, FailedPlanned DEF Load
  <1>3. CASE disk.pending = None
    <2> DEFINE r == [call[c] EXCEPT !.at = "again?", !.tree = Loaded]
    <2>1. call' = [call EXCEPT ![c] = r]
      BY <1>3 DEF Load
    <2>2. r.at = "again?" /\ r.op = call[c].op /\ r.todo = <<>>
      BY <1>1 DEF CallT
    <2> HIDE DEF r
    <2>3. Plan(r, disk, Shares)
      BY <1>1, <2>2, StageFree DEF Reading
    <2> QED BY <1>1, <2>1, <2>2, <2>3, ReadPlanned
  <1> QED BY <1>2, <1>3

LEMMA AnswerPlanned == ASSUME Inv, Serves, Planned, NEW c \in Calls, Answer(c) PROVE Planned'
  <1>1. /\ call[c].at = "again?" /\ disk' = disk /\ call[c] \in CallT /\ Running(c)
        /\ call[c].todo = <<>> /\ ~FromNothing(call[c].op)
    BY AtReading DEF Answer, Reading
  <1>2. PICK said : call' = [call EXCEPT ![c] = [call[c] EXCEPT !.at = "done", !.tree = None, !.said = said]]
    BY DEF Answer
  <1> DEFINE r == [call[c] EXCEPT !.at = "done", !.tree = None, !.said = said]
  <1>3. r.at = "done" /\ r.op = call[c].op /\ r.todo = <<>>
    BY <1>1 DEF CallT
  <1>4. call' = [call EXCEPT ![c] = r]
    BY <1>2
  <1> HIDE DEF r
  <1>5. Plan(r, disk, Shares)
    BY <1>1, <1>3, StageFree
  <1> QED BY <1>1, <1>3, <1>4, <1>5, ReadPlanned

LEMMA PlannedStart == Init => Planned
  <1> SUFFICES ASSUME Init PROVE Planned
    OBVIOUS
  <1>1. \A c \in Calls : call[c] = NoCall
    BY DEF Init
  <1>2. NoCall.at = "idle" /\ NoCall.op.do = "none" /\ NoCall.todo = <<>>
    BY DEF NoCall, NoOp
  <1>3. \A c \in Calls : Plan(call[c], disk, Shares)
    BY <1>1, <1>2, Aside DEF Ended
  <1> QED BY <1>3 DEF Planned

LEMMA PlannedStep ==
    ASSUME Inv, Serves, Planned, [Next]_vars
    PROVE  Planned'
  <1>1. CASE UNCHANGED vars
    <2>1. disk' = disk /\ call' = call
      BY <1>1 DEF vars
    <2> QED BY <2>1 DEF Planned, Shares
  <1>2. CASE Crash
    BY <1>2, CrashPlanned
  <1>3. ASSUME NEW c \in Calls,
               \/ Begin(c) \/ ReadInherit(c) \/ ReadShared(c) \/ Load(c) \/ Answer(c)
               \/ Draft(c) \/ Commit(c) \/ ClearAll(c) \/ Flip(c) \/ Stamp(c)
        PROVE  Planned'
    BY <1>3, BeginPlanned, ReadInheritPlanned, ReadSharedPlanned, LoadPlanned, AnswerPlanned, DraftPlanned,
       CommitPlanned, ClearAllPlanned, FlipPlanned, StampPlanned
  <1>4. ASSUME NEW c \in Calls,
               \/ StartMigration(c) \/ Journal(c) \/ WriteTree(c) \/ WriteMode(c)
               \/ WriteMark(c) \/ WriteGlobal(c) \/ Remove(c) \/ WriteFails(c)
        PROVE  Planned'
    BY <1>4, StartMigrationPlanned, JournalingPlanned, WriteFailsPlanned
  <1> QED BY <1>1, <1>2, <1>3, <1>4 DEF Next

----------------------------------------------------------------------------
(* Sharing never loosens.                                                  *)

LEMMA JournalKeeps ==
    ASSUME Inv, Planned, NEW c \in Calls, Journal(c),
           NEW l \in Callers, NEW a \in Accounts, NEW m \in Methods
    PROVE  /\ Will(l, a, m) = "allow" => Was(l, a, m) = "allow" \/ GlobalSpeaks(a, m)
           /\ Was(l, a, m) = "deny" => Will(l, a, m) = "deny"
  <1> DEFINE t  == disk.tree
             sh == disk.shared
             b  == IF disk.shared THEN Default ELSE a
  <1>1. /\ call[c].at = "journal" /\ disk'.pending.tree = call[c].tree
        /\ t \in Tree /\ sh \in BOOLEAN /\ disk.inherit \in BOOLEAN /\ l \in Labels
    BY DEF Journal, Journals, Writes, Inv, TypeOK, Disks, Callers
  <1>2. Migrating(call[c], disk)
    BY DEF Planned, Plan
  <1>3. \/ ~disk.inherit /\ disk'.pending.tree = Inheritance(t, sh)
        \/ disk.inherit /\ disk'.pending.tree = Consolidated(t, Callers)
    BY <1>1, <1>2 DEF Migrating
  <1>4. CASE ~disk.inherit /\ disk'.pending.tree = Inheritance(t, sh)
    <2> DEFINE was   == Resolve(Active(t, FALSE, sh, l, a), m)
               will  == Resolve(Effective(Inheritance(t, sh), l, a), m)
               at(k) == IF k \in Keys THEN t[<<Global, IF sh THEN Default ELSE a, k>>] ELSE "none"
    <2>1. /\ will = "allow" => was = "allow" \/ "allow" \in {at(KeyOf(m)), at("blanket")}
          /\ was = "deny" => will = "deny"
      <3>1. Keeps(t, sh, l, a, m)
        BY <1>1, InheritanceKeeps
      <3> QED BY <3>1 DEF Keeps
    <2>2. Was(l, a, m) = was /\ Will(l, a, m) = will
      <3>1. disk.inherit = FALSE
        BY <1>1, <1>4
      <3> QED BY <1>4, <3>1 DEF Was, Will
    <2>3. \A k : at(k) = AtGlobal(b, k)
      BY DEF AtGlobal
    <2> HIDE DEF was, will, at
    <2>4. "allow" \in {at(KeyOf(m)), at("blanket")} => GlobalSpeaks(a, m)
      BY <1>4, <2>3 DEF GlobalSpeaks
    <2> QED BY <2>1, <2>2, <2>4
  <1>5. CASE disk.inherit /\ disk'.pending.tree = Consolidated(t, Callers)
    <2> DEFINE was   == Resolve(Active(t, TRUE, sh, l, a), m)
               will  == Resolve(Effective(Consolidated(t, Callers), l, a), m)
    <2>1. /\ will = "allow" => was = "allow" \/ (KeyOf(m) \in Keys /\ t[<<Global, a, KeyOf(m)>>] = "ask")
          /\ was = "deny" => will = "deny"
      BY ConsolidationKeeps
    <2>2. Was(l, a, m) = was /\ Will(l, a, m) = will
      <3>1. disk.inherit = TRUE
        BY <1>1, <1>5
      <3> QED BY <1>5, <3>1 DEF Was, Will
    <2> HIDE DEF was, will
    <2> QED BY <1>5, <2>1, <2>2 DEF GlobalSpeaks, AtGlobal
  <1> QED BY <1>3, <1>4, <1>5

\* An account is told at most to ask by the store d.
Asking(d, op) ==
    d.pending = None =>
        \A l \in Callers, k \in Keys :
            Active(d.tree, d.inherit, d.shared, l, op.acct)[k] \in {"none", "ask"}

LEMMA AskingTold ==
    ASSUME NEW d, NEW op \in Ops, Asking(d, op), NEW l \in Callers, NEW m \in Methods
    PROVE  Told(d, [op EXCEPT !.o = l, !.key = m]) # "allow"
  <1> DEFINE q == [op EXCEPT !.o = l, !.key = m]
             v == Active(d.tree, d.inherit, d.shared, l, op.acct)
  <1>1. q.o = l /\ q.key = m /\ q.acct = op.acct
    BY DEF Ops
  <1>2. CASE d.pending = None
    <2>1. Told(d, q) = Resolve(v, m)
      BY <1>1, <1>2 DEF Told
    <2>2. \A k \in Keys : v[k] \in {"none", "ask"}
      BY <1>2 DEF Asking
    <2> HIDE DEF q, v
    <2>3. Resolve(v, m) # "allow"
      BY <2>2, NothingAllowed
    <2> QED BY <2>1, <2>3 DEF q
  <1>3. CASE d.pending # None
    BY <1>3 DEF Told
  <1> QED BY <1>2, <1>3

\* The last stage of a setup with nothing.
LEMMA LastStage ==
    ASSUME Inv, Planned, NEW c \in Calls, call[c].at \in Staged, FromNothing(call[c].op),
           Tail(call[c].todo) = <<>>
    PROVE  IF disk.inherit THEN Stage(c) = As(call[c].op, "setUp")
           ELSE /\ Stage(c) = As(call[c].op, "clearAccount")
                /\ disk.pending = None /\ disk.shared => Shares
  <1>1. /\ call[c].todo # <<>> /\ Plan(call[c], disk, Shares) /\ Stage(c) = call[c].todo[1]
        /\ Len(call[c].todo) \in Nat /\ Len(Tail(call[c].todo)) = Len(call[c].todo) - 1
    BY StageRuns, RestType DEF Inv
  <1>2. Len(call[c].todo) = 1
    <2> DEFINE rest == Tail(call[c].todo)
    <2>1. rest = <<>> /\ Len(rest) = Len(call[c].todo) - 1
      BY <1>1
    <2> HIDE DEF rest
    <2>2. Len(rest) = 0
      BY <2>1
    <2> QED BY <1>1, <2>1, <2>2
  <1>3. IF disk.inherit THEN call[c].todo = <<As(call[c].op, "setUp")>>
        ELSE OwnStages(call[c].todo, call[c].op) /\ Separate(call[c].todo, disk, Shares)
    BY <1>1 DEF Plan, SettingUp
  <1> QED BY <1>1, <1>2, <1>3 DEF OwnStages, Separate

\* What it makes of the tree asks.
LEMMA LastAsks ==
    ASSUME Inv, Planned, NEW c \in Calls, call[c].at \in Staged, FromNothing(call[c].op),
           Tail(call[c].todo) = <<>>, NEW b, NEW d, d.tree = Edited(Stage(c), b, disk.tree),
           d.inherit = disk.inherit, d.shared = disk.shared, d.pending = disk.pending,
           ~disk.consolidated, ~(disk.shared /\ Shares)
    PROVE  Asking(d, call[c].op)
  <1> DEFINE op == call[c].op
             t  == disk.tree
  <1>1. /\ op \in Ops /\ op.acct \in Accounts \cup {Default} /\ op.from = "none" /\ t \in Tree
        /\ disk.consolidated = FALSE
    BY AtStage DEF CallT, Ops, FromNothing, Inv, TypeOK, Disks
  <1>2. As(op, "setUp").acct = op.acct /\ As(op, "setUp").from = "none" /\ As(op, "setUp").do = "setUp"
        /\ As(op, "clearAccount").acct = op.acct /\ As(op, "clearAccount").do = "clearAccount"
    BY <1>1 DEF As, Ops
  <1> SUFFICES ASSUME d.pending = None, NEW l \in Callers, NEW k \in Keys
               PROVE  Active(d.tree, d.inherit, d.shared, l, op.acct)[k] \in {"none", "ask"}
    BY DEF Asking
  <1>3. l \in Labels
    BY DEF Callers
  <1> HIDE DEF op
  <1>4. CASE disk.inherit
    <2>1. Stage(c) = As(op, "setUp")
      BY <1>4, LastStage DEF op
    <2>2. d.tree = SetUp(t, op.acct, "none", FALSE)
      BY <1>1, <1>2, <2>1 DEF Edited
    <2>3. Effective(d.tree, l, op.acct)[k] \in {"none", "ask"}
      BY <1>1, <1>3, <2>2, SetUpAsks
    <2> QED BY <1>4, <2>3 DEF Active
  <1>5. CASE ~disk.inherit
    <2>1. Stage(c) = As(op, "clearAccount") /\ ~disk.shared
      BY <1>5, LastStage DEF op
    <2>2. d.tree = Dropped(t, Labels \X {op.acct} \X Keys)
      BY <1>2, <2>1 DEF Edited, Reach
    <2>3. \A x \in Labels, y \in Keys : d.tree[<<x, op.acct, y>>] = "none"
      <3> SUFFICES ASSUME NEW x \in Labels, NEW y \in Keys PROVE d.tree[<<x, op.acct, y>>] = "none"
        OBVIOUS
      <3>1. op.acct \in Buckets
        BY <1>1, BucketParts
      <3>2. <<x, op.acct, y>> \in Entries
        BY <3>1, EntryOf
      <3> QED BY <2>2, <3>2 DEF Dropped
    <2>4. OriginBucket(d.tree, l, op.acct)[k] \in {"none", "ask"}
      BY <1>3, <2>3, ClearedAsks
    <2> QED BY <1>5, <2>1, <2>4 DEF Active
  <1> QED BY <1>4, <1>5

\* Where a call is, only its own steps and a crash change.
LEMMA OtherStays ==
    ASSUME Inv, NEW x \in Calls, NEW c \in Calls \ {x},
           \/ Begin(x) \/ ReadInherit(x) \/ ReadShared(x) \/ Load(x) \/ Answer(x)
           \/ Draft(x) \/ Commit(x) \/ ClearAll(x) \/ Flip(x) \/ Stamp(x)
           \/ StartMigration(x) \/ Journal(x) \/ WriteTree(x) \/ WriteMode(x)
           \/ WriteMark(x) \/ WriteGlobal(x) \/ Remove(x) \/ WriteFails(x)
    PROVE  call'[c].at = call[c].at
  <1>1. call \in [Calls -> CallT] /\ call[c] \in CallT
    BY DEF Inv, TypeOK
  <1>2. ASSUME NEW r, call' = [call EXCEPT ![x] = r] PROVE call'[c].at = call[c].at
    BY <1>1, <1>2
  <1>3. ASSUME NEW d, NEW r, Writes(x, d, r) PROVE call'[c].at = call[c].at
    <2> DEFINE seen == [call[c] EXCEPT !.could = @ \cup Could(d, call[c].op), !.modes = @ \cup {d.shared}]
    <2>1. call'[c] = seen \/ call'[c] = call[c]
      BY <1>3 DEF Writes
    <2>2. seen.at = call[c].at
      BY <1>1 DEF CallT
    <2> HIDE DEF seen
    <2> QED BY <2>1, <2>2
  <1>4. CASE Begin(x)
    BY <1>1, <1>4 DEF Begin
  <1>5. CASE ReadInherit(x) \/ ReadShared(x)
    BY <1>1, <1>5 DEF ReadInherit, ReadShared, WithMode
  <1>6. CASE Load(x) \/ Answer(x)
    BY <1>1, <1>6 DEF Load, Answer
  <1>7. CASE Draft(x)
    BY <1>1, <1>7 DEF Draft
  <1>8. CASE Commit(x) \/ ClearAll(x) \/ Flip(x) \/ Stamp(x)
    BY <1>3, <1>8 DEF Commit, ClearAll, Flip, Stamp
  <1>9. CASE StartMigration(x)
    BY <1>1, <1>9 DEF StartMigration
  <1>10. CASE Journal(x) \/ WriteTree(x) \/ WriteMode(x) \/ WriteMark(x) \/ WriteGlobal(x) \/ Remove(x)
    BY <1>3, <1>10 DEF Journals, Journal, WriteTree, WriteMode, WriteMark, WriteGlobal, Remove
  <1>11. CASE WriteFails(x)
    BY <1>1, <1>11 DEF WriteFails
  <1> QED BY <1>4, <1>5, <1>6, <1>7, <1>8, <1>9, <1>10, <1>11

\* A setup with nothing is at its end only after its last stage.
LEMMA EndsOnward ==
    ASSUME Inv, NEW c \in Calls, call[c].at \in Staged, call'[c] = Onward(c, Tail(call[c].todo)),
           call'[c].at = "done"
    PROVE  Tail(call[c].todo) = <<>>
  <1>1. Tail(call[c].todo) \in Seq(Ops)
    BY AtStage
  <1>2. At(Tail(call[c].todo)) = "done"
    BY <1>1, OnwardType DEF Inv
  <1> QED BY <1>1, <1>2, AtType

LEMMA SetUpStages ==
    ASSUME Inv, Serves, Planned, NEW c \in Calls, call[c].at \in Staged, FromNothing(call[c].op)
    PROVE  /\ Stage(c).do \in {"setUp", "clearAccount", "separate", "copy"}
           /\ call[c].at \notin {"stamp"} \cup Writing
           /\ Stage(c).do = "separate" => Tail(call[c].todo) # <<>>
  <1> DEFINE op == call[c].op  todo == call[c].todo
  <1>1. /\ todo # <<>> /\ todo \in Seq(Ops) /\ op \in Ops /\ Plan(call[c], disk, Shares) /\ Stage(c) = todo[1]
        /\ Len(todo) \in Nat \ {0} /\ Len(Tail(todo)) = Len(todo) - 1
        /\ call[c].at = "stamp" <=> Stage(c).do = "stamp"
    BY StageRuns, RestType DEF Inv, CallT
  <1>2. As(op, "setUp").do = "setUp" /\ As(op, "clearAccount").do = "clearAccount"
    BY <1>1, AsType DEF OpNames
  <1>3. IF disk.inherit THEN todo = <<As(op, "setUp")>> ELSE OwnStages(todo, op)
    BY <1>1 DEF Plan, SettingUp
  <1>4. call[c].at \notin Writing
    BY DEF FromNothing, Serves, Doer, Migrations
  <1> DEFINE rest == Tail(todo)
  <1> HIDE DEF op, todo, rest
  <1>5. rest = <<>> => Len(rest) = 0
    OBVIOUS
  <1>6. CASE disk.inherit
    <2>1. Stage(c) = As(op, "setUp")
      BY <1>1, <1>3, <1>6
    <2> QED BY <1>1, <1>2, <1>4, <2>1 DEF op, todo
  <1>7. CASE ~disk.inherit
    <2>1. Len(todo) = 1 \/ Len(todo) = 2 \/ 1 \in 1..(Len(todo) - 2)
      BY <1>1
    <2>2. Stage(c).do \in {"setUp", "clearAccount", "separate", "copy"}
      BY <1>1, <1>2, <1>3, <1>7, <2>1 DEF OwnStages
    <2>3. Stage(c).do = "separate" => Len(todo) # 1
      BY <1>1, <1>2, <1>3, <1>7 DEF OwnStages
    <2>4. Stage(c).do = "separate" => rest # <<>>
      BY <1>1, <1>5, <2>3 DEF rest
    <2> QED BY <1>1, <1>4, <2>2, <2>4 DEF op, todo, rest
  <1> QED BY <1>6, <1>7

LEMMA SetUpEnds ==
    ASSUME Inv, Serves, Planned, [Next]_vars, NEW c \in Calls, FromNothing(call[c].op), Running(c),
           call'[c].at = "done", ~disk'.consolidated, ~(disk'.shared /\ Shares)
    PROVE  Asking(disk', call[c].op)
  <1>1. call[c] \in CallT /\ call[c].at # "done" /\ call[c].at # "idle" /\ call \in [Calls -> CallT]
    BY DEF Inv, TypeOK, Running, Ended
  <1>2. ASSUME NEW said PROVE [Failed(c) EXCEPT !.said = said].at # "done" /\ Failed(c).at # "done"
    BY <1>1 DEF Failed, CallT
  <1>3. CASE UNCHANGED vars
    BY <1>1, <1>3 DEF vars
  <1>4. CASE Crash
    BY <1>1, <1>4 DEF Crash, CallT
  <1>5. ASSUME NEW x \in Calls \ {c},
               \/ Begin(x) \/ ReadInherit(x) \/ ReadShared(x) \/ Load(x) \/ Answer(x)
               \/ Draft(x) \/ Commit(x) \/ ClearAll(x) \/ Flip(x) \/ Stamp(x)
               \/ StartMigration(x) \/ Journal(x) \/ WriteTree(x) \/ WriteMode(x)
               \/ WriteMark(x) \/ WriteGlobal(x) \/ Remove(x) \/ WriteFails(x)
        PROVE  FALSE
    <2>1. c \in Calls \ {x}
      BY <1>5
    <2> QED BY <1>1, <1>5, <2>1, OtherStays
  <1>6. CASE Begin(c) \/ Load(c) \/ Answer(c)
    <2>1. ~Begin(c)
      BY <1>1 DEF Begin
    <2>2. call[c].at \notin {"load", "again?"}
      BY DEF Planned, Plan, SettingUp
    <2> QED BY <1>6, <2>1, <2>2 DEF Load, Answer
  <1>7. CASE ReadInherit(c) \/ ReadShared(c)
    <2>1. call[c].op \in Ops /\ call[c].op.do = "setup"
      BY <1>1 DEF CallT, FromNothing
    <2>2. ASSUME NEW bucket, NEW todo \in Seq(Ops), todo # <<>>, WithMode(c, bucket, todo)
          PROVE  FALSE
      <3>1. call'[c] = Onward(c, todo)
        BY <1>1, <2>1, <2>2 DEF WithMode
      <3> QED BY <2>2, <3>1, OnwardType, AtType DEF Inv
    <2>3. /\ <<As(call[c].op, "setUp")>> \in Seq(Ops) /\ <<Last(call[c].op)>> \in Seq(Ops)
          /\ Separated(call[c].op) \in Seq(Ops) /\ Separated(call[c].op) # <<>>
      BY <2>1, AsType, LastType, SeparatedType DEF OpNames
    <2>4. CASE ReadInherit(c)
      <3>1. \/ WithMode(c, call[c].op.acct, <<As(call[c].op, "setUp")>>)
            \/ call' = [call EXCEPT ![c].at = "shared?"]
        BY <2>4 DEF ReadInherit
      <3> QED BY <1>1, <2>2, <2>3, <3>1 DEF CallT
    <2>5. CASE ReadShared(c)
      <3>1. \/ WithMode(c, Default, Separated(call[c].op))
            \/ WithMode(c, call[c].op.acct, <<Last(call[c].op)>>)
        BY <2>5 DEF ReadShared
      <3> QED BY <2>2, <2>3, <3>1
    <2> QED BY <1>7, <2>4, <2>5
  <1>8. CASE Draft(c)
    <2> DEFINE s == Stage(c)  b == WriteBucket(s)  rest == Tail(call[c].todo)
    <2>1. call[c].at = "lane" /\ call[c].at \in Staged /\ disk' = disk
      BY <1>8 DEF Draft, Drafting, Staged
    <2>2. \/ call' = [call EXCEPT ![c] = Failed(c)]
          \/ /\ disk.pending = None /\ Edited(s, b, Loaded) = Loaded
             /\ call' = [call EXCEPT ![c] = Onward(c, rest)]
          \/ call' = [call EXCEPT ![c].at = "commit", ![c].tree = Edited(s, b, Loaded), ![c].bucket = b]
      BY <1>8 DEF Draft
    <2> HIDE DEF s, b, rest
    <2>3. /\ disk.pending = None /\ Edited(s, b, Loaded) = Loaded
          /\ call'[c] = Onward(c, rest)
      BY <1>1, <1>2, <2>2 DEF CallT
    <2>4. Loaded = disk.tree
      BY <2>3, LoadedType DEF Inv
    <2>5. Tail(call[c].todo) = <<>>
      BY <2>1, <2>3, EndsOnward DEF rest
    <2>6. disk.tree = Edited(Stage(c), b, disk.tree)
      BY <2>3, <2>4 DEF s
    <2>7. Asking(disk, call[c].op)
      BY <2>1, <2>5, <2>6, LastAsks
    <2> QED BY <2>1, <2>7
  <1>9. CASE Commit(c)
    <2> DEFINE d == [disk EXCEPT !.tree = call[c].tree]
    <2>1. call[c].at = "commit" /\ call[c].at \in Staged /\ Writes(c, d, Onward(c, Tail(call[c].todo)))
      BY <1>9 DEF Commit, Staged
    <2>2. /\ d.tree = call[c].tree /\ d.inherit = disk.inherit /\ d.shared = disk.shared
          /\ d.pending = disk.pending /\ d.consolidated = disk.consolidated
      BY DEF Inv, TypeOK, Disks
    <2>3. disk' = d /\ call'[c] = Onward(c, Tail(call[c].todo))
      BY <2>1 DEF Writes
    <2>4. Tail(call[c].todo) = <<>>
      BY <2>1, <2>3, EndsOnward
    <2>5. d.tree = Edited(Stage(c), call[c].bucket, disk.tree)
      BY <2>1, <2>2 DEF Inv, CallInv
    <2> HIDE DEF d
    <2>6. Asking(d, call[c].op)
      BY <2>1, <2>2, <2>3, <2>4, <2>5, LastAsks
    <2> QED BY <2>3, <2>6
  <1>10. CASE ClearAll(c) \/ Flip(c) \/ Stamp(c) \/ StartMigration(c)
    <2>1. call[c].at \in Staged
      BY <1>10 DEF ClearAll, Flip, Stamp, StartMigration, Drafting, Staged
    <2>2. /\ Stage(c).do \in {"setUp", "clearAccount", "separate", "copy"} /\ call[c].at # "stamp"
          /\ Stage(c).do = "separate" => Tail(call[c].todo) # <<>>
      BY <2>1, SetUpStages
    <2>3. CASE Flip(c)
      <3>1. Stage(c).do = "separate"
        BY <2>1, <2>2, <2>3, StageRuns DEF Flip
      <3>2. call'[c] = Onward(c, Tail(call[c].todo))
        BY <2>3 DEF Flip, Writes
      <3> QED BY <2>1, <2>2, <3>1, <3>2, EndsOnward
    <2> QED BY <1>10, <2>2, <2>3 DEF ClearAll, Stamp, StartMigration, Journaled
  <1>11. CASE \/ Journal(c) \/ WriteTree(c) \/ WriteMode(c) \/ WriteMark(c)
              \/ WriteGlobal(c) \/ Remove(c)
    <2>1. call[c].at \in Writing
      BY <1>11 DEF Journals, Journal, WriteTree, WriteMode, WriteMark, WriteGlobal, Remove,
                   Writing, Finishing
    <2> QED BY <2>1 DEF FromNothing, Serves, Doer, Migrations
  <1>12. CASE WriteFails(c)
    BY <1>1, <1>2, <1>12 DEF WriteFails
  <1>13. \/ \E x \in Calls \ {c} :
              \/ Begin(x) \/ ReadInherit(x) \/ ReadShared(x) \/ Load(x) \/ Answer(x)
              \/ Draft(x) \/ Commit(x) \/ ClearAll(x) \/ Flip(x) \/ Stamp(x)
              \/ StartMigration(x) \/ Journal(x) \/ WriteTree(x) \/ WriteMode(x)
              \/ WriteMark(x) \/ WriteGlobal(x) \/ Remove(x) \/ WriteFails(x)
         \/ Begin(c) \/ ReadInherit(c) \/ ReadShared(c) \/ Load(c) \/ Answer(c)
         \/ Draft(c) \/ Commit(c) \/ ClearAll(c) \/ Flip(c) \/ Stamp(c)
         \/ StartMigration(c) \/ Journal(c) \/ WriteTree(c) \/ WriteMode(c)
         \/ WriteMark(c) \/ WriteGlobal(c) \/ Remove(c) \/ WriteFails(c)
         \/ Crash \/ UNCHANGED vars
    BY DEF Next
  <1> QED BY <1>3, <1>4, <1>5, <1>6, <1>7, <1>8, <1>9, <1>10, <1>11, <1>12, <1>13

\* Migrations to inheritance and to global rules, and the setup of a new account with nothing, of
\* a host that lets no migration overlap another call: whatever else is saved, copied, cleared
\* or switched between, no known caller is allowed what it was not, or was refused, but for the
\* rules at `_global` that the property names (migrateToInheritance, migrateToGlobalRules and
\* setupNewAccountPermissions of store.ts).
THEOREM SharingKept ==
    ASSUME \A n \in DOMAIN Scenes : Scenes[n].serial
    PROVE  Spec => SharingNeverLoosens
  <1> DEFINE A == \A c \in Calls :
                    /\ Journal(c) => \A l \in Callers, a \in Accounts, m \in Methods :
                         /\ Will(l, a, m) = "allow" => Was(l, a, m) = "allow" \/ GlobalSpeaks(a, m)
                         /\ Was(l, a, m) = "deny" => Will(l, a, m) = "deny"
                    /\ LET op == call[c].op
                       IN  /\ op.do = "setup" /\ op.from = "none" /\ Running(c)
                           /\ call'[c].at = "done" /\ ~disk'.consolidated
                           /\ ~(disk'.shared /\ \E x \in Calls : call[x].op.do = "share")
                           => \A l \in Callers, m \in Methods :
                                 Told(disk', [op EXCEPT !.o = l, !.key = m]) # "allow"
             I == Inv /\ Serves /\ Planned
  <1>1. Init => I
    BY InitInv, ServesStart, PlannedStart
  <1>2. I /\ [Next]_vars => I'
    <2> SUFFICES ASSUME Inv, Serves, Planned, [Next]_vars PROVE (Inv /\ Serves /\ Planned)'
      OBVIOUS
    <2>1. Scene.serial
      BY DEF Inv, TypeOK, Scene
    <2> QED BY <2>1, StepInv, ServesStep, PlannedStep
  <1>3. I /\ [Next]_vars => A
    <2> SUFFICES ASSUME Inv, Serves, Planned, [Next]_vars, NEW c \in Calls
                 PROVE  /\ Journal(c) => \A l \in Callers, a \in Accounts, m \in Methods :
                             /\ Will(l, a, m) = "allow" => Was(l, a, m) = "allow" \/ GlobalSpeaks(a, m)
                             /\ Was(l, a, m) = "deny" => Will(l, a, m) = "deny"
                        /\ /\ call[c].op.do = "setup" /\ call[c].op.from = "none" /\ Running(c)
                           /\ call'[c].at = "done" /\ ~disk'.consolidated
                           /\ ~(disk'.shared /\ \E x \in Calls : call[x].op.do = "share")
                           => \A l \in Callers, m \in Methods :
                                 Told(disk', [call[c].op EXCEPT !.o = l, !.key = m]) # "allow"
      OBVIOUS
    <2>1. ASSUME Journal(c), NEW l \in Callers, NEW a \in Accounts, NEW m \in Methods
          PROVE  /\ Will(l, a, m) = "allow" => Was(l, a, m) = "allow" \/ GlobalSpeaks(a, m)
                 /\ Was(l, a, m) = "deny" => Will(l, a, m) = "deny"
      BY <2>1, JournalKeeps
    <2>2. ASSUME call[c].op.do = "setup", call[c].op.from = "none", Running(c), call'[c].at = "done",
                 ~disk'.consolidated, ~(disk'.shared /\ \E x \in Calls : call[x].op.do = "share"),
                 NEW l \in Callers, NEW m \in Methods
          PROVE  Told(disk', [call[c].op EXCEPT !.o = l, !.key = m]) # "allow"
      <3>1. FromNothing(call[c].op) /\ ~(disk'.shared /\ Shares) /\ call[c].op \in Ops
        BY <2>2 DEF FromNothing, Shares, Inv, TypeOK, CallT
      <3>2. Asking(disk', call[c].op)
        BY <2>2, <3>1, SetUpEnds
      <3> QED BY <3>1, <3>2, AskingTold
    <2> QED BY <2>1, <2>2
  <1>4. Spec => [][A]_vars
    BY <1>1, <1>2, <1>3, PTL DEF Spec
  <1> QED BY <1>4 DEF SharingNeverLoosens
=============================================================================
