---------------------------- MODULE Permissions ----------------------------
(***************************************************************************)
(* Permissions of permissions/store.ts: one instance over a store that is  *)
(* written a key at a time.  Calls interleave at every store operation;    *)
(* those that read, edit and write the tree take turns in the AsyncLock    *)
(* of lock.ts.  An operation of the store and what its answer sets off in  *)
(* the instance are one step: the store answers in the order it acts.      *)
(***************************************************************************)
EXTENDS PermissionRules, Sequences, FiniteSets

CONSTANTS
    Calls,      \* one per call a host makes
    Scenes,     \* by name, what a behaviour may do: see MC_Permissions
    None        \* no value

VARIABLES
    disk,       \* the store: tree, shared (signerUseGlobalDefaults), inherit, consolidated,
                \* version (migrate() has run), pending (the journal of a migration)
    cache,      \* #cachedPerms and #cachedUseGlobalDefaults
    lane,       \* the calls in the AsyncLock, its holder first
    call,       \* what each call is at
    scene,      \* the scene being played, and the failures it has left
    swept       \* history: every rule was cleared, and none was saved since

vars == <<disk, cache, lane, call, scene, swept>>

Scene    == Scenes[scene.name]
NoCache  == [perms |-> None, shared |-> None]

\* What is asked: a caller or label, a key or method, a decision, the account, and for a
\* copy or a new account its source and the other accounts there are.
OpNames == {"none", "check", "save", "saveRetired", "clear", "clearAll", "clearSite",
            "clearAccount", "copy", "setup", "setUp", "share", "separate", "reset", "inheritRule",
            "clearBucket", "migrate", "perKind", "perAccount", "forward", "dmFold", "stamp",
            "toInherit", "toGlobal"}
Ops     == {op \in [do : OpNames, o : Labels, key : Keys \cup Methods, d : Decisions,
                    acct : Accounts \cup {Default}, from : Accounts \cup {Default, "none"},
                    others : Seq(Accounts)] : op.do = "copy" => op.from # "none"}
Disks   == [tree : Tree, shared : BOOLEAN, inherit : BOOLEAN, consolidated : BOOLEAN,
            version : BOOLEAN, pending : [tree : Tree, global : BOOLEAN] \cup {None}]

ASSUME ScenesAssumption ==
    /\ None \notin Tree \cup BOOLEAN \cup [tree : Tree, global : BOOLEAN]
    /\ \A n \in DOMAIN Scenes :
        /\ Scenes[n].ops \subseteq Ops /\ Scenes[n].disks \subseteq Disks
        /\ {Scenes[n].calls, Scenes[n].faults, Scenes[n].crashes} \subseteq Nat
        /\ Scenes[n].serial \in BOOLEAN

NoOp   == [do |-> "none", o |-> Global, key |-> "note", d |-> "ask", acct |-> Default,
           from |-> "none", others |-> <<>>]
NoCall == [at |-> "idle", op |-> NoOp, todo |-> <<>>, tree |-> None, bucket |-> None,
           could |-> {}, modes |-> {}, said |-> None]

Migrations == {"migrate", "toInherit", "toGlobal"}
Ended      == {"idle", "done", "failed", "dead"}
Running(c) == call[c].at \notin Ended
HasLock(c) == lane # <<>> /\ Head(lane) = c
Stage(c)   == Head(call[c].todo)

----------------------------------------------------------------------------
(* What a check would be told by the store as it is, and with the mode     *)
(* flag either way.                                                        *)

Told(d, op) ==
    IF d.pending # None THEN "refused"
    ELSE Resolve(Active(d.tree, d.inherit, d.shared, op.o, op.acct), op.key)

Could(d, op) == {<<s, Told([d EXCEPT !.shared = s], op)>> : s \in BOOLEAN}

\* The store becomes d, and call c becomes r; a check in progress has seen both.
Writes(c, d, r) ==
    /\ disk' = d
    /\ call' = [x \in Calls |->
                  IF x = c THEN r
                  ELSE IF call[x].op.do = "check" /\ Running(x)
                       THEN [call[x] EXCEPT !.could = @ \cup Could(d, call[x].op),
                                            !.modes = @ \cup {d.shared}]
                       ELSE call[x]]

----------------------------------------------------------------------------
(* Calls, their stages and the lock.                                       *)

As(op, do) == [op EXCEPT !.do = do]

Program(op) ==
    CASE op.do = "migrate"  -> <<As(op, "perKind"), As(op, "perAccount"), As(op, "forward"),
                                 As(op, "dmFold"), As(op, "stamp")>>
      [] op.do = "toGlobal" -> <<As(op, "toInherit"), op>>
      [] OTHER              -> <<op>>

At(todo) ==
    IF todo = <<>> THEN "done"
    ELSE CASE Head(todo).do \in {"share", "separate"} -> "flip"
           [] Head(todo).do = "stamp" -> "stamp"
           [] OTHER -> "lane"

\* Call c goes on to the stages left, out of the lock or at its end again; or fails.
Onward(c, todo) == [call[c] EXCEPT !.at = At(todo), !.todo = todo, !.tree = None]
Failed(c)       == [call[c] EXCEPT !.at = "failed", !.todo = <<>>, !.tree = None]
Released(c)     == IF HasLock(c) THEN Tail(lane) ELSE lane
Queued(c, todo) == IF At(todo) = "lane" THEN Append(Released(c), c) ELSE Released(c)

\* What throws, or returns, before anything is read or locked.
Idle(op) ==
    \/ op.do = "save" /\ (op.key = "dm" \/ (op.key = "relay" /\ op.d = "allow"))
    \/ op.do = "reset" /\ ~disk.inherit
    \/ op.do = "migrate" /\ disk.version

\* Migrations are serialised with whatever else the host starts.
MayBegin(op) ==
    Scene.serial =>
        /\ op.do \in Migrations => \A x \in Calls : ~Running(x)
        /\ \A x \in Calls : Running(x) => call[x].op.do \notin Migrations

Begin(c) ==
    /\ call[c].at = "idle"
    /\ Cardinality({x \in Calls : call[x].at # "idle"}) < Scene.calls
    /\ \E op \in Scene.ops :
        LET begun == [NoCall EXCEPT !.op = op]
            todo  == IF Idle(op) THEN <<>> ELSE Program(op)
        IN  /\ MayBegin(op)
            /\ IF op.do \in {"check", "setup"}
               THEN /\ call' = [call EXCEPT ![c] = [begun EXCEPT
                                   !.at = "inherit?",
                                   !.could = IF op.do = "check" THEN Could(disk, op) ELSE {},
                                   !.modes = IF op.do = "check" THEN {disk.shared} ELSE {}]]
                    /\ UNCHANGED lane
               ELSE /\ call' = [call EXCEPT ![c] = [begun EXCEPT !.at = At(todo), !.todo = todo]]
                    /\ lane' = Queued(c, todo)
    /\ UNCHANGED <<disk, cache, scene, swept>>

----------------------------------------------------------------------------
(* The mode is read before check() loads the tree and before               *)
(* setupNewAccountPermissions() does anything.                             *)

Last(op) == IF op.from = "none" THEN As(op, "clearAccount") ELSE As(op, "copy")

\* Existing accounts get the shared rules of their own, then the mode is switched.
Separated(op) ==
    [i \in 1..Len(op.others) |-> [As(op, "copy") EXCEPT !.acct = op.others[i], !.from = Default]]
    \o <<As(op, "separate"), Last(op)>>

\* A check knows its bucket; a setup knows its stages.
WithMode(c, bucket, todo) ==
    IF call[c].op.do = "check"
    THEN /\ call' = [call EXCEPT ![c].at = "load", ![c].bucket = bucket]
         /\ UNCHANGED lane
    ELSE /\ call' = [call EXCEPT ![c] = Onward(c, todo)]
         /\ lane' = Queued(c, todo)

ReadInherit(c) ==
    LET op == call[c].op
    IN  /\ call[c].at = "inherit?"
        /\ IF disk.inherit THEN WithMode(c, op.acct, <<As(op, "setUp")>>)
           ELSE call' = [call EXCEPT ![c].at = "shared?"] /\ UNCHANGED lane
        /\ UNCHANGED <<disk, cache, scene, swept>>

ReadShared(c) ==
    LET op     == call[c].op
        shared == IF cache.shared = None THEN disk.shared ELSE cache.shared
    IN  /\ call[c].at = "shared?"
        /\ IF shared THEN WithMode(c, Default, Separated(op)) ELSE WithMode(c, op.acct, <<Last(op)>>)
        /\ cache' = [cache EXCEPT !.shared = shared]
        /\ UNCHANGED <<disk, scene, swept>>

\* #load(): nothing is answered while the journal of a migration is there.
Loaded == IF cache.perms = None THEN disk.tree ELSE cache.perms

\* Slip: the journal is not looked for.
LoadMidway(c) ==
    /\ call[c].at = "load"
    /\ call' = [call EXCEPT ![c].at = "again?", ![c].tree = Loaded]
    /\ cache' = [cache EXCEPT !.perms = Loaded]
    /\ UNCHANGED <<disk, lane, scene, swept>>

Load(c) ==
    /\ call[c].at = "load"
    /\ IF disk.pending # None
       THEN call' = [call EXCEPT ![c] = [Failed(c) EXCEPT !.said = "refused"]] /\ UNCHANGED cache
       ELSE /\ call' = [call EXCEPT ![c].at = "again?", ![c].tree = Loaded]
            /\ cache' = [cache EXCEPT !.perms = Loaded]
    /\ UNCHANGED <<disk, lane, scene, swept>>

\* #inherits() is asked again before the loaded tree is resolved.
Answer(c) ==
    LET op == call[c].op
        b  == IF disk.inherit THEN Effective(call[c].tree, op.o, op.acct)
              ELSE OriginBucket(call[c].tree, op.o, call[c].bucket)
    IN  /\ call[c].at = "again?"
        /\ call' = [call EXCEPT ![c].at = "done", ![c].tree = None, ![c].said = Resolve(b, op.key)]
        /\ UNCHANGED <<disk, cache, lane, scene, swept>>

----------------------------------------------------------------------------
(* A stage in the lock: a draft of the tree is edited, then committed.     *)

Shared == IF cache.shared = None THEN disk.shared ELSE cache.shared

\* #writeBucket()
WriteBucket(s) == IF ~disk.inherit /\ Shared THEN Default ELSE s.acct

\* #assertRuleScope(), and its like in copyPermissions()
OutOfScope(s) ==
    /\ disk.consolidated
    /\ \/ s.do \in {"save", "saveRetired"} /\ ((s.o = Global) # (WriteBucket(s) = Default))
       \/ s.do = "copy" /\ s.acct = Default

\* The entries a stage may write.
Reach(s, bucket) ==
    CASE s.do \in {"save", "saveRetired"} -> {<<s.o, bucket, s.key>>}
      [] s.do = "clear"        -> Bucket(s.o, bucket)
      [] s.do = "clearSite"    -> SiteEntries(s.o)
      [] s.do = "inheritRule"  -> Scopes(s.o) \X {s.acct} \X {s.key}
      [] s.do = "clearBucket"  -> Bucket(s.o, s.acct)
      [] s.do \in {"clearAccount", "copy", "setUp"} -> Labels \X {s.acct} \X Keys
      [] s.do = "reset"        -> {x \in Entries : x[2] # Default}
      [] OTHER                 -> Entries

Edited(s, bucket, t) ==
    CASE s.do \in {"save", "saveRetired"} -> [t EXCEPT ![<<s.o, bucket, s.key>>] = s.d]
      [] s.do = "copy"       -> Copied(t, s.from, s.acct, disk.consolidated)
      [] s.do = "setUp"      -> SetUp(t, s.acct, s.from, disk.consolidated)
      [] s.do = "reset"      -> Reset(t)
      [] s.do = "perKind"    -> PerKind(t)
      [] s.do = "perAccount" -> PerAccount(t)
      [] s.do = "forward"    -> ForwardToAsk(t)
      [] s.do = "dmFold"     -> DmFold(t)
      [] OTHER               -> Dropped(t, Reach(s, bucket))

\* These commit only what they changed.
IfChanged == {"clearAccount", "copy", "perKind", "perAccount", "forward", "dmFold"}

Journaled == {"toInherit", "toGlobal"}
\* Slip: a draft is made without waiting for the lock.
DraftingAtOnce(c) == call[c].at = "lane"

Drafting(c) == call[c].at = "lane" /\ HasLock(c)

Draft(c) ==
    LET s      == Stage(c)
        b      == WriteBucket(s)
        draft  == Edited(s, b, Loaded)
        rest   == Tail(call[c].todo)
    IN  /\ Drafting(c) /\ s.do \notin Journaled \cup {"clearAll"}
        /\ \/ /\ OutOfScope(s) \/ disk.pending # None
              /\ call' = [call EXCEPT ![c] = Failed(c)]
              /\ lane' = Tail(lane)
              /\ UNCHANGED cache
           \/ /\ ~OutOfScope(s) /\ disk.pending = None
              /\ cache' = [cache EXCEPT !.perms = Loaded,
                             !.shared = IF s.do \in {"save", "saveRetired", "clear"} /\ ~disk.inherit
                                        THEN Shared ELSE @]
              /\ IF s.do \in IfChanged /\ draft = Loaded
                 THEN call' = [call EXCEPT ![c] = Onward(c, rest)] /\ lane' = Queued(c, rest)
                 ELSE /\ call' = [call EXCEPT ![c].at = "commit", ![c].tree = draft, ![c].bucket = b]
                      /\ UNCHANGED lane
        /\ UNCHANGED <<disk, scene, swept>>

\* Slip: the cache is left as it was.
CommitKeepsCache(c) ==
    LET rest == Tail(call[c].todo)
    IN  /\ call[c].at = "commit"
        /\ Writes(c, [disk EXCEPT !.tree = call[c].tree], Onward(c, rest))
        /\ lane' = Queued(c, rest)
        /\ swept' = (swept /\ Stage(c).do \notin {"save", "saveRetired"})
        /\ UNCHANGED <<cache, scene>>

Commit(c) ==
    LET rest == Tail(call[c].todo)
    IN  /\ call[c].at = "commit"
        /\ Writes(c, [disk EXCEPT !.tree = call[c].tree], Onward(c, rest))
        /\ lane' = Queued(c, rest)
        /\ cache' = NoCache
        /\ swept' = (swept /\ Stage(c).do \notin {"save", "saveRetired"})
        /\ UNCHANGED scene

\* clear() of everything removes the tree unread.
ClearAll(c) ==
    LET rest == Tail(call[c].todo)
    IN  /\ Drafting(c) /\ Stage(c).do = "clearAll"
        /\ Writes(c, [disk EXCEPT !.tree = Empty], Onward(c, rest))
        /\ lane' = Queued(c, rest)
        /\ cache' = NoCache
        /\ swept' = TRUE
        /\ UNCHANGED scene

\* setUseGlobalDefaults(), which takes no lock.
Flip(c) ==
    LET rest == Tail(call[c].todo)
    IN  /\ call[c].at = "flip"
        /\ Writes(c, [disk EXCEPT !.shared = (Stage(c).do = "share")], Onward(c, rest))
        /\ lane' = Queued(c, rest)
        /\ cache' = NoCache
        /\ UNCHANGED <<scene, swept>>

\* migrate() records that it has run.
Stamp(c) ==
    /\ call[c].at = "stamp"
    /\ Writes(c, [disk EXCEPT !.version = TRUE], Onward(c, <<>>))
    /\ UNCHANGED <<cache, lane, scene, swept>>

----------------------------------------------------------------------------
(* The journaled migrations.                                               *)

\* A journal that is found is finished first; a migration that was made is not repeated.
StartMigration(c) ==
    LET s     == Stage(c)
        rest  == Tail(call[c].todo)
        made  == IF s.do = "toInherit" THEN disk.inherit ELSE disk.consolidated
        draft == IF s.do = "toInherit" THEN Inheritance(Loaded, Shared)
                 ELSE Consolidated(Loaded, Callers)
    IN  /\ Drafting(c) /\ s.do \in Journaled
        /\ \/ /\ disk.pending # None
              /\ call' = [call EXCEPT ![c].at = "tree"]
              /\ UNCHANGED <<cache, lane>>
           \/ /\ disk.pending = None /\ made
              /\ call' = [call EXCEPT ![c] = Onward(c, rest)]
              /\ lane' = Queued(c, rest)
              /\ UNCHANGED cache
           \/ /\ disk.pending = None /\ ~made
              /\ call' = [call EXCEPT ![c].at = "journal", ![c].tree = draft]
              /\ cache' = [perms  |-> Loaded,
                           shared |-> IF s.do = "toInherit" THEN Shared ELSE cache.shared]
              /\ UNCHANGED lane
        /\ UNCHANGED <<disk, scene, swept>>

\* One write of the journal's; the call goes on to the next.
Journals(c, at, next, d) ==
    /\ call[c].at = at
    /\ Writes(c, d, [call[c] EXCEPT !.at = next, !.tree = None])
    /\ UNCHANGED <<lane, scene, swept>>

Journal(c) ==
    /\ Journals(c, "journal", "tree",
            [disk EXCEPT !.pending = [tree |-> call[c].tree, global |-> Stage(c).do = "toGlobal"]])
    /\ UNCHANGED cache
\* Slip: the whole journal is written where its tree belongs.
WriteJournal(c) == Journals(c, "tree", "mode", [disk EXCEPT !.tree = disk.pending]) /\ UNCHANGED cache

WriteTree(c) == Journals(c, "tree", "mode", [disk EXCEPT !.tree = disk.pending.tree]) /\ UNCHANGED cache
WriteMode(c) == Journals(c, "mode", "mark", [disk EXCEPT !.shared = FALSE]) /\ UNCHANGED cache
WriteMark(c) ==
    /\ Journals(c, "mark", IF disk.pending.global THEN "global" ELSE "remove",
            [disk EXCEPT !.inherit = TRUE])
    /\ UNCHANGED cache
WriteGlobal(c) == Journals(c, "global", "remove", [disk EXCEPT !.consolidated = TRUE]) /\ UNCHANGED cache

\* The journal goes, and the migration looks again whether it was made.
Remove(c) == Journals(c, "remove", "lane", [disk EXCEPT !.pending = None]) /\ cache' = NoCache

Finishing == {"tree", "mode", "mark", "global", "remove"}

----------------------------------------------------------------------------
(* The store fails a write; the process dies.                              *)

WriteFails(c) ==
    /\ scene.faults > 0
    /\ \/ call[c].at \in {"commit", "flip", "stamp", "journal"} \cup Finishing
       \/ Drafting(c) /\ Stage(c).do = "clearAll"
    /\ call' = [call EXCEPT ![c] = Failed(c)]
    /\ lane' = Released(c)
    /\ cache' = IF call[c].at \in {"stamp", "journal"} THEN cache ELSE NoCache
    /\ scene' = [scene EXCEPT !.faults = @ - 1]
    /\ UNCHANGED <<disk, swept>>

Crash ==
    /\ scene.crashes > 0
    /\ call' = [c \in Calls |-> IF Running(c) THEN [call[c] EXCEPT !.at = "dead", !.todo = <<>>,
                                                                    !.tree = None, !.could = {}, !.modes = {}]
                                ELSE call[c]]
    /\ lane' = <<>>
    /\ cache' = NoCache
    /\ scene' = [scene EXCEPT !.crashes = @ - 1]
    /\ UNCHANGED <<disk, swept>>

----------------------------------------------------------------------------

Disk(t, shared, inherit, consolidated) ==
    [tree |-> t, shared |-> shared, inherit |-> inherit, consolidated |-> consolidated,
     version |-> FALSE, pending |-> None]

Init ==
    /\ \E n \in DOMAIN Scenes :
        /\ scene = [name |-> n, faults |-> Scenes[n].faults, crashes |-> Scenes[n].crashes]
        /\ disk \in Scenes[n].disks
    /\ cache = NoCache
    /\ lane = <<>>
    /\ call = [c \in Calls |-> NoCall]
    /\ swept = FALSE

Next ==
    \/ \E c \in Calls :
        \/ Begin(c) \/ ReadInherit(c) \/ ReadShared(c) \/ Load(c) \/ Answer(c)
        \/ Draft(c) \/ Commit(c) \/ ClearAll(c) \/ Flip(c) \/ Stamp(c)
        \/ StartMigration(c) \/ Journal(c) \/ WriteTree(c) \/ WriteMode(c) \/ WriteMark(c)
        \/ WriteGlobal(c) \/ Remove(c) \/ WriteFails(c)
    \/ Crash

Spec == Init /\ [][Next]_vars

----------------------------------------------------------------------------
(* Properties.                                                             *)

\* The variables have their types (store.ts).
Said  == Decisions \cup {"forward", "refused"}
Ats   == Ended \cup Finishing \cup {"inherit?", "shared?", "load", "again?", "lane", "commit",
                                    "flip", "stamp", "journal"}
CallT == [at : Ats, op : Ops, todo : Seq(Ops), tree : Tree \cup {None}, bucket : Buckets \cup {None},
          could : SUBSET (BOOLEAN \X Said), modes : SUBSET BOOLEAN, said : Said \cup {None}]
TypeOK ==
    /\ disk \in Disks
    /\ cache \in [perms : Tree \cup {None}, shared : BOOLEAN \cup {None}]
    /\ lane \in Seq(Calls)
    /\ call \in [Calls -> CallT]
    /\ scene \in [name : DOMAIN Scenes, faults : Nat, crashes : Nat]
    /\ swept \in BOOLEAN

\* What the instance holds of the store is what the store holds: a decision that was not
\* written, or was overwritten, answers nobody (#draft and #commit of store.ts).  While a
\* journal is there the tree the instance holds may be older, and is not served.
CacheHonest ==
    disk.pending = None =>
        cache.perms \in {None, disk.tree} /\ cache.shared \in {None, disk.shared}

\* A check is answered from the rules as they stood at some moment of the check, read in a
\* mode that was set at some moment of it, whatever was written, switched or cleared
\* meanwhile, and is refused only because a migration was incomplete (check and #load).
ChecksAnswerTheStore ==
    \A c \in Calls :
        call[c].op.do = "check" /\ call[c].said # None =>
            \E s \in call[c].modes : <<s, call[c].said>> \in call[c].could

\* A commit leaves alone every rule its operation is not about: no decision that another
\* call wrote meanwhile vanishes under an older draft (AsyncLock of lock.ts).
WritesOnlyItsOwn ==
    [][\A c \in Calls : Commit(c) =>
        \A x \in Entries \ Reach(Stage(c), call[c].bucket) : disk'.tree[x] = disk.tree[x]]_vars

\* What an account is told of a method for a caller, on each side of a migration.
Was(l, a, m)  == Resolve(Active(disk.tree, disk.inherit, disk.shared, l, a), m)
Will(l, a, m) == Resolve(Effective(disk'.pending.tree, l, a), m)

\* No stage of migrate() loses a refusal: what was denied is denied still, under the same
\* key or the group it folds into, in the same bucket or the one it is wrapped in.
MigrateKeepsDenials ==
    [][\A c \in Calls : Commit(c) /\ call[c].op.do = "migrate" =>
        \A x \in Entries : disk.tree[x] = "deny" =>
            \E b \in {x[2], Default}, k \in {x[3], "send"} \cap Keys :
                disk'.tree[<<x[1], b, k>>] = "deny"]_vars

\* The rules at `_global`, where a migration may change what a is told of m: those that were
\* kept there before it come into force with inheritance, the shared ones or the account's
\* own; and consolidation drops the account's own, of which an "ask" counts as no rule
\* ((previous[key] ?? 'ask') of store.ts), so that a blanket allow speaks where it did.
AtGlobal(b, k) == IF k \in Keys THEN disk.tree[<<Global, b, k>>] ELSE "none"
GlobalSpeaks(a, m) ==
    IF disk.inherit THEN AtGlobal(a, KeyOf(m)) = "ask"
    ELSE \E k \in {KeyOf(m), "blanket"} : AtGlobal(IF disk.shared THEN Default ELSE a, k) = "allow"

\* Sharing never loosens.  A migration to inheritance or to global rules allows no account at
\* any known caller what it was not allowed, but for what rules at `_global` say, and drops no
\* refusal, in whichever mode the rules were kept (migrateToInheritance,
\* migrateToGlobalRules); and a new account that was set up with nothing is allowed nothing
\* when the call is answered, however much the accounts share, until the rules are
\* consolidated, or a host asks to share again (setupNewAccountPermissions).
SharingNeverLoosens ==
    [][\A c \in Calls :
        /\ Journal(c) => \A l \in Callers, a \in Accounts, m \in Methods :
             /\ Will(l, a, m) = "allow" => Was(l, a, m) = "allow" \/ GlobalSpeaks(a, m)
             /\ Was(l, a, m) = "deny" => Will(l, a, m) = "deny"
        /\ LET op == call[c].op
           IN  /\ op.do = "setup" /\ op.from = "none" /\ Running(c)
               /\ call'[c].at = "done" /\ ~disk'.consolidated
               /\ ~(disk'.shared /\ \E x \in Calls : call[x].op.do = "share")
               => \A l \in Callers, m \in Methods :
                     Told(disk', [op EXCEPT !.o = l, !.key = m]) # "allow"]_vars

\* A store that was cleared of every rule has none until one is saved (clear of store.ts:
\* "A revocation that raced a concurrent save used to be reversible").
ClearedStaysCleared == swept => disk.tree = Empty
=============================================================================
