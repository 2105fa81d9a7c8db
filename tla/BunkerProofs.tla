---------------------------- MODULE BunkerProofs ----------------------------
(***************************************************************************)
(* Proofs about Bunker, for any finite sets of clients and secrets, any    *)
(* number of executions and any scene.  What makes the properties          *)
(* inductive is IInv, of three parts.  Sound: the memory of one process is *)
(* in order, and every count of open approvals is the number of executions *)
(* that wait.  Outside: what is persisted says nothing that contradicts    *)
(* the memory or, in a copy, what is persisted since; what was revoked is  *)
(* in no state that restore() would take.  Owners: who was admitted over a *)
(* record has it for good.                                                 *)
(*                                                                         *)
(* A step within a process is Onward: records go on under their ids or are *)
(* new, clients go on or are backed by the record that admitted them.      *)
(* Whatever is onward keeps the persisted states in agreement, so that the *)
(* handlers are looked at only once.  Revocation, death and restore() have *)
(* arguments of their own.                                                 *)
(***************************************************************************)
EXTENDS Bunker, FiniteSetTheorems, TLAPS

----------------------------------------------------------------------------
(* The inductive invariant.                                                *)

Waits(run)     == run.at = "handler" /\ run.do \in {"connect", "scan"}
AwaitSet(R)    == {k \in Slots : Waits(R[k])}
Prompts(R, i)  == {k \in Slots : Waits(R[k]) /\ R[k].rec = i}
PlacesOf(R, c) == {k \in Slots : Waits(R[k]) /\ R[k].by = c /\ R[k].slot}

\* A client and a record of one id: the record is confirmed, and it is that client's.
Agrees(S, C) ==
    \A c \in Clients, x \in Secrets :
        C[c] # None /\ S[x] # None /\ C[c].id = S[x].id
        => C[c].secret = x /\ S[x].confirmed /\ S[x].client = c

\* Records of one id have one name.
SameName(S, T) ==
    \A x, y \in Secrets : S[x] # None /\ T[y] # None /\ S[x].id = T[y].id => x = y

\* Clients and secrets, in memory or in a state; n ids are born.
StoreInv(S, C, n) ==
    /\ S \in [Secrets -> SecretT \cup {None}] /\ C \in [Clients -> ClientT \cup {None}]
    /\ \A x \in Secrets : S[x] # None => S[x].id \in 1..n /\ (S[x].confirmed => S[x].client # None)
    /\ \A c \in Clients : C[c] # None => C[c].id <= n
    /\ SameName(S, S) /\ Agrees(S, C)

\* An execution that awaits an approval: of whom, and what it may hold.
WaitsFor(S, run, n) ==
    /\ run.by \in Clients /\ run.rec <= n /\ run.relays \in Relays
    /\ run.rec # 0 => run.secret \in Secrets
    /\ \A x \in Secrets : S[x] # None /\ S[x].id = run.rec => run.secret = x /\ S[x].client = run.by

\* The approvals that are open: who waits, and what a record counts.
Pends(S, R, n) ==
    /\ R \in [Slots -> RunT] /\ IsFiniteSet(AwaitSet(R))
    /\ \A k \in AwaitSet(R) : WaitsFor(S, R[k], n)
    /\ \A x \in Secrets : S[x] # None => S[x].pending = Cardinality(Prompts(R, S[x].id))

ScansWait(S) ==
    \A x \in Secrets : S[x] # None /\ S[x].origin = "nostrconnect" /\ ~S[x].confirmed /\ S[x].lapse = "never"
                       => S[x].pending > 0

RunCounts ==
    /\ runs \in [Slots -> RunT] /\ IsFiniteSet(AwaitSet(runs)) /\ approvals = Cardinality(AwaitSet(runs))
    /\ admissions \in [Clients -> Nat]
    /\ \A c \in Clients : admissions[c] = Cardinality(PlacesOf(runs, c))
Ceilings == Cardinality(Connected) <= Scene.maxClients /\ Cardinality(Held) <= Scene.maxSecrets

HostT    == [generation : Nat, saved : StateT \cup {None}, kept : StateT \cup {None}]
HistoryT == [born : Nat, revoked : SUBSET Nat, admitted : SUBSET (Nat \X Clients), rolled : BOOLEAN]
Shapes ==
    /\ host \in HostT /\ history \in HistoryT
    /\ "scene" \in DOMAIN spent /\ \E n \in DOMAIN Scenes : spent.scene = Scenes[n]
    /\ seen \in [Clients -> SUBSET Nat] /\ generation \in Nat /\ host.generation = generation

\* What is persisted is a store of its own, where nothing is pending.
StateInv(st, n) ==
    /\ StoreInv(st.secrets, st.clients, n)
    /\ \A x \in Secrets : st.secrets[x] # None => st.secrets[x].pending = 0
Persisted == {st \in {host.saved, host.kept} : st # None}

\* A process that has anything has handed it out as it is, but for what has lapsed since.
Like(r, t) == /\ (r = None) <=> (t = None)
              /\ r # None => /\ t.id = r.id /\ t.client = r.client /\ t.confirmed = r.confirmed
                             /\ t.relays = r.relays /\ t.origin = r.origin
HandedOut ==
    Held \cup Connected # {} =>
        /\ host.saved # None /\ StateGeneration(host.saved) = generation
        /\ host.saved.clients = clients /\ \A x \in Secrets : Like(secrets[x], host.saved.secrets[x])

\* A copy T, D may be older or newer than the records S of C: what one of them says of
\* an id does not contradict the other.
Across(S, C, T, D) ==
    /\ SameName(S, T) /\ Agrees(S, D)
    /\ \A c \in Clients, x \in Secrets :
         C[c] # None /\ T[x] # None /\ C[c].id = T[x].id
         => /\ C[c].secret = x
            /\ \/ T[x].confirmed /\ T[x].client = c
               \/ S[x] # None /\ S[x].id = T[x].id
Copied ==
    host.kept # None =>
        /\ Across(secrets, clients, host.kept.secrets, host.kept.clients)
        /\ host.saved # None => Across(host.saved.secrets, host.saved.clients, host.kept.secrets, host.kept.clients)

Ids(S, C) == ({S[x].id : x \in {y \in Secrets : S[y] # None}} \cup {C[c].id : c \in {d \in Clients : C[d] # None}}) \ {0}
StateIds(st) == Ids(st.secrets, st.clients)

Revocations ==
    /\ history.revoked \subseteq 1..history.born
    /\ Ids(secrets, clients) \cap history.revoked = {}
    /\ \A st \in Persisted : StateGeneration(st) >= generation => StateIds(st) \cap history.revoked = {}
    /\ host.kept # None /\ StateGeneration(host.kept) > generation
       => StateIds(host.kept) \cap Ids(secrets, clients) = {}
    /\ host.kept # None /\ host.saved # None /\ StateGeneration(host.kept) > StateGeneration(host.saved)
       => StateIds(host.kept) \cap StateIds(host.saved) = {}

\* Who was admitted owns the record.
OneOwner(A)     == \A p, q \in A : p[1] = q[1] /\ p[1] # 0 => p[2] = q[2]
Owned(S, A)     == \A p \in A, x \in Secrets : S[x] # None /\ S[x].id = p[1] => S[x].confirmed /\ S[x].client = p[2]
Admitted(C, A)  == \A c \in Clients : C[c] # None /\ C[c].id # 0 => <<C[c].id, c>> \in A
SavedOwns(T, D, A) ==
    /\ Owned(T, A)
    /\ \A c \in Clients, p \in A : D[c] # None /\ D[c].id = p[1] /\ p[1] # 0 => p[2] = c
    /\ \A c, d \in Clients : D[c] # None /\ D[d] # None /\ D[c].id = D[d].id /\ D[c].id # 0 => c = d
Owners ==
    /\ \A p \in history.admitted : p[1] <= history.born
    /\ ~history.rolled =>
         /\ OneOwner(history.admitted)
         /\ Owned(secrets, history.admitted) /\ Admitted(clients, history.admitted)
         /\ host.saved # None => SavedOwns(host.saved.secrets, host.saved.clients, history.admitted)

\* No client uses a secret both in a connect request and in a scan.
OneDoor(sc) == \A r \in sc.requests, u \in sc.scans : r.do = "connect" => ~(r.by = u.by /\ r.secret = u.secret)

BackedBy(S, c, cl) ==
    cl.secret \in Secrets /\ S[cl.secret] # None /\ S[cl.secret].client = c /\ S[cl.secret].confirmed
    /\ S[cl.secret].relays = cl.relays
FromScene(sc, run) ==
    /\ run.rec # 0
    /\ \/ run.do = "connect" /\ \E r \in sc.requests : r.do = "connect" /\ r.by = run.by /\ r.secret = run.secret
       \/ run.do = "scan" /\ \E u \in sc.scans : u.by = run.by /\ u.secret = run.secret
AsksOnItsRelays(S, run) ==
    \A x \in Secrets : run.do = "connect" /\ S[x] # None /\ S[x].id = run.rec => run.relays = S[x].relays
Awaited(sc, S, R) == \A k \in AwaitSet(R) : FromScene(sc, R[k]) /\ AsksOnItsRelays(S, R[k])
AllBacked(S, C)   == \A c \in Clients : C[c] # None => BackedBy(S, c, C[c])
Exportable ==
    Scene.required /\ ~Scene.anytime =>
        /\ Awaited(Scene, secrets, runs) /\ AllBacked(secrets, clients)
        /\ host.saved # None => Restorable(host.saved, generation)

Sound ==
    /\ Shapes
    /\ StoreInv(secrets, clients, history.born) /\ Pends(secrets, runs, history.born) /\ ScansWait(secrets)
    /\ RunCounts /\ Ceilings

IInv ==
    /\ Sound
    /\ \A st \in Persisted : StateInv(st, history.born)
    /\ HandedOut /\ Copied
    /\ Revocations
    /\ Owners

Store == [Secrets -> SecretT \cup {None}]
Book  == [Clients -> ClientT \cup {None}]

----------------------------------------------------------------------------
(* Records: what each operator makes of one.                               *)

LEMMA Names == /\ None \notin Clients /\ None \notin Secrets /\ None \notin SecretT /\ None \notin ClientT
               /\ None \notin StateT /\ IsFiniteSet(Clients) /\ IsFiniteSet(Secrets) /\ Slots \subseteq Nat
  BY BunkerAssumption

LEMMA RecordType ==
    ASSUME NEW S \in Store, NEW x \in Secrets, S[x] # None
    PROVE  /\ S[x] \in SecretT
           /\ S[x].id \in Nat /\ S[x].relays \in Relays /\ S[x].client \in Clients \cup {None}
           /\ S[x].confirmed \in BOOLEAN /\ S[x].pending \in Nat
           /\ S[x].origin \in {"bunker", "nostrconnect"} /\ S[x].lapse \in {"later", "now", "never"}
  <1>1. S[x] \in SecretT  BY DEF Store
  <1> QED  BY <1>1 DEF SecretT

LEMMA SweptIs ==
    ASSUME NEW S \in Store
    PROVE  /\ Swept(S) \in Store
           /\ \A x \in Secrets : /\ Lapsed(S[x]) => Swept(S)[x] = None
                                 /\ ~Lapsed(S[x]) => Swept(S)[x] = S[x]
                                 /\ S[x] = None => Swept(S)[x] = None
                                 /\ S[x] # None /\ (S[x].confirmed \/ S[x].pending # 0) => Swept(S)[x] = S[x]
                                 /\ Swept(S)[x] # None => Swept(S)[x] = S[x]
  BY DEF Store, Swept, Lapsed

LEMMA BoundIs ==
    ASSUME NEW S \in Store, NEW x \in Secrets, S[x] # None, NEW c \in Clients
    PROVE  /\ Bound(S, x, c) \in Store
           /\ \A y \in Secrets : y # x => Bound(S, x, c)[y] = S[y]
           /\ Bound(S, x, c)[x] # None
           /\ LET r == Bound(S, x, c)[x]
              IN  /\ r.id = S[x].id /\ r.relays = S[x].relays /\ r.client = c /\ r.confirmed = S[x].confirmed
                  /\ r.pending = S[x].pending + 1 /\ r.origin = S[x].origin /\ r.lapse = S[x].lapse
  <1>1. S[x] \in SecretT  BY DEF Store
  <1> DEFINE r == [S[x] EXCEPT !.client = c, !.pending = @ + 1]
  <1>2. /\ r \in SecretT
        /\ r.id = S[x].id /\ r.relays = S[x].relays /\ r.client = c /\ r.confirmed = S[x].confirmed
        /\ r.pending = S[x].pending + 1 /\ r.origin = S[x].origin /\ r.lapse = S[x].lapse
    <2>1. S[x].pending + 1 \in Nat  BY RecordType
    <2> DEFINE p == S[x].pending + 1
    <2> HIDE DEF p
    <2>2. p \in Nat  BY <2>1 DEF p
    <2>3. /\ r \in SecretT
          /\ r.id = S[x].id /\ r.relays = S[x].relays /\ r.client = c /\ r.confirmed = S[x].confirmed
          /\ r.pending = p /\ r.origin = S[x].origin /\ r.lapse = S[x].lapse
      <3>1. r = [S[x] EXCEPT !.client = c, !.pending = p]  BY <1>1 DEF p, SecretT
      <3> HIDE DEF r
      <3> QED  BY <3>1, <2>2, <1>1 DEF SecretT
    <2> QED  BY <2>3 DEF p
  <1>3. Bound(S, x, c) = [S EXCEPT ![x] = r]
    BY DEF Bound, Store
  <1> HIDE DEF r
  <1> QED  BY <1>2, <1>3, Names DEF Store

LEMMA UnboundIs ==
    ASSUME NEW S \in Store, NEW x \in Secrets, S[x] # None, S[x].pending > 0,
           S[x].confirmed => S[x].client # None
    PROVE  /\ Unbound(S, x) \in Store
           /\ \A y \in Secrets : y # x => Unbound(S, x)[y] = S[y]
           /\ LET r == Unbound(S, x)[x]
              IN  r # None => /\ r.id = S[x].id /\ r.relays = S[x].relays /\ r.confirmed = S[x].confirmed
                              /\ r.pending = S[x].pending - 1 /\ r.origin = S[x].origin /\ r.lapse = S[x].lapse
                              /\ r.pending > 0 \/ r.confirmed => r.client = S[x].client
                              /\ r.pending > 0 \/ r.confirmed \/ r.origin = "bunker"
           /\ S[x].confirmed => Unbound(S, x)[x] # None
  <1>1. S[x] \in SecretT  BY DEF Store
  <1> DEFINE less == [S[x] EXCEPT !.pending = @ - 1]
             free == [S[x] EXCEPT !.client = None, !.pending = 0]
  <1>2. /\ less \in SecretT
        /\ less.id = S[x].id /\ less.relays = S[x].relays /\ less.client = S[x].client /\ less.confirmed = S[x].confirmed
        /\ less.pending = S[x].pending - 1 /\ less.origin = S[x].origin /\ less.lapse = S[x].lapse
    BY <1>1 DEF SecretT
  <1>3. /\ free \in SecretT
        /\ free.id = S[x].id /\ free.relays = S[x].relays /\ free.client = None /\ free.confirmed = S[x].confirmed
        /\ free.pending = 0 /\ free.origin = S[x].origin /\ free.lapse = S[x].lapse
    BY <1>1 DEF SecretT
  <1>4. S[x].pending \in Nat /\ S[x].confirmed \in BOOLEAN /\ S[x].origin \in {"bunker", "nostrconnect"}
    BY <1>1 DEF SecretT
  <1>5. CASE S[x].pending > 1 \/ S[x].confirmed
    <2>1. Unbound(S, x) = [S EXCEPT ![x] = less]
      BY <1>5 DEF Unbound, Store
    <2> HIDE DEF less
    <2> QED  BY <2>1, <1>2, <1>4, <1>5, Names DEF Store
  <1>6. CASE ~(S[x].pending > 1 \/ S[x].confirmed) /\ S[x].origin = "nostrconnect"
    <2>1. Unbound(S, x) = [S EXCEPT ![x] = None]
      BY <1>6 DEF Unbound, Store
    <2> QED  BY <2>1, <1>6 DEF Store
  <1>7. CASE ~(S[x].pending > 1 \/ S[x].confirmed) /\ S[x].origin # "nostrconnect"
    <2>1. Unbound(S, x) = [S EXCEPT ![x] = free]
      BY <1>7 DEF Unbound, Store
    <2>2. S[x].pending = 1  BY <1>7, <1>4
    <2> HIDE DEF free
    <2> QED  BY <2>1, <2>2, <1>3, <1>4, <1>7, Names DEF Store
  <1> QED  BY <1>5, <1>6, <1>7

LEMMA ConfirmedIs ==
    ASSUME NEW S \in Store, NEW x \in Secrets, S[x] # None, S[x].pending > 0, NEW R \in Relays
    PROVE  /\ Confirmed(S, x, R) \in Store
           /\ \A y \in Secrets : y # x => Confirmed(S, x, R)[y] = S[y]
           /\ Confirmed(S, x, R)[x] # None
           /\ LET r == Confirmed(S, x, R)[x]
              IN  /\ r.id = S[x].id /\ r.relays = R /\ r.client = S[x].client /\ r.confirmed
                  /\ r.pending = S[x].pending - 1 /\ r.origin = S[x].origin
  <1>1. S[x] \in SecretT  BY DEF Store
  <1> DEFINE r == [S[x] EXCEPT !.pending = @ - 1, !.confirmed = TRUE, !.lapse = "never", !.relays = R]
  <1>2. /\ r \in SecretT
        /\ r.id = S[x].id /\ r.relays = R /\ r.client = S[x].client /\ r.confirmed
        /\ r.pending = S[x].pending - 1 /\ r.origin = S[x].origin
    <2>1. S[x].pending - 1 \in Nat  BY RecordType
    <2> DEFINE p == S[x].pending - 1
    <2> HIDE DEF p
    <2>2. p \in Nat  BY <2>1 DEF p
    <2>3. /\ r \in SecretT
          /\ r.id = S[x].id /\ r.relays = R /\ r.client = S[x].client /\ r.confirmed
          /\ r.pending = p /\ r.origin = S[x].origin
      <3>1. r = [S[x] EXCEPT !.pending = p, !.confirmed = TRUE, !.lapse = "never", !.relays = R]  BY <1>1 DEF p, SecretT
      <3> HIDE DEF r
      <3> QED  BY <3>1, <2>2, <1>1 DEF SecretT
    <2> QED  BY <2>3 DEF p
  <1>3. Confirmed(S, x, R) = [S EXCEPT ![x] = r]
    BY DEF Confirmed, Store
  <1> HIDE DEF r
  <1> QED  BY <1>2, <1>3, Names DEF Store

LEMMA FreshIs ==
    ASSUME NEW R \in Relays, history.born \in Nat,
           NEW origin \in {"bunker", "nostrconnect"}, NEW lapse \in {"later", "now", "never"}
    PROVE  LET r == Fresh(R, origin, lapse)
           IN  /\ r \in SecretT /\ r # None
               /\ r.id = history.born + 1 /\ r.relays = R /\ r.client = None /\ ~r.confirmed /\ r.pending = 0
               /\ r.origin = origin /\ r.lapse = lapse
  <1> DEFINE r == Fresh(R, origin, lapse)
  <1>1. /\ r \in SecretT
        /\ r.id = history.born + 1 /\ r.relays = R /\ r.client = None /\ ~r.confirmed /\ r.pending = 0
        /\ r.origin = origin /\ r.lapse = lapse
    BY DEF Fresh, SecretT
  <1> HIDE DEF r
  <1>2. r # None  BY <1>1, Names
  <1> QED  BY <1>1, <1>2 DEF r

LEMMA SavedIs ==
    ASSUME NEW S \in Store, NEW C \in Book, NEW g \in Nat
    PROVE  LET st == Export(S, C, g)
           IN  /\ st \in StateT /\ st # None
               /\ st.signed /\ st.generation = g /\ st.clients = C /\ StateGeneration(st) = g
               /\ st.secrets \in Store
               /\ \A x \in Secrets : /\ Like(S[x], st.secrets[x])
                                     /\ S[x] # None => st.secrets[x].pending = 0 /\ st.secrets[x].lapse = S[x].lapse
  <1> DEFINE T == [x \in Secrets |-> IF S[x] = None THEN None ELSE [S[x] EXCEPT !.pending = 0]]
             st == Export(S, C, g)
  <1>1. ASSUME NEW x \in Secrets, S[x] # None
        PROVE  LET r == [S[x] EXCEPT !.pending = 0]
               IN  /\ r \in SecretT
                   /\ r.id = S[x].id /\ r.client = S[x].client /\ r.confirmed = S[x].confirmed /\ r.relays = S[x].relays
                   /\ r.origin = S[x].origin /\ r.lapse = S[x].lapse /\ r.pending = 0
    <2>1. S[x] \in SecretT  BY <1>1 DEF Store
    <2> QED  BY <2>1 DEF SecretT
  <1>2. T \in Store  BY <1>1 DEF Store
  <1>3. \A x \in Secrets : /\ Like(S[x], T[x])
                           /\ S[x] # None => T[x].pending = 0 /\ T[x].lapse = S[x].lapse
    <2> TAKE x \in Secrets
    <2>1. CASE S[x] = None  BY <2>1 DEF Like
    <2>2. CASE S[x] # None
      <3>1. T[x] = [S[x] EXCEPT !.pending = 0]  BY <2>2
      <3> HIDE DEF T
      <3> QED  BY <3>1, <2>2, <1>1, Names DEF Like
    <2> QED  BY <2>1, <2>2
  <1>4. st = [signed |-> TRUE, generation |-> g, clients |-> C, secrets |-> T]
    BY DEF Export
  <1> HIDE DEF T, st
  <1>5. st \in StateT  BY <1>2, <1>4 DEF StateT, Store, Book
  <1>6. st # None  BY <1>5, Names
  <1>7. st.signed /\ st.generation = g /\ st.clients = C /\ st.secrets = T  BY <1>4
  <1>8. StateGeneration(st) = g  BY <1>7 DEF StateGeneration
  <1> QED  BY <1>2, <1>3, <1>5, <1>6, <1>7, <1>8 DEF st

----------------------------------------------------------------------------
(* One step onward: records go on under their ids or are new, clients go   *)
(* on or are backed by the record that admitted them.                      *)

GoesOn(r, q)   == q # None /\ r # None /\ r.id = q.id /\ (q.confirmed => r.confirmed /\ r.client = q.client)
Backs(S, c, e) == e.secret \in Secrets /\ S[e.secret] # None /\ S[e.secret].id = e.id
                  /\ S[e.secret].confirmed /\ S[e.secret].client = c
Onward(S, C, S2, C2, n, n2) ==
    /\ n2 \in {n, n + 1}
    /\ \A x \in Secrets : S2[x] # None => \/ GoesOn(S2[x], S[x])
                                          \/ S2[x].id = n + 1 /\ n2 = n + 1 /\ ~S2[x].confirmed
    /\ \A x, y \in Secrets : S2[x] # None /\ S2[y] # None /\ S2[x].id = n + 1 /\ S2[y].id = n + 1 => x = y
    /\ \A x \in Secrets : S2[x] # None /\ S2[x].confirmed => S2[x].client # None
    /\ \A c \in Clients : C2[c] # None =>
          \/ C2[c] = C[c] /\ \A x \in Secrets : S[x] # None /\ S[x].id = C[c].id => GoesOn(S2[x], S[x])
          \/ C2[c].id = 0
          \/ Backs(S2, c, C2[c])

LEMMA ClientTypes ==
    ASSUME NEW C \in Book, NEW c \in Clients, C[c] # None
    PROVE  C[c] \in ClientT /\ C[c].id \in Nat /\ C[c].relays \in Relays /\ C[c].secret \in Secrets \cup {None}
  BY DEF Book, ClientT

LEMMA StoreParts ==
    ASSUME NEW S, NEW C, NEW n \in Nat, StoreInv(S, C, n)
    PROVE  /\ S \in Store /\ C \in Book
           /\ \A x \in Secrets : S[x] # None => /\ S[x].id \in Nat /\ S[x].id \in 1..n /\ S[x].id > 0 /\ S[x].id <= n
                                                /\ S[x].confirmed \in BOOLEAN
                                                /\ S[x].confirmed => S[x].client # None
           /\ \A c \in Clients : C[c] # None => C[c].id \in Nat /\ C[c].id <= n
           /\ \A x, y \in Secrets : S[x] # None /\ S[y] # None /\ S[x].id = S[y].id => x = y
           /\ \A c \in Clients, x \in Secrets :
                C[c] # None /\ S[x] # None /\ C[c].id = S[x].id
                => C[c].secret = x /\ S[x].confirmed /\ S[x].client = c
  <1>1. S \in Store /\ C \in Book  BY DEF StoreInv, Store, Book
  <1> QED  BY <1>1, RecordType, ClientTypes DEF StoreInv, SameName, Agrees

LEMMA OnwardStore ==
    ASSUME NEW n \in Nat, NEW n2, NEW S, NEW C, NEW S2 \in Store, NEW C2 \in Book,
           StoreInv(S, C, n), Onward(S, C, S2, C2, n, n2)
    PROVE  n2 \in Nat /\ StoreInv(S2, C2, n2)
  <1>0. n2 \in Nat /\ n <= n2  BY DEF Onward
  <1>1. \A x \in Secrets : S2[x] # None => S2[x].id \in 1..n2 /\ (S2[x].confirmed => S2[x].client # None)
    BY <1>0, StoreParts DEF Onward, GoesOn
  <1>2. ASSUME NEW c \in Clients, C2[c] # None  PROVE  C2[c].id <= n2
    BY <1>0, <1>1, <1>2, StoreParts DEF Onward, Backs
  <1>3. SameName(S2, S2)
    <2> SUFFICES ASSUME NEW x \in Secrets, NEW y \in Secrets, S2[x] # None, S2[y] # None, S2[x].id = S2[y].id
                 PROVE  x = y
      BY DEF SameName
    <2>1. CASE S2[x].id = n + 1  BY <2>1 DEF Onward
    <2>2. CASE S2[x].id # n + 1  BY <2>2, StoreParts DEF Onward, GoesOn
    <2> QED  BY <2>1, <2>2
  <1>4. Agrees(S2, C2)
    <2> SUFFICES ASSUME NEW c \in Clients, NEW x \in Secrets, C2[c] # None, S2[x] # None, C2[c].id = S2[x].id
                 PROVE  C2[c].secret = x /\ S2[x].confirmed /\ S2[x].client = c
      BY DEF Agrees
    <2>1. S2[x].id > 0 /\ S2[x].id \in Nat  BY <1>0, <1>1
    <2>2. CASE C2[c] = C[c] /\ \A y \in Secrets : S[y] # None /\ S[y].id = C[c].id => GoesOn(S2[y], S[y])
      <3>1. GoesOn(S2[x], S[x])
        BY <2>2, StoreParts DEF Onward
      <3> QED  BY <2>2, <3>1, StoreParts DEF GoesOn
    <2>3. CASE Backs(S2, c, C2[c])
      BY <2>3, <1>3 DEF Backs, SameName
    <2> QED  BY <2>1, <2>2, <2>3 DEF Onward
  <1> QED  BY <1>0, <1>1, <1>2, <1>3, <1>4 DEF StoreInv, Store, Book

LEMMA OnwardAcross ==
    ASSUME NEW n \in Nat, NEW n2, NEW S, NEW C, NEW S2 \in Store, NEW C2 \in Book, NEW T, NEW D,
           StoreInv(S, C, n), Onward(S, C, S2, C2, n, n2), StoreInv(T, D, n), Across(S, C, T, D)
    PROVE  Across(S2, C2, T, D)
  <1>1. ASSUME NEW x \in Secrets, S2[x] # None, S2[x].id <= n
        PROVE  GoesOn(S2[x], S[x])
    BY <1>1 DEF Onward
  <1>2. SameName(S2, T)
    <2> SUFFICES ASSUME NEW x \in Secrets, NEW y \in Secrets, S2[x] # None, T[y] # None, S2[x].id = T[y].id
                 PROVE  x = y
      BY DEF SameName
    <2>1. T[y].id <= n  BY StoreParts
    <2>2. GoesOn(S2[x], S[x])  BY <1>1, <2>1
    <2> QED  BY <2>2 DEF Across, SameName, GoesOn
  <1>3. Agrees(S2, D)
    <2> SUFFICES ASSUME NEW c \in Clients, NEW x \in Secrets, D[c] # None, S2[x] # None, D[c].id = S2[x].id
                 PROVE  D[c].secret = x /\ S2[x].confirmed /\ S2[x].client = c
      BY DEF Agrees
    <2>1. D[c].id <= n  BY StoreParts
    <2>2. GoesOn(S2[x], S[x])  BY <1>1, <2>1
    <2> QED  BY <2>2 DEF Across, Agrees, GoesOn
  <1>4. ASSUME NEW c \in Clients, NEW x \in Secrets, C2[c] # None, T[x] # None, C2[c].id = T[x].id
        PROVE  /\ C2[c].secret = x
               /\ \/ T[x].confirmed /\ T[x].client = c
                  \/ S2[x] # None /\ S2[x].id = T[x].id
    <2>1. T[x].id > 0 /\ T[x].id <= n /\ T[x].id \in Nat
      <3>1. StoreInv(T, D, n) /\ T[x] # None  BY <1>4
      <3> QED  BY <3>1, StoreParts
    <2>2. CASE C2[c] = C[c] /\ \A y \in Secrets : S[y] # None /\ S[y].id = C[c].id => GoesOn(S2[y], S[y])
      BY <2>2, <1>4 DEF Across, GoesOn
    <2>3. CASE Backs(S2, c, C2[c])
      BY <2>3, <1>2, <1>4 DEF Backs, SameName
    <2> QED  BY <2>1, <2>2, <2>3, <1>4 DEF Onward
  <1> QED  BY <1>2, <1>3, <1>4 DEF Across

LEMMA InIds ==
    ASSUME NEW S, NEW C, NEW i
    PROVE  i \in Ids(S, C) <=> /\ i # 0
                               /\ \/ \E x \in Secrets : S[x] # None /\ S[x].id = i
                                  \/ \E c \in Clients : C[c] # None /\ C[c].id = i
  BY DEF Ids

LEMMA OnwardIds ==
    ASSUME NEW n \in Nat, NEW n2, NEW S, NEW C, NEW S2 \in Store, NEW C2 \in Book,
           StoreInv(S, C, n), Onward(S, C, S2, C2, n, n2), NEW i \in Ids(S2, C2)
    PROVE  i \in Ids(S, C) \/ (i = n + 1 /\ n2 = n + 1)
  <1>1. ASSUME NEW x \in Secrets, S2[x] # None, S2[x].id = i
        PROVE  i \in Ids(S, C) \/ (i = n + 1 /\ n2 = n + 1)
    BY <1>1, InIds DEF Onward, GoesOn
  <1>2. ASSUME NEW c \in Clients, C2[c] # None, C2[c].id = i
        PROVE  i \in Ids(S, C) \/ (i = n + 1 /\ n2 = n + 1)
    BY <1>1, <1>2, InIds DEF Onward, Backs
  <1> QED  BY <1>1, <1>2, InIds

----------------------------------------------------------------------------
(* The steps that are onward.                                              *)

LEMMA SweptOnward ==
    ASSUME NEW n \in Nat, NEW n2, NEW S, NEW C, NEW S2 \in Store, NEW C2 \in Book,
           StoreInv(S, C, n), Onward(S, C, S2, C2, n, n2)
    PROVE  Onward(S, C, Swept(S2), C2, n, n2)
  <1> DEFINE T == Swept(S2)
  <1>1. \A x \in Secrets : T[x] # None => T[x] = S2[x]  BY SweptIs
  <1>2. \A x \in Secrets : S2[x] # None /\ S2[x].confirmed => T[x] = S2[x]  BY SweptIs
  <1> HIDE DEF T
  <1>3. ASSUME NEW c \in Clients, C2[c] # None
        PROVE  \/ C2[c] = C[c] /\ \A x \in Secrets : S[x] # None /\ S[x].id = C[c].id => GoesOn(T[x], S[x])
               \/ C2[c].id = 0
               \/ Backs(T, c, C2[c])
    <2>1. CASE C2[c] = C[c] /\ \A x \in Secrets : S[x] # None /\ S[x].id = C[c].id => GoesOn(S2[x], S[x])
      <3>1. \A x \in Secrets : S[x] # None /\ S[x].id = C[c].id => S[x].confirmed
        BY <1>3, <2>1, StoreParts
      <3> QED  BY <2>1, <3>1, <1>2 DEF GoesOn
    <2>2. CASE Backs(S2, c, C2[c])  BY <2>2, <1>2 DEF Backs
    <2> QED  BY <2>1, <2>2, <1>3 DEF Onward
  <1>4. Onward(S, C, T, C2, n, n2)  BY <1>1, <1>3 DEF Onward
  <1> QED  BY <1>4 DEF T

LEMMA FromSwept ==
    ASSUME NEW n \in Nat, NEW n2, NEW S, NEW C, NEW S2, NEW C2, StoreInv(S, C, n),
           Onward(Swept(S), C, S2, C2, n, n2)
    PROVE  Onward(S, C, S2, C2, n, n2)
  <1> DEFINE T == Swept(S)
  <1>1. S \in Store  BY StoreParts
  <1>2. \A x \in Secrets : T[x] # None => T[x] = S[x]  BY <1>1, SweptIs
  <1>3. \A x \in Secrets : S[x] # None /\ S[x].confirmed => T[x] = S[x]  BY <1>1, SweptIs
  <1>4. Onward(T, C, S2, C2, n, n2)  OBVIOUS
  <1> HIDE DEF T
  <1>5. ASSUME NEW c \in Clients, C2[c] # None
        PROVE  \/ C2[c] = C[c] /\ \A x \in Secrets : S[x] # None /\ S[x].id = C[c].id => GoesOn(S2[x], S[x])
               \/ C2[c].id = 0
               \/ Backs(S2, c, C2[c])
    <2>1. CASE C2[c] = C[c] /\ \A x \in Secrets : T[x] # None /\ T[x].id = C[c].id => GoesOn(S2[x], T[x])
      <3>1. \A x \in Secrets : S[x] # None /\ S[x].id = C[c].id => S[x].confirmed
        BY <1>5, <2>1, StoreParts
      <3> QED  BY <2>1, <3>1, <1>3 DEF GoesOn
    <2> QED  BY <2>1, <1>4, <1>5 DEF Onward
  <1> QED  BY <1>2, <1>4, <1>5 DEF Onward, GoesOn

LEMMA SweptStore ==
    ASSUME NEW n \in Nat, NEW S, NEW C, StoreInv(S, C, n)
    PROVE  StoreInv(Swept(S), C, n)
  <1>1. S \in Store /\ C \in Book  BY StoreParts
  <1> QED  BY <1>1, SweptIs DEF StoreInv, SameName, Agrees, Store, Book

LEMMA QuietOnward ==
    ASSUME NEW n \in Nat, NEW S, NEW C, StoreInv(S, C, n), NEW S2, NEW C2,
           \A x \in Secrets : /\ (S2[x] = None) <=> (S[x] = None)
                              /\ S2[x] # None => /\ S2[x].id = S[x].id /\ S2[x].client = S[x].client
                                                 /\ S2[x].confirmed = S[x].confirmed,
           \A c \in Clients : C2[c] \in {C[c], None}
    PROVE  Onward(S, C, S2, C2, n, n)
  <1>1. \A x \in Secrets : S[x] # None => S[x].id <= n /\ S[x].id \in Nat /\ (S[x].confirmed => S[x].client # None)
    BY StoreParts
  <1> QED  BY <1>1 DEF Onward, GoesOn

LEMMA BindOnward ==
    ASSUME NEW n \in Nat, NEW S, NEW C, StoreInv(S, C, n), NEW x \in Secrets, S[x] # None, NEW c \in Clients,
           S[x].client \in {None, c}
    PROVE  Onward(S, C, Bound(S, x, c), C, n, n)
  <1> DEFINE S2 == Bound(S, x, c)
  <1>1. S \in Store  BY StoreParts
  <1>2. /\ \A y \in Secrets : y # x => S2[y] = S[y]
        /\ S2[x] # None /\ S2[x].id = S[x].id /\ S2[x].client = c /\ S2[x].confirmed = S[x].confirmed
    BY <1>1, BoundIs
  <1> HIDE DEF S2
  <1>3. \A y \in Secrets : S[y] # None => S[y].id <= n /\ S[y].id \in Nat /\ (S[y].confirmed => S[y].client # None)
    BY StoreParts
  <1>4. \A y \in Secrets : S[y] # None => GoesOn(S2[y], S[y])
    BY <1>2, <1>3 DEF GoesOn
  <1>5. \A y \in Secrets : S2[y] # None => S[y] # None
    BY <1>2
  <1>6. Onward(S, C, S2, C, n, n)
    BY <1>2, <1>3, <1>4, <1>5, Names DEF Onward
  <1> QED  BY <1>6 DEF S2

LEMMA UnbindOnward ==
    ASSUME NEW n \in Nat, NEW S, NEW C, StoreInv(S, C, n), NEW x \in Secrets, S[x] # None, S[x].pending > 0
    PROVE  Onward(S, C, Unbound(S, x), C, n, n)
  <1> DEFINE S2 == Unbound(S, x)
  <1>1. S \in Store /\ (S[x].confirmed => S[x].client # None)  BY StoreParts
  <1>2. /\ \A y \in Secrets : y # x => S2[y] = S[y]
        /\ S2[x] # None => S2[x].id = S[x].id /\ S2[x].confirmed = S[x].confirmed
                           /\ (S2[x].confirmed => S2[x].client = S[x].client)
        /\ S[x].confirmed => S2[x] # None
    BY <1>1, UnboundIs
  <1> HIDE DEF S2
  <1>3. \A y \in Secrets : S[y] # None => S[y].id <= n /\ S[y].id \in Nat /\ (S[y].confirmed => S[y].client # None)
    BY StoreParts
  <1>4. \A y \in Secrets : S2[y] # None => GoesOn(S2[y], S[y]) /\ S2[y].id # n + 1
    BY <1>2, <1>3 DEF GoesOn
  <1>5. \A c \in Clients, y \in Secrets : C[c] # None /\ S[y] # None /\ S[y].id = C[c].id => GoesOn(S2[y], S[y])
    BY <1>2, <1>3, StoreParts DEF GoesOn
  <1>6. Onward(S, C, S2, C, n, n)
    BY <1>2, <1>3, <1>4, <1>5 DEF Onward, GoesOn
  <1> QED  BY <1>6 DEF S2

LEMMA ConfirmOnward ==
    ASSUME NEW n \in Nat, NEW S, NEW C, StoreInv(S, C, n), NEW x \in Secrets, S[x] # None, S[x].pending > 0,
           NEW R \in Relays, NEW Q \in Relays, NEW c \in Clients, S[x].client = c
    PROVE  LET C2 == [C EXCEPT ![c] = [secret |-> x, id |-> S[x].id, relays |-> Q]]
           IN  C2 \in Book /\ Onward(S, C, Confirmed(S, x, R), C2, n, n)
  <1> DEFINE S2 == Confirmed(S, x, R)
             e  == [secret |-> x, id |-> S[x].id, relays |-> Q]
             C2 == [C EXCEPT ![c] = e]
  <1>1. S \in Store /\ C \in Book  BY StoreParts
  <1>2. /\ \A y \in Secrets : y # x => S2[y] = S[y]
        /\ S2[x] # None /\ S2[x].id = S[x].id /\ S2[x].client = c /\ S2[x].confirmed
    BY <1>1, ConfirmedIs
  <1>3. \A y \in Secrets : S[y] # None => S[y].id <= n /\ S[y].id \in Nat /\ (S[y].confirmed => S[y].client # None)
    BY StoreParts
  <1>4. e \in ClientT /\ e.secret = x /\ e.id = S[x].id
    BY <1>3 DEF ClientT
  <1> HIDE DEF S2, e
  <1>5. C2 \in Book /\ C2[c] = e /\ \A d \in Clients : d # c => C2[d] = C[d]
    BY <1>1, <1>4 DEF Book
  <1> HIDE DEF C2
  <1>6. \A y \in Secrets : S[y] # None => GoesOn(S2[y], S[y])
    BY <1>2, <1>3 DEF GoesOn
  <1>7. \A y \in Secrets : S2[y] # None => S[y] # None
    BY <1>2
  <1>8. Backs(S2, c, C2[c])  BY <1>2, <1>4, <1>5 DEF Backs
  <1>9. Onward(S, C, S2, C2, n, n)
    BY <1>2, <1>3, <1>5, <1>6, <1>7, <1>8, Names DEF Onward
  <1> QED  BY <1>5, <1>9 DEF S2, C2, e

LEMMA AdmitOnward ==
    ASSUME NEW n \in Nat, NEW S, NEW C, StoreInv(S, C, n), NEW x \in Secrets \cup {None}, NEW Q \in Relays,
           NEW c \in Clients
    PROVE  LET C2 == [C EXCEPT ![c] = [secret |-> x, id |-> 0, relays |-> Q]]
           IN  C2 \in Book /\ Onward(S, C, S, C2, n, n)
  <1> DEFINE e  == [secret |-> x, id |-> 0, relays |-> Q]
             C2 == [C EXCEPT ![c] = e]
  <1>1. S \in Store /\ C \in Book  BY StoreParts
  <1>2. e \in ClientT /\ e.id = 0  BY DEF ClientT
  <1> HIDE DEF e
  <1>3. C2 \in Book /\ C2[c] = e /\ \A d \in Clients : d # c => C2[d] = C[d]
    BY <1>1, <1>2 DEF Book
  <1> HIDE DEF C2
  <1>4. \A y \in Secrets : S[y] # None => S[y].id <= n /\ S[y].id \in Nat /\ (S[y].confirmed => S[y].client # None)
    BY StoreParts
  <1>5. Onward(S, C, S, C2, n, n)  BY <1>2, <1>3, <1>4 DEF Onward, GoesOn
  <1> QED  BY <1>3, <1>5 DEF C2, e

LEMMA DropOnward ==
    ASSUME NEW n \in Nat, NEW S, NEW C, StoreInv(S, C, n), NEW S2, NEW C2, NEW x \in Secrets, S[x] # None,
           S2[x] = None, \A y \in Secrets : y # x => S2[y] = S[y],
           \A c \in Clients : C2[c] # None => C2[c] = C[c] /\ C[c].id # S[x].id
    PROVE  Onward(S, C, S2, C2, n, n) /\ S[x].id \notin Ids(S2, C2)
  <1>1. \A y \in Secrets : S[y] # None => S[y].id <= n /\ S[y].id \in Nat /\ (S[y].confirmed => S[y].client # None)
    BY StoreParts
  <1>2. \A y \in Secrets : S2[y] # None => S[y].id # S[x].id
    BY StoreParts
  <1>3. Onward(S, C, S2, C2, n, n)  BY <1>1, <1>2 DEF Onward, GoesOn
  <1> QED  BY <1>2, <1>3, InIds

LEMMA FreshOnward ==
    ASSUME NEW n \in Nat, NEW S, NEW C, StoreInv(S, C, n), NEW S2, NEW x \in Secrets, S[x] = None,
           S2[x] # None, S2[x].id = n + 1, ~S2[x].confirmed, \A y \in Secrets : y # x => S2[y] = S[y]
    PROVE  Onward(S, C, S2, C, n, n + 1)
  <1>1. \A y \in Secrets : S[y] # None => S[y].id <= n /\ S[y].id \in Nat /\ (S[y].confirmed => S[y].client # None)
    BY StoreParts
  <1> QED  BY <1>1 DEF Onward, GoesOn

----------------------------------------------------------------------------
(* Executions, and the sets of those that wait.                            *)

LEMMA RunTypes ==
    ASSUME NEW R \in [Slots -> RunT], NEW k \in Slots
    PROVE  /\ R[k] \in RunT /\ R[k].at \in {"idle", "handler", "reply", "done"} /\ R[k].by \in Clients \cup {None}
           /\ R[k].secret \in Secrets \cup {None} /\ R[k].rec \in Nat /\ R[k].relays \in Relays \cup {None}
           /\ R[k].slot \in BOOLEAN
  BY DEF RunT

Becomes(R, k, run, R2) == R2 = [R EXCEPT ![k] = run]

LEMMA Quieter ==
    ASSUME NEW R \in [Slots -> RunT], NEW k \in Slots, NEW run \in RunT, ~Waits(R[k]),
           ~Waits(run),
           NEW R2, Becomes(R, k, run, R2)
    PROVE  /\ R2 \in [Slots -> RunT]
           /\ AwaitSet(R2) = AwaitSet(R)
           /\ \A j \in AwaitSet(R) : R2[j] = R[j]
           /\ \A i : Prompts(R2, i) = Prompts(R, i)
           /\ \A c : PlacesOf(R2, c) = PlacesOf(R, c)
  <1>1. R2 \in [Slots -> RunT] /\ R2[k] = run /\ \A j \in Slots : j # k => R2[j] = R[j]
    BY DEF Becomes
  <1>2. ~Waits(R2[k])  BY <1>1 
  <1>3. \A j \in Slots : Waits(R2[j]) <=> Waits(R[j])
    BY <1>1, <1>2 
  <1>4. AwaitSet(R2) = AwaitSet(R) /\ \A j \in AwaitSet(R) : R2[j] = R[j]
    BY <1>1, <1>3 DEF AwaitSet
  <1>5. ASSUME NEW i  PROVE Prompts(R2, i) = Prompts(R, i)
    BY <1>1, <1>3 DEF Prompts
  <1>6. ASSUME NEW c  PROVE PlacesOf(R2, c) = PlacesOf(R, c)
    BY <1>1, <1>3 DEF PlacesOf
  <1> QED  BY <1>1, <1>4, <1>5, <1>6

LEMMA Subsets ==
    ASSUME NEW R, IsFiniteSet(AwaitSet(R))
    PROVE  /\ Cardinality(AwaitSet(R)) \in Nat
           /\ \A i : IsFiniteSet(Prompts(R, i)) /\ Cardinality(Prompts(R, i)) \in Nat
           /\ \A c : IsFiniteSet(PlacesOf(R, c)) /\ Cardinality(PlacesOf(R, c)) \in Nat
           /\ \A i : Cardinality(Prompts(R, i)) <= Cardinality(AwaitSet(R))
  <1>1. \A i : Prompts(R, i) \in SUBSET AwaitSet(R)  BY DEF Prompts, AwaitSet
  <1>2. \A c : PlacesOf(R, c) \in SUBSET AwaitSet(R)  BY DEF PlacesOf, AwaitSet
  <1> QED  BY <1>1, <1>2, FS_Subset, FS_CardinalityType

LEMMA Enters ==
    ASSUME NEW R \in [Slots -> RunT], NEW k \in Slots, NEW run \in RunT, ~Waits(R[k]),
           Waits(run), IsFiniteSet(AwaitSet(R)),
           NEW R2, Becomes(R, k, run, R2)
    PROVE  /\ R2 \in [Slots -> RunT] /\ R2[k] = run /\ IsFiniteSet(AwaitSet(R2))
           /\ AwaitSet(R2) = AwaitSet(R) \cup {k} /\ \A j \in AwaitSet(R) : R2[j] = R[j]
           /\ Cardinality(AwaitSet(R2)) = Cardinality(AwaitSet(R)) + 1
           /\ \A i : Cardinality(Prompts(R2, i)) = IF i = run.rec THEN Cardinality(Prompts(R, i)) + 1
                                                                 ELSE Cardinality(Prompts(R, i))
           /\ \A c : Cardinality(PlacesOf(R2, c)) =
                        IF c = run.by /\ run.slot THEN Cardinality(PlacesOf(R, c)) + 1
                                                  ELSE Cardinality(PlacesOf(R, c))
  <1>1. R2 \in [Slots -> RunT] /\ R2[k] = run /\ \A j \in Slots : j # k => R2[j] = R[j]
    BY DEF Becomes
  <1>2. Waits(R2[k]) /\ \A j \in Slots : j # k => (Waits(R2[j]) <=> Waits(R[j]))
    BY <1>1 
  <1>3. k \notin AwaitSet(R)  BY DEF AwaitSet
  <1>4. AwaitSet(R2) = AwaitSet(R) \cup {k} /\ \A j \in AwaitSet(R) : R2[j] = R[j]
    BY <1>1, <1>2, <1>3 DEF AwaitSet
  <1>5. IsFiniteSet(AwaitSet(R2)) /\ Cardinality(AwaitSet(R2)) = Cardinality(AwaitSet(R)) + 1
    BY <1>3, <1>4, FS_AddElement
  <1>6. ASSUME NEW i
        PROVE  Cardinality(Prompts(R2, i)) = IF i = run.rec THEN Cardinality(Prompts(R, i)) + 1
                                                           ELSE Cardinality(Prompts(R, i))
    <2>1. CASE i = run.rec
      <3>1. Prompts(R2, i) = Prompts(R, i) \cup {k} /\ k \notin Prompts(R, i)
        BY <2>1, <1>1, <1>2 DEF Prompts
      <3>2. Cardinality(Prompts(R2, i)) = Cardinality(Prompts(R, i)) + 1
        BY <3>1, Subsets, FS_AddElement
      <3> QED  BY <2>1, <3>2
    <2>2. CASE i # run.rec
      <3>1. Prompts(R2, i) = Prompts(R, i)
        BY <2>2, <1>1, <1>2 DEF Prompts
      <3> QED  BY <2>2, <3>1
    <2> QED  BY <2>1, <2>2
  <1>7. ASSUME NEW c
        PROVE  Cardinality(PlacesOf(R2, c)) = IF c = run.by /\ run.slot THEN Cardinality(PlacesOf(R, c)) + 1
                                                                        ELSE Cardinality(PlacesOf(R, c))
    <2>1. CASE c = run.by /\ run.slot
      <3>1. PlacesOf(R2, c) = PlacesOf(R, c) \cup {k} /\ k \notin PlacesOf(R, c)
        BY <2>1, <1>1, <1>2 DEF PlacesOf
      <3>2. Cardinality(PlacesOf(R2, c)) = Cardinality(PlacesOf(R, c)) + 1
        BY <3>1, Subsets, FS_AddElement
      <3> QED  BY <2>1, <3>2
    <2>2. CASE ~(c = run.by /\ run.slot)
      <3>1. PlacesOf(R2, c) = PlacesOf(R, c)
        BY <2>2, <1>1, <1>2 DEF PlacesOf
      <3> QED  BY <2>2, <3>1
    <2> QED  BY <2>1, <2>2
  <1> QED  BY <1>1, <1>4, <1>5, <1>6, <1>7

LEMMA Leaves ==
    ASSUME NEW R \in [Slots -> RunT], NEW k \in AwaitSet(R), NEW run \in RunT,
           ~Waits(run), IsFiniteSet(AwaitSet(R)),
           NEW R2, Becomes(R, k, run, R2)
    PROVE  /\ R2 \in [Slots -> RunT] /\ IsFiniteSet(AwaitSet(R2)) /\ k \in Slots
           /\ AwaitSet(R2) = AwaitSet(R) \ {k} /\ \A j \in AwaitSet(R2) : R2[j] = R[j]
           /\ Cardinality(AwaitSet(R2)) = Cardinality(AwaitSet(R)) - 1
           /\ \A i : Cardinality(Prompts(R2, i)) = IF i = R[k].rec THEN Cardinality(Prompts(R, i)) - 1
                                                                  ELSE Cardinality(Prompts(R, i))
           /\ \A c : Cardinality(PlacesOf(R2, c)) =
                        IF c = R[k].by /\ R[k].slot THEN Cardinality(PlacesOf(R, c)) - 1
                                                    ELSE Cardinality(PlacesOf(R, c))
           /\ Cardinality(AwaitSet(R2)) \in Nat
           /\ \A i : Cardinality(Prompts(R2, i)) \in Nat
           /\ \A c : Cardinality(PlacesOf(R2, c)) \in Nat
  <1>0. k \in Slots /\ Waits(R[k])  BY DEF AwaitSet
  <1>1. R2 \in [Slots -> RunT] /\ R2[k] = run /\ \A j \in Slots : j # k => R2[j] = R[j]
    BY <1>0 DEF Becomes
  <1>2. ~Waits(R2[k]) /\ \A j \in Slots : j # k => (Waits(R2[j]) <=> Waits(R[j]))
    BY <1>1 
  <1>4. AwaitSet(R2) = AwaitSet(R) \ {k} /\ \A j \in AwaitSet(R2) : R2[j] = R[j]
    BY <1>0, <1>1, <1>2 DEF AwaitSet
  <1>5. IsFiniteSet(AwaitSet(R2)) /\ Cardinality(AwaitSet(R2)) = Cardinality(AwaitSet(R)) - 1
    BY <1>4, FS_RemoveElement
  <1>6. ASSUME NEW i
        PROVE  Cardinality(Prompts(R2, i)) = IF i = R[k].rec THEN Cardinality(Prompts(R, i)) - 1
                                                            ELSE Cardinality(Prompts(R, i))
    <2>1. CASE i = R[k].rec
      <3>1. Prompts(R2, i) = Prompts(R, i) \ {k} /\ k \in Prompts(R, i)
        BY <2>1, <1>0, <1>1, <1>2 DEF Prompts
      <3>2. Cardinality(Prompts(R2, i)) = Cardinality(Prompts(R, i)) - 1
        BY <3>1, Subsets, FS_RemoveElement
      <3> QED  BY <2>1, <3>2
    <2>2. CASE i # R[k].rec
      <3>1. Prompts(R2, i) = Prompts(R, i)
        BY <2>2, <1>1, <1>2 DEF Prompts
      <3> QED  BY <2>2, <3>1
    <2> QED  BY <2>1, <2>2
  <1>7. ASSUME NEW c
        PROVE  Cardinality(PlacesOf(R2, c)) = IF c = R[k].by /\ R[k].slot THEN Cardinality(PlacesOf(R, c)) - 1
                                                                          ELSE Cardinality(PlacesOf(R, c))
    <2>1. CASE c = R[k].by /\ R[k].slot
      <3>1. PlacesOf(R2, c) = PlacesOf(R, c) \ {k} /\ k \in PlacesOf(R, c)
        BY <2>1, <1>0, <1>1, <1>2 DEF PlacesOf
      <3>2. Cardinality(PlacesOf(R2, c)) = Cardinality(PlacesOf(R, c)) - 1
        BY <3>1, Subsets, FS_RemoveElement
      <3> QED  BY <2>1, <3>2
    <2>2. CASE ~(c = R[k].by /\ R[k].slot)
      <3>1. PlacesOf(R2, c) = PlacesOf(R, c)
        BY <2>2, <1>1, <1>2 DEF PlacesOf
      <3> QED  BY <2>2, <3>1
    <2> QED  BY <2>1, <2>2
  <1>8. /\ Cardinality(AwaitSet(R2)) \in Nat
        /\ \A i : Cardinality(Prompts(R2, i)) \in Nat
        /\ \A c : Cardinality(PlacesOf(R2, c)) \in Nat
    BY <1>5, Subsets
  <1> QED  BY <1>0, <1>1, <1>4, <1>5, <1>6, <1>7, <1>8

----------------------------------------------------------------------------
(* The open approvals, step by step.                                       *)

SameButRelays(r, q) == q # None /\ r.id = q.id /\ r.client = q.client /\ r.pending = q.pending

LEMMA PendsQuiet ==
    ASSUME NEW S, NEW R, NEW n \in Nat, Pends(S, R, n), NEW S2,
           \A x \in Secrets : S2[x] # None => SameButRelays(S2[x], S[x])
    PROVE  Pends(S2, R, n)
  <1>1. ASSUME NEW k \in AwaitSet(R)  PROVE WaitsFor(S2, R[k], n)
    BY <1>1 DEF Pends, WaitsFor, SameButRelays
  <1> QED  BY <1>1 DEF Pends, SameButRelays

LEMMA SweptPends ==
    ASSUME NEW S \in Store, NEW R, NEW n \in Nat, Pends(S, R, n)
    PROVE  Pends(Swept(S), R, n)
  <1> DEFINE S2 == Swept(S)
  <1>1. \A x \in Secrets : S2[x] # None => S2[x] = S[x]  BY SweptIs
  <1> HIDE DEF S2
  <1>2. Pends(S2, R, n)  BY <1>1, PendsQuiet DEF SameButRelays
  <1> QED  BY <1>2 DEF S2

LEMMA PendsFresh ==
    ASSUME NEW S, NEW R, NEW n \in Nat, Pends(S, R, n), NEW S2, NEW x \in Secrets,
           S2[x].id = n + 1, S2[x].pending = 0, \A y \in Secrets : y # x => S2[y] = S[y]
    PROVE  Pends(S2, R, n + 1)
  <1>1. R \in [Slots -> RunT] /\ \A k \in AwaitSet(R) : k \in Slots /\ WaitsFor(S, R[k], n)
    BY DEF Pends, AwaitSet
  <1>2. ASSUME NEW k \in AwaitSet(R)  PROVE WaitsFor(S2, R[k], n + 1)
    <2>1. R[k].rec \in Nat /\ R[k].rec <= n  BY <1>1, RunTypes DEF WaitsFor
    <2> QED  BY <1>1, <2>1 DEF WaitsFor
  <1>3. Prompts(R, n + 1) = {}
    <2> SUFFICES ASSUME NEW k \in Prompts(R, n + 1)  PROVE FALSE
      OBVIOUS
    <2>1. k \in AwaitSet(R) /\ R[k].rec = n + 1  BY DEF Prompts, AwaitSet
    <2>2. R[k].rec \in Nat /\ R[k].rec <= n  BY <1>1, <2>1, RunTypes DEF WaitsFor
    <2> QED  BY <2>1, <2>2
  <1>4. \A y \in Secrets : S2[y] # None => S2[y].pending = Cardinality(Prompts(R, S2[y].id))
    BY <1>3, FS_EmptySet DEF Pends
  <1> QED  BY <1>1, <1>2, <1>4 DEF Pends

LEMMA PendsStays ==
    ASSUME NEW S, NEW R, NEW n \in Nat, Pends(S, R, n), NEW k \in Slots, NEW run \in RunT, ~Waits(R[k]),
           ~Waits(run),
           NEW R2, Becomes(R, k, run, R2)
    PROVE  Pends(S, R2, n)
  <1>1. R \in [Slots -> RunT]  BY DEF Pends
  <1>2. /\ R2 \in [Slots -> RunT] /\ AwaitSet(R2) = AwaitSet(R)
        /\ \A j \in AwaitSet(R) : R2[j] = R[j]
        /\ \A i : Prompts(R2, i) = Prompts(R, i)
    BY <1>1, Quieter
  <1> QED  BY <1>2 DEF Pends

LEMMA PendsAsks ==
    ASSUME NEW S, NEW C, NEW R, NEW n \in Nat, StoreInv(S, C, n), Pends(S, R, n), NEW k \in Slots, NEW run \in RunT,
           ~Waits(R[k]), Waits(run),
           run.rec = 0, run.by \in Clients, run.relays \in Relays,
           NEW R2, Becomes(R, k, run, R2)
    PROVE  Pends(S, R2, n)
  <1>1. R \in [Slots -> RunT] /\ IsFiniteSet(AwaitSet(R))  BY DEF Pends
  <1>2. /\ R2 \in [Slots -> RunT] /\ R2[k] = run /\ IsFiniteSet(AwaitSet(R2))
        /\ AwaitSet(R2) = AwaitSet(R) \cup {k} /\ \A j \in AwaitSet(R) : R2[j] = R[j]
        /\ \A i : i # 0 => Cardinality(Prompts(R2, i)) = Cardinality(Prompts(R, i))
    BY <1>1, Enters
  <1>3. \A x \in Secrets : S[x] # None => S[x].id > 0  BY StoreParts
  <1>4. WaitsFor(S, run, n)  BY <1>3 DEF WaitsFor
  <1>5. \A j \in AwaitSet(R2) : WaitsFor(S, R2[j], n)  BY <1>2, <1>4 DEF Pends
  <1>6. \A x \in Secrets : S[x] # None => S[x].pending = Cardinality(Prompts(R2, S[x].id))
    BY <1>2, <1>3 DEF Pends
  <1> QED  BY <1>2, <1>5, <1>6 DEF Pends

LEMMA PendsBinds ==
    ASSUME NEW S, NEW C, NEW R, NEW n \in Nat, StoreInv(S, C, n), Pends(S, R, n), NEW k \in Slots, NEW run \in RunT,
           ~Waits(R[k]), Waits(run),
           NEW x \in Secrets, S[x] # None, run.rec = S[x].id, run.secret = x,
           NEW c \in Clients, run.by = c, run.relays \in Relays, S[x].client \in {None, c},
           NEW R2, Becomes(R, k, run, R2)
    PROVE  Pends(Bound(S, x, c), R2, n)
  <1> DEFINE S2 == Bound(S, x, c)
  <1>1. R \in [Slots -> RunT] /\ IsFiniteSet(AwaitSet(R)) /\ S \in Store  BY StoreParts DEF Pends
  <1>2. /\ R2 \in [Slots -> RunT] /\ R2[k] = run /\ IsFiniteSet(AwaitSet(R2))
        /\ AwaitSet(R2) = AwaitSet(R) \cup {k} /\ \A j \in AwaitSet(R) : R2[j] = R[j]
        /\ \A i : i # S[x].id => Cardinality(Prompts(R2, i)) = Cardinality(Prompts(R, i))
        /\ Cardinality(Prompts(R2, S[x].id)) = Cardinality(Prompts(R, S[x].id)) + 1
    BY <1>1, Enters
  <1>3. /\ \A y \in Secrets : y # x => S2[y] = S[y]
        /\ S2[x].id = S[x].id /\ S2[x].client = c /\ S2[x].pending = S[x].pending + 1
    BY <1>1, BoundIs
  <1> HIDE DEF S2
  <1>4. \A y \in Secrets : S[y] # None /\ S[y].id = S[x].id => y = x  BY StoreParts
  <1>5. S[x].id <= n  BY StoreParts
  <1>6. WaitsFor(S2, run, n)
    BY <1>3, <1>4, <1>5 DEF WaitsFor
  <1>7. ASSUME NEW j \in AwaitSet(R)  PROVE WaitsFor(S2, R[j], n)
    <2>1. WaitsFor(S, R[j], n) /\ j \in Slots  BY DEF Pends, AwaitSet
    <2>2. R[j].rec = S[x].id => S[x].client = c
      BY <2>1, Names DEF WaitsFor
    <2> QED  BY <2>1, <2>2, <1>3, Names DEF WaitsFor
  <1>8. \A j \in AwaitSet(R2) : WaitsFor(S2, R2[j], n)  BY <1>2, <1>6, <1>7
  <1>9. \A y \in Secrets : S2[y] # None => S2[y].pending = Cardinality(Prompts(R2, S2[y].id))
    BY <1>2, <1>3, <1>4 DEF Pends
  <1>10. Pends(S2, R2, n)  BY <1>2, <1>8, <1>9 DEF Pends
  <1> QED  BY <1>10 DEF S2

LEMMA PendsEnds ==
    ASSUME NEW S, NEW R, NEW n \in Nat, Pends(S, R, n), NEW k \in AwaitSet(R), NEW run \in RunT,
           ~Waits(run),
           \A x \in Secrets : S[x] # None => S[x].id # R[k].rec,
           NEW R2, Becomes(R, k, run, R2)
    PROVE  Pends(S, R2, n)
  <1>1. R \in [Slots -> RunT] /\ IsFiniteSet(AwaitSet(R))  BY DEF Pends
  <1>2. /\ R2 \in [Slots -> RunT] /\ IsFiniteSet(AwaitSet(R2))
        /\ AwaitSet(R2) = AwaitSet(R) \ {k} /\ \A j \in AwaitSet(R2) : R2[j] = R[j]
        /\ \A i : i # R[k].rec => Cardinality(Prompts(R2, i)) = Cardinality(Prompts(R, i))
    BY <1>1, Leaves
  <1> QED  BY <1>2 DEF Pends

LEMMA PendsFrees ==
    ASSUME NEW S, NEW C, NEW R, NEW n \in Nat, StoreInv(S, C, n), Pends(S, R, n), NEW k \in AwaitSet(R),
           NEW run \in RunT, ~Waits(run),
           NEW x \in Secrets, S[x] # None, S[x].id = R[k].rec, NEW S2,
           \A y \in Secrets : y # x => S2[y] = S[y],
           S2[x] # None => /\ S2[x].id = S[x].id /\ S2[x].pending = S[x].pending - 1
                           /\ S2[x].pending # 0 => S2[x].client = S[x].client,
           NEW R2, Becomes(R, k, run, R2)
    PROVE  Pends(S2, R2, n)
  <1>1. R \in [Slots -> RunT] /\ IsFiniteSet(AwaitSet(R)) /\ S \in Store  BY StoreParts DEF Pends
  <1>2. /\ R2 \in [Slots -> RunT] /\ IsFiniteSet(AwaitSet(R2))
        /\ AwaitSet(R2) = AwaitSet(R) \ {k} /\ \A j \in AwaitSet(R2) : R2[j] = R[j]
        /\ \A i : i # S[x].id => Cardinality(Prompts(R2, i)) = Cardinality(Prompts(R, i))
        /\ Cardinality(Prompts(R2, S[x].id)) = Cardinality(Prompts(R, S[x].id)) - 1
    BY <1>1, Leaves
  <1>3. \A y \in Secrets : S[y] # None /\ S[y].id = S[x].id => y = x  BY StoreParts
  <1>4. \A y \in Secrets : S2[y] # None => S2[y].pending = Cardinality(Prompts(R2, S2[y].id))
    BY <1>2, <1>3 DEF Pends
  <1>5. ASSUME NEW j \in AwaitSet(R2)  PROVE WaitsFor(S2, R2[j], n)
    <2>1. j \in AwaitSet(R) /\ R2[j] = R[j] /\ WaitsFor(S, R[j], n)  BY <1>2 DEF Pends
    <2>2. ASSUME S2[x] # None, S2[x].id = R[j].rec  PROVE S2[x].client = S[x].client
      <3>0. j \in Slots /\ Waits(R2[j]) /\ R2[j].rec = S2[x].id
        BY <2>1, <2>2 DEF AwaitSet
      <3>1. j \in Prompts(R2, S2[x].id)
        BY <3>0 DEF Prompts
      <3>2. Cardinality(Prompts(R2, S2[x].id)) # 0
        BY <1>2, <3>1, Subsets, FS_EmptySet
      <3> QED  BY <2>2, <3>2, <1>4
    <2> QED  BY <2>1, <2>2, <1>3 DEF WaitsFor
  <1> QED  BY <1>2, <1>4, <1>5 DEF Pends

LEMMA PendsNone ==
    ASSUME NEW S, NEW R \in [Slots -> RunT], NEW n \in Nat, AwaitSet(R) = {},
           \A x \in Secrets : S[x] # None => S[x].pending = 0
    PROVE  Pends(S, R, n)
  <1>1. \A i : Prompts(R, i) = {}  BY DEF Prompts, AwaitSet
  <1> QED  BY <1>1, FS_EmptySet DEF Pends

----------------------------------------------------------------------------
(* What an execution becomes.                                              *)

LEMMA StartedIs ==
    ASSUME NEW do \in {"connect", "scan", "work", "logout", "ping"}, NEW c \in Clients, NEW x \in Secrets \cup {None}
    PROVE  LET run == Started(do, c, x)
           IN  /\ run \in RunT /\ run.at = "idle" /\ run.do = do /\ run.by = c /\ run.secret = x /\ run.rec = 0
               /\ run.relays = None
  <1>1. IdleRun \in RunT /\ IdleRun.at = "idle" /\ IdleRun.rec = 0 /\ IdleRun.relays = None
    BY DEF IdleRun, RunT
  <1> DEFINE w == c \in Connected
  <1>2. w \in BOOLEAN  OBVIOUS
  <1>3. Started(do, c, x) = [IdleRun EXCEPT !.do = do, !.by = c, !.secret = x, !.was = w]
    BY DEF Started
  <1> HIDE DEF w
  <1> QED  BY <1>1, <1>2, <1>3 DEF RunT

LEMMA Reply ==
    ASSUME NEW run \in RunT, NEW ok \in BOOLEAN
    PROVE  /\ [run EXCEPT !.at = "reply"] \in RunT /\ ~Waits([run EXCEPT !.at = "reply"])
           /\ [run EXCEPT !.at = "reply", !.ok = ok] \in RunT /\ ~Waits([run EXCEPT !.at = "reply", !.ok = ok])
           /\ Over \in RunT /\ ~Waits(Over) /\ ~Waits(IdleRun) /\ IdleRun \in RunT
  BY DEF RunT, Over, IdleRun, Waits

Asked(run, b, R, i) == [run EXCEPT !.at = "handler", !.slot = b, !.relays = R, !.rec = i]

LEMMA AsksIs ==
    ASSUME NEW run \in RunT, NEW b \in BOOLEAN, NEW R \in Relays, NEW i \in Nat, run.do \in {"connect", "scan"}
    PROVE  LET r == Asked(run, b, R, i)
           IN  /\ r \in RunT /\ Waits(r) /\ r.do = run.do /\ r.by = run.by /\ r.secret = run.secret
               /\ r.slot = b /\ r.relays = R /\ r.rec = i
  BY DEF RunT, Waits, Asked

----------------------------------------------------------------------------
(* The counts of open approvals.                                           *)

LEMMA CountsStay ==
    ASSUME RunCounts, NEW k \in Slots, NEW run \in RunT, ~Waits(runs[k]), ~Waits(run),
           Becomes(runs, k, run, runs'), UNCHANGED <<approvals, admissions>>
    PROVE  RunCounts'
  <1>1. /\ runs' \in [Slots -> RunT] /\ AwaitSet(runs') = AwaitSet(runs)
        /\ \A c : PlacesOf(runs', c) = PlacesOf(runs, c)
    BY Quieter DEF RunCounts
  <1> QED  BY <1>1 DEF RunCounts

LEMMA CountsEnter ==
    ASSUME RunCounts, NEW k \in Slots, NEW run \in RunT, ~Waits(runs[k]), Waits(run),
           Becomes(runs, k, run, runs'), NEW c \in Clients, run.by = c, run.slot = TakesSlot(c), BeginApproval(c)
    PROVE  RunCounts'
  <1>1. /\ runs' \in [Slots -> RunT] /\ IsFiniteSet(AwaitSet(runs'))
        /\ Cardinality(AwaitSet(runs')) = Cardinality(AwaitSet(runs)) + 1
        /\ \A d : Cardinality(PlacesOf(runs', d)) =
                     IF d = run.by /\ run.slot THEN Cardinality(PlacesOf(runs, d)) + 1
                                               ELSE Cardinality(PlacesOf(runs, d))
    BY Enters DEF RunCounts
  <1>2. admissions' \in [Clients -> Nat]
    BY DEF RunCounts, BeginApproval
  <1>3. ASSUME NEW d \in Clients  PROVE admissions'[d] = Cardinality(PlacesOf(runs', d))
    <2>1. admissions[d] = Cardinality(PlacesOf(runs, d))  BY DEF RunCounts
    <2>2. CASE d = c /\ TakesSlot(c)
      <3>1. admissions' = [admissions EXCEPT ![c] = @ + 1]  BY <2>2 DEF BeginApproval
      <3>2. Cardinality(PlacesOf(runs', d)) = Cardinality(PlacesOf(runs, d)) + 1  BY <1>1, <2>2
      <3> QED  BY <2>1, <2>2, <3>1, <3>2 DEF RunCounts
    <2>3. CASE ~(d = c /\ TakesSlot(c))
      <3>1. admissions'[d] = admissions[d]  BY <2>3 DEF BeginApproval, RunCounts
      <3>2. Cardinality(PlacesOf(runs', d)) = Cardinality(PlacesOf(runs, d))  BY <1>1, <2>3
      <3> QED  BY <2>1, <3>1, <3>2
    <2> QED  BY <2>2, <2>3
  <1> QED  BY <1>1, <1>2, <1>3 DEF RunCounts, BeginApproval

LEMMA CountsLeave ==
    ASSUME RunCounts, NEW k \in AwaitSet(runs), NEW run \in RunT, ~Waits(run),
           Becomes(runs, k, run, runs'), runs[k].by \in Clients, EndApproval(k)
    PROVE  RunCounts'
  <1>1. /\ runs' \in [Slots -> RunT] /\ IsFiniteSet(AwaitSet(runs'))
        /\ Cardinality(AwaitSet(runs')) = Cardinality(AwaitSet(runs)) - 1
        /\ \A d : Cardinality(PlacesOf(runs', d)) =
                     IF d = runs[k].by /\ runs[k].slot THEN Cardinality(PlacesOf(runs, d)) - 1
                                                       ELSE Cardinality(PlacesOf(runs, d))
        /\ \A d : Cardinality(PlacesOf(runs', d)) \in Nat
    BY Leaves DEF RunCounts
  <1>3. ASSUME NEW d \in Clients
        PROVE  admissions'[d] = Cardinality(PlacesOf(runs', d)) /\ admissions'[d] \in Nat
    <2>1. admissions[d] = Cardinality(PlacesOf(runs, d))  BY DEF RunCounts
    <2>2. CASE d = runs[k].by /\ runs[k].slot
      <3>1. admissions' = [admissions EXCEPT ![runs[k].by] = @ - 1]  BY <2>2 DEF EndApproval
      <3>2. Cardinality(PlacesOf(runs', d)) = Cardinality(PlacesOf(runs, d)) - 1  BY <1>1, <2>2
      <3>3. admissions'[d] = admissions[d] - 1  BY <2>2, <3>1 DEF RunCounts
      <3> QED  BY <1>1, <2>1, <3>2, <3>3
    <2>3. CASE ~(d = runs[k].by /\ runs[k].slot)
      <3>1. admissions'[d] = admissions[d]  BY <2>3 DEF EndApproval, RunCounts
      <3>2. Cardinality(PlacesOf(runs', d)) = Cardinality(PlacesOf(runs, d))  BY <1>1, <2>3
      <3> QED  BY <1>1, <2>1, <3>1, <3>2
    <2> QED  BY <2>2, <2>3
  <1>4. DOMAIN admissions' = Clients  BY DEF EndApproval, RunCounts
  <1>5. admissions' \in [Clients -> Nat]
    <2>1. admissions' = [d \in Clients |-> admissions'[d]]  BY <1>4 DEF EndApproval, RunCounts
    <2> QED  BY <2>1, <1>3
  <1> QED  BY <1>1, <1>3, <1>5 DEF RunCounts, EndApproval

----------------------------------------------------------------------------
(* What is handed out.                                                     *)

Saves  == host' = [host EXCEPT !.saved = Export(secrets', clients', generation'), !.generation = generation']
Silent == host' = host /\ generation' = generation /\ clients' = clients
          /\ \A x \in Secrets : Like(secrets[x], secrets'[x])
Handed(s, c) == secrets' \in {s, Swept(s)} /\ clients' = c /\ (Saves \/ Silent)

LEMMA EmitHands ==
    ASSUME Shapes, NEW s, NEW c, NEW g, Emit(s, c, g, g)
    PROVE  Handed(s, c) /\ secrets' = Swept(s) /\ generation' = g /\ Saves
  BY DEF Emit, Handed, Saves

LEMMA KeepHands ==
    ASSUME Shapes, NEW s, NEW c, Keep(s, c)
    PROVE  Handed(s, c) /\ secrets' = Swept(s) /\ generation' = generation /\ Saves
  <1>1. Emit(s, c, generation, generation)  BY DEF Keep, Shapes
  <1> QED  BY <1>1, EmitHands

LEMMA EmitIfHands ==
    ASSUME Shapes, NEW changed, NEW s, NEW c, EmitIf(changed, s, c), changed \/ (s = secrets /\ c = clients)
    PROVE  Handed(s, c) /\ generation' = generation
  <1>1. CASE changed
    <2>1. Keep(s, c)  BY <1>1 DEF EmitIf, Keep
    <2> QED  BY <2>1, KeepHands
  <1>2. CASE ~changed
    <2>1. UNCHANGED <<secrets, clients, generation, host>>  BY <1>2 DEF EmitIf
    <2> QED  BY <1>2, <2>1 DEF Handed, Silent, Like
  <1> QED  BY <1>1, <1>2

LEMMA HandedOnward ==
    ASSUME NEW s \in Store, NEW c \in Book, Handed(s, c), NEW n \in Nat, NEW n2,
           StoreInv(secrets, clients, n), Onward(secrets, clients, s, c, n, n2)
    PROVE  /\ secrets' \in Store /\ clients' \in Book
           /\ Onward(secrets, clients, secrets', clients', n, n2)
           /\ StoreInv(secrets', clients', n2) /\ n2 \in Nat
           /\ \A x \in Secrets : secrets'[x] # None => secrets'[x] = s[x]
           /\ ScansWait(s) => ScansWait(secrets')
           /\ \A R : Pends(s, R, n2) => Pends(secrets', R, n2)
  <1>1. Swept(s) \in Store /\ \A x \in Secrets : Swept(s)[x] # None => Swept(s)[x] = s[x]
    BY SweptIs
  <1>2. secrets' \in Store /\ clients' \in Book
        /\ \A x \in Secrets : secrets'[x] # None => secrets'[x] = s[x]
    BY <1>1 DEF Handed
  <1>3. Onward(secrets, clients, secrets', clients', n, n2)
    BY SweptOnward DEF Handed
  <1>4. StoreInv(secrets', clients', n2) /\ n2 \in Nat
    BY <1>2, <1>3, OnwardStore
  <1>5. ScansWait(s) => ScansWait(secrets')
    BY <1>2 DEF ScansWait
  <1>6. ASSUME NEW R, Pends(s, R, n2)  PROVE Pends(secrets', R, n2)
    BY <1>2, <1>4, <1>6, PendsQuiet DEF SameButRelays
  <1> QED  BY <1>2, <1>3, <1>4, <1>5, <1>6

LEMMA HeldFewer ==
    ASSUME NEW S2, NEW S, \A x \in Secrets : S2[x] # None => S[x] # None
    PROVE  Cardinality({x \in Secrets : S2[x] # None}) <= Cardinality({x \in Secrets : S[x] # None})
           /\ Cardinality({x \in Secrets : S2[x] # None}) \in Nat /\ Cardinality({x \in Secrets : S[x] # None}) \in Nat
  <1> DEFINE A == {x \in Secrets : S2[x] # None}
             B == {x \in Secrets : S[x] # None}
  <1>1. A \in SUBSET B /\ B \in SUBSET Secrets  OBVIOUS
  <1>2. IsFiniteSet(B)  BY <1>1, Names, FS_Subset
  <1> QED  BY <1>1, <1>2, FS_Subset, FS_CardinalityType

LEMMA ClientsFewer ==
    ASSUME NEW C2, NEW C, \A c \in Clients : C2[c] # None => C[c] # None
    PROVE  Cardinality({c \in Clients : C2[c] # None}) <= Cardinality({c \in Clients : C[c] # None})
           /\ Cardinality({c \in Clients : C2[c] # None}) \in Nat /\ Cardinality({c \in Clients : C[c] # None}) \in Nat
  <1> DEFINE A == {c \in Clients : C2[c] # None}
             B == {c \in Clients : C[c] # None}
  <1>1. A \in SUBSET B /\ B \in SUBSET Clients  OBVIOUS
  <1>2. IsFiniteSet(B)  BY <1>1, Names, FS_Subset
  <1> QED  BY <1>1, <1>2, FS_Subset, FS_CardinalityType

LEMMA OneMore ==
    ASSUME NEW U, IsFiniteSet(U), NEW A \in SUBSET U, NEW B \in SUBSET U, NEW e, B \subseteq A \cup {e}, NEW m \in Nat,
           Cardinality(A) < m
    PROVE  Cardinality(B) <= m
  <1>1. IsFiniteSet(A) /\ IsFiniteSet(B)  BY FS_Subset
  <1>0. Cardinality(A) \in Nat  BY <1>1, FS_CardinalityType
  <1>2. IsFiniteSet(A \cup {e}) /\ Cardinality(A \cup {e}) <= Cardinality(A) + 1
    <2>1. /\ IsFiniteSet(A \cup {e})
          /\ Cardinality(A \cup {e}) = IF e \in A THEN Cardinality(A) ELSE Cardinality(A) + 1
      BY <1>1, FS_AddElement
    <2> QED  BY <2>1, <1>0
  <1>3. Cardinality(B) <= Cardinality(A \cup {e}) /\ Cardinality(B) \in Nat /\ Cardinality(A \cup {e}) \in Nat
    BY <1>1, <1>2, FS_Subset, FS_CardinalityType
  <1> QED  BY <1>0, <1>2, <1>3

----------------------------------------------------------------------------
(* Every step within a process is onward, keeps the counts, and hands out  *)
(* the state it reaches unless it left it as it was.                       *)

Ordinary ==
    /\ Onward(secrets, clients, secrets', clients', history.born, history'.born)
    /\ Saves \/ Silent

LEMMA Basics ==
    ASSUME Sound
    PROVE  /\ secrets \in Store /\ clients \in Book /\ history.born \in Nat /\ generation \in Nat
           /\ runs \in [Slots -> RunT] /\ history \in HistoryT /\ host \in HostT /\ seen \in [Clients -> SUBSET Nat]
           /\ history.revoked \in SUBSET Nat
           /\ StoreInv(secrets, clients, history.born) /\ Pends(secrets, runs, history.born)
           /\ \A k \in AwaitSet(runs) : k \in Slots /\ WaitsFor(secrets, runs[k], history.born)
  <1>1. history.born \in Nat /\ history.revoked \in SUBSET Nat  BY DEF Sound, Shapes, HistoryT
  <1>2. secrets \in Store /\ clients \in Book  BY <1>1, StoreParts DEF Sound
  <1> QED  BY <1>1, <1>2 DEF Sound, Shapes, Pends, AwaitSet

LEMMA SceneIs ==
    ASSUME Sound
    PROVE  /\ Scene.maxClients \in Nat /\ Scene.maxSecrets \in Nat /\ Scene.source \in Relays
           /\ \A r \in Scene.requests : /\ r.n \in Nat /\ r.by \in Clients
                                        /\ r.do \in {"connect", "work", "logout", "ping"}
                                        /\ r.secret \in Secrets \cup {None}
           /\ \A u \in Scene.scans : u.by \in Clients /\ u.secret \in Secrets /\ u.relays \in Relays
  <1>1. PICK n \in DOMAIN Scenes : Scene = Scenes[n]  BY DEF Sound, Shapes, Scene
  <1>2. /\ Scenes[n].maxClients \in Nat /\ Scenes[n].maxSecrets \in Nat /\ Scenes[n].source \in Relays
        /\ Scenes[n].requests \subseteq RequestT /\ Scenes[n].scans \subseteq ScanT
    BY BunkerAssumption
  <1>3. \A r \in RequestT : /\ r.n \in Nat /\ r.by \in Clients /\ r.do \in {"connect", "work", "logout", "ping"}
                            /\ r.secret \in Secrets \cup {None}
    BY DEF RequestT
  <1>4. \A u \in ScanT : u.by \in Clients /\ u.secret \in Secrets /\ u.relays \in Relays
    BY DEF ScanT
  <1> QED  BY <1>1, <1>2, <1>3, <1>4

LEMMA SavesIs ==
    ASSUME Sound, secrets' \in Store, clients' \in Book, generation' \in Nat, Saves
    PROVE  /\ host' \in HostT /\ host'.generation = generation' /\ host'.kept = host.kept
           /\ host'.saved = Export(secrets', clients', generation') /\ host'.saved \in StateT /\ host'.saved # None
  <1> DEFINE e == Export(secrets', clients', generation')
  <1>1. e \in StateT /\ e # None  BY SavedIs
  <1>2. host' = [host EXCEPT !.saved = e, !.generation = generation']  BY DEF Saves
  <1>3. host \in HostT  BY DEF Sound, Shapes
  <1> HIDE DEF e
  <1>4. host' \in HostT /\ host'.generation = generation' /\ host'.kept = host.kept /\ host'.saved = e
    BY <1>1, <1>2, <1>3 DEF HostT
  <1> QED  BY <1>1, <1>4 DEF e

\* The scene does not change.
SceneKept == "scene" \in DOMAIN spent' /\ spent'.scene = spent.scene

\* What is left to show of a step, once it is known what was reached and handed out.
LEMMA SoundNext ==
    ASSUME Sound, NEW s \in Store, NEW c \in Book, Handed(s, c), generation' \in Nat,
           Onward(secrets, clients, s, c, history.born, history'.born),
           Pends(s, runs', history'.born), ScansWait(s), RunCounts', SceneKept, history' \in HistoryT,
           seen' \in [Clients -> SUBSET Nat],
           Cardinality({d \in Clients : c[d] # None}) <= Scene.maxClients,
           Cardinality({x \in Secrets : secrets'[x] # None}) <= Scene.maxSecrets
    PROVE  Sound' /\ Ordinary
  <1>1. /\ secrets' \in Store /\ clients' \in Book
        /\ Onward(secrets, clients, secrets', clients', history.born, history'.born)
        /\ StoreInv(secrets', clients', history'.born)
        /\ ScansWait(secrets') /\ Pends(secrets', runs', history'.born)
    BY Basics, HandedOnward
  <1>2. host' \in HostT /\ host'.generation = generation'
    <2>1. CASE Saves  BY <2>1, <1>1, SavesIs
    <2>2. CASE Silent  BY <2>2 DEF Silent, Sound, Shapes
    <2> QED  BY <2>1, <2>2 DEF Handed
  <1>3. Shapes'  BY <1>2 DEF Shapes, SceneKept, Sound
  <1>4. Scene' = Scene  BY DEF Scene, SceneKept
  <1>5. Ceilings'
    <2>1. Connected' = {d \in Clients : c[d] # None}  BY DEF Connected, Handed
    <2>2. Held' = {x \in Secrets : secrets'[x] # None}  BY DEF Held
    <2> QED  BY <2>1, <2>2, <1>4 DEF Ceilings
  <1>6. Ordinary  BY <1>1 DEF Ordinary, Handed
  <1> QED  BY <1>1, <1>3, <1>5, <1>6 DEF Sound

\* What is held after a step that mints nothing.
LEMMA NoMore ==
    ASSUME Sound, NEW s, secrets' \in {s, Swept(s)}, s \in Store, \A x \in Secrets : s[x] # None => secrets[x] # None
    PROVE  Cardinality({x \in Secrets : secrets'[x] # None}) <= Scene.maxSecrets
  <1>1. \A x \in Secrets : secrets'[x] # None => secrets[x] # None
    BY SweptIs
  <1>2. Cardinality({x \in Secrets : secrets'[x] # None}) <= Cardinality(Held)
        /\ Cardinality({x \in Secrets : secrets'[x] # None}) \in Nat /\ Cardinality(Held) \in Nat
    BY <1>1, HeldFewer DEF Held
  <1>3. Cardinality(Held) <= Scene.maxSecrets /\ Scene.maxSecrets \in Nat  BY SceneIs DEF Sound, Ceilings
  <1> QED  BY <1>2, <1>3

LEMMA NoMoreClients ==
    ASSUME Sound, NEW c, \A d \in Clients : c[d] # None => clients[d] # None
    PROVE  Cardinality({d \in Clients : c[d] # None}) <= Scene.maxClients
  <1>2. Cardinality({d \in Clients : c[d] # None}) <= Cardinality(Connected)
        /\ Cardinality({d \in Clients : c[d] # None}) \in Nat /\ Cardinality(Connected) \in Nat
    BY ClientsFewer DEF Connected
  <1>3. Cardinality(Connected) <= Scene.maxClients /\ Scene.maxClients \in Nat  BY SceneIs DEF Sound, Ceilings
  <1> QED  BY <1>2, <1>3

LEMMA LiveIs ==
    ASSUME Sound, NEW x
    PROVE  LET s == Live(x)
           IN  /\ s \in Store
               /\ \A y \in Secrets : s[y] # None => s[y] = secrets[y]
               /\ StoreInv(s, clients, history.born) /\ Pends(s, runs, history.born) /\ ScansWait(s)
               /\ Onward(secrets, clients, s, clients, history.born, history.born)
               /\ \A S2, C2, n2 : Onward(s, clients, S2, C2, history.born, n2)
                                  => Onward(secrets, clients, S2, C2, history.born, n2)
  <1>1. Onward(secrets, clients, secrets, clients, history.born, history.born)
    BY Basics, QuietOnward
  <1>2. CASE Live(x) = secrets
    BY <1>1, <1>2, Basics DEF Sound
  <1>3. CASE Live(x) = Swept(secrets)
    <2>1. /\ Swept(secrets) \in Store /\ StoreInv(Swept(secrets), clients, history.born)
          /\ Pends(Swept(secrets), runs, history.born)
          /\ \A y \in Secrets : Swept(secrets)[y] # None => Swept(secrets)[y] = secrets[y]
      BY Basics, SweptIs, SweptStore, SweptPends
    <2>2. Onward(secrets, clients, Swept(secrets), clients, history.born, history.born)
      BY <1>1, Basics, SweptOnward
    <2>3. ScansWait(Swept(secrets))  BY <2>1 DEF Sound, ScansWait
    <2>4. \A S2, C2, n2 : Onward(Swept(secrets), clients, S2, C2, history.born, n2)
                          => Onward(secrets, clients, S2, C2, history.born, n2)
      BY Basics, FromSwept
    <2> QED  BY <1>3, <2>1, <2>2, <2>3, <2>4
  <1> QED  BY <1>2, <1>3 DEF Live

LEMMA FreeIs ==
    ASSUME Sound, NEW k \in Slots, Free(k)
    PROVE  ~Waits(runs[k])
  BY DEF Free, Waits

LEMMA ConnectStep ==
    ASSUME Sound, NEW k \in Slots, ~Waits(runs[k]), NEW c \in Clients, NEW x \in Secrets \cup {None}, Connect(k, c, x),
           UNCHANGED history, SceneKept, seen' \in [Clients -> SUBSET Nat]
    PROVE  Sound' /\ Ordinary /\ generation' = generation
  <1> DEFINE s    == Live(x)
             live == x # None /\ s[x] # None
             run  == Started("connect", c, x)
             ref  == (Scene.required /\ ~live) \/ OverClientCeiling(c) \/ (live /\ ~Bindable(s, x, c))
             n    == history.born
  <1>1. /\ s \in Store /\ StoreInv(s, clients, n) /\ Pends(s, runs, n) /\ ScansWait(s)
        /\ \A y \in Secrets : s[y] # None => s[y] = secrets[y]
        /\ Onward(secrets, clients, s, clients, n, n)
        /\ \A S2, C2, n2 : Onward(s, clients, S2, C2, n, n2) => Onward(secrets, clients, S2, C2, n, n2)
    BY LiveIs
  <1>2. run \in RunT /\ run.do = "connect" /\ run.by = c /\ run.secret = x
    BY StartedIs
  <1>3. n \in Nat /\ clients \in Book /\ history' \in HistoryT /\ history'.born = n /\ generation \in Nat
    BY Basics
  <1>4. RunCounts  BY DEF Sound
  <1>5. Cardinality({d \in Clients : clients[d] # None}) <= Scene.maxClients
    BY NoMoreClients
  <1>6. CASE ref
    <2>1. Refused(k, run) /\ EmitIf(s # secrets, s, clients)
      BY <1>6 DEF Connect
    <2>2. Handed(s, clients) /\ generation' = generation
      BY <2>1, EmitIfHands DEF Sound
    <2> DEFINE r == [run EXCEPT !.at = "reply"]
    <2>3. r \in RunT /\ ~Waits(r) /\ Becomes(runs, k, r, runs') /\ UNCHANGED <<approvals, admissions>>
      BY <1>2, <2>1, Reply DEF Refused, To, Becomes
    <2> HIDE DEF r, s, run, ref
    <2>4. Pends(s, runs', n)  BY <1>1, <1>3, <2>3, PendsStays
    <2>5. RunCounts'  BY <1>4, <2>3, CountsStay
    <2>6. Cardinality({y \in Secrets : secrets'[y] # None}) <= Scene.maxSecrets
      BY <1>1, <2>2, NoMore DEF Handed
    <2> QED  BY <1>1, <1>3, <1>5, <2>2, <2>4, <2>5, <2>6, SoundNext
  <1>7. CASE ~ref
    <2> DEFINE t == IF live THEN Bound(s, x, c) ELSE s
               R == IF live THEN s[x].relays ELSE Scene.source
               i == IF live THEN s[x].id ELSE 0
               r == Asked(run, TakesSlot(run.by), R, i)
    <2>1. BeginApproval(c) /\ Asks(k, run, s, x, R) /\ EmitIf(live \/ s # secrets, t, clients)
      BY <1>7 DEF Connect
    <2>2. Handed(t, clients) /\ generation' = generation
      BY <2>1, EmitIfHands DEF Sound
    <2>3. R \in Relays /\ i \in Nat
      BY <1>1, RecordType, SceneIs
    <2>4. Becomes(runs, k, r, runs')
      BY <2>1 DEF Asks, To, Becomes, Asked
    <2>5. r \in RunT /\ Waits(r) /\ r.by = c /\ r.secret = x /\ r.slot = TakesSlot(c) /\ r.relays = R /\ r.rec = i
      <3>1. TakesSlot(run.by) \in BOOLEAN  BY DEF TakesSlot
      <3> HIDE DEF R, i, run
      <3> QED  BY <1>2, <2>3, <3>1, AsksIs
    <2>6. live => x \in Secrets /\ s[x] # None /\ s[x].client \in {None, c} /\ t = Bound(s, x, c)
                  /\ i = s[x].id /\ R = s[x].relays
      BY <1>7 DEF Bindable
    <2>7. ~live => t = s /\ i = 0
      OBVIOUS
    <2> HIDE DEF s, live, run, ref, t, R, i, r
    <2>8. RunCounts'  BY <1>4, <2>1, <2>4, <2>5, CountsEnter
    <2>9. /\ t \in Store /\ Pends(t, runs', n) /\ ScansWait(t)
          /\ Onward(secrets, clients, t, clients, n, n)
          /\ \A y \in Secrets : t[y] # None => s[y] # None
      <3>1. CASE live
        <4>1. /\ t \in Store /\ \A y \in Secrets : y # x => t[y] = s[y]
              /\ t[x].pending = s[x].pending + 1
          BY <1>1, <2>6, <3>1, BoundIs
        <4>2. Onward(s, clients, t, clients, n, n)  BY <1>1, <1>3, <2>6, <3>1, BindOnward
        <4>3. Pends(t, runs', n)  BY <1>1, <1>3, <2>4, <2>5, <2>6, <2>3, <3>1, PendsBinds
        <4>4. ScansWait(t)
          <5>1. s[x].pending \in Nat  BY <1>1, <2>6, <3>1, RecordType
          <5> QED  BY <1>1, <4>1, <5>1 DEF ScansWait
        <4> QED  BY <1>1, <2>6, <3>1, <4>1, <4>2, <4>3, <4>4
      <3>2. CASE ~live
        <4>1. Pends(t, runs', n)  BY <1>1, <1>3, <2>3, <2>4, <2>5, <2>7, <3>2, PendsAsks
        <4> QED  BY <1>1, <2>7, <3>2, <4>1
      <3> QED  BY <3>1, <3>2
    <2>10. Cardinality({y \in Secrets : secrets'[y] # None}) <= Scene.maxSecrets
      BY <1>1, <2>2, <2>9, NoMore DEF Handed
    <2> QED  BY <1>3, <1>5, <2>2, <2>8, <2>9, <2>10, SoundNext
  <1> QED  BY <1>6, <1>7

LEMMA DeliverStep ==
    ASSUME Sound, NEW k \in Slots, NEW r \in Scene.requests, Deliver(k, r)
    PROVE  Sound' /\ Ordinary /\ generation' = generation /\ UNCHANGED history
  <1>1. r.n \in Nat /\ r.by \in Clients /\ r.do \in {"connect", "work", "logout", "ping"} /\ r.secret \in Secrets \cup {None}
    BY SceneIs
  <1>2. ~Waits(runs[k])  BY FreeIs DEF Deliver
  <1>3. SceneKept
    <2>1. spent' = [spent EXCEPT !.sent[r.n] = @ + 1]  BY DEF Deliver
    <2> QED  BY <2>1 DEF SceneKept, Sound, Shapes
  <1>4. seen' \in [Clients -> SUBSET Nat]
    <2>1. seen' = [seen EXCEPT ![r.by] = @ \cup {r.n}]  BY DEF Deliver
    <2> QED  BY <1>1, <2>1, Basics
  <1>5. CASE r.do = "connect" /\ Connect(k, r.by, r.secret)
    BY <1>1, <1>2, <1>3, <1>4, <1>5, ConnectStep DEF Deliver
  <1>6. CASE ~(r.do = "connect" /\ Connect(k, r.by, r.secret))
    <2> DEFINE st  == Started(r.do, r.by, None)
               at  == IF r.by \in Connected /\ r.do # "ping" THEN "handler" ELSE "reply"
               run == [st EXCEPT !.at = at, !.ok = r.do = "ping"]
    <2>1. r.do # "connect" /\ To(k, run) /\ UNCHANGED <<secrets, clients, generation, host, approvals, admissions>>
      BY <1>6 DEF Deliver
    <2>2. st \in RunT /\ st.do = r.do  BY <1>1, StartedIs
    <2>3. at \in {"handler", "reply"} /\ (r.do = "ping") \in BOOLEAN  OBVIOUS
    <2>4. run \in RunT /\ ~Waits(run)
      <3> HIDE DEF st, at
      <3> QED  BY <1>1, <2>1, <2>2, <2>3 DEF RunT, Waits
    <2>5. Becomes(runs, k, run, runs')  BY <2>1 DEF To, Becomes
    <2> HIDE DEF run
    <2>6. Pends(secrets, runs', history.born)  BY <1>2, <2>4, <2>5, Basics, PendsStays
    <2>7. RunCounts'  BY <1>2, <2>1, <2>4, <2>5, CountsStay DEF Sound
    <2>8. UNCHANGED history  BY DEF Deliver
    <2>9. Handed(secrets, clients)  BY <2>1 DEF Handed, Silent, Like
    <2>10. Onward(secrets, clients, secrets, clients, history.born, history.born)
      BY Basics, QuietOnward
    <2>11. Cardinality({y \in Secrets : secrets'[y] # None}) <= Scene.maxSecrets
      BY <2>1, Basics, NoMore
    <2>12. Cardinality({d \in Clients : clients[d] # None}) <= Scene.maxClients  BY NoMoreClients
    <2>13. ScansWait(secrets)  BY DEF Sound
    <2> QED  BY <1>3, <1>4, <2>1, <2>6, <2>7, <2>8, <2>9, <2>10, <2>11, <2>12, <2>13, Basics, SoundNext
  <1> QED  BY <1>5, <1>6

LEMMA ScanStep ==
    ASSUME Sound, NEW k \in Slots, NEW u \in Scene.scans, Scan(k, u)
    PROVE  Sound' /\ Ordinary /\ generation' = generation
           /\ UNCHANGED <<history.revoked, history.admitted, history.rolled>>
  <1> DEFINE x == u.secret
             c == u.by
             s == Live(x)
             f == Fresh(u.relays, "nostrconnect", "never")
             t == IF s[x] = None THEN [s EXCEPT ![x] = f] ELSE s
             b == Bound(t, x, c)
             n == history.born
             m == history'.born
             st == Started("scan", c, x)
             i == IF x # None /\ b[x] # None THEN b[x].id ELSE 0
             r == Asked(st, TakesSlot(st.by), u.relays, i)
  <1>1. c \in Clients /\ x \in Secrets /\ u.relays \in Relays
    BY SceneIs
  <1>2. /\ s \in Store /\ StoreInv(s, clients, n) /\ Pends(s, runs, n) /\ ScansWait(s)
        /\ \A y \in Secrets : s[y] # None => s[y] = secrets[y]
        /\ \A S2, C2, n2 : Onward(s, clients, S2, C2, n, n2) => Onward(secrets, clients, S2, C2, n, n2)
    BY LiveIs
  <1>3. n \in Nat /\ clients \in Book /\ generation \in Nat /\ history \in HistoryT
    BY Basics
  <1>4. /\ Free(k) /\ Bindable(s, x, c) /\ Keep(b, clients) /\ BeginApproval(c)
        /\ s[x] # None \/ Cardinality({y \in Secrets : s[y] # None}) < Scene.maxSecrets
        /\ Asks(k, st, b, x, u.relays)
        /\ history' = [history EXCEPT !.born = @ + (IF s[x] = None THEN 1 ELSE 0)]
        /\ spent' = [spent EXCEPT !.scans = @ + 1] /\ UNCHANGED seen
    BY DEF Scan
  <1>5. ~Waits(runs[k])  BY <1>4, FreeIs
  <1>6. /\ history' \in HistoryT /\ m = IF s[x] = None THEN n + 1 ELSE n
        /\ UNCHANGED <<history.revoked, history.admitted, history.rolled>>
    <2> HIDE DEF s
    <2>1. (IF s[x] = None THEN 1 ELSE 0) \in Nat  OBVIOUS
    <2> QED  BY <1>3, <1>4, <2>1 DEF HistoryT
  <1>7. SceneKept  BY <1>4 DEF SceneKept, Sound, Shapes
  <1>8. Handed(b, clients) /\ generation' = generation /\ secrets' = Swept(b)
    BY <1>4, KeepHands DEF Sound
  <1>9. /\ t \in Store /\ t[x] # None /\ \A y \in Secrets : y # x => t[y] = s[y]
        /\ s[x] = None => t[x].id = n + 1 /\ ~t[x].confirmed /\ t[x].client = None /\ t[x].pending = 0
        /\ s[x] # None => t = s /\ s[x].client \in {None, c}
    <2>1. CASE s[x] = None
      <3>1. t = [s EXCEPT ![x] = f]  BY <2>1
      <3> HIDE DEF s, t, f
      <3>2. /\ f \in SecretT /\ f # None /\ f.id = n + 1 /\ ~f.confirmed /\ f.client = None /\ f.pending = 0
        BY <1>1, <1>3, FreshIs DEF f
      <3> QED  BY <1>1, <1>2, <2>1, <3>1, <3>2 DEF Store
    <2>2. CASE s[x] # None
      BY <1>2, <1>4, <2>2 DEF Bindable
    <2> QED  BY <2>1, <2>2
  <1> HIDE DEF s, t
  <1>10. /\ b \in Store /\ \A y \in Secrets : y # x => b[y] = t[y]
         /\ b[x] # None /\ b[x].id = t[x].id /\ b[x].confirmed = t[x].confirmed /\ b[x].pending = t[x].pending + 1
    BY <1>1, <1>9, BoundIs
  <1>11. b[x].id \in Nat /\ i = b[x].id
    <2>1. x # None  BY <1>1, Names
    <2> HIDE DEF b
    <2> QED  BY <1>1, <1>10, <2>1, RecordType
  <1>12. Becomes(runs, k, r, runs')
    BY <1>4 DEF Asks, To, Becomes, Asked
  <1>13. r \in RunT /\ Waits(r) /\ r.by = c /\ r.secret = x /\ r.slot = TakesSlot(c) /\ r.relays = u.relays /\ r.rec = b[x].id
    <2>1. st \in RunT /\ st.do = "scan" /\ st.by = c /\ st.secret = x  BY <1>1, StartedIs
    <2>2. TakesSlot(st.by) \in BOOLEAN  BY DEF TakesSlot
    <2> HIDE DEF st, i
    <2> QED  BY <1>1, <1>11, <2>1, <2>2, AsksIs
  <1>14. RunCounts'  BY <1>1, <1>4, <1>5, <1>12, <1>13, CountsEnter DEF Sound
  <1> HIDE DEF r
  <1>15. StoreInv(t, clients, m) /\ Pends(t, runs, m) /\ m \in Nat /\ t[x].client \in {None, c}
    <2>1. CASE s[x] = None
      <3>1. Onward(s, clients, t, clients, n, n + 1)
        BY <1>1, <1>2, <1>3, <1>9, <2>1, FreshOnward
      <3>2. StoreInv(t, clients, n + 1)  BY <1>2, <1>3, <1>9, <3>1, OnwardStore
      <3>3. Pends(t, runs, n + 1)  BY <1>1, <1>2, <1>3, <1>9, <2>1, PendsFresh
      <3> QED  BY <1>3, <1>6, <1>9, <2>1, <3>2, <3>3
    <2>2. CASE s[x] # None
      BY <1>2, <1>3, <1>6, <1>9, <2>2
    <2> QED  BY <2>1, <2>2
  <1>16. Pends(b, runs', m)
    BY <1>1, <1>5, <1>9, <1>10, <1>12, <1>13, <1>15, PendsBinds
  <1>17. Onward(s, clients, b, clients, n, m)
    <2>1. CASE s[x] = None
      <3> HIDE DEF b
      <3>1. Onward(s, clients, b, clients, n, n + 1)
        BY <1>1, <1>2, <1>3, <1>9, <1>10, <2>1, FreshOnward
      <3> QED  BY <1>6, <2>1, <3>1
    <2>2. CASE s[x] # None
      BY <1>1, <1>2, <1>3, <1>6, <1>9, <2>2, BindOnward
    <2> QED  BY <2>1, <2>2
  <1>18. ScansWait(b)
    <2>1. t[x].pending \in Nat  BY <1>1, <1>9, RecordType
    <2> HIDE DEF b
    <2> QED  BY <1>2, <1>9, <1>10, <2>1 DEF ScansWait
  <1>19. Cardinality({d \in Clients : clients[d] # None}) <= Scene.maxClients  BY NoMoreClients
  <1>20. Cardinality({y \in Secrets : secrets'[y] # None}) <= Scene.maxSecrets
    <2> HIDE DEF b
    <2>1. CASE s[x] = None
      <3> DEFINE A == {y \in Secrets : s[y] # None}
                 B == {y \in Secrets : secrets'[y] # None}
      <3>1. \A y \in Secrets : secrets'[y] # None => secrets'[y] = b[y]
        BY <1>8, <1>10, SweptIs
      <3>2. B \subseteq A \cup {x} /\ A \in SUBSET Secrets /\ B \in SUBSET Secrets
        BY <1>9, <1>10, <3>1
      <3>3. Cardinality(A) < Scene.maxSecrets /\ Scene.maxSecrets \in Nat
        BY <1>4, <2>1, SceneIs
      <3> HIDE DEF A, B
      <3>4. Cardinality(B) <= Scene.maxSecrets
        BY <3>2, <3>3, Names, OneMore
      <3> QED  BY <3>4 DEF B
    <2>2. CASE s[x] # None
      <3>1. \A y \in Secrets : b[y] # None => secrets[y] # None
        BY <1>2, <1>9, <1>10, <2>2
      <3> QED  BY <1>8, <1>10, <3>1, NoMore
    <2> QED  BY <2>1, <2>2
  <1>21. Onward(secrets, clients, b, clients, n, m)  BY <1>2, <1>17
  <1>22. seen' \in [Clients -> SUBSET Nat]  BY <1>4, Basics
  <1> HIDE DEF b
  <1>23. Sound' /\ Ordinary
    BY <1>3, <1>6, <1>7, <1>8, <1>10, <1>14, <1>16, <1>18, <1>19, <1>20, <1>21, <1>22, SoundNext
  <1> QED  BY <1>6, <1>8, <1>23

LEMMA AwaitingIs ==
    ASSUME Sound, NEW k \in Slots, Awaiting(k)
    PROVE  /\ k \in AwaitSet(runs) /\ runs[k].by \in Clients /\ runs[k].relays \in Relays /\ runs[k].rec \in Nat
           /\ runs[k].secret \in Secrets \cup {None}
           /\ HoldsRecord(k) => LET x == runs[k].secret
                                IN  /\ x \in Secrets /\ secrets[x] # None /\ secrets[x].id = runs[k].rec
                                    /\ secrets[x].client = runs[k].by /\ secrets[x].pending > 0
           /\ ~HoldsRecord(k) => \A x \in Secrets : secrets[x] # None => secrets[x].id # runs[k].rec
  <1>1. k \in AwaitSet(runs)  BY DEF Awaiting, AwaitSet, Waits
  <1>2. WaitsFor(secrets, runs[k], history.born)  BY <1>1, Basics
  <1>3. \A x \in Secrets : secrets[x] # None => secrets[x].id > 0 /\ secrets[x].id \in Nat
    BY Basics, StoreParts
  <1>4. ASSUME HoldsRecord(k)
        PROVE  LET x == runs[k].secret
               IN  /\ x \in Secrets /\ secrets[x] # None /\ secrets[x].id = runs[k].rec
                   /\ secrets[x].client = runs[k].by /\ secrets[x].pending > 0
    <2> DEFINE x == runs[k].secret
    <2>1. x \in Secrets /\ secrets[x] # None /\ secrets[x].id = runs[k].rec
      BY <1>2, <1>4 DEF WaitsFor, HoldsRecord
    <2>2. secrets[x].client = runs[k].by  BY <1>2, <2>1 DEF WaitsFor
    <2>3. secrets[x].pending = Cardinality(Prompts(runs, secrets[x].id)) /\ IsFiniteSet(AwaitSet(runs))
      BY <2>1 DEF Sound, Pends
    <2>4. k \in Prompts(runs, secrets[x].id)
      BY <1>1, <2>1 DEF AwaitSet, Prompts
    <2>5. Cardinality(Prompts(runs, secrets[x].id)) # 0
      BY <2>3, <2>4, Subsets, FS_EmptySet
    <2>6. secrets[x].pending \in Nat  BY <2>1, Basics, RecordType
    <2> QED  BY <2>1, <2>2, <2>3, <2>5, <2>6
  <1>5. ~HoldsRecord(k) => \A x \in Secrets : secrets[x] # None => secrets[x].id # runs[k].rec
    BY <1>2, <1>3 DEF WaitsFor, HoldsRecord
  <1>6. runs[k].rec \in Nat /\ runs[k].secret \in Secrets \cup {None}  BY Basics, RunTypes
  <1> QED  BY <1>1, <1>2, <1>4, <1>5, <1>6 DEF WaitsFor

LEMMA EndStep ==
    ASSUME Sound, NEW k \in Slots, Awaiting(k), EndApproval(k), NEW run \in RunT, ~Waits(run), Becomes(runs, k, run, runs'),
           EmitIf(HoldsRecord(k), IF HoldsRecord(k) THEN Unbound(secrets, runs[k].secret) ELSE secrets, clients),
           UNCHANGED <<seen, history, spent>>
    PROVE  Sound' /\ Ordinary /\ generation' = generation
  <1> DEFINE n == history.born
             x == runs[k].secret
             s == IF HoldsRecord(k) THEN Unbound(secrets, x) ELSE secrets
  <1>1. n \in Nat /\ generation \in Nat /\ clients \in Book /\ history' \in HistoryT /\ seen' \in [Clients -> SUBSET Nat]
        /\ history'.born = n /\ secrets \in Store /\ StoreInv(secrets, clients, n) /\ Pends(secrets, runs, n)
    BY Basics
  <1>2. k \in AwaitSet(runs) /\ runs[k].by \in Clients  BY AwaitingIs
  <1>3. SceneKept  BY DEF SceneKept, Sound, Shapes
  <1>4. RunCounts'  BY <1>2, CountsLeave DEF Sound
  <1>5. Handed(s, clients) /\ generation' = generation
    BY EmitIfHands DEF Sound
  <1>6. Cardinality({d \in Clients : clients[d] # None}) <= Scene.maxClients  BY NoMoreClients
  <1>7. /\ s \in Store /\ Onward(secrets, clients, s, clients, n, n) /\ Pends(s, runs', n) /\ ScansWait(s)
        /\ \A y \in Secrets : s[y] # None => secrets[y] # None
    <2>1. CASE HoldsRecord(k)
      <3>1. x \in Secrets /\ secrets[x] # None /\ secrets[x].id = runs[k].rec /\ secrets[x].pending > 0
            /\ secrets[x].pending \in Nat
        BY <1>1, <2>1, AwaitingIs, RecordType
      <3>2. secrets[x].confirmed => secrets[x].client # None  BY <1>1, <3>1, StoreParts
      <3>3. s = Unbound(secrets, x)  BY <2>1
      <3> HIDE DEF s, x
      <3>4. /\ s \in Store /\ \A y \in Secrets : y # x => s[y] = secrets[y]
            /\ s[x] # None => /\ s[x].id = secrets[x].id /\ s[x].pending = secrets[x].pending - 1
                              /\ s[x].pending > 0 => s[x].client = secrets[x].client
                              /\ s[x].pending > 0 \/ s[x].confirmed \/ s[x].origin = "bunker"
        BY <1>1, <3>1, <3>2, <3>3, UnboundIs
      <3>5. Onward(secrets, clients, s, clients, n, n)
        BY <1>1, <3>1, <3>3, UnbindOnward
      <3>6. s[x] # None /\ s[x].pending # 0 => s[x].client = secrets[x].client
        BY <3>1, <3>4
      <3>7. Pends(s, runs', n)
        BY <1>1, <1>2, <3>1, <3>4, <3>6, PendsFrees
      <3>8. ScansWait(s)
        BY <3>4 DEF ScansWait, Sound
      <3> QED  BY <3>1, <3>4, <3>5, <3>7, <3>8
    <2>2. CASE ~HoldsRecord(k)
      <3>1. \A y \in Secrets : secrets[y] # None => secrets[y].id # runs[k].rec
        BY <2>2, AwaitingIs
      <3>2. Pends(secrets, runs', n)  BY <1>1, <1>2, <3>1, PendsEnds
      <3>3. Onward(secrets, clients, secrets, clients, n, n)  BY <1>1, QuietOnward
      <3> QED  BY <1>1, <2>2, <3>2, <3>3 DEF Sound
    <2> QED  BY <2>1, <2>2
  <1> HIDE DEF s
  <1>8. Cardinality({y \in Secrets : secrets'[y] # None}) <= Scene.maxSecrets
    BY <1>5, <1>7, NoMore DEF Handed
  <1> QED  BY <1>1, <1>3, <1>4, <1>5, <1>6, <1>7, <1>8, SoundNext

LEMMA EndedRun ==
    ASSUME Sound, NEW k \in Slots,
           IF runs[k].do = "scan" THEN To(k, Over) ELSE Replies(k, FALSE)
    PROVE  \E run \in RunT : ~Waits(run) /\ Becomes(runs, k, run, runs')
  <1>1. runs[k] \in RunT  BY Basics
  <1> DEFINE r == [runs[k] EXCEPT !.at = "reply", !.ok = FALSE]
  <1>2. r \in RunT /\ ~Waits(r) /\ Over \in RunT /\ ~Waits(Over)
    BY <1>1, Reply
  <1>3. CASE runs[k].do = "scan"
    BY <1>2, <1>3 DEF To, Becomes
  <1>4. CASE runs[k].do # "scan"
    <2>1. Becomes(runs, k, r, runs')  BY <1>4 DEF To, Becomes, Replies
    <2> HIDE DEF r
    <2> QED  BY <1>2, <2>1
  <1> QED  BY <1>3, <1>4

LEMMA RejectStep ==
    ASSUME Sound, NEW k \in Slots, Reject(k)
    PROVE  Sound' /\ Ordinary /\ generation' = generation /\ UNCHANGED history
  <1>1. PICK run \in RunT : ~Waits(run) /\ Becomes(runs, k, run, runs')
    BY EndedRun DEF Reject
  <1> QED  BY <1>1, EndStep DEF Reject

LEMMA DiscardStep ==
    ASSUME Sound, NEW k \in Slots, Discard(k)
    PROVE  Sound' /\ Ordinary /\ generation' = generation /\ UNCHANGED history
  <1>1. PICK run \in RunT : ~Waits(run) /\ Becomes(runs, k, run, runs')
    BY EndedRun DEF Discard
  <1>2. EmitIf(HoldsRecord(k), IF HoldsRecord(k) THEN Unbound(secrets, runs[k].secret) ELSE secrets, clients)
    BY DEF Discard, EmitIf
  <1> QED  BY <1>1, <1>2, EndStep DEF Discard

LEMMA ApproveStep ==
    ASSUME Sound, NEW k \in Slots, Approve(k)
    PROVE  /\ Sound' /\ Ordinary /\ generation' = generation
           /\ UNCHANGED <<history.revoked, history.rolled>>
  <1> DEFINE n == history.born
             c == runs[k].by
             x == runs[k].secret
             R == IF runs[k].do = "scan" THEN runs[k].relays ELSE secrets[x].relays
             s == IF HoldsRecord(k) THEN Confirmed(secrets, x, R) ELSE secrets
             e == [secret |-> x, id |-> runs[k].rec, relays |-> runs[k].relays]
             C == [clients EXCEPT ![c] = e]
             run == [runs[k] EXCEPT !.at = "reply", !.ok = TRUE]
  <1>1. n \in Nat /\ generation \in Nat /\ clients \in Book /\ history \in HistoryT /\ seen \in [Clients -> SUBSET Nat]
        /\ secrets \in Store /\ StoreInv(secrets, clients, n) /\ Pends(secrets, runs, n)
    BY Basics
  <1>2. /\ Awaiting(k) /\ (runs[k].rec = 0 \/ HoldsRecord(k)) /\ RoomFor(c) /\ EndApproval(k)
        /\ Keep(s, C) /\ Replies(k, TRUE) /\ UNCHANGED <<seen, spent>>
        /\ history' = [history EXCEPT !.admitted = @ \cup {<<runs[k].rec, c>>}]
    BY DEF Approve
  <1>3. k \in AwaitSet(runs) /\ c \in Clients /\ runs[k].relays \in Relays /\ runs[k].rec \in Nat
        /\ x \in Secrets \cup {None}
    BY <1>2, AwaitingIs
  <1>4. /\ history' \in HistoryT /\ history'.born = n /\ UNCHANGED <<history.revoked, history.rolled>>
    <2>1. <<runs[k].rec, c>> \in Nat \X Clients  BY <1>3
    <2> QED  BY <1>1, <1>2, <2>1 DEF HistoryT
  <1>5. SceneKept  BY <1>2 DEF SceneKept, Sound, Shapes
  <1>6. run \in RunT /\ ~Waits(run) /\ Becomes(runs, k, run, runs')
    <2>1. runs[k] \in RunT  BY Basics
    <2> QED  BY <1>2, <2>1, Reply DEF Replies, To, Becomes
  <1>7. RunCounts'  BY <1>2, <1>3, <1>6, CountsLeave DEF Sound
  <1>8. Handed(s, C) /\ generation' = generation /\ secrets' = Swept(s)
    BY <1>2, KeepHands DEF Sound
  <1>9. /\ s \in Store /\ C \in Book /\ Onward(secrets, clients, s, C, n, n) /\ Pends(s, runs', n) /\ ScansWait(s)
        /\ \A y \in Secrets : s[y] # None => secrets[y] # None
    <2> HIDE DEF run
    <2>1. CASE HoldsRecord(k)
      <3>1. x \in Secrets /\ secrets[x] # None /\ secrets[x].id = runs[k].rec /\ secrets[x].pending > 0
            /\ secrets[x].client = c /\ secrets[x].pending \in Nat /\ secrets[x].relays \in Relays
        BY <1>1, <1>2, <2>1, AwaitingIs, RecordType
      <3>2. R \in Relays  BY <1>3, <3>1
      <3>3. s = Confirmed(secrets, x, R)  BY <2>1
      <3>4. C = [clients EXCEPT ![c] = [secret |-> x, id |-> secrets[x].id, relays |-> runs[k].relays]]
        BY <3>1
      <3> HIDE DEF s, R, C
      <3>5. C \in Book /\ Onward(secrets, clients, s, C, n, n)
        BY <1>1, <1>3, <3>1, <3>2, <3>3, <3>4, ConfirmOnward
      <3> HIDE DEF x, c
      <3>6. /\ s \in Store /\ \A y \in Secrets : y # x => s[y] = secrets[y]
            /\ s[x] # None /\ s[x].id = secrets[x].id /\ s[x].pending = secrets[x].pending - 1
            /\ s[x].client = secrets[x].client /\ s[x].confirmed
        BY <1>1, <3>1, <3>2, <3>3, ConfirmedIs
      <3>7. Pends(s, runs', n)
        BY <1>1, <1>3, <1>6, <3>1, <3>6, PendsFrees
      <3>8. ScansWait(s)  BY <3>6 DEF ScansWait, Sound
      <3> QED  BY <3>1, <3>5, <3>6, <3>7, <3>8
    <2>2. CASE ~HoldsRecord(k)
      <3>1. \A y \in Secrets : secrets[y] # None => secrets[y].id # runs[k].rec
        BY <1>2, <2>2, AwaitingIs
      <3>2. Pends(secrets, runs', n)  BY <1>1, <1>3, <1>6, <3>1, PendsEnds
      <3>3. C = [clients EXCEPT ![c] = [secret |-> x, id |-> 0, relays |-> runs[k].relays]]
        BY <1>2, <2>2
      <3> HIDE DEF C, x, c
      <3>4. C \in Book /\ Onward(secrets, clients, secrets, C, n, n)
        BY <1>1, <1>3, <3>3, AdmitOnward
      <3> QED  BY <1>1, <2>2, <3>2, <3>4 DEF Sound
    <2> QED  BY <2>1, <2>2
  <1> HIDE DEF s
  <1>10. Cardinality({y \in Secrets : secrets'[y] # None}) <= Scene.maxSecrets
    BY <1>8, <1>9, NoMore DEF Handed
  <1>11. Cardinality({d \in Clients : C[d] # None}) <= Scene.maxClients
    <2>0. \A d \in Clients : d # c => C[d] = clients[d]
      BY <1>1 DEF Book
    <2> HIDE DEF C, c
    <2>1. CASE c \in Connected
      <3>1. \A d \in Clients : C[d] # None => clients[d] # None  BY <2>0, <2>1 DEF Connected
      <3> QED  BY <3>1, NoMoreClients
    <2>2. CASE c \notin Connected
      <3> DEFINE A == {d \in Clients : clients[d] # None}
                 B == {d \in Clients : C[d] # None}
      <3>1. Cardinality(A) < Scene.maxClients /\ Scene.maxClients \in Nat
        BY <1>2, <2>2, SceneIs DEF RoomFor, Connected
      <3>2. B \subseteq A \cup {c} /\ A \in SUBSET Clients /\ B \in SUBSET Clients
        BY <2>0
      <3> HIDE DEF A, B
      <3>3. Cardinality(B) <= Scene.maxClients
        BY <3>1, <3>2, Names, OneMore
      <3> QED  BY <3>3 DEF B
    <2> QED  BY <2>1, <2>2
  <1>12. seen' \in [Clients -> SUBSET Nat]  BY <1>1, <1>2
  <1> HIDE DEF C
  <1>13. Sound' /\ Ordinary
    BY <1>1, <1>4, <1>5, <1>7, <1>8, <1>9, <1>10, <1>11, <1>12, SoundNext
  <1> QED  BY <1>4, <1>8, <1>13

\* A step that leaves the open approvals and the names of the records as they are.
LEMMA CalmStep ==
    ASSUME Sound, NEW s \in Store, NEW c \in Book, Handed(s, c), generation' \in Nat,
           \A x \in Secrets : /\ (s[x] = None) <=> (secrets[x] = None)
                              /\ s[x] # None => /\ s[x].id = secrets[x].id /\ s[x].client = secrets[x].client
                                                /\ s[x].confirmed = secrets[x].confirmed
                                                /\ s[x].pending = secrets[x].pending
                                                /\ s[x].origin = secrets[x].origin
                                                /\ s[x].lapse = "never" => secrets[x].lapse = "never",
           \A d \in Clients : c[d] \in {clients[d], None},
           Pends(secrets, runs', history.born), RunCounts', SceneKept, UNCHANGED history,
           seen' \in [Clients -> SUBSET Nat]
    PROVE  Sound' /\ Ordinary
  <1>1. Onward(secrets, clients, s, c, history.born, history.born)
    BY Basics, QuietOnward
  <1>2. Pends(s, runs', history.born)
    BY Basics, PendsQuiet DEF SameButRelays
  <1>3. ScansWait(s)  BY DEF Sound, ScansWait
  <1>4. Cardinality({x \in Secrets : secrets'[x] # None}) <= Scene.maxSecrets
    BY NoMore DEF Handed
  <1>5. Cardinality({d \in Clients : c[d] # None}) <= Scene.maxClients
    BY NoMoreClients
  <1> QED  BY <1>1, <1>2, <1>3, <1>4, <1>5, Basics, SoundNext

LEMMA ForgetHands ==
    ASSUME Sound, NEW c \in Clients, Forget(secrets, c, generation, host.generation)
    PROVE  LET C == [clients EXCEPT ![c] = None]
           IN  /\ C \in Book /\ \A d \in Clients : C[d] \in {clients[d], None}
               /\ Handed(secrets, C) /\ generation' = generation /\ seen' \in [Clients -> SUBSET Nat]
  <1> DEFINE C == [clients EXCEPT ![c] = None]
  <1>1. C \in Book /\ \A d \in Clients : C[d] \in {clients[d], None}
    BY Basics DEF Book
  <1>2. Keep(secrets, C) /\ seen' = [seen EXCEPT ![c] = {}]
    BY DEF Forget, Keep
  <1>3. seen' \in [Clients -> SUBSET Nat]  BY <1>2, Basics
  <1> QED  BY <1>1, <1>2, <1>3, KeepHands DEF Sound

LEMMA AnswerStep ==
    ASSUME Sound, NEW k \in Slots, NEW ok \in BOOLEAN, Answer(k, ok)
    PROVE  Sound' /\ Ordinary /\ generation' = generation /\ UNCHANGED history
  <1>1. runs[k] \in RunT /\ ~Waits(runs[k])
    BY Basics DEF Answer, Awaiting, Waits
  <1>2. PICK run \in RunT : ~Waits(run) /\ Becomes(runs, k, run, runs')
    <2> DEFINE r == [runs[k] EXCEPT !.at = "reply", !.ok = ok]
    <2>1. r \in RunT /\ ~Waits(r) /\ Over \in RunT /\ ~Waits(Over)  BY <1>1, Reply
    <2>2. Becomes(runs, k, Over, runs') \/ Becomes(runs, k, r, runs')
      BY DEF Answer, To, Replies, Becomes
    <2> HIDE DEF r
    <2> QED  BY <2>1, <2>2
  <1>3. UNCHANGED <<secrets, clients, seen, approvals, admissions, generation, host, history, spent>>
    BY DEF Answer
  <1>4. Pends(secrets, runs', history.born)  BY <1>1, <1>2, Basics, PendsStays
  <1>5. RunCounts'  BY <1>1, <1>2, <1>3, CountsStay DEF Sound
  <1>6. Handed(secrets, clients)  BY <1>3 DEF Handed, Silent, Like
  <1>7. SceneKept  BY <1>3 DEF SceneKept, Sound, Shapes
  <1> QED  BY <1>3, <1>4, <1>5, <1>6, <1>7, Basics, CalmStep

LEMMA SentStep ==
    ASSUME Sound, NEW k \in Slots, Sent(k)
    PROVE  Sound' /\ Ordinary /\ generation' = generation /\ UNCHANGED history
  <1>1. ~Waits(runs[k]) /\ Over \in RunT /\ ~Waits(Over) /\ Becomes(runs, k, Over, runs')
    BY Basics, Reply DEF Sent, Waits, To, Becomes
  <1>2. UNCHANGED <<approvals, admissions, history, spent>>  BY DEF Sent
  <1>4. Pends(secrets, runs', history.born)  BY <1>1, Basics, PendsStays
  <1>5. RunCounts'  BY <1>1, <1>2, CountsStay DEF Sound
  <1>7. SceneKept  BY <1>2 DEF SceneKept, Sound, Shapes
  <1>8. CASE runs[k].do = "logout" /\ runs[k].ok /\ runs[k].by \in Connected
    <2>1. runs[k].by \in Clients /\ Forget(secrets, runs[k].by, generation, host.generation)
      BY <1>8 DEF Sent, Connected
    <2> DEFINE C == [clients EXCEPT ![runs[k].by] = None]
    <2>2. /\ C \in Book /\ \A d \in Clients : C[d] \in {clients[d], None}
          /\ Handed(secrets, C) /\ generation' = generation /\ seen' \in [Clients -> SUBSET Nat]
      BY <2>1, ForgetHands
    <2> HIDE DEF C
    <2> QED  BY <1>2, <1>4, <1>5, <1>7, <2>2, Basics, CalmStep
  <1>9. CASE ~(runs[k].do = "logout" /\ runs[k].ok /\ runs[k].by \in Connected)
    <2>1. UNCHANGED <<secrets, clients, seen, generation, host>>  BY <1>9 DEF Sent
    <2>2. Handed(secrets, clients)  BY <2>1 DEF Handed, Silent, Like
    <2> QED  BY <1>2, <1>4, <1>5, <1>7, <2>1, <2>2, Basics, CalmStep
  <1> QED  BY <1>8, <1>9

LEMMA RunsKept ==
    ASSUME Sound, UNCHANGED <<runs, approvals, admissions>>
    PROVE  Pends(secrets, runs', history.born) /\ RunCounts'
  BY DEF Sound, RunCounts

LEMMA KickStep ==
    ASSUME Sound, NEW c \in Clients, Kick(c)
    PROVE  Sound' /\ Ordinary /\ generation' = generation /\ UNCHANGED history
  <1>1. Forget(secrets, c, generation, host.generation) /\ UNCHANGED <<runs, approvals, admissions, history>>
        /\ spent' = [spent EXCEPT !.kicks = @ + 1]
    BY DEF Kick
  <1> DEFINE C == [clients EXCEPT ![c] = None]
  <1>2. /\ C \in Book /\ \A d \in Clients : C[d] \in {clients[d], None}
        /\ Handed(secrets, C) /\ generation' = generation /\ seen' \in [Clients -> SUBSET Nat]
    BY <1>1, ForgetHands
  <1>3. SceneKept  BY <1>1 DEF SceneKept, Sound, Shapes
  <1> HIDE DEF C
  <1> QED  BY <1>1, <1>2, <1>3, Basics, RunsKept, CalmStep

LEMMA SweepStep ==
    ASSUME Sound, Sweep
    PROVE  Sound' /\ Ordinary /\ generation' = generation /\ UNCHANGED history
  <1>1. Keep(secrets, clients) /\ UNCHANGED <<seen, runs, approvals, admissions, history, spent>>
    BY DEF Sweep
  <1>2. Handed(secrets, clients) /\ generation' = generation  BY <1>1, KeepHands DEF Sound
  <1>3. SceneKept  BY <1>1 DEF SceneKept, Sound, Shapes
  <1> QED  BY <1>1, <1>2, <1>3, Basics, RunsKept, CalmStep

LEMMA LapseStep ==
    ASSUME Sound, NEW x \in Secrets, Lapse(x)
    PROVE  Sound' /\ Ordinary /\ generation' = generation /\ UNCHANGED history
  <1> DEFINE s == [secrets EXCEPT ![x].lapse = "now"]
  <1>1. secrets' = s /\ secrets[x] # None
        /\ UNCHANGED <<clients, seen, runs, approvals, admissions, generation, host, history, spent>>
    BY DEF Lapse
  <1> DEFINE r == [secrets[x] EXCEPT !.lapse = "now"]
  <1>2. /\ r \in SecretT /\ r.id = secrets[x].id /\ r.client = secrets[x].client /\ r.relays = secrets[x].relays
        /\ r.confirmed = secrets[x].confirmed /\ r.pending = secrets[x].pending /\ r.origin = secrets[x].origin
        /\ r.lapse = "now"
    <2>1. secrets[x] \in SecretT  BY <1>1, Basics, RecordType
    <2> QED  BY <2>1 DEF SecretT
  <1>3. s = [secrets EXCEPT ![x] = r]  BY Basics DEF Store
  <1> HIDE DEF r, s
  <1>4. s \in Store /\ s[x] = r /\ r # None /\ \A y \in Secrets : y # x => s[y] = secrets[y]
    BY <1>2, <1>3, Basics, Names DEF Store
  <1>5. Handed(s, clients)
    BY <1>1, <1>2, <1>4 DEF Handed, Silent, Like
  <1>6. SceneKept  BY <1>1 DEF SceneKept, Sound, Shapes
  <1> QED  BY <1>1, <1>2, <1>4, <1>5, <1>6, Basics, RunsKept, CalmStep

LEMMA MintStep ==
    ASSUME Sound, NEW x \in Secrets, NEW R \in Relays, NEW lapse \in {"later", "never"}, Mint(x, R, lapse)
    PROVE  Sound' /\ Ordinary /\ generation' = generation
           /\ UNCHANGED <<history.revoked, history.admitted, history.rolled>>
  <1> DEFINE s == Swept(secrets)
             n == history.born
             q == [s EXCEPT ![x].relays = IF s[x].client = None THEN R ELSE @]
             f == Fresh(R, "bunker", lapse)
             t == [s EXCEPT ![x] = f]
  <1>1. /\ spent' = [spent EXCEPT !.mints = @ + 1] /\ UNCHANGED <<seen, runs, approvals, admissions>>
        /\ \/ s[x] # None /\ Keep(q, clients) /\ UNCHANGED history
           \/ /\ s[x] = None /\ Cardinality({y \in Secrets : s[y] # None}) < Scene.maxSecrets
              /\ Keep(t, clients) /\ history' = [history EXCEPT !.born = @ + 1]
    BY DEF Mint
  <1>2. /\ s \in Store /\ StoreInv(s, clients, n) /\ Pends(s, runs, n) /\ n \in Nat /\ clients \in Book
        /\ \A y \in Secrets : s[y] # None => s[y] = secrets[y]
        /\ generation \in Nat /\ history \in HistoryT
    BY Basics, SweptIs, SweptStore, SweptPends
  <1>3. ScansWait(s)  BY <1>2 DEF Sound, ScansWait
  <1>4. SceneKept  BY <1>1 DEF SceneKept, Sound, Shapes
  <1>5. seen' \in [Clients -> SUBSET Nat] /\ RunCounts'  BY <1>1, Basics, RunsKept
  <1>6. Cardinality({d \in Clients : clients[d] # None}) <= Scene.maxClients  BY NoMoreClients
  <1>7. CASE s[x] # None /\ Keep(q, clients) /\ UNCHANGED history
    <2> DEFINE Q == IF s[x].client = None THEN R ELSE s[x].relays
               r == [s[x] EXCEPT !.relays = Q]
    <2>1. Handed(q, clients) /\ generation' = generation  BY <1>7, KeepHands DEF Sound
    <2>2. /\ r \in SecretT /\ r.id = s[x].id /\ r.client = s[x].client
          /\ r.confirmed = s[x].confirmed /\ r.pending = s[x].pending /\ r.origin = s[x].origin
          /\ r.lapse = s[x].lapse
      <3>1. s[x] \in SecretT /\ Q \in Relays  BY <1>2, <1>7, RecordType
      <3> HIDE DEF s, Q
      <3> QED  BY <3>1 DEF SecretT
    <2>3. q = [s EXCEPT ![x] = r]  BY <1>2 DEF Store
    <2> HIDE DEF r, q, s
    <2>4. q \in Store /\ q[x] = r /\ r # None /\ \A y \in Secrets : y # x => q[y] = s[y]
      BY <1>2, <2>2, <2>3, Names DEF Store
    <2>5. Onward(s, clients, q, clients, n, n)
      BY <1>2, <1>7, <2>2, <2>4, QuietOnward
    <2>6. Onward(secrets, clients, q, clients, n, n)
      BY <1>2, <2>5, Basics, FromSwept DEF s
    <2>7. Pends(q, runs', n)
      <3>1. \A y \in Secrets : q[y] # None => SameButRelays(q[y], s[y])
        BY <1>7, <2>2, <2>4 DEF SameButRelays
      <3> QED  BY <1>1, <1>2, <3>1, PendsQuiet
    <2>8. ScansWait(q)  BY <1>3, <1>7, <2>2, <2>4 DEF ScansWait
    <2>9. Cardinality({y \in Secrets : secrets'[y] # None}) <= Scene.maxSecrets
      <3>1. \A y \in Secrets : q[y] # None => secrets[y] # None  BY <1>2, <1>7, <2>4
      <3> QED  BY <2>1, <2>4, <3>1, NoMore DEF Handed
    <2>10. Sound' /\ Ordinary
      BY <1>2, <1>4, <1>5, <1>6, <1>7, <2>1, <2>4, <2>6, <2>7, <2>8, <2>9, SoundNext
    <2> QED  BY <1>7, <2>1, <2>10
  <1>8. CASE /\ s[x] = None /\ Cardinality({y \in Secrets : s[y] # None}) < Scene.maxSecrets
             /\ Keep(t, clients) /\ history' = [history EXCEPT !.born = @ + 1]
    <2>1. Handed(t, clients) /\ generation' = generation /\ secrets' = Swept(t)  BY <1>8, KeepHands DEF Sound
    <2>2. f \in SecretT /\ f # None /\ f.id = n + 1 /\ ~f.confirmed /\ f.pending = 0 /\ f.origin = "bunker"
      <3>1. lapse \in {"later", "now", "never"} /\ history.born \in Nat  BY <1>2
      <3> QED  BY <3>1, FreshIs
    <2> HIDE DEF f
    <2>3. t \in Store /\ t[x] = f /\ \A y \in Secrets : y # x => t[y] = s[y]
      <3> HIDE DEF s
      <3> QED  BY <1>2, <2>2 DEF Store
    <2> HIDE DEF t, s
    <2>4. history' \in HistoryT /\ history'.born = n + 1
          /\ UNCHANGED <<history.revoked, history.admitted, history.rolled>>
      BY <1>2, <1>8 DEF HistoryT
    <2>5. Onward(s, clients, t, clients, n, n + 1)
      BY <1>2, <1>8, <2>2, <2>3, FreshOnward
    <2>6. Onward(secrets, clients, t, clients, n, n + 1)
      BY <1>2, <2>5, Basics, FromSwept DEF s
    <2>7. Pends(t, runs', n + 1)
      BY <1>1, <1>2, <2>2, <2>3, PendsFresh
    <2>8. ScansWait(t)  BY <1>3, <2>2, <2>3 DEF ScansWait
    <2>9. Cardinality({y \in Secrets : secrets'[y] # None}) <= Scene.maxSecrets
      <3> DEFINE A == {y \in Secrets : s[y] # None}
                 B == {y \in Secrets : secrets'[y] # None}
      <3>1. \A y \in Secrets : secrets'[y] # None => secrets'[y] = t[y]
        BY <2>1, <2>3, SweptIs
      <3>2. B \subseteq A \cup {x} /\ A \in SUBSET Secrets /\ B \in SUBSET Secrets
        BY <2>3, <3>1
      <3>3. Cardinality(A) < Scene.maxSecrets /\ Scene.maxSecrets \in Nat
        BY <1>8, SceneIs
      <3> HIDE DEF A, B
      <3>4. Cardinality(B) <= Scene.maxSecrets
        BY <3>2, <3>3, Names, OneMore
      <3> QED  BY <3>4 DEF B
    <2>10. Sound' /\ Ordinary
      BY <1>2, <1>4, <1>5, <1>6, <2>1, <2>3, <2>4, <2>6, <2>7, <2>8, <2>9, SoundNext
    <2> QED  BY <2>1, <2>4, <2>10
  <1> HIDE DEF s, q, t
  <1> QED  BY <1>1, <1>7, <1>8

\* What a revocation leaves.
Without(x)  == [secrets EXCEPT ![x] = None]
Dropped(x)  == [c \in Clients |-> IF c \in Through(x) THEN None ELSE clients[c]]

LEMMA WithoutIs ==
    ASSUME Sound, NEW x \in Held
    PROVE  /\ Without(x) \in Store /\ Dropped(x) \in Book /\ x \in Secrets /\ secrets[x] # None
           /\ \A y \in Secrets : Without(x)[y] # None => Without(x)[y] = secrets[y]
           /\ \A c \in Clients : Dropped(x)[c] # None => Dropped(x)[c] = clients[c]
           /\ Onward(secrets, clients, Without(x), Dropped(x), history.born, history.born)
           /\ secrets[x].id \in Ids(secrets, clients) /\ secrets[x].id \in 1..history.born
           /\ secrets[x].id \notin Ids(Without(x), Dropped(x))
  <1>1. x \in Secrets /\ secrets[x] # None  BY DEF Held
  <1>2. Without(x) \in Store /\ Without(x)[x] = None /\ \A y \in Secrets : y # x => Without(x)[y] = secrets[y]
    BY <1>1, Basics DEF Without, Store
  <1>3. Dropped(x) \in Book /\ \A c \in Clients : Dropped(x)[c] # None => Dropped(x)[c] = clients[c] /\ c \notin Through(x)
    BY Basics DEF Dropped, Book
  <1>4. ASSUME NEW c \in Clients, Dropped(x)[c] # None  PROVE clients[c].id # secrets[x].id
    <2>1. clients[c] # None /\ c \notin Through(x)  BY <1>3, <1>4
    <2>2. clients[c].id = secrets[x].id => clients[c].secret = x /\ secrets[x].client = c
      BY <1>1, <2>1, Basics, StoreParts
    <2> QED  BY <2>1, <2>2 DEF Through, Connected
  <1>5. /\ Onward(secrets, clients, Without(x), Dropped(x), history.born, history.born)
        /\ secrets[x].id \notin Ids(Without(x), Dropped(x))
    BY <1>1, <1>2, <1>3, <1>4, Basics, DropOnward
  <1>6. secrets[x].id \in 1..history.born /\ secrets[x].id # 0
    BY <1>1, Basics, StoreParts
  <1> QED  BY <1>1, <1>2, <1>3, <1>5, <1>6, InIds

LEMMA RevokeStep ==
    ASSUME Sound, NEW x \in Secrets, Revoke(x)
    PROVE  /\ Sound' /\ Ordinary /\ generation' = generation + 1
           /\ secrets[x].id \in Ids(secrets, clients) /\ secrets[x].id \in 1..history.born
           /\ secrets[x].id \notin Ids(secrets', clients')
           /\ history'.revoked = history.revoked \cup {secrets[x].id}
           /\ UNCHANGED <<history.born, history.admitted, history.rolled>>
           /\ Saves
  <1> DEFINE s == Without(x)
             c == Dropped(x)
             n == history.born
  <1>1. /\ x \in Held /\ Emit(s, c, generation + 1, generation + 1)
        /\ seen' = [d \in Clients |-> IF d \in Through(x) THEN {} ELSE seen[d]]
        /\ history' = [history EXCEPT !.revoked = @ \cup {secrets[x].id}]
        /\ spent' = [spent EXCEPT !.revokes = @ + 1] /\ UNCHANGED <<runs, approvals, admissions>>
    BY DEF Revoke, Without, Dropped
  <1>2. /\ s \in Store /\ c \in Book /\ secrets[x] # None
        /\ \A y \in Secrets : s[y] # None => s[y] = secrets[y]
        /\ \A d \in Clients : c[d] # None => c[d] = clients[d]
        /\ Onward(secrets, clients, s, c, n, n)
        /\ secrets[x].id \in Ids(secrets, clients) /\ secrets[x].id \in 1..n /\ secrets[x].id \notin Ids(s, c)
    BY <1>1, WithoutIs
  <1>3. Handed(s, c) /\ generation' = generation + 1 /\ secrets' = Swept(s) /\ clients' = c /\ Saves
    BY <1>1, EmitHands DEF Sound, Emit
  <1>4. /\ history' \in HistoryT /\ history'.revoked = history.revoked \cup {secrets[x].id} /\ history'.born = n
        /\ UNCHANGED <<history.born, history.admitted, history.rolled>> /\ n \in Nat
    <2>1. secrets[x].id \in Nat /\ history \in HistoryT  BY <1>2, Basics, StoreParts
    <2> QED  BY <1>1, <2>1 DEF HistoryT
  <1>5. SceneKept  BY <1>1 DEF SceneKept, Sound, Shapes
  <1>6. seen' \in [Clients -> SUBSET Nat]  BY <1>1, Basics
  <1>7. RunCounts' /\ Pends(secrets, runs', n)  BY <1>1, RunsKept
  <1> HIDE DEF s, c
  <1>8. Pends(s, runs', n)
    <2>1. \A y \in Secrets : s[y] # None => SameButRelays(s[y], secrets[y])  BY <1>2 DEF SameButRelays
    <2> QED  BY <1>4, <1>7, <2>1, PendsQuiet
  <1>9. ScansWait(s)  BY <1>2 DEF ScansWait, Sound
  <1>10. Cardinality({y \in Secrets : secrets'[y] # None}) <= Scene.maxSecrets
    BY <1>2, <1>3, NoMore
  <1>11. Cardinality({d \in Clients : c[d] # None}) <= Scene.maxClients
    BY <1>2, NoMoreClients
  <1>12. secrets[x].id \notin Ids(secrets', clients')
    <2>1. \A y \in Secrets : secrets'[y] # None => secrets'[y] = s[y]  BY <1>2, <1>3, SweptIs
    <2> QED  BY <1>2, <1>3, <2>1, InIds
  <1>13. generation' \in Nat  BY <1>3, Basics
  <1>14. Sound' /\ Ordinary
    BY <1>2, <1>3, <1>4, <1>5, <1>6, <1>7, <1>8, <1>9, <1>10, <1>11, <1>13, SoundNext
  <1> QED  BY <1>2, <1>3, <1>4, <1>12, <1>14

----------------------------------------------------------------------------
(* What is persisted, across an ordinary step.                             *)

Outside ==
    /\ \A st \in Persisted : StateInv(st, history.born)
    /\ HandedOut /\ Copied /\ Revocations

LEMMA StateParts ==
    ASSUME NEW st, NEW n \in Nat, StateInv(st, n)
    PROVE  /\ StoreInv(st.secrets, st.clients, n) /\ st.secrets \in Store /\ st.clients \in Book
           /\ \A i \in StateIds(st) : i \in Nat /\ i <= n
  <1>1. StoreInv(st.secrets, st.clients, n)  BY DEF StateInv
  <1>2. st.secrets \in Store /\ st.clients \in Book  BY <1>1, StoreParts
  <1>3. ASSUME NEW i \in StateIds(st)  PROVE i \in Nat /\ i <= n
    <2>1. \/ \E x \in Secrets : st.secrets[x] # None /\ st.secrets[x].id = i
          \/ \E c \in Clients : st.clients[c] # None /\ st.clients[c].id = i
      BY InIds DEF StateIds
    <2> QED  BY <1>1, <2>1, StoreParts
  <1> QED  BY <1>1, <1>2, <1>3

LEMMA StoreGrows ==
    ASSUME NEW S, NEW C, NEW n \in Nat, NEW m \in Nat, n <= m, StoreInv(S, C, n)
    PROVE  StoreInv(S, C, m)
  <1>1. \A x \in Secrets : S[x] # None => S[x].id \in 1..m  BY StoreParts
  <1>2. \A c \in Clients : C[c] # None => C[c].id <= m  BY StoreParts
  <1> QED  BY <1>1, <1>2 DEF StoreInv

LEMMA SavedState ==
    ASSUME NEW S, NEW C, NEW n \in Nat, StoreInv(S, C, n), NEW g \in Nat
    PROVE  LET st == Export(S, C, g)
           IN  /\ StateInv(st, n) /\ StateIds(st) = Ids(S, C) /\ StateGeneration(st) = g
               /\ st \in StateT /\ st # None /\ st.clients = C /\ \A x \in Secrets : Like(S[x], st.secrets[x])
  <1> DEFINE st == Export(S, C, g)
             T  == st.secrets
  <1>1. S \in Store /\ C \in Book  BY StoreParts
  <1>2. /\ st \in StateT /\ st # None /\ st.clients = C /\ StateGeneration(st) = g /\ T \in Store
        /\ \A x \in Secrets : /\ Like(S[x], T[x])
                              /\ S[x] # None => T[x].pending = 0
    BY <1>1, SavedIs
  <1> HIDE DEF st
  <1>3. \A x \in Secrets : /\ (T[x] = None) <=> (S[x] = None)
                           /\ T[x] # None => /\ T[x].id = S[x].id /\ T[x].client = S[x].client
                                             /\ T[x].confirmed = S[x].confirmed /\ T[x].pending = 0
    BY <1>2 DEF Like
  <1>4. StoreInv(T, C, n)
    <2>1. \A x \in Secrets : T[x] # None => T[x].id \in 1..n /\ (T[x].confirmed => T[x].client # None)
      BY <1>3, StoreParts
    <2>2. SameName(T, T)  BY <1>3, StoreParts DEF SameName
    <2>3. Agrees(T, C)  BY <1>3 DEF Agrees, StoreInv
    <2> QED  BY <1>1, <1>2, <2>1, <2>2, <2>3 DEF StoreInv, Store, Book
  <1>5. StateInv(st, n)  BY <1>2, <1>3, <1>4 DEF StateInv
  <1>6. \A i : i \in StateIds(st) <=> i \in Ids(S, C)
    BY <1>2, <1>3, InIds DEF StateIds
  <1>7. StateIds(st) = Ids(S, C)  BY <1>6
  <1> QED  BY <1>2, <1>5, <1>7 DEF st

LEMMA GenerationType ==
    ASSUME NEW st \in StateT
    PROVE  StateGeneration(st) \in Nat
  BY DEF StateT, StateGeneration

LEMMA OutsideIs ==
    ASSUME Sound, Outside
    PROVE  /\ host.saved # None => host.saved \in StateT /\ StateInv(host.saved, history.born) /\ StateGeneration(host.saved) \in Nat
           /\ host.kept # None => host.kept \in StateT /\ StateInv(host.kept, history.born) /\ StateGeneration(host.kept) \in Nat
  <1>1. host.saved \in StateT \cup {None} /\ host.kept \in StateT \cup {None}  BY Basics DEF HostT
  <1> QED  BY <1>1, GenerationType DEF Outside, Persisted

LEMMA LikeTrans ==
    ASSUME NEW p, NEW q, NEW r, Like(p, q), Like(p, r)
    PROVE  Like(q, r)
  BY DEF Like

LEMMA OrdinaryOutside ==
    ASSUME Sound, Outside, Sound', Ordinary,
           \/ generation' = generation /\ history'.revoked = history.revoked
           \/ /\ generation' = generation + 1 /\ Saves
              /\ \E i \in Ids(secrets, clients) : /\ i \in 1..history.born /\ i \notin Ids(secrets', clients')
                                                  /\ history'.revoked = history.revoked \cup {i}
    PROVE  Outside'
  <1> DEFINE n == history.born
             m == history'.born
             mine  == Ids(secrets, clients)
             after == Ids(secrets', clients')
  <1>1. /\ n \in Nat /\ generation \in Nat /\ StoreInv(secrets, clients, n) /\ host \in HostT
    BY Basics
  <1>2. /\ m \in Nat /\ m \in {n, n + 1} /\ generation' \in Nat /\ StoreInv(secrets', clients', m)
        /\ secrets' \in Store /\ clients' \in Book
        /\ Onward(secrets, clients, secrets', clients', n, m)
    <2>1. m \in Nat /\ generation' \in Nat /\ StoreInv(secrets', clients', m)
      BY DEF Sound, Shapes, HistoryT
    <2> QED  BY <2>1, StoreParts DEF Ordinary, Onward
  <1>3. \/ /\ Saves /\ host'.saved = Export(secrets', clients', generation')
        \/ Silent /\ host' = host
    BY <1>2, SavesIs DEF Ordinary, Silent
  <1>4. host'.kept = host.kept
    BY <1>2, <1>3, SavesIs
  <1>5. \A i \in after : i \in mine \/ (i = n + 1 /\ m = n + 1)
    BY <1>1, <1>2, OnwardIds
  <1>6. history.revoked \subseteq 1..n /\ mine \cap history.revoked = {}
    BY DEF Outside, Revocations
  <1>7. history'.revoked \subseteq 1..m /\ after \cap history'.revoked = {}
    BY <1>1, <1>2, <1>5, <1>6
  <1>8. host.kept # None => /\ StateInv(host.kept, n) /\ StateGeneration(host.kept) \in Nat /\ StateInv(host.kept, m)
                            /\ \A i \in StateIds(host.kept) : i \in Nat /\ i <= n
    <2> SUFFICES ASSUME host.kept # None
                 PROVE  /\ StateInv(host.kept, n) /\ StateGeneration(host.kept) \in Nat /\ StateInv(host.kept, m)
                        /\ \A i \in StateIds(host.kept) : i \in Nat /\ i <= n
      OBVIOUS
    <2>1. StateInv(host.kept, n) /\ StateGeneration(host.kept) \in Nat  BY OutsideIs
    <2>2. n <= m  BY <1>1, <1>2
    <2>3. StateInv(host.kept, m)  BY <1>1, <1>2, <2>1, <2>2, StoreGrows DEF StateInv
    <2> QED  BY <1>1, <2>1, <2>3, StateParts
  <1>9. host'.saved # None => StateInv(host'.saved, m)
    <2>1. CASE host'.saved = Export(secrets', clients', generation')
      BY <1>2, <2>1, SavedState
    <2>2. CASE host' = host
      <3> SUFFICES ASSUME host.saved # None  PROVE StateInv(host.saved, m)
        BY <2>2
      <3>1. StateInv(host.saved, n)  BY OutsideIs
      <3>2. n <= m  BY <1>1, <1>2
      <3> QED  BY <1>1, <1>2, <3>1, <3>2, StoreGrows DEF StateInv
    <2> QED  BY <1>3, <2>1, <2>2
  <1>10. \A st \in Persisted' : StateInv(st, m)
    BY <1>4, <1>8, <1>9 DEF Persisted
  <1>11. HandedOut'
    <2>1. CASE host'.saved = Export(secrets', clients', generation')
      BY <1>2, <2>1, SavedState DEF HandedOut
    <2>2. CASE Silent
      <3> SUFFICES ASSUME Held' \cup Connected' # {}
                   PROVE  /\ host.saved # None /\ StateGeneration(host.saved) = generation
                          /\ host.saved.clients = clients /\ \A x \in Secrets : Like(secrets'[x], host.saved.secrets[x])
        BY <2>2 DEF Silent, HandedOut
      <3>1. Held' = Held /\ Connected' = Connected
        BY <2>2 DEF Silent, Held, Connected, Like
      <3>2. /\ host.saved # None /\ StateGeneration(host.saved) = generation
            /\ host.saved.clients = clients /\ \A x \in Secrets : Like(secrets[x], host.saved.secrets[x])
        BY <3>1 DEF Outside, HandedOut
      <3> QED  BY <2>2, <3>2, LikeTrans DEF Silent
    <2> QED  BY <1>3, <2>1, <2>2
  <1>12. Copied'
    <2> SUFFICES ASSUME host.kept # None
                 PROVE  /\ Across(secrets', clients', host.kept.secrets, host.kept.clients)
                        /\ host'.saved # None
                           => Across(host'.saved.secrets, host'.saved.clients, host.kept.secrets, host.kept.clients)
      BY <1>4 DEF Copied
    <2>1. Across(secrets, clients, host.kept.secrets, host.kept.clients)
          /\ (host.saved # None => Across(host.saved.secrets, host.saved.clients, host.kept.secrets, host.kept.clients))
      BY DEF Outside, Copied
    <2>2. StoreInv(host.kept.secrets, host.kept.clients, n)  BY <1>8 DEF StateInv
    <2>3. Across(secrets', clients', host.kept.secrets, host.kept.clients)
      BY <1>1, <1>2, <2>1, <2>2, OnwardAcross
    <2>4. CASE host'.saved = Export(secrets', clients', generation')
      <3> DEFINE T == host'.saved.secrets
      <3>1. host'.saved.clients = clients' /\ \A x \in Secrets : Like(secrets'[x], T[x])
        BY <1>2, <2>4, SavedState
      <3> HIDE DEF T
      <3>2. Across(T, clients', host.kept.secrets, host.kept.clients)
        BY <2>3, <3>1 DEF Across, SameName, Agrees, Like
      <3> QED  BY <2>3, <3>1, <3>2 DEF T
    <2>5. CASE host' = host
      BY <2>1, <2>3, <2>5
    <2> QED  BY <1>3, <2>4, <2>5
  <1>13. Revocations'
    <2>1. host.kept # None /\ StateGeneration(host.kept) > generation => StateIds(host.kept) \cap mine = {}
      BY DEF Outside, Revocations
    <2>2. host.kept # None /\ StateGeneration(host.kept) > generation' => StateIds(host.kept) \cap after = {}
      <3> SUFFICES ASSUME host.kept # None, StateGeneration(host.kept) > generation', NEW i \in StateIds(host.kept), i \in after
                   PROVE  FALSE
        OBVIOUS
      <3>1. StateGeneration(host.kept) > generation  BY <1>1, <1>2, <1>8
      <3>2. i <= n /\ i \in Nat  BY <1>8
      <3>3. i \in mine  BY <1>1, <1>5, <3>2
      <3> QED  BY <2>1, <3>1, <3>3
    <2>3. host.kept # None /\ StateGeneration(host.kept) >= generation' => StateIds(host.kept) \cap history'.revoked = {}
      <3> SUFFICES ASSUME host.kept # None, StateGeneration(host.kept) >= generation'
                   PROVE  StateIds(host.kept) \cap history'.revoked = {}
        OBVIOUS
      <3>1. StateGeneration(host.kept) >= generation => StateIds(host.kept) \cap history.revoked = {}
        BY DEF Outside, Revocations, Persisted
      <3>2. StateGeneration(host.kept) \in Nat  BY <1>8
      <3>3. CASE generation' = generation /\ history'.revoked = history.revoked
        BY <3>1, <3>3
      <3>4. CASE generation' = generation + 1
        <4>1. StateGeneration(host.kept) > generation  BY <1>1, <3>2, <3>4
        <4>2. history'.revoked \subseteq history.revoked \cup mine
          BY <1>1, <3>4
        <4> QED  BY <1>1, <2>1, <3>1, <3>2, <4>1, <4>2
      <3> QED  BY <3>3, <3>4
    <2>4. /\ host'.saved # None /\ StateGeneration(host'.saved) >= generation' => StateIds(host'.saved) \cap history'.revoked = {}
          /\ host.kept # None /\ host'.saved # None /\ StateGeneration(host.kept) > StateGeneration(host'.saved)
             => StateIds(host.kept) \cap StateIds(host'.saved) = {}
      <3>1. CASE host'.saved = Export(secrets', clients', generation')
        <4>1. StateIds(host'.saved) = after /\ StateGeneration(host'.saved) = generation'
          BY <1>2, <3>1, SavedState
        <4> QED  BY <1>7, <2>2, <4>1
      <3>2. CASE Silent /\ ~Saves
        <4>1. host' = host /\ generation' = generation /\ history'.revoked = history.revoked
          BY <1>1, <3>2 DEF Silent
        <4>2. /\ host.saved # None /\ StateGeneration(host.saved) >= generation
                 => StateIds(host.saved) \cap history.revoked = {}
              /\ host.kept # None /\ host.saved # None /\ StateGeneration(host.kept) > StateGeneration(host.saved)
                 => StateIds(host.kept) \cap StateIds(host.saved) = {}
          BY DEF Outside, Revocations, Persisted
        <4> QED  BY <4>1, <4>2
      <3>3. Saves => host'.saved = Export(secrets', clients', generation')  BY <1>2, SavesIs
      <3> QED  BY <1>3, <3>1, <3>2, <3>3
    <2>5. \A st \in Persisted' : StateGeneration(st) >= generation' => StateIds(st) \cap history'.revoked = {}
      BY <1>4, <2>3, <2>4 DEF Persisted
    <2> HIDE DEF mine, after
    <2> QED  BY <1>4, <1>7, <2>2, <2>4, <2>5 DEF Revocations, after
  <1> QED  BY <1>10, <1>11, <1>12, <1>13 DEF Outside

----------------------------------------------------------------------------
(* The death of the process, and a copy of the storage.                    *)

LEMMA AcrossSelf ==
    ASSUME NEW S, NEW C, NEW n \in Nat, StoreInv(S, C, n)
    PROVE  Across(S, C, S, C)
  BY DEF StoreInv, Across, Agrees

LEMMA AcrossSaved ==
    ASSUME Sound, Outside, host.saved # None
    PROVE  Across(secrets, clients, host.saved.secrets, host.saved.clients)
  <1>1. StoreInv(secrets, clients, history.born) /\ history.born \in Nat  BY Basics
  <1>2. Across(secrets, clients, secrets, clients)  BY <1>1, AcrossSelf
  <1>3. CASE Held \cup Connected # {}
    <2>1. host.saved.clients = clients /\ \A x \in Secrets : Like(secrets[x], host.saved.secrets[x])
      BY <1>3 DEF Outside, HandedOut
    <2> QED  BY <1>2, <2>1 DEF Across, SameName, Agrees, Like
  <1>4. CASE Held \cup Connected = {}
    <2>1. (\A x \in Secrets : secrets[x] = None) /\ (\A c \in Clients : clients[c] = None)
      BY <1>4 DEF Held, Connected
    <2> QED  BY <2>1 DEF Across, SameName, Agrees
  <1> QED  BY <1>3, <1>4

LEMMA NothingHeld ==
    ASSUME NEW S \in Store, NEW C \in Book, NEW n \in Nat,
           \A x \in Secrets : S[x] = None, \A c \in Clients : C[c] = None
    PROVE  /\ StoreInv(S, C, n) /\ Ids(S, C) = {} /\ \A T, D : Across(S, C, T, D)
           /\ Cardinality({x \in Secrets : S[x] # None}) = 0 /\ Cardinality({c \in Clients : C[c] # None}) = 0
           /\ {x \in Secrets : S[x] # None} \cup {c \in Clients : C[c] # None} = {}
  <1>1. {x \in Secrets : S[x] # None} = {} /\ {c \in Clients : C[c] # None} = {}  OBVIOUS
  <1>2. StoreInv(S, C, n)  BY DEF StoreInv, SameName, Agrees, Store, Book
  <1>3. Ids(S, C) = {}  BY InIds
  <1>4. \A T, D : Across(S, C, T, D)  BY DEF Across, SameName, Agrees
  <1> QED  BY <1>1, <1>2, <1>3, <1>4, FS_EmptySet

LEMMA ProcessStep ==
    ASSUME Sound, NewProcess, host' \in HostT, UNCHANGED history, SceneKept
    PROVE  /\ Sound' /\ Ids(secrets', clients') = {} /\ Held' \cup Connected' = {}
           /\ \A T, D : Across(secrets', clients', T, D)
           /\ AwaitSet(runs') = {} /\ \A x \in Secrets : secrets'[x] = None
  <1>1. /\ secrets' = [x \in Secrets |-> None] /\ clients' = [c \in Clients |-> None]
        /\ seen' = [c \in Clients |-> {}] /\ runs' = [k \in Slots |-> Dead(k)]
        /\ approvals' = 0 /\ admissions' = [c \in Clients |-> 0] /\ generation' = host'.generation
    BY DEF NewProcess
  <1>2. secrets' \in Store /\ clients' \in Book  BY <1>1 DEF Store, Book
  <1>3. history'.born \in Nat /\ history' \in HistoryT  BY Basics
  <1>4. /\ StoreInv(secrets', clients', history'.born) /\ Ids(secrets', clients') = {}
        /\ \A T, D : Across(secrets', clients', T, D)
        /\ Cardinality({x \in Secrets : secrets'[x] # None}) = 0 /\ Cardinality({c \in Clients : clients'[c] # None}) = 0
        /\ {x \in Secrets : secrets'[x] # None} \cup {c \in Clients : clients'[c] # None} = {}
    <2>1. (\A x \in Secrets : secrets'[x] = None) /\ (\A c \in Clients : clients'[c] = None)  BY <1>1
    <2> QED  BY <1>2, <1>3, <2>1, NothingHeld
  <1>5. runs' \in [Slots -> RunT] /\ \A k \in Slots : ~Waits(runs'[k])
    <2>1. IdleRun \in RunT /\ Over \in RunT /\ ~Waits(Over) /\ ~Waits(IdleRun)
      <3>1. IdleRun \in RunT  BY DEF IdleRun, RunT
      <3> QED  BY <3>1, Reply
    <2> QED  BY <1>1, <2>1 DEF Dead
  <1>6. AwaitSet(runs') = {} /\ \A c : PlacesOf(runs', c) = {}
    BY <1>5 DEF AwaitSet, PlacesOf
  <1>7. Pends(secrets', runs', history'.born)
    <2>1. \A x \in Secrets : secrets'[x] # None => secrets'[x].pending = 0  BY <1>1
    <2> QED  BY <1>3, <1>5, <1>6, <2>1, PendsNone
  <1>8. RunCounts'  BY <1>1, <1>5, <1>6, FS_EmptySet DEF RunCounts
  <1>9. Scene' = Scene  BY DEF Scene, SceneKept
  <1>10. Ceilings'
    <2>1. Scene.maxClients \in Nat /\ Scene.maxSecrets \in Nat  BY SceneIs
    <2> QED  BY <1>4, <1>9, <2>1 DEF Ceilings, Held, Connected
  <1>11. Shapes'
    <2>1. host'.generation \in Nat  BY DEF HostT
    <2> QED  BY <1>1, <1>3, <2>1 DEF Shapes, SceneKept, Sound
  <1>12. ScansWait(secrets')  BY <1>1 DEF ScansWait
  <1> QED  BY <1>1, <1>4, <1>6, <1>7, <1>8, <1>10, <1>11, <1>12 DEF Sound, Held, Connected

LEMMA CrashStep ==
    ASSUME Sound, Outside, Crash
    PROVE  Sound' /\ Outside' /\ UNCHANGED <<host, history>>
  <1>1. UNCHANGED <<host, history>> /\ NewProcess /\ spent' = [spent EXCEPT !.crashes = @ + 1]
    BY DEF Crash
  <1>2. SceneKept /\ host' \in HostT  BY <1>1, Basics DEF SceneKept, Sound, Shapes
  <1>3. /\ Sound' /\ Ids(secrets', clients') = {} /\ Held' \cup Connected' = {}
        /\ \A T, D : Across(secrets', clients', T, D)
    BY <1>1, <1>2, ProcessStep
  <1>4. generation' = generation  BY <1>1 DEF NewProcess, Sound, Shapes
  <1>5. Persisted' = Persisted  BY <1>1 DEF Persisted
  <1>6. HandedOut'  BY <1>3 DEF HandedOut
  <1>7. Copied'  BY <1>1, <1>3 DEF Outside, Copied
  <1>8. Revocations'
    BY <1>1, <1>3, <1>4, <1>5 DEF Outside, Revocations
  <1> QED  BY <1>1, <1>3, <1>5, <1>6, <1>7, <1>8 DEF Outside

\* The state that a revocation hands out, when the process dies on it.
CutShort(x) == Export(Swept(Without(x)), Dropped(x), generation + 1)

LEMMA CutShortIs ==
    ASSUME Sound, NEW x \in Held
    PROVE  LET S == Swept(Without(x))
               C == Dropped(x)
           IN  /\ S \in Store /\ C \in Book /\ Onward(secrets, clients, S, C, history.born, history.born)
               /\ StoreInv(S, C, history.born)
               /\ \A y \in Secrets : S[y] # None => S[y] = secrets[y]
               /\ \A c \in Clients : C[c] # None => C[c] = clients[c]
               /\ StateInv(CutShort(x), history.born) /\ StateGeneration(CutShort(x)) = generation + 1
               /\ CutShort(x) \in StateT /\ CutShort(x) # None /\ CutShort(x).clients = C
               /\ StateIds(CutShort(x)) = Ids(S, C)
               /\ \A y \in Secrets : Like(S[y], CutShort(x).secrets[y])
  <1> DEFINE S == Swept(Without(x))
             C == Dropped(x)
             n == history.born
  <1>1. /\ Without(x) \in Store /\ C \in Book
        /\ \A y \in Secrets : Without(x)[y] # None => Without(x)[y] = secrets[y]
        /\ \A c \in Clients : C[c] # None => C[c] = clients[c]
        /\ Onward(secrets, clients, Without(x), C, n, n)
    BY WithoutIs
  <1>2. n \in Nat /\ StoreInv(secrets, clients, n) /\ generation + 1 \in Nat  BY Basics
  <1>3. S \in Store /\ \A y \in Secrets : S[y] # None => S[y] = Without(x)[y]
    BY <1>1, SweptIs
  <1>4. Onward(secrets, clients, S, C, n, n)
    BY <1>1, <1>2, SweptOnward
  <1>5. StoreInv(S, C, n)
    BY <1>1, <1>2, <1>3, <1>4, OnwardStore
  <1>6. CutShort(x) = Export(S, C, generation + 1)  BY DEF CutShort
  <1> HIDE DEF S, C
  <1>7. /\ StateInv(CutShort(x), n) /\ StateIds(CutShort(x)) = Ids(S, C) /\ StateGeneration(CutShort(x)) = generation + 1
        /\ CutShort(x) \in StateT /\ CutShort(x) # None /\ CutShort(x).clients = C
        /\ \A y \in Secrets : Like(S[y], CutShort(x).secrets[y])
    BY <1>2, <1>5, <1>6, SavedState
  <1> QED  BY <1>1, <1>3, <1>4, <1>5, <1>7 DEF S, C

LEMMA RevokeCutShortStep ==
    ASSUME Sound, Outside, NEW x \in Secrets, RevokeCutShort(x)
    PROVE  /\ Sound' /\ Outside' /\ UNCHANGED history
           /\ x \in Held /\ host' = [host EXCEPT !.saved = CutShort(x)] /\ host'.saved = CutShort(x)
           /\ host'.kept = host.kept
  <1> DEFINE S == Swept(Without(x))
             C == Dropped(x)
             n == history.born
             st == CutShort(x)
  <1>1. /\ x \in Held /\ host' = [host EXCEPT !.saved = st] /\ NewProcess /\ UNCHANGED history
        /\ spent' = [spent EXCEPT !.revokes = @ + 1, !.crashes = @ + 1]
    BY DEF RevokeCutShort, CutShort, Without, Dropped
  <1>2. /\ Onward(secrets, clients, S, C, n, n) /\ StoreInv(S, C, n) /\ S \in Store /\ C \in Book
        /\ StateInv(st, n) /\ StateGeneration(st) = generation + 1 /\ st \in StateT /\ st # None /\ st.clients = C
        /\ StateIds(st) = Ids(S, C) /\ \A y \in Secrets : Like(S[y], st.secrets[y])
    BY <1>1, CutShortIs
  <1> HIDE DEF S, C, st
  <1>3. host' \in HostT /\ host'.saved = st /\ host'.kept = host.kept /\ host'.generation = host.generation
    BY <1>1, <1>2, Basics DEF HostT
  <1>4. SceneKept
    <2>1. "scene" \in DOMAIN spent  BY DEF Sound, Shapes
    <2> QED  BY <1>1, <2>1 DEF SceneKept
  <1>5. /\ Sound' /\ Ids(secrets', clients') = {} /\ Held' \cup Connected' = {}
        /\ \A T, D : Across(secrets', clients', T, D)
    BY <1>1, <1>3, <1>4, ProcessStep
  <1>6. generation' = generation /\ generation \in Nat /\ n \in Nat /\ StoreInv(secrets, clients, n)
    BY <1>1, <1>3, Basics DEF NewProcess, Sound, Shapes
  <1>7. \A t \in Persisted' : StateInv(t, n)
    BY <1>2, <1>3 DEF Outside, Persisted
  <1>8. HandedOut'  BY <1>5 DEF HandedOut
  <1>9. Copied'
    <2> SUFFICES ASSUME host.kept # None
                 PROVE  Across(st.secrets, st.clients, host.kept.secrets, host.kept.clients)
      BY <1>3, <1>5 DEF Copied
    <2>1. StateInv(host.kept, n) /\ Across(secrets, clients, host.kept.secrets, host.kept.clients)
      BY OutsideIs DEF Outside, Copied
    <2>2. Across(S, C, host.kept.secrets, host.kept.clients)
      BY <1>2, <1>6, <2>1, OnwardAcross DEF StateInv
    <2> DEFINE T == st.secrets
    <2>3. \A y \in Secrets : Like(S[y], T[y])  BY <1>2
    <2> HIDE DEF T
    <2>4. Across(T, C, host.kept.secrets, host.kept.clients)
      BY <2>2, <2>3 DEF Across, SameName, Agrees, Like
    <2> QED  BY <1>2, <2>4 DEF T
  <1>10. \A i \in StateIds(st) : i \in Ids(secrets, clients)
    <2> TAKE i \in StateIds(st)
    <2>1. i \in Ids(secrets, clients) \/ (i = n + 1 /\ n = n + 1)  BY <1>2, <1>6, OnwardIds
    <2> QED  BY <1>6, <2>1
  <1>11. Revocations'
    <2>1. /\ history.revoked \subseteq 1..n /\ Ids(secrets, clients) \cap history.revoked = {}
          /\ host.kept # None /\ StateGeneration(host.kept) >= generation => StateIds(host.kept) \cap history.revoked = {}
          /\ host.kept # None /\ StateGeneration(host.kept) > generation
             => StateIds(host.kept) \cap Ids(secrets, clients) = {}
      BY DEF Outside, Revocations, Persisted
    <2>2. StateIds(st) \cap history.revoked = {}  BY <1>10, <2>1
    <2>3. host.kept # None /\ StateGeneration(host.kept) > StateGeneration(st) => StateIds(host.kept) \cap StateIds(st) = {}
      <3> SUFFICES ASSUME host.kept # None, StateGeneration(host.kept) > generation + 1
                   PROVE  StateIds(host.kept) \cap StateIds(st) = {}
        BY <1>2
      <3>1. StateGeneration(host.kept) > generation  BY <1>6, OutsideIs
      <3> QED  BY <1>10, <2>1, <3>1
    <2>4. \A t \in Persisted' : StateGeneration(t) >= generation => StateIds(t) \cap history.revoked = {}
      BY <1>3, <2>1, <2>2 DEF Persisted
    <2> QED  BY <1>1, <1>3, <1>5, <1>6, <2>1, <2>3, <2>4 DEF Revocations
  <1> QED  BY <1>1, <1>3, <1>5, <1>7, <1>8, <1>9, <1>11 DEF Outside, st

LEMMA CopyStep ==
    ASSUME Sound, Outside, Copy
    PROVE  Sound' /\ Outside' /\ UNCHANGED <<memory, history, spent>> /\ host'.saved = host.saved
  <1>1. /\ host.kept = None /\ host.saved # None /\ host' = [host EXCEPT !.kept = host.saved]
        /\ UNCHANGED <<memory, history, spent>>
    BY DEF Copy
  <1>2. host' \in HostT /\ host'.saved = host.saved /\ host'.kept = host.saved /\ host'.generation = host.generation
    BY <1>1, Basics DEF HostT
  <1>3. Sound'
    BY <1>1, <1>2 DEF memory, Sound, Shapes, RunCounts, Ceilings, Connected, Held, Scene
  <1>4. Persisted' = {host.saved} /\ host.saved \in Persisted  BY <1>1, <1>2 DEF Persisted
  <1>5. StateInv(host.saved, history.born) /\ history.born \in Nat  BY <1>1, OutsideIs, Basics
  <1>6. HandedOut'  BY <1>1, <1>2 DEF Outside, HandedOut, memory, Held, Connected
  <1>7. Copied'
    <2>1. Across(secrets, clients, host.saved.secrets, host.saved.clients)  BY <1>1, AcrossSaved
    <2>2. Across(host.saved.secrets, host.saved.clients, host.saved.secrets, host.saved.clients)
      BY <1>5, AcrossSelf DEF StateInv
    <2> QED  BY <1>1, <1>2, <2>1, <2>2 DEF Copied, memory
  <1>8. StateGeneration(host.saved) > generation => StateIds(host.saved) \cap Ids(secrets, clients) = {}
    <2> SUFFICES ASSUME StateGeneration(host.saved) > generation, NEW i \in Ids(secrets, clients)  PROVE FALSE
      OBVIOUS
    <2>1. Held \cup Connected # {}  BY InIds DEF Held, Connected
    <2>2. StateGeneration(host.saved) = generation  BY <2>1 DEF Outside, HandedOut
    <2> QED  BY <2>2, Basics
  <1>9. Revocations'
    <2>1. StateGeneration(host.saved) \in Nat  BY <1>1, OutsideIs
    <2>2. ~(StateGeneration(host.saved) > StateGeneration(host.saved))  BY <2>1
    <2>3. /\ history.revoked \subseteq 1..history.born /\ Ids(secrets, clients) \cap history.revoked = {}
          /\ StateGeneration(host.saved) >= generation => StateIds(host.saved) \cap history.revoked = {}
      BY <1>4 DEF Outside, Revocations
    <2> QED  BY <1>1, <1>2, <1>4, <1>8, <2>2, <2>3 DEF Revocations, memory
  <1> QED  BY <1>1, <1>2, <1>3, <1>4, <1>5, <1>6, <1>7, <1>9 DEF Outside

----------------------------------------------------------------------------
(* restore(): memory and a state come together.                            *)

LEMMA IncomingIs ==
    ASSUME NEW st, st.secrets \in Store
    PROVE  /\ Incoming(st) \in Store
           /\ \A x \in Secrets :
                /\ Incoming(st)[x] # None =>
                     LET r == Incoming(st)[x]
                         q == st.secrets[x]
                     IN  /\ q # None /\ r.id = q.id /\ r.relays = q.relays /\ r.client = q.client
                         /\ r.confirmed = q.confirmed /\ r.pending = q.pending
                         /\ ~r.confirmed => r.lapse # "never"
                /\ st.secrets[x] # None /\ st.secrets[x].confirmed => Incoming(st)[x] = st.secrets[x]
  <1> DEFINE T == st.secrets
             later(x) == [T[x] EXCEPT !.lapse = "later"]
  <1>1. ASSUME NEW x \in Secrets, T[x] # None
        PROVE  /\ later(x) \in SecretT /\ later(x).id = T[x].id /\ later(x).relays = T[x].relays
               /\ later(x).client = T[x].client /\ later(x).confirmed = T[x].confirmed
               /\ later(x).pending = T[x].pending /\ later(x).lapse = "later"
    <2>1. T[x] \in SecretT  BY <1>1, RecordType
    <2> HIDE DEF T
    <2> QED  BY <2>1 DEF SecretT
  <1>2. ASSUME NEW x \in Secrets
        PROVE  \/ Incoming(st)[x] = None /\ (T[x] # None => ~T[x].confirmed)
               \/ /\ Incoming(st)[x] = later(x) /\ T[x] # None /\ ~T[x].confirmed
               \/ Incoming(st)[x] = T[x] /\ (T[x] # None => T[x].confirmed \/ T[x].lapse # "never")
    BY DEF Incoming, Lapsed
  <1>3. Incoming(st) = [x \in Secrets |-> Incoming(st)[x]]
    BY DEF Incoming
  <1> HIDE DEF later
  <1>4. \A x \in Secrets : Incoming(st)[x] \in SecretT \cup {None}
    BY <1>1, <1>2 DEF Store
  <1>5. Incoming(st) \in Store
    BY <1>3, <1>4 DEF Store
  <1>6. ASSUME NEW x \in Secrets
        PROVE  /\ Incoming(st)[x] # None =>
                     LET r == Incoming(st)[x]
                         q == st.secrets[x]
                     IN  /\ q # None /\ r.id = q.id /\ r.relays = q.relays /\ r.client = q.client
                         /\ r.confirmed = q.confirmed /\ r.pending = q.pending
                         /\ ~r.confirmed => r.lapse # "never"
               /\ st.secrets[x] # None /\ st.secrets[x].confirmed => Incoming(st)[x] = st.secrets[x]
    <2>1. CASE Incoming(st)[x] = None /\ (T[x] # None => ~T[x].confirmed)
      BY <2>1
    <2>2. CASE Incoming(st)[x] = later(x) /\ T[x] # None /\ ~T[x].confirmed
      BY <1>1, <2>2
    <2>3. CASE Incoming(st)[x] = T[x] /\ (T[x] # None => T[x].confirmed \/ T[x].lapse # "never")
      BY <2>3
    <2> QED  BY <1>2, <2>1, <2>2, <2>3
  <1> QED  BY <1>5, <1>6

LEMMA MergedIs ==
    ASSUME Sound, NEW st, st.secrets \in Store, st.clients \in Book
    PROVE  /\ Merged(st) \in Store /\ Rejoined(st) \in Book
           /\ \A x \in Secrets : IF BoundHere(x) \/ Incoming(st)[x] = None THEN Merged(st)[x] = secrets[x]
                                                                          ELSE Merged(st)[x] = Incoming(st)[x]
           /\ \A c \in Clients : IF clients[c] # None THEN Rejoined(st)[c] = clients[c]
                                                      ELSE Rejoined(st)[c] = st.clients[c]
  <1>1. Incoming(st) \in Store /\ secrets \in Store /\ clients \in Book  BY IncomingIs, Basics
  <1>2. Merged(st) = [x \in Secrets |-> IF BoundHere(x) \/ Incoming(st)[x] = None THEN secrets[x] ELSE Incoming(st)[x]]
    BY DEF Merged
  <1>3. Rejoined(st) = [c \in Clients |-> IF c \in Connected THEN clients[c] ELSE st.clients[c]]
    BY DEF Rejoined
  <1>4. \A c \in Clients : c \in Connected <=> clients[c] # None  BY DEF Connected
  <1>5. Merged(st) \in Store /\ Rejoined(st) \in Book
    BY <1>1, <1>2, <1>3 DEF Store, Book
  <1> QED  BY <1>2, <1>3, <1>4, <1>5

\* A restorable state that the host has: it fits with what the process has.
Fits(st) ==
    /\ StateInv(st, history.born)
    /\ Across(secrets, clients, st.secrets, st.clients)

LEMMA FitsIs ==
    ASSUME Sound, Outside, NEW st \in {host.saved, host.kept}, st # None
    PROVE  Fits(st) /\ st \in StateT /\ StateGeneration(st) \in Nat /\ st \in Persisted
  <1>1. CASE st = host.saved  BY <1>1, OutsideIs, AcrossSaved DEF Fits, Persisted
  <1>2. CASE st = host.kept  BY <1>2, OutsideIs DEF Fits, Outside, Copied, Persisted
  <1> QED  BY <1>1, <1>2

LEMMA MergedStore ==
    ASSUME Sound, NEW st, Fits(st)
    PROVE  /\ StoreInv(Merged(st), Rejoined(st), history.born)
           /\ Merged(st) \in Store /\ Rejoined(st) \in Book
           /\ \A i \in Ids(Merged(st), Rejoined(st)) : i \in Ids(secrets, clients) \/ i \in StateIds(st)
  <1> DEFINE n == history.born
             T == st.secrets
             D == st.clients
             I == Incoming(st)
             M == Merged(st)
             J == Rejoined(st)
  <1>1. /\ n \in Nat /\ StoreInv(secrets, clients, n) /\ StoreInv(T, D, n) /\ T \in Store /\ D \in Book
        /\ Across(secrets, clients, T, D)
    BY Basics, StateParts DEF Fits
  <1>2. /\ M \in Store /\ J \in Book
        /\ \A x \in Secrets : IF BoundHere(x) \/ I[x] = None THEN M[x] = secrets[x] ELSE M[x] = I[x]
        /\ \A c \in Clients : IF clients[c] # None THEN J[c] = clients[c] ELSE J[c] = D[c]
    BY <1>1, MergedIs
  <1>3. \A x \in Secrets : I[x] # None => T[x] # None /\ I[x].id = T[x].id /\ I[x].client = T[x].client
                                          /\ I[x].confirmed = T[x].confirmed
    BY <1>1, IncomingIs
  <1> HIDE DEF M, J, I
  <1>4. \A x \in Secrets : M[x] # None =>
            \/ M[x] = secrets[x]
            \/ /\ ~BoundHere(x) /\ T[x] # None /\ M[x].id = T[x].id /\ M[x].client = T[x].client
               /\ M[x].confirmed = T[x].confirmed
    BY <1>2, <1>3
  <1>5. \A x \in Secrets : M[x] # None => M[x].id \in 1..n /\ (M[x].confirmed => M[x].client # None)
    BY <1>1, <1>4, StoreParts
  <1>6. \A c \in Clients : J[c] # None => J[c].id <= n
    BY <1>1, <1>2, StoreParts
  <1>7. SameName(M, M)
    <2> SUFFICES ASSUME NEW x \in Secrets, NEW y \in Secrets, M[x] # None, M[y] # None, M[x].id = M[y].id
                 PROVE  x = y
      BY DEF SameName
    <2>1. SameName(secrets, secrets) /\ SameName(T, T) /\ SameName(secrets, T)
      BY <1>1 DEF StoreInv, Across
    <2> QED  BY <1>4, <2>1 DEF SameName
  <1>8. Agrees(M, J)
    <2> SUFFICES ASSUME NEW c \in Clients, NEW x \in Secrets, J[c] # None, M[x] # None, J[c].id = M[x].id
                 PROVE  J[c].secret = x /\ M[x].confirmed /\ M[x].client = c
      BY DEF Agrees
    <2>1. Agrees(secrets, clients) /\ Agrees(T, D) /\ Agrees(secrets, D)
      BY <1>1 DEF StoreInv, Across
    <2>2. CASE M[x] = secrets[x]
      BY <1>2, <2>1, <2>2 DEF Agrees
    <2>3. CASE /\ ~BoundHere(x) /\ T[x] # None /\ M[x].id = T[x].id /\ M[x].client = T[x].client
               /\ M[x].confirmed = T[x].confirmed
      <3>1. CASE J[c] = clients[c]
        <4>1. /\ J[c].secret = x
              /\ \/ T[x].confirmed /\ T[x].client = c
                 \/ secrets[x] # None /\ secrets[x].id = T[x].id
          BY <1>1, <2>3, <3>1 DEF Across
        <4>2. ~(secrets[x] # None /\ secrets[x].id = T[x].id)
          <5> SUFFICES ASSUME secrets[x] # None, secrets[x].id = T[x].id  PROVE FALSE
            OBVIOUS
          <5>1. secrets[x].client = c  BY <2>1, <2>3, <3>1 DEF Agrees
          <5> QED  BY <2>3, <5>1, Names DEF BoundHere
        <4> QED  BY <2>3, <4>1, <4>2
      <3>2. CASE J[c] = D[c]
        BY <2>1, <2>3, <3>2 DEF Agrees
      <3> QED  BY <1>2, <3>1, <3>2
    <2> QED  BY <1>4, <2>2, <2>3
  <1>9. ASSUME NEW i \in Ids(M, J)  PROVE i \in Ids(secrets, clients) \/ i \in StateIds(st)
    <2>1. i # 0 /\ \/ \E x \in Secrets : M[x] # None /\ M[x].id = i
                   \/ \E c \in Clients : J[c] # None /\ J[c].id = i
      BY InIds
    <2>2. \/ \E x \in Secrets : secrets[x] # None /\ secrets[x].id = i
          \/ \E x \in Secrets : T[x] # None /\ T[x].id = i
          \/ \E c \in Clients : clients[c] # None /\ clients[c].id = i
          \/ \E c \in Clients : D[c] # None /\ D[c].id = i
      BY <1>2, <1>4, <2>1
    <2> QED  BY <2>1, <2>2, InIds DEF StateIds
  <1>10. StoreInv(M, J, n)
    BY <1>2, <1>5, <1>6, <1>7, <1>8 DEF StoreInv, Store, Book
  <1> QED  BY <1>2, <1>9, <1>10 DEF M, J

LEMMA MergedAcross ==
    ASSUME Sound, Outside, NEW st \in {host.saved, host.kept}, st # None, host.kept # None
    PROVE  Across(Merged(st), Rejoined(st), host.kept.secrets, host.kept.clients)
  <1> DEFINE n == history.born
             T == st.secrets
             D == st.clients
             I == Incoming(st)
             M == Merged(st)
             J == Rejoined(st)
             K == host.kept.secrets
             L == host.kept.clients
  <1>1. /\ n \in Nat /\ StoreInv(secrets, clients, n) /\ StoreInv(T, D, n) /\ T \in Store /\ D \in Book
    BY Basics, FitsIs, StateParts DEF Fits
  <1>2. /\ M \in Store /\ J \in Book
        /\ \A x \in Secrets : IF BoundHere(x) \/ I[x] = None THEN M[x] = secrets[x] ELSE M[x] = I[x]
        /\ \A c \in Clients : IF clients[c] # None THEN J[c] = clients[c] ELSE J[c] = D[c]
    BY <1>1, MergedIs
  <1>3. \A x \in Secrets : /\ I[x] # None => /\ T[x] # None /\ I[x].id = T[x].id /\ I[x].client = T[x].client
                                             /\ I[x].confirmed = T[x].confirmed
                           /\ T[x] # None /\ T[x].confirmed => I[x] = T[x]
    BY <1>1, IncomingIs
  <1>4. Across(secrets, clients, K, L)
    BY DEF Outside, Copied
  <1>5. Across(T, D, K, L)
    <2>1. CASE st = host.saved  BY <2>1 DEF Outside, Copied
    <2>2. CASE st = host.kept  BY <1>1, <2>2, AcrossSelf
    <2> QED  BY <2>1, <2>2
  <1>6. \A x \in Secrets : st = host.saved /\ secrets[x] # None /\ T[x] # None => secrets[x].id = T[x].id
    BY DEF Outside, HandedOut, Held, Like
  <1> HIDE DEF M, J, I
  <1>7. \A x \in Secrets : M[x] # None =>
            \/ M[x] = secrets[x]
            \/ /\ ~BoundHere(x) /\ T[x] # None /\ M[x].id = T[x].id /\ M[x].client = T[x].client
               /\ M[x].confirmed = T[x].confirmed
    BY <1>2, <1>3
  <1>8. SameName(M, K) /\ Agrees(M, L)
    BY <1>4, <1>5, <1>7 DEF Across, SameName, Agrees
  <1>9. ASSUME NEW c \in Clients, NEW x \in Secrets, J[c] # None, K[x] # None, J[c].id = K[x].id
        PROVE  /\ J[c].secret = x
               /\ \/ K[x].confirmed /\ K[x].client = c
                  \/ M[x] # None /\ M[x].id = K[x].id
    <2>1. Agrees(secrets, clients) /\ Agrees(T, D)  BY <1>1 DEF StoreInv
    <2>2. CASE J[c] = clients[c]
      <3>1. /\ J[c].secret = x
            /\ \/ K[x].confirmed /\ K[x].client = c
               \/ secrets[x] # None /\ secrets[x].id = K[x].id
        BY <1>4, <1>9, <2>2 DEF Across
      <3>2. secrets[x] # None /\ secrets[x].id = K[x].id => M[x] = secrets[x]
        <4> SUFFICES ASSUME secrets[x] # None, secrets[x].id = K[x].id  PROVE M[x] = secrets[x]
          OBVIOUS
        <4>1. secrets[x].client = c  BY <1>9, <2>1, <2>2 DEF Agrees
        <4> QED  BY <1>2, <4>1, Names DEF BoundHere
      <3> QED  BY <3>1, <3>2
    <2>3. CASE J[c] = D[c]
      <3>1. /\ J[c].secret = x
            /\ \/ K[x].confirmed /\ K[x].client = c
               \/ T[x] # None /\ T[x].id = K[x].id
        BY <1>5, <1>9, <2>3 DEF Across
      <3>2. ASSUME T[x] # None, T[x].id = K[x].id
            PROVE  \/ K[x].confirmed /\ K[x].client = c
                   \/ M[x] # None /\ M[x].id = K[x].id
        <4>1. T[x].confirmed /\ T[x].client = c /\ I[x] = T[x]
          BY <1>3, <1>9, <2>1, <2>3, <3>2 DEF Agrees
        <4>2. CASE ~BoundHere(x)  BY <1>2, <3>2, <4>1, <4>2
        <4>3. CASE BoundHere(x)
          <5>1. M[x] = secrets[x] /\ secrets[x] # None  BY <1>2, <4>3 DEF BoundHere
          <5>2. CASE st = host.saved  BY <1>6, <3>2, <5>1, <5>2
          <5>3. CASE st = host.kept  BY <4>1, <5>3
          <5> QED  BY <5>2, <5>3
        <4> QED  BY <4>2, <4>3
      <3> QED  BY <3>1, <3>2
    <2> QED  BY <1>2, <2>2, <2>3
  <1>10. Across(M, J, K, L)  BY <1>8, <1>9 DEF Across
  <1> QED  BY <1>10 DEF M, J

LEMMA SweptAcross ==
    ASSUME NEW S \in Store, NEW C, NEW n \in Nat, StoreInv(S, C, n), NEW T, NEW D, Across(S, C, T, D)
    PROVE  Across(Swept(S), C, T, D)
  <1> DEFINE Z == Swept(S)
  <1>1. \A x \in Secrets : /\ Z[x] # None => Z[x] = S[x]
                           /\ S[x] # None /\ S[x].confirmed => Z[x] = S[x]
    BY SweptIs
  <1> HIDE DEF Z
  <1>2. SameName(Z, T) /\ Agrees(Z, D)  BY <1>1 DEF Across, SameName, Agrees
  <1>3. ASSUME NEW c \in Clients, NEW x \in Secrets, C[c] # None, T[x] # None, C[c].id = T[x].id
        PROVE  /\ C[c].secret = x
               /\ \/ T[x].confirmed /\ T[x].client = c
                  \/ Z[x] # None /\ Z[x].id = T[x].id
    <2>1. /\ C[c].secret = x
          /\ \/ T[x].confirmed /\ T[x].client = c
             \/ S[x] # None /\ S[x].id = T[x].id
      BY <1>3 DEF Across
    <2>2. S[x] # None /\ S[x].id = T[x].id => S[x].confirmed
      BY <1>3 DEF StoreInv, Agrees
    <2> QED  BY <1>1, <2>1, <2>2
  <1>4. Across(Z, C, T, D)  BY <1>2, <1>3 DEF Across
  <1> QED  BY <1>4 DEF Z

LEMMA LikeAcross ==
    ASSUME NEW S, NEW C, NEW Z, NEW T, NEW D, Across(S, C, T, D), \A x \in Secrets : Like(S[x], Z[x])
    PROVE  Across(Z, C, T, D)
  BY DEF Across, SameName, Agrees, Like

LEMMA NothingPends ==
    ASSUME Sound, approvals = 0
    PROVE  /\ AwaitSet(runs) = {}
           /\ \A x \in Secrets : secrets[x] # None => secrets[x].pending = 0
  <1>1. AwaitSet(runs) = {}  BY FS_EmptySet DEF Sound, RunCounts
  <1>2. \A i : Prompts(runs, i) = {}  BY <1>1 DEF Prompts, AwaitSet
  <1> QED  BY <1>1, <1>2, FS_EmptySet DEF Sound, Pends

LEMMA RestoreIs ==
    ASSUME Sound, Outside, NEW st \in {host.saved, host.kept}, st # None, NEW old \in BOOLEAN, Restore(st, old)
    PROVE  /\ Restorable(st, generation) /\ StateGeneration(st) \in Nat /\ StateGeneration(st) >= generation
           /\ Handed(Merged(st), Rejoined(st)) /\ secrets' = Swept(Merged(st)) /\ clients' = Rejoined(st)
           /\ generation' = StateGeneration(st) /\ Saves
           /\ SceneKept /\ UNCHANGED <<seen, runs, approvals, admissions>> /\ approvals = 0
           /\ history' \in HistoryT /\ UNCHANGED <<history.born, history.revoked>>
           /\ history'.rolled = (history.rolled \/ old)
           /\ history'.admitted = history.admitted \cup {<<Rejoined(st)[c].id, c>> :
                                                          c \in {d \in Clients : Rejoined(st)[d] # None}}
  <1> DEFINE g == StateGeneration(st)
             more == {<<Rejoined(st)[c].id, c>> : c \in {d \in Clients : Rejoined(st)[d] # None}}
  <1>1. g \in Nat /\ st.secrets \in Store /\ st.clients \in Book /\ generation \in Nat /\ history \in HistoryT
        /\ history.born \in Nat
    BY FitsIs, StateParts, Basics DEF Fits
  <1>2. Restorable(st, generation) /\ g >= generation  BY DEF Restore, Restorable
  <1>3. Emit(Merged(st), Rejoined(st), g, IF g > generation THEN g ELSE host.generation)  BY DEF Restore
  <1>4. (IF g > generation THEN g ELSE host.generation) = g
    BY <1>1, <1>2 DEF Sound, Shapes
  <1> HIDE DEF g
  <1>5. Handed(Merged(st), Rejoined(st)) /\ secrets' = Swept(Merged(st)) /\ generation' = g /\ Saves
    BY <1>3, <1>4, EmitHands DEF Sound
  <1>6. clients' = Rejoined(st)  BY <1>5 DEF Handed
  <1>7. SceneKept
    <2>1. spent' = [spent EXCEPT !.restores = @ + 1]  BY DEF Restore
    <2> QED  BY <2>1 DEF SceneKept, Sound, Shapes
  <1>8. more \in SUBSET (Nat \X Clients)
    <2>1. Rejoined(st) \in Book  BY <1>1, MergedIs
    <2> QED  BY <2>1, ClientTypes
  <1>9. history' = [history EXCEPT !.rolled = @ \/ old, !.admitted = @ \cup more]
    BY DEF Restore
  <1> DEFINE b == history.rolled \/ old
             a == history.admitted \cup more
  <1>10. b \in BOOLEAN /\ a \in SUBSET (Nat \X Clients)
    BY <1>1, <1>8 DEF HistoryT
  <1>11. history' = [history EXCEPT !.rolled = b, !.admitted = a]
    BY <1>1, <1>9 DEF HistoryT
  <1>12. /\ history' \in HistoryT /\ UNCHANGED <<history.born, history.revoked>>
         /\ history'.rolled = b /\ history'.admitted = a
    <2> HIDE DEF a, b
    <2> QED  BY <1>1, <1>10, <1>11 DEF HistoryT
  <1>13. UNCHANGED <<seen, runs, approvals, admissions>> /\ approvals = 0  BY DEF Restore
  <1> QED  BY <1>1, <1>2, <1>5, <1>6, <1>7, <1>12, <1>13 DEF g

LEMMA RestoreStep ==
    ASSUME Sound, Outside, NEW st \in {host.saved, host.kept}, st # None, NEW old \in BOOLEAN, Restore(st, old)
    PROVE  Sound' /\ Outside'
  <1> DEFINE n == history.born
             g == StateGeneration(st)
             M == Merged(st)
             J == Rejoined(st)
             I == Incoming(st)
  <1>1. /\ g \in Nat /\ g >= generation /\ Handed(M, J) /\ secrets' = Swept(M) /\ clients' = J /\ generation' = g
        /\ Saves /\ SceneKept /\ UNCHANGED <<seen, runs, approvals, admissions>> /\ approvals = 0
        /\ history' \in HistoryT /\ history'.born = n /\ history'.revoked = history.revoked
    BY RestoreIs
  <1>2. /\ n \in Nat /\ generation \in Nat /\ StateInv(st, n) /\ st.secrets \in Store /\ st \in Persisted
        /\ st.clients \in Book
    BY FitsIs, Basics, StateParts DEF Fits
  <1>3. /\ StoreInv(M, J, n) /\ M \in Store /\ J \in Book
        /\ \A i \in Ids(M, J) : i \in Ids(secrets, clients) \/ i \in StateIds(st)
    BY FitsIs, MergedStore
  <1>4. \A x \in Secrets : M[x] # None =>
            \/ M[x] = secrets[x]
            \/ /\ M[x].pending = 0 /\ (~M[x].confirmed => M[x].lapse # "never")
    <2>1. \A x \in Secrets : IF BoundHere(x) \/ I[x] = None THEN M[x] = secrets[x] ELSE M[x] = I[x]
      BY <1>2, MergedIs
    <2>2. \A x \in Secrets : I[x] # None => I[x].pending = 0 /\ (~I[x].confirmed => I[x].lapse # "never")
      BY <1>2, IncomingIs DEF StateInv
    <2> HIDE DEF I, M
    <2> QED  BY <2>1, <2>2
  <1>5. /\ AwaitSet(runs) = {} /\ runs \in [Slots -> RunT]
        /\ \A x \in Secrets : secrets[x] # None => secrets[x].pending = 0
    BY <1>1, NothingPends, Basics
  <1>6. Cardinality({x \in Secrets : M[x] # None}) <= Scene.maxSecrets
        /\ Cardinality({c \in Clients : J[c] # None}) <= Scene.maxClients
    BY DEF Restore
  <1> HIDE DEF M, J, I
  <1>7. \A x \in Secrets : M[x] # None => M[x].pending = 0  BY <1>4, <1>5
  <1>8. ScansWait(M)  BY <1>4 DEF ScansWait, Sound
  <1>9. Pends(M, runs, n)  BY <1>2, <1>5, <1>7, PendsNone
  <1> DEFINE Z == Swept(M)
  <1>10. Z \in Store /\ \A x \in Secrets : Z[x] # None => Z[x] = M[x]  BY <1>3, SweptIs
  <1>11. StoreInv(Z, J, n) /\ Pends(Z, runs, n)  BY <1>2, <1>3, <1>9, SweptStore, SweptPends
  <1>12. secrets' = Z  BY <1>1
  <1> HIDE DEF Z
  <1>13. ScansWait(Z)  BY <1>8, <1>10 DEF ScansWait
  <1>14. Cardinality({x \in Secrets : Z[x] # None}) <= Scene.maxSecrets
    <2>1. /\ Cardinality({x \in Secrets : Z[x] # None}) <= Cardinality({x \in Secrets : M[x] # None})
          /\ Cardinality({x \in Secrets : Z[x] # None}) \in Nat /\ Cardinality({x \in Secrets : M[x] # None}) \in Nat
      BY <1>10, HeldFewer
    <2> QED  BY <1>6, <2>1, SceneIs
  <1>15. /\ host' \in HostT /\ host'.generation = generation' /\ host'.kept = host.kept
         /\ host'.saved = Export(Z, J, g)
    BY <1>1, <1>3, <1>10, <1>12, SavesIs
  <1>16. Sound'
    <2>1. Shapes'  BY <1>1, <1>15, Basics DEF Shapes, SceneKept, Sound
    <2>2. RunCounts'  BY <1>1 DEF RunCounts, Sound
    <2>3. Ceilings'
      <3>1. Scene' = Scene  BY <1>1 DEF Scene, SceneKept
      <3> QED  BY <1>1, <1>6, <1>12, <1>14, <3>1 DEF Ceilings, Held, Connected
    <2> QED  BY <1>1, <1>11, <1>12, <1>13, <2>1, <2>2, <2>3 DEF Sound
  <1>17. /\ StateInv(host'.saved, n) /\ StateIds(host'.saved) = Ids(Z, J) /\ StateGeneration(host'.saved) = g
         /\ host'.saved # None /\ host'.saved.clients = J /\ \A x \in Secrets : Like(Z[x], host'.saved.secrets[x])
    BY <1>1, <1>2, <1>11, <1>15, SavedState
  <1>18. \A t \in Persisted' : StateInv(t, n)
    BY <1>15, <1>17 DEF Outside, Persisted
  <1>19. HandedOut'
    BY <1>1, <1>12, <1>17 DEF HandedOut
  <1>20. Copied'
    <2> SUFFICES ASSUME host.kept # None
                 PROVE  /\ Across(Z, J, host.kept.secrets, host.kept.clients)
                        /\ Across(host'.saved.secrets, J, host.kept.secrets, host.kept.clients)
      BY <1>1, <1>12, <1>15, <1>17 DEF Copied
    <2>1. Across(M, J, host.kept.secrets, host.kept.clients)  BY MergedAcross DEF M, J
    <2>2. Across(Z, J, host.kept.secrets, host.kept.clients)  BY <1>2, <1>3, <2>1, SweptAcross DEF Z
    <2> QED  BY <1>17, <2>2, LikeAcross
  <1>21. \A i \in Ids(Z, J) : i \in Ids(secrets, clients) \/ i \in StateIds(st)
    BY <1>3, <1>10, InIds
  <1>22. Revocations'
    <2>1. /\ history.revoked \subseteq 1..n /\ Ids(secrets, clients) \cap history.revoked = {}
          /\ StateIds(st) \cap history.revoked = {}
          /\ host.kept # None /\ StateGeneration(host.kept) >= generation => StateIds(host.kept) \cap history.revoked = {}
          /\ host.kept # None /\ StateGeneration(host.kept) > generation
             => StateIds(host.kept) \cap Ids(secrets, clients) = {}
          /\ host.kept # None /\ host.saved # None /\ StateGeneration(host.kept) > StateGeneration(host.saved)
             => StateIds(host.kept) \cap StateIds(host.saved) = {}
      BY <1>1, <1>2 DEF Outside, Revocations, Persisted
    <2>2. host.kept # None => StateGeneration(host.kept) \in Nat  BY OutsideIs
    <2>3. Ids(Z, J) \cap history.revoked = {}  BY <1>21, <2>1
    <2>4. host.kept # None /\ StateGeneration(host.kept) > g => StateIds(host.kept) \cap Ids(Z, J) = {}
      <3> SUFFICES ASSUME host.kept # None, StateGeneration(host.kept) > g
                   PROVE  StateIds(host.kept) \cap Ids(Z, J) = {}
        OBVIOUS
      <3>1. StateGeneration(host.kept) > generation  BY <1>1, <1>2, <2>2
      <3>2. st # host.kept  BY <1>1
      <3> QED  BY <1>21, <2>1, <3>1, <3>2
    <2>5. host.kept # None /\ StateGeneration(host.kept) >= g => StateIds(host.kept) \cap history.revoked = {}
      BY <1>1, <1>2, <2>1, <2>2
    <2>6. \A t \in Persisted' : StateGeneration(t) >= g => StateIds(t) \cap history.revoked = {}
      BY <1>15, <1>17, <2>3, <2>5 DEF Persisted
    <2> QED  BY <1>1, <1>12, <1>15, <1>17, <2>1, <2>3, <2>4, <2>6 DEF Revocations
  <1> QED  BY <1>1, <1>16, <1>18, <1>19, <1>20, <1>22 DEF Outside

----------------------------------------------------------------------------
(* Who was admitted.                                                       *)

LEMMA SavedOwnsToo ==
    ASSUME NEW S, NEW C, NEW T, NEW A \in SUBSET (Nat \X Clients), OneOwner(A), Owned(S, A), Admitted(C, A),
           \A x \in Secrets : Like(S[x], T[x])
    PROVE  SavedOwns(T, C, A)
  <1>1. Owned(T, A)  BY DEF Owned, Like
  <1>2. ASSUME NEW c \in Clients, NEW p \in A, C[c] # None, C[c].id = p[1], p[1] # 0
        PROVE  p[2] = c
    <2>1. <<C[c].id, c>> \in A  BY <1>2 DEF Admitted
    <2> QED  BY <1>2, <2>1 DEF OneOwner
  <1>3. ASSUME NEW c \in Clients, NEW d \in Clients, C[c] # None, C[d] # None, C[c].id = C[d].id, C[c].id # 0
        PROVE  c = d
    <2>1. <<C[c].id, c>> \in A /\ <<C[d].id, d>> \in A  BY <1>3 DEF Admitted
    <2> DEFINE p == <<C[c].id, c>>
               q == <<C[d].id, d>>
    <2>2. p \in A /\ q \in A /\ p[1] = q[1] /\ p[1] # 0 /\ p[2] = c /\ q[2] = d  BY <1>3, <2>1
    <2> HIDE DEF p, q
    <2> QED  BY <2>2 DEF OneOwner
  <1> QED  BY <1>1, <1>2, <1>3 DEF SavedOwns

LEMMA NewState ==
    ASSUME Sound, Sound', Saves
    PROVE  /\ host'.saved.clients = clients' /\ host'.saved # None
           /\ \A x \in Secrets : Like(secrets'[x], host'.saved.secrets[x])
  <1>1. /\ history'.born \in Nat /\ generation' \in Nat /\ StoreInv(secrets', clients', history'.born)
    BY DEF Sound, Shapes, HistoryT
  <1>2. secrets' \in Store /\ clients' \in Book  BY <1>1, StoreParts
  <1>3. host'.saved = Export(secrets', clients', generation')  BY <1>1, <1>2, SavesIs
  <1> QED  BY <1>1, <1>3, SavedState

\* Whom an ordinary step admits: nobody, or the client of the record that it confirms.
Admits(E) ==
    \/ E = {}
    \/ /\ Saves
       /\ \E i \in Nat, c \in Clients :
            /\ E = {<<i, c>>}
            /\ \/ i = 0
               \/ \E x \in Secrets : /\ secrets[x] # None /\ secrets[x].id = i /\ secrets[x].client = c
                                     /\ secrets'[x] # None /\ secrets'[x].id = i
                                     /\ secrets'[x].confirmed /\ secrets'[x].client = c

LEMMA OrdinaryOwners ==
    ASSUME Sound, Sound', Owners, Ordinary, history'.rolled = history.rolled,
           NEW E, Admits(E), history'.admitted = history.admitted \cup E,
           \A c \in Clients : clients'[c] # None => clients'[c] = clients[c] \/ <<clients'[c].id, c>> \in E
    PROVE  Owners'
  <1> DEFINE A == history.admitted
             B == A \cup E
             n == history.born
             m == history'.born
  <1>1. /\ n \in Nat /\ m \in Nat /\ n <= m /\ StoreInv(secrets, clients, n) /\ StoreInv(secrets', clients', m)
        /\ A \in SUBSET (Nat \X Clients) /\ B \in SUBSET (Nat \X Clients)
        /\ Onward(secrets, clients, secrets', clients', n, m)
    <2>1. /\ n \in Nat /\ m \in Nat /\ StoreInv(secrets, clients, n) /\ StoreInv(secrets', clients', m)
          /\ A \in SUBSET (Nat \X Clients) /\ B \in SUBSET (Nat \X Clients)
      BY DEF Sound, Shapes, HistoryT
    <2> QED  BY <2>1 DEF Ordinary, Onward
  <1>2. /\ \A p \in A : p[1] <= n /\ p[1] \in Nat
        /\ ~history.rolled => /\ OneOwner(A) /\ Owned(secrets, A) /\ Admitted(clients, A)
                              /\ host.saved # None => SavedOwns(host.saved.secrets, host.saved.clients, A)
    <2>1. \A p \in A : p[1] \in Nat  BY <1>1
    <2> QED  BY <2>1 DEF Owners
  <1>3. \A x \in Secrets : /\ secrets[x] # None => secrets[x].id \in Nat /\ secrets[x].id > 0 /\ secrets[x].id <= n
                           /\ secrets'[x] # None => secrets'[x].id \in Nat /\ secrets'[x].id > 0
    BY <1>1, StoreParts
  <1>4. \A p \in B : p[1] <= m
    <2>1. \A p \in A : p[1] <= m  BY <1>1, <1>2
    <2>2. \A p \in E : p[1] <= m
      <3>1. CASE E = {}  BY <3>1
      <3>2. CASE E # {}
        <4>1. PICK i \in Nat, c \in Clients :
                /\ E = {<<i, c>>}
                /\ i = 0 \/ \E x \in Secrets : secrets[x] # None /\ secrets[x].id = i
          BY <3>2 DEF Admits
        <4>2. i <= m  BY <1>1, <1>3, <4>1
        <4> QED  BY <4>1, <4>2
      <3> QED  BY <3>1, <3>2
    <2> QED  BY <2>1, <2>2
  <1>5. ASSUME ~history.rolled
        PROVE  OneOwner(B) /\ Owned(secrets', B) /\ Admitted(clients', B)
    <2>1. OneOwner(A) /\ Owned(secrets, A) /\ Admitted(clients, A)  BY <1>2, <1>5
    <2>2. \A p \in E, q \in B : p[1] = q[1] /\ p[1] # 0 => p[2] = q[2]
      <3>1. CASE E = {}  BY <3>1
      <3>2. CASE E # {}
        <4>1. PICK i \in Nat, c \in Clients :
                /\ E = {<<i, c>>}
                /\ i = 0 \/ \E x \in Secrets : secrets[x] # None /\ secrets[x].id = i /\ secrets[x].client = c
          BY <3>2 DEF Admits
        <4>2. \A q \in A : q[1] = i /\ i # 0 => q[2] = c  BY <2>1, <4>1 DEF Owned
        <4> QED  BY <4>1, <4>2
      <3> QED  BY <3>1, <3>2
    <2>3. OneOwner(B)  BY <2>1, <2>2 DEF OneOwner
    <2>4. Owned(secrets', A)
      <3> SUFFICES ASSUME NEW p \in A, NEW x \in Secrets, secrets'[x] # None, secrets'[x].id = p[1]
                   PROVE  secrets'[x].confirmed /\ secrets'[x].client = p[2]
        BY DEF Owned
      <3>1. p[1] # n + 1  BY <1>1, <1>2
      <3>2. GoesOn(secrets'[x], secrets[x])  BY <1>1, <3>1 DEF Onward
      <3> QED  BY <2>1, <3>2 DEF GoesOn, Owned
    <2>5. Owned(secrets', E)
      <3>1. CASE E = {}  BY <3>1 DEF Owned
      <3>2. CASE E # {}
        <4>1. PICK i \in Nat, c \in Clients :
                /\ E = {<<i, c>>}
                /\ \/ i = 0
                   \/ \E x \in Secrets : secrets'[x] # None /\ secrets'[x].id = i
                                         /\ secrets'[x].confirmed /\ secrets'[x].client = c
          BY <3>2 DEF Admits
        <4>2. \A x, y \in Secrets : secrets'[x] # None /\ secrets'[y] # None /\ secrets'[x].id = secrets'[y].id => x = y
          BY <1>1 DEF StoreInv, SameName
        <4> QED  BY <1>3, <4>1, <4>2 DEF Owned
      <3> QED  BY <3>1, <3>2
    <2>6. Admitted(clients', B)  BY <2>1 DEF Admitted
    <2> QED  BY <2>3, <2>4, <2>5, <2>6 DEF Owned
  <1>6. ASSUME ~history.rolled, host'.saved # None
        PROVE  SavedOwns(host'.saved.secrets, host'.saved.clients, B)
    <2>1. CASE Saves
      <3>1. /\ host'.saved.clients = clients' /\ \A x \in Secrets : Like(secrets'[x], host'.saved.secrets[x])
        BY <2>1, NewState
      <3> QED  BY <1>1, <1>5, <1>6, <3>1, SavedOwnsToo
    <2>2. CASE ~Saves
      <3>1. host' = host  BY <2>2 DEF Ordinary, Silent
      <3>2. B = A  BY <2>2 DEF Admits
      <3> QED  BY <1>2, <1>6, <3>1, <3>2
    <2> QED  BY <2>1, <2>2
  <1>7. history'.admitted = B  OBVIOUS
  <1> HIDE DEF B
  <1> QED  BY <1>4, <1>5, <1>6, <1>7 DEF Owners

Whole == Sound /\ Outside /\ Owners

LEMMA WholeIs == IInv <=> Whole
  BY DEF IInv, Whole, Outside

NobodyNew == \A c \in Clients : clients'[c] \in {clients[c], None}

LEMMA PlainStep ==
    ASSUME Whole, Sound', Ordinary, generation' = generation, NobodyNew,
           UNCHANGED <<history.revoked, history.admitted, history.rolled>>
    PROVE  Whole'
  <1>1. Outside'  BY OrdinaryOutside DEF Whole
  <1>2. Admits({}) /\ history'.admitted = history.admitted \cup {}  BY DEF Admits
  <1>3. \A c \in Clients : clients'[c] # None => clients'[c] = clients[c]  BY DEF NobodyNew
  <1>4. Owners'  BY <1>2, <1>3, OrdinaryOwners DEF Whole
  <1> QED  BY <1>1, <1>4 DEF Whole

LEMMA ForgetNobody ==
    ASSUME Sound, NEW s, NEW c, NEW g, NEW told, Forget(s, c, g, told)
    PROVE  NobodyNew
  <1>1. clients' = [clients EXCEPT ![c] = None] /\ clients \in Book  BY Basics DEF Forget, Emit
  <1> QED  BY <1>1 DEF NobodyNew, Book

LEMMA RunStep ==
    ASSUME Whole, NEW k \in Slots,
           \/ \E r \in Scene.requests : Deliver(k, r)
           \/ \E u \in Scene.scans : Scan(k, u)
           \/ Reject(k)
           \/ Discard(k)
           \/ Sent(k)
           \/ \E ok \in BOOLEAN : Answer(k, ok)
    PROVE  Whole'
  <1>1. ASSUME NEW r \in Scene.requests, Deliver(k, r)  PROVE Whole'
    <2>1. clients' = clients
      BY <1>1 DEF Deliver, Connect, EmitIf, Emit
    <2>2. Sound' /\ Ordinary /\ generation' = generation /\ UNCHANGED history  BY <1>1, DeliverStep DEF Whole
    <2> QED  BY <2>1, <2>2, PlainStep DEF NobodyNew
  <1>2. ASSUME NEW u \in Scene.scans, Scan(k, u)  PROVE Whole'
    <2>1. clients' = clients  BY <1>2 DEF Scan, Keep, Emit
    <2>2. Sound' /\ Ordinary /\ generation' = generation
          /\ UNCHANGED <<history.revoked, history.admitted, history.rolled>>
      BY <1>2, ScanStep DEF Whole
    <2> QED  BY <2>1, <2>2, PlainStep DEF NobodyNew
  <1>3. ASSUME Reject(k)  PROVE Whole'
    <2>1. clients' = clients  BY <1>3 DEF Reject, EmitIf, Emit
    <2>2. Sound' /\ Ordinary /\ generation' = generation /\ UNCHANGED history  BY <1>3, RejectStep DEF Whole
    <2> QED  BY <2>1, <2>2, PlainStep DEF NobodyNew
  <1>4. ASSUME Discard(k)  PROVE Whole'
    <2>1. clients' = clients  BY <1>4 DEF Discard, EmitIf, Emit
    <2>2. Sound' /\ Ordinary /\ generation' = generation /\ UNCHANGED history  BY <1>4, DiscardStep DEF Whole
    <2> QED  BY <2>1, <2>2, PlainStep DEF NobodyNew
  <1>5. ASSUME Sent(k)  PROVE Whole'
    <2>1. NobodyNew
      <3>1. Forget(secrets, runs[k].by, generation, host.generation) \/ clients' = clients  BY <1>5 DEF Sent
      <3> QED  BY <3>1, ForgetNobody DEF NobodyNew, Whole
    <2>2. Sound' /\ Ordinary /\ generation' = generation /\ UNCHANGED history  BY <1>5, SentStep DEF Whole
    <2> QED  BY <2>1, <2>2, PlainStep
  <1>6. ASSUME NEW ok \in BOOLEAN, Answer(k, ok)  PROVE Whole'
    <2>1. clients' = clients  BY <1>6 DEF Answer
    <2>2. Sound' /\ Ordinary /\ generation' = generation /\ UNCHANGED history  BY <1>6, AnswerStep DEF Whole
    <2> QED  BY <2>1, <2>2, PlainStep DEF NobodyNew
  <1> QED  BY <1>1, <1>2, <1>3, <1>4, <1>5, <1>6

LEMMA ApproveKeeps ==
    ASSUME Whole, NEW k \in Slots, Approve(k)
    PROVE  Whole'
  <1> DEFINE c == runs[k].by
             x == runs[k].secret
             i == runs[k].rec
             s == IF HoldsRecord(k) THEN Confirmed(secrets, x, IF runs[k].do = "scan" THEN runs[k].relays
                                                             ELSE secrets[x].relays)
                                  ELSE secrets
             C == [clients EXCEPT ![c] = [secret |-> x, id |-> i, relays |-> runs[k].relays]]
  <1>1. /\ Sound' /\ Ordinary /\ generation' = generation /\ UNCHANGED <<history.revoked, history.rolled>>
    BY ApproveStep DEF Whole
  <1>2. Outside'  BY <1>1, OrdinaryOutside DEF Whole
  <1>3. Awaiting(k) /\ (i = 0 \/ HoldsRecord(k)) /\ Keep(s, C)
        /\ history' = [history EXCEPT !.admitted = @ \cup {<<i, c>>}]
    BY DEF Approve
  <1>4. Saves /\ secrets' = Swept(s) /\ clients' = C
    BY <1>3, KeepHands DEF Whole, Sound, Handed
  <1>5. c \in Clients /\ i \in Nat /\ secrets \in Store /\ clients \in Book /\ runs[k].relays \in Relays
    BY <1>3, AwaitingIs, Basics DEF Whole
  <1>6. history'.admitted = history.admitted \cup {<<i, c>>}
    BY <1>3, Basics DEF HistoryT, Whole
  <1>7. Admits({<<i, c>>})
    <2>1. CASE HoldsRecord(k)
      <3>1. x \in Secrets /\ secrets[x] # None /\ secrets[x].id = i /\ secrets[x].client = c /\ secrets[x].pending > 0
            /\ secrets[x].relays \in Relays
        BY <1>3, <1>5, <2>1, AwaitingIs, RecordType DEF Whole
      <3> DEFINE R == IF runs[k].do = "scan" THEN runs[k].relays ELSE secrets[x].relays
      <3>2. R \in Relays /\ s = Confirmed(secrets, x, R)  BY <1>5, <2>1, <3>1
      <3> HIDE DEF s, R, i, c, x
      <3>3. s \in Store /\ s[x] # None /\ s[x].id = i /\ s[x].client = c /\ s[x].confirmed
        BY <1>5, <3>1, <3>2, ConfirmedIs
      <3>4. Swept(s)[x] = s[x]  BY <3>1, <3>3, SweptIs
      <3> QED  BY <1>4, <1>5, <3>1, <3>3, <3>4 DEF Admits
    <2>2. CASE i = 0  BY <1>4, <1>5, <2>2 DEF Admits
    <2> QED  BY <1>3, <2>1, <2>2
  <1>8. \A d \in Clients : clients'[d] # None => clients'[d] = clients[d] \/ <<clients'[d].id, d>> \in {<<i, c>>}
    BY <1>4, <1>5 DEF Book
  <1> HIDE DEF i, c
  <1>9. Owners'  BY <1>1, <1>6, <1>7, <1>8, OrdinaryOwners DEF Whole
  <1> QED  BY <1>1, <1>2, <1>9 DEF Whole

LEMMA HostStep ==
    ASSUME Whole,
           \/ \E x \in Secrets, R \in Relays, lapse \in {"later", "never"} : Mint(x, R, lapse)
           \/ \E x \in Secrets : Lapse(x)
           \/ \E c \in Clients : Kick(c)
           \/ Sweep
    PROVE  Whole'
  <1>1. ASSUME NEW x \in Secrets, NEW R \in Relays, NEW lapse \in {"later", "never"}, Mint(x, R, lapse)  PROVE Whole'
    <2>1. clients' = clients  BY <1>1 DEF Mint, Keep, Emit
    <2>2. Sound' /\ Ordinary /\ generation' = generation
          /\ UNCHANGED <<history.revoked, history.admitted, history.rolled>>
      BY <1>1, MintStep DEF Whole
    <2> QED  BY <2>1, <2>2, PlainStep DEF NobodyNew
  <1>2. ASSUME NEW x \in Secrets, Lapse(x)  PROVE Whole'
    <2>1. clients' = clients  BY <1>2 DEF Lapse
    <2>2. Sound' /\ Ordinary /\ generation' = generation /\ UNCHANGED history  BY <1>2, LapseStep DEF Whole
    <2> QED  BY <2>1, <2>2, PlainStep DEF NobodyNew
  <1>3. ASSUME NEW c \in Clients, Kick(c)  PROVE Whole'
    <2>1. NobodyNew  BY <1>3, ForgetNobody DEF Kick, Whole
    <2>2. Sound' /\ Ordinary /\ generation' = generation /\ UNCHANGED history  BY <1>3, KickStep DEF Whole
    <2> QED  BY <2>1, <2>2, PlainStep
  <1>4. ASSUME Sweep  PROVE Whole'
    <2>1. clients' = clients  BY <1>4 DEF Sweep, Keep, Emit
    <2>2. Sound' /\ Ordinary /\ generation' = generation /\ UNCHANGED history  BY <1>4, SweepStep DEF Whole
    <2> QED  BY <2>1, <2>2, PlainStep DEF NobodyNew
  <1> QED  BY <1>1, <1>2, <1>3, <1>4

LEMMA RevokeKeeps ==
    ASSUME Whole, NEW x \in Secrets, Revoke(x)
    PROVE  Whole'
  <1>1. /\ Sound' /\ Ordinary /\ generation' = generation + 1
        /\ secrets[x].id \in Ids(secrets, clients) /\ secrets[x].id \in 1..history.born
        /\ secrets[x].id \notin Ids(secrets', clients')
        /\ history'.revoked = history.revoked \cup {secrets[x].id}
        /\ UNCHANGED <<history.born, history.admitted, history.rolled>> /\ Saves
    BY RevokeStep DEF Whole
  <1>2. Outside'  BY <1>1, OrdinaryOutside DEF Whole
  <1>3. \A c \in Clients : clients'[c] \in {clients[c], None}
    <2>1. clients' = [c \in Clients |-> IF c \in Through(x) THEN None ELSE clients[c]]  BY DEF Revoke, Emit
    <2> QED  BY <2>1
  <1>4. Admits({}) /\ history'.admitted = history.admitted \cup {}  BY <1>1 DEF Admits
  <1>5. Owners'  BY <1>1, <1>3, <1>4, OrdinaryOwners DEF Whole
  <1> QED  BY <1>1, <1>2, <1>5 DEF Whole

LEMMA CrashKeeps ==
    ASSUME Whole, Crash
    PROVE  Whole'
  <1>1. Sound' /\ Outside' /\ UNCHANGED <<host, history>>  BY CrashStep DEF Whole
  <1>2. (\A x \in Secrets : secrets'[x] = None) /\ (\A c \in Clients : clients'[c] = None)
    BY DEF Crash, NewProcess
  <1>3. Owners'  BY <1>1, <1>2 DEF Whole, Owners, Owned, Admitted
  <1> QED  BY <1>1, <1>3 DEF Whole

LEMMA CutShortKeeps ==
    ASSUME Whole, NEW x \in Secrets, RevokeCutShort(x)
    PROVE  Whole'
  <1> DEFINE A == history.admitted
             S == Swept(Without(x))
             C == Dropped(x)
             st == CutShort(x)
  <1>1. Sound' /\ Outside' /\ UNCHANGED history /\ x \in Held /\ host'.saved = st
    BY RevokeCutShortStep DEF Whole
  <1>2. (\A y \in Secrets : secrets'[y] = None) /\ (\A c \in Clients : clients'[c] = None)
    BY DEF RevokeCutShort, NewProcess
  <1>3. /\ \A y \in Secrets : S[y] # None => S[y] = secrets[y]
        /\ \A c \in Clients : C[c] # None => C[c] = clients[c]
        /\ st.clients = C /\ \A y \in Secrets : Like(S[y], st.secrets[y])
    BY <1>1, CutShortIs DEF Whole
  <1>4. A \in SUBSET (Nat \X Clients)  BY Basics DEF HistoryT, Whole
  <1> HIDE DEF S, C, st
  <1>5. ASSUME ~history.rolled
        PROVE  SavedOwns(st.secrets, st.clients, A)
    <2>1. OneOwner(A) /\ Owned(secrets, A) /\ Admitted(clients, A)  BY <1>5 DEF Whole, Owners
    <2>2. Owned(S, A) /\ Admitted(C, A)  BY <1>3, <2>1 DEF Owned, Admitted
    <2> QED  BY <1>3, <1>4, <2>1, <2>2, SavedOwnsToo
  <1>6. Owners'  BY <1>1, <1>2, <1>5 DEF Whole, Owners, Owned, Admitted
  <1> QED  BY <1>1, <1>6 DEF Whole

LEMMA CopyKeeps ==
    ASSUME Whole, Copy
    PROVE  Whole'
  <1>1. Sound' /\ Outside' /\ UNCHANGED <<memory, history, spent>> /\ host'.saved = host.saved
    BY CopyStep DEF Whole
  <1>2. Owners'  BY <1>1 DEF Whole, Owners, memory
  <1> QED  BY <1>1, <1>2 DEF Whole

LEMMA RejoinedOwners ==
    ASSUME Whole, host.saved # None, ~history.rolled
    PROVE  LET C == Rejoined(host.saved)
               B == history.admitted \cup {<<C[c].id, c>> : c \in {d \in Clients : C[d] # None}}
           IN  OneOwner(B) /\ Owned(Merged(host.saved), B) /\ Admitted(C, B)
  <1> DEFINE st == host.saved
             T == st.secrets
             D == st.clients
             I == Incoming(st)
             M == Merged(st)
             C == Rejoined(st)
             A == history.admitted
             E == {<<C[c].id, c>> : c \in {d \in Clients : C[d] # None}}
             B == A \cup E
             n == history.born
  <1>1. /\ n \in Nat /\ StoreInv(M, C, n) /\ M \in Store /\ C \in Book /\ T \in Store /\ D \in Book
        /\ A \in SUBSET (Nat \X Clients)
    BY FitsIs, MergedStore, StateParts, Basics DEF Fits, Whole, HistoryT
  <1>2. /\ \A x \in Secrets : IF BoundHere(x) \/ I[x] = None THEN M[x] = secrets[x] ELSE M[x] = I[x]
        /\ \A c \in Clients : IF clients[c] # None THEN C[c] = clients[c] ELSE C[c] = D[c]
    BY <1>1, MergedIs DEF Whole
  <1>3. \A x \in Secrets : I[x] # None => T[x] # None /\ I[x].id = T[x].id /\ I[x].client = T[x].client
                                          /\ I[x].confirmed = T[x].confirmed
    BY <1>1, IncomingIs
  <1>4. /\ OneOwner(A) /\ Owned(secrets, A) /\ Admitted(clients, A) /\ SavedOwns(T, D, A)
    BY DEF Whole, Owners
  <1> HIDE DEF M, C, I, T, D
  <1>5. \A c \in Clients, p \in A : C[c] # None /\ C[c].id = p[1] /\ p[1] # 0 => p[2] = c
    <2> SUFFICES ASSUME NEW c \in Clients, NEW p \in A, C[c] # None, C[c].id = p[1], p[1] # 0
                 PROVE  p[2] = c
      OBVIOUS
    <2>1. CASE clients[c] # None
      <3>1. C[c] = clients[c]  BY <1>2, <2>1
      <3> DEFINE q == <<clients[c].id, c>>
      <3>2. q \in A /\ q[1] = p[1] /\ q[2] = c  BY <1>4, <2>1, <3>1 DEF Admitted
      <3> HIDE DEF q
      <3> QED  BY <1>4, <3>2 DEF OneOwner
    <2>2. CASE clients[c] = None
      <3>1. C[c] = D[c]  BY <1>2, <2>2
      <3> QED  BY <1>4, <3>1 DEF SavedOwns
    <2> QED  BY <2>1, <2>2
  <1>6. \A c, d \in Clients : C[c] # None /\ C[d] # None /\ C[c].id = C[d].id /\ C[c].id # 0 => c = d
    <2>1. ASSUME NEW c \in Clients, NEW d \in Clients, C[c] # None, C[d] # None, C[c].id = C[d].id, C[c].id # 0,
                 clients[c] # None
          PROVE  c = d
      <3> DEFINE q == <<C[c].id, c>>
      <3>1. q \in A /\ q[1] = C[c].id /\ q[2] = c  BY <1>2, <1>4, <2>1 DEF Admitted
      <3> HIDE DEF q
      <3> QED  BY <1>5, <2>1, <3>1
    <2>2. ASSUME NEW c \in Clients, NEW d \in Clients, C[c] # None, C[d] # None, C[c].id = C[d].id, C[c].id # 0,
                 clients[c] = None, clients[d] = None
          PROVE  c = d
      BY <1>2, <1>4, <2>2 DEF SavedOwns
    <2> QED  BY <2>1, <2>2
  <1>7. \A p \in E : \E c \in Clients : p = <<C[c].id, c>> /\ C[c] # None /\ p[1] = C[c].id /\ p[2] = c
    OBVIOUS
  <1>8. Admitted(C, B)  BY DEF Admitted
  <1>9. \A x \in Secrets : M[x] # None =>
            \/ M[x] = secrets[x]
            \/ T[x] # None /\ M[x].id = T[x].id /\ M[x].client = T[x].client /\ M[x].confirmed = T[x].confirmed
    BY <1>2, <1>3
  <1>10. Owned(M, A)
    BY <1>4, <1>9 DEF Owned, SavedOwns
  <1> HIDE DEF E
  <1>11. OneOwner(B)
    <2>1. \A p, q \in A : p[1] = q[1] /\ p[1] # 0 => p[2] = q[2]  BY <1>4 DEF OneOwner
    <2>2. \A p \in A, q \in E : p[1] = q[1] /\ p[1] # 0 => p[2] = q[2]  BY <1>5, <1>7
    <2>3. \A p, q \in E : p[1] = q[1] /\ p[1] # 0 => p[2] = q[2]  BY <1>6, <1>7
    <2> QED  BY <2>1, <2>2, <2>3 DEF OneOwner
  <1>12. Owned(M, E)
    <2>1. Agrees(M, C)  BY <1>1 DEF StoreInv
    <2> QED  BY <1>7, <2>1 DEF Agrees, Owned
  <1>13. Owned(M, B)  BY <1>10, <1>12 DEF Owned
  <1> QED  BY <1>8, <1>11, <1>13 DEF M, C, E

LEMMA RestoreKeeps ==
    ASSUME Whole, NEW st \in {host.saved, host.kept}, st # None, NEW old \in BOOLEAN, Restore(st, old),
           ~old => st = host.saved
    PROVE  Whole'
  <1> DEFINE C == Rejoined(st)
             M == Merged(st)
             A == history.admitted
             E == {<<C[c].id, c>> : c \in {d \in Clients : C[d] # None}}
             B == A \cup E
             n == history.born
  <1>1. Sound' /\ Outside'  BY RestoreStep DEF Whole
  <1>2. /\ secrets' = Swept(M) /\ clients' = C /\ Saves /\ history'.born = n
        /\ history' \in HistoryT /\ history'.rolled = (history.rolled \/ old) /\ history'.admitted = B
    BY RestoreIs DEF Whole
  <1>3. StoreInv(M, C, n) /\ n \in Nat /\ M \in Store  BY FitsIs, MergedStore, Basics DEF Whole
  <1>4. /\ host'.saved.clients = clients' /\ host'.saved # None
        /\ \A x \in Secrets : Like(secrets'[x], host'.saved.secrets[x])
    BY <1>1, <1>2, NewState DEF Whole
  <1>5. \A p \in B : p[1] <= n
    <2>1. \A p \in A : p[1] <= n  BY DEF Whole, Owners
    <2>2. \A c \in Clients : C[c] # None => C[c].id <= n  BY <1>3, StoreParts
    <2> HIDE DEF C
    <2> QED  BY <2>1, <2>2
  <1>6. ASSUME ~history'.rolled
        PROVE  /\ OneOwner(B) /\ Owned(secrets', B) /\ Admitted(clients', B)
               /\ SavedOwns(host'.saved.secrets, host'.saved.clients, B)
    <2>1. ~history.rolled /\ st = host.saved  BY <1>2, <1>6
    <2>2. OneOwner(B) /\ Owned(M, B) /\ Admitted(C, B)  BY <2>1, RejoinedOwners
    <2>3. B \in SUBSET (Nat \X Clients)  BY <1>2 DEF HistoryT
    <2> HIDE DEF B, M, C
    <2>4. \A x \in Secrets : Swept(M)[x] # None => Swept(M)[x] = M[x]  BY <1>3, SweptIs
    <2>5. Owned(secrets', B)  BY <1>2, <2>2, <2>4 DEF Owned
    <2> QED  BY <1>2, <1>4, <2>2, <2>3, <2>5, SavedOwnsToo
  <1> HIDE DEF B
  <1>7. Owners'  BY <1>2, <1>5, <1>6 DEF Owners
  <1> QED  BY <1>1, <1>7 DEF Whole

----------------------------------------------------------------------------
(* The invariant holds at first, and every step keeps it.                  *)

LEMMA LegacyIs ==
    ASSUME NEW c \in Clients, NEW x \in Secrets, NEW R \in Relays
    PROVE  LET st == Legacy(c, x, R)
           IN  /\ st \in StateT /\ StateInv(st, 1)
               /\ \A d, e \in Clients : st.clients[d] # None /\ st.clients[e] # None => d = e
  <1> DEFINE st == Legacy(c, x, R)
             cl == [secret |-> x, id |-> 1, relays |-> R]
             r  == [id |-> 1, relays |-> R, client |-> c, confirmed |-> TRUE, pending |-> 0,
                    origin |-> "bunker", lapse |-> "never"]
             T  == [y \in Secrets |-> IF y # x THEN None ELSE r]
             D  == [d \in Clients |-> IF d = c THEN cl ELSE None]
  <1>1. cl \in ClientT /\ cl.id = 1 /\ cl.secret = x  BY DEF ClientT
  <1>2. r \in SecretT /\ r.id = 1 /\ r.client = c /\ r.confirmed /\ r.pending = 0  BY DEF SecretT
  <1>3. st = [signed |-> FALSE, generation |-> 0, clients |-> D, secrets |-> T]
    BY DEF Legacy
  <1> HIDE DEF cl, r
  <1>4. /\ T \in [Secrets -> SecretT \cup {None}] /\ D \in [Clients -> ClientT \cup {None}]
        /\ \A y \in Secrets : T[y] # None => y = x /\ T[y] = r
        /\ \A d \in Clients : D[d] # None => d = c /\ D[d] = cl
    BY <1>1, <1>2
  <1> HIDE DEF T, D, st
  <1>5. st.secrets = T /\ st.clients = D  BY <1>3
  <1>6. st \in StateT  BY <1>3, <1>4 DEF StateT
  <1>7. StoreInv(T, D, 1)
    BY <1>1, <1>2, <1>4, Names DEF StoreInv, SameName, Agrees
  <1>8. StateInv(st, 1)  BY <1>2, <1>4, <1>5, <1>7 DEF StateInv
  <1> QED  BY <1>4, <1>5, <1>6, <1>8 DEF st

LEMMA AtFirst ==
    ASSUME Init
    PROVE  Whole
  <1>1. PICK N \in DOMAIN Scenes :
          /\ spent = [scene |-> Scenes[N], sent |-> [i \in {r.n : r \in Scenes[N].requests} |-> 0],
                      scans |-> 0, mints |-> 0, kicks |-> 0, revokes |-> 0, crashes |-> 0, restores |-> 0]
          /\ host = [generation |-> 0, saved |-> Scenes[N].found, kept |-> None]
          /\ history = [born |-> 1, revoked |-> {}, admitted |-> {}, rolled |-> FALSE]
    BY DEF Init
  <1>2. /\ secrets = [x \in Secrets |-> None] /\ clients = [c \in Clients |-> None]
        /\ seen = [c \in Clients |-> {}] /\ runs = [k \in Slots |-> IdleRun]
        /\ approvals = 0 /\ admissions = [c \in Clients |-> 0] /\ generation = 0
    BY DEF Init
  <1>3. /\ host.generation = 0 /\ host.saved = Scenes[N].found /\ host.kept = None
        /\ history.born = 1 /\ history.revoked = {} /\ history.admitted = {} /\ history.rolled = FALSE
        /\ history \in HistoryT /\ "scene" \in DOMAIN spent /\ spent.scene = Scenes[N]
    BY <1>1 DEF HistoryT
  <1>4. host.saved # None => /\ host.saved \in StateT /\ StateInv(host.saved, 1)
                             /\ \A d, e \in Clients : host.saved.clients[d] # None /\ host.saved.clients[e] # None => d = e
    BY <1>3, LegacyIs, BunkerAssumption
  <1>5. secrets \in Store /\ clients \in Book  BY <1>2 DEF Store, Book
  <1>6. /\ StoreInv(secrets, clients, 1) /\ Ids(secrets, clients) = {}
        /\ Cardinality({x \in Secrets : secrets[x] # None}) = 0 /\ Cardinality({c \in Clients : clients[c] # None}) = 0
        /\ Held \cup Connected = {}
    <2>1. (\A x \in Secrets : secrets[x] = None) /\ (\A c \in Clients : clients[c] = None)  BY <1>2
    <2> QED  BY <1>5, <2>1, NothingHeld DEF Held, Connected
  <1>7. runs \in [Slots -> RunT] /\ \A k \in Slots : ~Waits(runs[k])
    <2>1. IdleRun \in RunT  BY DEF IdleRun, RunT
    <2>2. ~Waits(IdleRun)  BY DEF IdleRun, Waits
    <2> QED  BY <1>2, <2>1, <2>2
  <1>8. AwaitSet(runs) = {} /\ \A c : PlacesOf(runs, c) = {}
    BY <1>7 DEF AwaitSet, PlacesOf
  <1>9. Pends(secrets, runs, 1)
    <2>1. \A x \in Secrets : secrets[x] # None => secrets[x].pending = 0  BY <1>2
    <2> QED  BY <1>7, <1>8, <2>1, PendsNone
  <1>10. RunCounts  BY <1>2, <1>7, <1>8, FS_EmptySet DEF RunCounts
  <1>11. Ceilings
    <2>1. Scene = Scenes[N]  BY <1>3 DEF Scene
    <2>2. Scene.maxClients \in Nat /\ Scene.maxSecrets \in Nat  BY <2>1, BunkerAssumption
    <2> QED  BY <1>6, <2>2 DEF Ceilings, Held, Connected
  <1>12. host \in HostT
    <2>1. host.saved \in StateT \cup {None}  BY <1>4
    <2> QED  BY <1>1, <1>3, <2>1 DEF HostT
  <1>13. ScansWait(secrets)  BY <1>2 DEF ScansWait
  <1>14. Shapes  BY <1>2, <1>3, <1>12 DEF Shapes
  <1>15. Sound  BY <1>3, <1>6, <1>9, <1>10, <1>11, <1>13, <1>14 DEF Sound
  <1>16. Outside
    <2>1. \A st \in Persisted : StateInv(st, 1)  BY <1>3, <1>4 DEF Persisted
    <2>2. Revocations  BY <1>3, <1>6 DEF Revocations
    <2> QED  BY <1>3, <1>6, <2>1, <2>2 DEF Outside, HandedOut, Copied
  <1>17. Owners
    <2>1. OneOwner({}) /\ Owned(secrets, {})  BY DEF OneOwner, Owned
    <2>2. Admitted(clients, {})  BY <1>2 DEF Admitted
    <2>3. host.saved # None => SavedOwns(host.saved.secrets, host.saved.clients, {})
      BY <1>4 DEF SavedOwns, Owned
    <2> QED  BY <1>3, <2>1, <2>2, <2>3 DEF Owners
  <1> QED  BY <1>15, <1>16, <1>17 DEF Whole

LEMMA Stutters ==
    ASSUME Whole, UNCHANGED vars
    PROVE  Whole'
  <1>1. UNCHANGED <<secrets, clients, seen, runs, approvals, admissions, generation, host, history, spent>>
    BY DEF vars, memory
  <1>2. Sound'  BY <1>1 DEF Whole, Sound, Shapes, RunCounts, Ceilings, Connected, Held, Scene
  <1>3. Outside'  BY <1>1 DEF Whole, Outside, HandedOut, Copied, Revocations, Persisted, Connected, Held
  <1>4. Owners'  BY <1>1 DEF Whole, Owners
  <1> QED  BY <1>2, <1>3, <1>4 DEF Whole

LEMMA EveryStep ==
    ASSUME Whole, [Next]_vars
    PROVE  Whole'
  <1>1. CASE UNCHANGED vars  BY <1>1, Stutters
  <1>2. CASE Next
    <2>1. ASSUME NEW k \in Slots, \/ \E r \in Scene.requests : Deliver(k, r)
                                  \/ \E u \in Scene.scans : Scan(k, u)
                                  \/ Reject(k)
                                  \/ Discard(k)
                                  \/ Sent(k)
                                  \/ \E ok \in BOOLEAN : Answer(k, ok)
          PROVE  Whole'
      BY <2>1, RunStep
    <2>2. ASSUME NEW k \in Slots, Approve(k)  PROVE Whole'  BY <2>2, ApproveKeeps
    <2>3. ASSUME \/ \E x \in Secrets, R \in Relays, lapse \in {"later", "never"} : Mint(x, R, lapse)
                 \/ \E x \in Secrets : Lapse(x)
                 \/ \E c \in Clients : Kick(c)
                 \/ Sweep
          PROVE  Whole'
      BY <2>3, HostStep
    <2>4. ASSUME NEW x \in Secrets, Revoke(x)  PROVE Whole'  BY <2>4, RevokeKeeps
    <2>5. ASSUME NEW x \in Secrets, RevokeCutShort(x)  PROVE Whole'  BY <2>5, CutShortKeeps
    <2>6. ASSUME Crash  PROVE Whole'  BY <2>6, CrashKeeps
    <2>7. ASSUME Copy  PROVE Whole'  BY <2>7, CopyKeeps
    <2>8. ASSUME RestoreSaved  PROVE Whole'
      <3>1. host.saved # None /\ Restore(host.saved, FALSE)  BY <2>8 DEF RestoreSaved
      <3> QED  BY <3>1, RestoreKeeps
    <2>9. ASSUME RestoreKept  PROVE Whole'
      <3>1. host.kept # None /\ Restore(host.kept, TRUE)  BY <2>9 DEF RestoreKept
      <3> QED  BY <3>1, RestoreKeeps
    <2> QED  BY <1>2, <2>1, <2>2, <2>3, <2>4, <2>5, <2>6, <2>7, <2>8, <2>9 DEF Next
  <1> QED  BY <1>1, <1>2

\* server.ts: the memory of the server, the executions at the user's prompt and the states
\* that were handed out agree with each other throughout, across logouts, revocations,
\* deaths between any two writes, restarts and copies of the storage put back.
THEOREM Invariant == Spec => []IInv
  <1>1. Init => Whole  BY AtFirst
  <1>2. Whole /\ [Next]_vars => Whole'  BY EveryStep
  <1>3. Whole => IInv  BY WholeIs
  <1> QED  BY <1>1, <1>2, <1>3, PTL DEF Spec

\* server.ts, #beginApproval to #unbind: the ceilings are hard and no count of pending
\* approvals leaks, however requests, scans, revocations, rejections and restarts meet.
THEOREM PendingCountedHolds == Spec => []PendingCounted
  <1>1. IInv => PendingCounted
    <2> SUFFICES ASSUME IInv  PROVE PendingCounted
      OBVIOUS
    <2>1. Sound  BY DEF IInv
    <2>2. TypeOK
      <3>1. secrets \in Store /\ clients \in Book /\ seen \in [Clients -> SUBSET Nat] /\ generation \in Nat
            /\ host \in HostT
        BY <2>1, Basics
      <3>2. RunCounts  BY <2>1 DEF Sound
      <3>3. approvals \in Nat  BY <3>2, Subsets DEF RunCounts
      <3> QED  BY <3>1, <3>2, <3>3 DEF TypeOK, Store, Book, HostT, RunCounts
    <2>3. \A k : Awaiting(k) <=> Waits(runs[k])  BY DEF Awaiting, Waits
    <2>4. AwaitSet(runs) = {k \in Slots : Awaiting(k)}  BY <2>3 DEF AwaitSet
    <2>5. \A c \in Clients : PlacesOf(runs, c) = {k \in Slots : Awaiting(k) /\ runs[k].by = c /\ runs[k].slot}
      BY <2>3 DEF PlacesOf
    <2>6. \A i : Prompts(runs, i) = {k \in Slots : Awaiting(k) /\ runs[k].rec = i}
      BY <2>3 DEF Prompts
    <2>7. \A x \in Held : x \in Secrets /\ secrets[x] # None  BY DEF Held
    <2>8. \A x \in Held : secrets[x].pending = Cardinality({k \in Slots : Awaiting(k) /\ runs[k].rec = secrets[x].id})
      BY <2>1, <2>6, <2>7 DEF Sound, Pends
    <2>9. \A x \in Held : secrets[x].origin = "nostrconnect" /\ ~secrets[x].confirmed /\ secrets[x].lapse = "never"
                          => secrets[x].pending > 0
      BY <2>1, <2>7 DEF Sound, ScansWait
    <2> QED  BY <2>1, <2>2, <2>4, <2>5, <2>8, <2>9 DEF PendingCounted, Sound, RunCounts, Ceilings
  <1> QED  BY <1>1, Invariant, PTL

\* server.ts, revokeSecret() and restore(): no client is ever connected over a record that
\* was revoked, be it approved after the revocation or brought back by a copy.
THEOREM RevokedStaysOutHolds == Spec => []RevokedStaysOut
  <1>1. IInv => RevokedStaysOut
    <2> SUFFICES ASSUME IInv, NEW c \in Connected  PROVE clients[c].id \notin history.revoked
      BY DEF RevokedStaysOut
    <2>1. Ids(secrets, clients) \cap history.revoked = {} /\ history.revoked \subseteq 1..history.born
          /\ history.born \in Nat
      BY Basics DEF IInv, Revocations
    <2>2. clients[c].id # 0 => clients[c].id \in Ids(secrets, clients)  BY InIds DEF Connected
    <2> QED  BY <2>1, <2>2
  <1> QED  BY <1>1, Invariant, PTL

\* server.ts, #bind: of all the clients that ever race for one mint of a secret, across all
\* restarts, at most one is admitted, unless the host puts back an old copy.
THEOREM OneClientPerSecretHolds == Spec => []OneClientPerSecret
  <1>1. IInv => OneClientPerSecret  BY DEF IInv, Owners, OneOwner, OneClientPerSecret
  <1> QED  BY <1>1, Invariant, PTL

----------------------------------------------------------------------------
(* What was handed out is accepted by the next process.                    *)

LEMMA Handable ==
    ASSUME Sound, NEW S, NEW C, NEW n \in Nat, StoreInv(S, C, n), NEW g \in Nat, NEW st,
           Scene.required, AllBacked(S, C),
           Cardinality({x \in Secrets : S[x] # None}) <= Scene.maxSecrets,
           Cardinality({c \in Clients : C[c] # None}) <= Scene.maxClients,
           st.secrets \in Store, st.clients = C, \A x \in Secrets : Like(S[x], st.secrets[x]),
           StateGeneration(st) >= g
    PROVE  Restorable(st, g)
  <1> DEFINE T == st.secrets
             I == Incoming(st)
  <1>1. \A x \in Secrets : /\ I[x] # None => T[x] # None
                           /\ T[x] # None /\ T[x].confirmed => I[x] = T[x]
    BY IncomingIs
  <1>2. \A x \in Secrets : T[x] # None => /\ S[x] # None /\ T[x].client = S[x].client
                                          /\ T[x].confirmed = S[x].confirmed /\ T[x].relays = S[x].relays
    BY DEF Like
  <1>3. \A x \in Secrets : S[x] # None => T[x] # None /\ (S[x].confirmed => S[x].client # None)
    BY StoreParts DEF Like
  <1>4. st.clients = C  OBVIOUS
  <1> HIDE DEF I
  <1>5. \A x \in Secrets : T[x] # None /\ T[x].confirmed => T[x].client # None
    BY <1>2, <1>3
  <1>6. Cardinality({x \in Secrets : I[x] # None}) <= Scene.maxSecrets
    <2>1. \A x \in Secrets : I[x] # None => S[x] # None  BY <1>1, <1>2
    <2>2. /\ Cardinality({x \in Secrets : I[x] # None}) <= Cardinality({x \in Secrets : S[x] # None})
          /\ Cardinality({x \in Secrets : I[x] # None}) \in Nat /\ Cardinality({x \in Secrets : S[x] # None}) \in Nat
      BY <2>1, HeldFewer
    <2> QED  BY <2>2, SceneIs
  <1>7. StateClients(st) = {c \in Clients : C[c] # None}  BY <1>4 DEF StateClients
  <1>8. ASSUME NEW c \in StateClients(st)
        PROVE  Backed(st, c)
    <2> DEFINE x == C[c].secret
    <2>1. x \in Secrets /\ S[x] # None /\ S[x].client = c /\ S[x].confirmed /\ S[x].relays = C[c].relays
      BY <1>7, <1>8 DEF AllBacked, BackedBy
    <2>2. I[x] = T[x] /\ T[x] # None /\ T[x].client = c /\ T[x].confirmed /\ T[x].relays = C[c].relays
      BY <1>1, <1>2, <1>3, <2>1
    <2>3. x # None  BY <2>1, Names
    <2> QED  BY <1>4, <2>2, <2>3 DEF Backed, I
  <1>9. Valid(st)
    BY <1>5, <1>6, <1>7, <1>8 DEF Valid, I
  <1> QED  BY <1>9 DEF Restorable

\* Restorable looks at the scene, which does not change.
LEMMA SameScene ==
    ASSUME Scene' = Scene, NEW st, NEW g, Restorable(st, g)
    PROVE  Restorable(st, g)'
  <1>1. \A c : Backed(st, c) <=> Backed(st, c)'  BY DEF Backed, Incoming
  <1>2. Valid(st)'  BY <1>1 DEF Restorable, Valid, Incoming, StateClients
  <1> QED  BY <1>2 DEF Restorable, StateGeneration

LEMMA ExportNext ==
    ASSUME Sound, Sound', Exportable, Scene' = Scene, Saves \/ Silent,
           Scene.required /\ ~Scene.anytime => Awaited(Scene, secrets', runs') /\ AllBacked(secrets', clients')
    PROVE  Exportable'
  <1> SUFFICES ASSUME Scene.required, ~Scene.anytime
               PROVE  /\ Awaited(Scene, secrets', runs') /\ AllBacked(secrets', clients')
                      /\ host'.saved # None => Restorable(host.saved, generation)'
    BY DEF Exportable
  <1>1. CASE Saves
    <2> DEFINE st == host'.saved
               n == history'.born
    <2>1. n \in Nat /\ generation' \in Nat /\ StoreInv(secrets', clients', n)
      BY DEF Sound, Shapes, HistoryT
    <2>2. secrets' \in Store /\ clients' \in Book  BY <2>1, StoreParts
    <2>3. st = Export(secrets', clients', generation')  BY <1>1, <2>1, <2>2, SavesIs
    <2>4. /\ st.clients = clients' /\ StateGeneration(st) = generation' /\ st.secrets \in Store
          /\ \A x \in Secrets : Like(secrets'[x], st.secrets[x])
      BY <2>1, <2>2, <2>3, SavedIs
    <2>5. /\ Cardinality({x \in Secrets : secrets'[x] # None}) <= Scene.maxSecrets
          /\ Cardinality({c \in Clients : clients'[c] # None}) <= Scene.maxClients
      BY DEF Sound, Ceilings, Held, Connected
    <2> HIDE DEF st
    <2>6. StateGeneration(st) >= generation'  BY <2>1, <2>4
    <2>7. Restorable(st, generation')
      BY <2>1, <2>4, <2>5, <2>6, Handable
    <2>8. Restorable(host.saved, generation)'
      <3> DEFINE g == generation'
      <3>1. Restorable(st, g)  BY <2>7
      <3>2. \A c : Backed(st, c) <=> Backed(host.saved, c)'  BY DEF Backed, Incoming, st
      <3>3. Valid(host.saved)'  BY <3>1, <3>2 DEF Restorable, Valid, Incoming, StateClients, st
      <3> QED  BY <3>1, <3>3 DEF Restorable, StateGeneration, st
    <2> QED  BY <2>8
  <1>2. CASE ~Saves
    <2>1. host' = host /\ generation' = generation  BY <1>2 DEF Silent
    <2> SUFFICES ASSUME host.saved # None  PROVE Restorable(host.saved, generation)'
      BY <2>1
    <2>2. Restorable(host.saved, generation)  BY DEF Exportable
    <2>3. \A c : Backed(host.saved, c) <=> Backed(host.saved, c)'  BY <2>1 DEF Backed, Incoming
    <2>4. Valid(host.saved)'  BY <2>1, <2>2, <2>3 DEF Restorable, Valid, Incoming, StateClients
    <2> QED  BY <2>1, <2>2, <2>4 DEF Restorable, StateGeneration
  <1> QED  BY <1>1, <1>2

\* The records that are bound keep their relays, those that are confirmed stay.
SteadyTo(S, S2) ==
    \A x \in Secrets : S[x] # None =>
        /\ S[x].client # None /\ S2[x] # None /\ S2[x].id = S[x].id => S2[x].relays = S[x].relays
        /\ S[x].confirmed => GoesOn(S2[x], S[x])

LEMMA SteadyHanded ==
    ASSUME NEW s \in Store, NEW c, Handed(s, c), SteadyTo(secrets, s)
    PROVE  SteadyTo(secrets, secrets')
  <1>1. CASE secrets' = s  BY <1>1
  <1>2. CASE secrets' = Swept(s)
    <2>1. \A x \in Secrets : /\ secrets'[x] # None => secrets'[x] = s[x]
                             /\ s[x] # None /\ s[x].confirmed => secrets'[x] = s[x]
      BY <1>2, SweptIs
    <2> QED  BY <2>1 DEF SteadyTo, GoesOn
  <1> QED  BY <1>1, <1>2 DEF Handed

LEMMA SteadySelf == SteadyTo(secrets, secrets)
  BY DEF SteadyTo, GoesOn

LEMMA SteadyLive ==
    ASSUME Sound, NEW x
    PROVE  SteadyTo(secrets, Live(x))
  <1>1. secrets \in Store  BY Basics
  <1>2. SteadyTo(secrets, Swept(secrets))
    <2>1. \A y \in Secrets : /\ Swept(secrets)[y] # None => Swept(secrets)[y] = secrets[y]
                             /\ secrets[y] # None /\ secrets[y].confirmed => Swept(secrets)[y] = secrets[y]
      BY <1>1, SweptIs
    <2> QED  BY <2>1 DEF SteadyTo, GoesOn
  <1> QED  BY <1>2, SteadySelf DEF Live

LEMMA SteadyBound ==
    ASSUME NEW s, NEW C, NEW n \in Nat, StoreInv(s, C, n), SteadyTo(secrets, s), NEW x \in Secrets, s[x] # None,
           NEW c \in Clients, s[x].client \in {None, c}
    PROVE  SteadyTo(secrets, Bound(s, x, c))
  <1> DEFINE b == Bound(s, x, c)
  <1>1. s \in Store  BY StoreParts
  <1>2. /\ \A y \in Secrets : y # x => b[y] = s[y]
        /\ b[x] # None /\ b[x].id = s[x].id /\ b[x].relays = s[x].relays /\ b[x].client = c
        /\ b[x].confirmed = s[x].confirmed
    BY <1>1, BoundIs
  <1>3. s[x].confirmed => s[x].client = c  BY StoreParts
  <1> HIDE DEF b
  <1>4. SteadyTo(secrets, b)
    BY <1>2, <1>3 DEF SteadyTo, GoesOn
  <1> QED  BY <1>4 DEF b

LEMMA AwaitedOn ==
    ASSUME Sound, Onward(secrets, clients, secrets', clients', history.born, history'.born),
           SteadyTo(secrets, secrets'), Awaited(Scene, secrets, runs),
           \A j \in AwaitSet(runs') : \/ j \in AwaitSet(runs) /\ runs'[j] = runs[j]
                                      \/ FromScene(Scene, runs'[j]) /\ AsksOnItsRelays(secrets', runs'[j])
    PROVE  Awaited(Scene, secrets', runs')
  <1> SUFFICES ASSUME NEW j \in AwaitSet(runs), runs'[j] = runs[j]
               PROVE  FromScene(Scene, runs[j]) /\ AsksOnItsRelays(secrets', runs[j])
    BY DEF Awaited
  <1>1. FromScene(Scene, runs[j]) /\ AsksOnItsRelays(secrets, runs[j])  BY DEF Awaited
  <1>2. WaitsFor(secrets, runs[j], history.born) /\ runs[j].rec \in Nat /\ history.born \in Nat
    BY Basics, RunTypes
  <1>3. ASSUME NEW x \in Secrets, runs[j].do = "connect", secrets'[x] # None, secrets'[x].id = runs[j].rec
        PROVE  runs[j].relays = secrets'[x].relays
    <2>1. runs[j].rec # history.born + 1  BY <1>2 DEF WaitsFor
    <2>2. secrets[x] # None /\ secrets[x].id = runs[j].rec  BY <1>3, <2>1 DEF Onward, GoesOn
    <2>3. secrets[x].client # None  BY <1>2, <2>2, Names DEF WaitsFor
    <2> QED  BY <1>1, <1>3, <2>2, <2>3 DEF SteadyTo, AsksOnItsRelays
  <1> QED  BY <1>1, <1>3 DEF AsksOnItsRelays

LEMMA BackedOn ==
    ASSUME SteadyTo(secrets, secrets'), AllBacked(secrets, clients),
           \A c \in Clients : clients'[c] # None => clients'[c] = clients[c]
    PROVE  AllBacked(secrets', clients')
  <1> SUFFICES ASSUME NEW c \in Clients, clients'[c] # None
               PROVE  BackedBy(secrets', c, clients'[c])
    BY DEF AllBacked
  <1>1. clients'[c] = clients[c] /\ BackedBy(secrets, c, clients[c])  BY DEF AllBacked
  <1> QED  BY <1>1, Names DEF BackedBy, SteadyTo, GoesOn

LEMMA PlainExport ==
    ASSUME Sound, Exportable, Sound', Ordinary, Scene' = Scene, NobodyNew, SteadyTo(secrets, secrets'),
           Scene.required => \A j \in AwaitSet(runs') :
                                \/ j \in AwaitSet(runs) /\ runs'[j] = runs[j]
                                \/ FromScene(Scene, runs'[j]) /\ AsksOnItsRelays(secrets', runs'[j])
    PROVE  Exportable'
  <1>1. ASSUME Scene.required /\ ~Scene.anytime
        PROVE  Awaited(Scene, secrets', runs') /\ AllBacked(secrets', clients')
    <2>1. Awaited(Scene, secrets, runs) /\ AllBacked(secrets, clients)  BY <1>1 DEF Exportable
    <2> QED  BY <1>1, <2>1, AwaitedOn, BackedOn DEF Ordinary, NobodyNew
  <1> QED  BY <1>1, ExportNext DEF Ordinary

LEMMA SceneStays ==
    ASSUME Sound, [Next]_vars
    PROVE  Scene' = Scene
  <1>1. "scene" \in DOMAIN spent  BY DEF Sound, Shapes
  <1> SUFFICES spent'.scene = spent.scene
    BY DEF Scene
  <1>2. CASE UNCHANGED vars  BY <1>2 DEF vars
  <1>3. ASSUME NEW k \in Slots  PROVE \A r \in Scene.requests : Deliver(k, r) => spent'.scene = spent.scene
    BY <1>1 DEF Deliver
  <1>4. ASSUME NEW k \in Slots  PROVE \A u \in Scene.scans : Scan(k, u) => spent'.scene = spent.scene
    BY <1>1 DEF Scan
  <1>5. ASSUME NEW k \in Slots
        PROVE  Reject(k) \/ Discard(k) \/ Approve(k) \/ Sent(k) \/ (\E ok \in BOOLEAN : Answer(k, ok))
               => spent'.scene = spent.scene
    BY DEF Reject, Discard, Approve, Sent, Answer
  <1>6. \A x \in Secrets : \A R \in Relays, lapse \in {"later", "never"} : Mint(x, R, lapse) => spent'.scene = spent.scene
    BY <1>1 DEF Mint
  <1>7. \A x \in Secrets : Lapse(x) \/ Revoke(x) => spent'.scene = spent.scene
    BY <1>1 DEF Lapse, Revoke
  <1>8. \A x \in Secrets : RevokeCutShort(x) => spent'.scene = spent.scene
    BY <1>1 DEF RevokeCutShort
  <1>9. \A c \in Clients : Kick(c) => spent'.scene = spent.scene
    BY <1>1 DEF Kick
  <1>10. Sweep \/ Crash \/ Copy => spent'.scene = spent.scene
    BY <1>1 DEF Sweep, Crash, Copy
  <1>11. \A st, old : Restore(st, old) => spent'.scene = spent.scene
    BY <1>1 DEF Restore
  <1>12. CASE Next
    BY <1>12, <1>3, <1>4, <1>5, <1>6, <1>7, <1>8, <1>9, <1>10, <1>11 DEF Next, RestoreSaved, RestoreKept
  <1> QED  BY <1>2, <1>12

\* The execution in slot k is another, or over; the rest are as they were.
LEMMA RunsAfter ==
    ASSUME Sound, NEW k \in Slots, NEW run, Becomes(runs, k, run, runs')
    PROVE  \A j \in AwaitSet(runs') : \/ j \in AwaitSet(runs) /\ runs'[j] = runs[j]
                                      \/ j = k /\ runs'[j] = run /\ Waits(run)
  <1>1. runs \in [Slots -> RunT]  BY Basics
  <1>2. runs'[k] = run /\ \A j \in Slots : j # k => runs'[j] = runs[j]  BY <1>1 DEF Becomes
  <1> QED  BY <1>2 DEF AwaitSet

LEMMA ConnectExport ==
    ASSUME Whole, Exportable, Sound', Ordinary, Scene' = Scene, NEW k \in Slots, NEW r \in Scene.requests,
           r.do = "connect", Connect(k, r.by, r.secret)
    PROVE  Exportable'
  <1> DEFINE c    == r.by
             x    == r.secret
             s    == Live(x)
             live == x # None /\ s[x] # None
             run  == Started("connect", c, x)
             ref  == (Scene.required /\ ~live) \/ OverClientCeiling(c) \/ (live /\ ~Bindable(s, x, c))
             n    == history.born
  <1>0. c \in Clients /\ x \in Secrets \cup {None}  BY SceneIs DEF Whole
  <1>1. /\ s \in Store /\ StoreInv(s, clients, n) /\ n \in Nat /\ SteadyTo(secrets, s)
    BY LiveIs, SteadyLive, Basics DEF Whole
  <1>2. run \in RunT /\ run.do = "connect" /\ run.by = c /\ run.secret = x
    BY <1>0, StartedIs
  <1>3. CASE ref
    <2>1. Refused(k, run) /\ EmitIf(s # secrets, s, clients)
      BY <1>3 DEF Connect
    <2>2. Handed(s, clients)  BY <2>1, EmitIfHands DEF Whole, Sound
    <2> DEFINE q == [run EXCEPT !.at = "reply"]
    <2>3. ~Waits(q) /\ Becomes(runs, k, q, runs')
      BY <1>2, <2>1, Reply DEF Refused, To, Becomes
    <2> HIDE DEF q, s, run, ref
    <2>4. SteadyTo(secrets, secrets')  BY <1>1, <2>2, SteadyHanded
    <2>5. NobodyNew  BY <2>2 DEF Handed, NobodyNew
    <2>6. \A j \in AwaitSet(runs') : j \in AwaitSet(runs) /\ runs'[j] = runs[j]
      BY <2>3, RunsAfter DEF Whole
    <2> QED  BY <2>4, <2>5, <2>6, PlainExport DEF Whole
  <1>4. CASE ~ref
    <2> DEFINE t == IF live THEN Bound(s, x, c) ELSE s
               R == IF live THEN s[x].relays ELSE Scene.source
               i == IF live THEN s[x].id ELSE 0
               q == Asked(run, TakesSlot(run.by), R, i)
    <2>1. Asks(k, run, s, x, R) /\ EmitIf(live \/ s # secrets, t, clients)
      BY <1>4 DEF Connect
    <2>2. Handed(t, clients)  BY <2>1, EmitIfHands DEF Whole, Sound
    <2>3. R \in Relays /\ i \in Nat
      BY <1>0, <1>1, RecordType, SceneIs DEF Whole
    <2>4. Becomes(runs, k, q, runs')
      BY <2>1 DEF Asks, To, Becomes, Asked
    <2>5. q \in RunT /\ q.do = "connect" /\ q.by = c /\ q.secret = x /\ q.relays = R /\ q.rec = i
      <3>1. TakesSlot(run.by) \in BOOLEAN  BY DEF TakesSlot
      <3> HIDE DEF R, i, run
      <3> QED  BY <1>2, <2>3, <3>1, AsksIs
    <2>6. live => x \in Secrets /\ s[x] # None /\ s[x].client \in {None, c} /\ t = Bound(s, x, c)
                  /\ i = s[x].id /\ R = s[x].relays
      BY <1>0, <1>4 DEF Bindable
    <2>7. ~live => t = s
      OBVIOUS
    <2>8. Scene.required => live  BY <1>4
    <2> HIDE DEF s, live, run, ref, t, R, i, q
    <2>9. t \in Store /\ SteadyTo(secrets, t)
      <3>1. CASE live  BY <1>0, <1>1, <2>6, <3>1, BoundIs, SteadyBound
      <3>2. CASE ~live  BY <1>1, <2>7, <3>2
      <3> QED  BY <3>1, <3>2
    <2>10. SteadyTo(secrets, secrets')  BY <2>2, <2>9, SteadyHanded
    <2>11. NobodyNew  BY <2>2 DEF Handed, NobodyNew
    <2>12. Scene.required => FromScene(Scene, q) /\ AsksOnItsRelays(secrets', q)
      <3> SUFFICES ASSUME live  PROVE FromScene(Scene, q) /\ AsksOnItsRelays(secrets', q)
        BY <2>8
      <3>1. i # 0  BY <1>1, <2>6, StoreParts
      <3>2. FromScene(Scene, q)  BY <2>5, <3>1 DEF FromScene
      <3>3. /\ \A y \in Secrets : y # x => t[y] = s[y]
            /\ t[x].relays = R /\ \A y \in Secrets : s[y] # None /\ s[y].id = i => y = x
        BY <1>0, <1>1, <2>6, BoundIs, StoreParts
      <3>4. \A y \in Secrets : t[y] # None /\ t[y].id = i => t[y].relays = R
        BY <3>3
      <3>5. \A y \in Secrets : secrets'[y] # None => secrets'[y] = t[y]
        BY <2>2, <2>9, SweptIs DEF Handed
      <3>6. AsksOnItsRelays(secrets', q)  BY <2>5, <3>4, <3>5 DEF AsksOnItsRelays
      <3> QED  BY <3>2, <3>6
    <2>13. Scene.required => \A j \in AwaitSet(runs') :
                                \/ j \in AwaitSet(runs) /\ runs'[j] = runs[j]
                                \/ FromScene(Scene, runs'[j]) /\ AsksOnItsRelays(secrets', runs'[j])
      BY <2>4, <2>12, RunsAfter DEF Whole
    <2> QED  BY <2>10, <2>11, <2>13, PlainExport DEF Whole
  <1> QED  BY <1>3, <1>4

\* An execution that asked nobody goes on, and the store is at most swept.
LEMMA QuietExport ==
    ASSUME Whole, Exportable, Sound', Ordinary, Scene' = Scene, NobodyNew, SteadyTo(secrets, secrets'),
           runs' = runs \/ \E k \in Slots, run \in RunT : ~Waits(run) /\ Becomes(runs, k, run, runs')
    PROVE  Exportable'
  <1>1. \A j \in AwaitSet(runs') : j \in AwaitSet(runs) /\ runs'[j] = runs[j]
    BY RunsAfter DEF Whole
  <1> QED  BY <1>1, PlainExport DEF Whole

LEMMA DeliverExport ==
    ASSUME Whole, Exportable, Sound', Ordinary, Scene' = Scene, NEW k \in Slots, NEW r \in Scene.requests, Deliver(k, r)
    PROVE  Exportable'
  <1>1. CASE r.do = "connect"
    <2>1. Connect(k, r.by, r.secret)  BY <1>1 DEF Deliver
    <2> QED  BY <1>1, <2>1, ConnectExport
  <1>2. CASE r.do # "connect"
    <2> DEFINE a == IF r.by \in Connected /\ r.do # "ping" THEN "handler" ELSE "reply"
               b == r.do = "ping"
               run == [Started(r.do, r.by, None) EXCEPT !.at = a, !.ok = b]
    <2>1. To(k, run) /\ UNCHANGED <<secrets, clients, generation, host>>
      BY <1>2 DEF Deliver
    <2>2. r.do \in {"work", "logout", "ping"} /\ r.by \in Clients  BY <1>2, SceneIs DEF Whole
    <2>3. run \in RunT /\ ~Waits(run)
      <3>1. Started(r.do, r.by, None) \in RunT /\ Started(r.do, r.by, None).do = r.do
        BY <2>2, StartedIs
      <3>2. a \in {"idle", "handler", "reply", "done"} /\ b \in BOOLEAN  OBVIOUS
      <3> HIDE DEF a, b
      <3> QED  BY <2>2, <3>1, <3>2 DEF RunT, Waits
    <2>4. Becomes(runs, k, run, runs')  BY <2>1 DEF To, Becomes
    <2> HIDE DEF run
    <2> QED  BY <2>1, <2>3, <2>4, QuietExport, SteadySelf DEF NobodyNew
  <1> QED  BY <1>1, <1>2

LEMMA EndExport ==
    ASSUME Whole, Exportable, Sound', Ordinary, Scene' = Scene, NEW k \in Slots, Awaiting(k),
           IF runs[k].do = "scan" THEN To(k, Over) ELSE Replies(k, FALSE),
           EmitIf(HoldsRecord(k), IF HoldsRecord(k) THEN Unbound(secrets, runs[k].secret) ELSE secrets, clients)
    PROVE  Exportable'
  <1> DEFINE x == runs[k].secret
             s == IF HoldsRecord(k) THEN Unbound(secrets, x) ELSE secrets
  <1>1. \E run \in RunT : ~Waits(run) /\ Becomes(runs, k, run, runs')
    BY EndedRun DEF Whole
  <1>2. Handed(s, clients)  BY EmitIfHands DEF Whole, Sound
  <1>3. secrets \in Store /\ StoreInv(secrets, clients, history.born) /\ history.born \in Nat  BY Basics DEF Whole
  <1>4. s \in Store /\ SteadyTo(secrets, s)
    <2>1. CASE HoldsRecord(k)
      <3>1. x \in Secrets /\ secrets[x] # None /\ secrets[x].pending > 0
        BY <2>1, AwaitingIs DEF Whole
      <3>2. secrets[x].confirmed => secrets[x].client # None  BY <1>3, <3>1, StoreParts
      <3>3. s = Unbound(secrets, x)  BY <2>1
      <3> HIDE DEF s, x
      <3>4. /\ s \in Store /\ \A y \in Secrets : y # x => s[y] = secrets[y]
            /\ s[x] # None => /\ s[x].id = secrets[x].id /\ s[x].relays = secrets[x].relays
                              /\ s[x].confirmed = secrets[x].confirmed
                              /\ s[x].confirmed => s[x].client = secrets[x].client
            /\ secrets[x].confirmed => s[x] # None
        BY <1>3, <3>1, <3>2, <3>3, UnboundIs
      <3> QED  BY <3>4 DEF SteadyTo, GoesOn
    <2>2. CASE ~HoldsRecord(k)  BY <1>3, <2>2, SteadySelf
    <2> QED  BY <2>1, <2>2
  <1> HIDE DEF s
  <1>5. SteadyTo(secrets, secrets')  BY <1>2, <1>4, SteadyHanded
  <1>6. NobodyNew  BY <1>2 DEF Handed, NobodyNew
  <1> QED  BY <1>1, <1>5, <1>6, QuietExport

LEMMA ScanExport ==
    ASSUME Whole, Exportable, Sound', Ordinary, Scene' = Scene, NEW k \in Slots, NEW u \in Scene.scans, Scan(k, u)
    PROVE  Exportable'
  <1> DEFINE x == u.secret
             c == u.by
             s == Live(x)
             f == Fresh(u.relays, "nostrconnect", "never")
             r == IF s[x] = None THEN [s EXCEPT ![x] = f] ELSE s
             b == Bound(r, x, c)
             n == history.born
             m == IF s[x] = None THEN n + 1 ELSE n
             run == Started("scan", c, x)
             q == Asked(run, TakesSlot(run.by), u.relays, IF x # None /\ b[x] # None THEN b[x].id ELSE 0)
  <1>0. c \in Clients /\ x \in Secrets /\ u.relays \in Relays  BY SceneIs DEF Whole
  <1>1. /\ s \in Store /\ StoreInv(s, clients, n) /\ n \in Nat /\ SteadyTo(secrets, s)
        /\ \A y \in Secrets : s[y] # None => s[y] = secrets[y]
    BY LiveIs, SteadyLive, Basics DEF Whole
  <1>2. Keep(b, clients) /\ Asks(k, run, b, x, u.relays) /\ Bindable(s, x, c)  BY DEF Scan
  <1>3. Handed(b, clients)  BY <1>2, KeepHands DEF Whole, Sound
  <1>4. Becomes(runs, k, q, runs')
    BY <1>2 DEF Asks, To, Becomes, Asked
  <1>5. run \in RunT /\ run.do = "scan" /\ run.by = c /\ run.secret = x
    BY <1>0, StartedIs
  <1>6. m \in Nat /\ StoreInv(r, clients, m) /\ r \in Store /\ SteadyTo(secrets, r) /\ r[x] # None
        /\ r[x].client \in {None, c} /\ r[x].id > 0 /\ r[x].id \in Nat
    <2>1. CASE s[x] = None
      <3>1. /\ f \in SecretT /\ f # None /\ f.id = n + 1 /\ f.client = None /\ ~f.confirmed
        BY <1>0, <1>1, FreshIs
      <3>2. r = [s EXCEPT ![x] = f]  BY <2>1
      <3> HIDE DEF f, r, s
      <3>3. r \in Store /\ r[x] = f /\ \A y \in Secrets : y # x => r[y] = s[y]
        BY <1>0, <1>1, <3>1, <3>2 DEF Store
      <3>4. Onward(s, clients, r, clients, n, n + 1)
        BY <1>0, <1>1, <2>1, <3>1, <3>3, FreshOnward
      <3>5. m = n + 1  BY <2>1
      <3>6. StoreInv(r, clients, m) /\ m \in Nat
        <4>1. clients \in Book  BY Basics DEF Whole
        <4> QED  BY <1>1, <3>3, <3>4, <3>5, <4>1, OnwardStore
      <3>7. SteadyTo(secrets, r)
        <4>1. \A y \in Secrets : secrets[y] # None => secrets[y].id # n + 1
          BY Basics, StoreParts DEF Whole
        <4>2. secrets[x] # None => ~secrets[x].confirmed
          BY <1>0, <1>1, <2>1 DEF SteadyTo, GoesOn
        <4> QED  BY <1>1, <3>1, <3>3, <4>1, <4>2 DEF SteadyTo, GoesOn
      <3> QED  BY <1>1, <3>1, <3>3, <3>6, <3>7
    <2>2. CASE s[x] # None
      <3>1. r = s /\ m = n  BY <2>2
      <3>2. s[x].client \in {None, c}  BY <1>2, <2>2 DEF Bindable
      <3>3. s[x].id > 0 /\ s[x].id \in Nat  BY <1>0, <1>1, <2>2, StoreParts
      <3> QED  BY <1>1, <2>2, <3>1, <3>2, <3>3
    <2> QED  BY <2>1, <2>2
  <1> HIDE DEF f, r, s, m
  <1>7. b \in Store /\ b[x] # None /\ b[x].id = r[x].id  BY <1>0, <1>6, BoundIs
  <1>8. SteadyTo(secrets, b)  BY <1>0, <1>6, SteadyBound
  <1>9. q.do = "scan" /\ q.by = c /\ q.secret = x /\ q.rec = r[x].id
    <2> DEFINE i == IF x # None /\ b[x] # None THEN b[x].id ELSE 0
    <2>1. i = r[x].id /\ i \in Nat  BY <1>0, <1>6, <1>7, Names
    <2>2. TakesSlot(run.by) \in BOOLEAN  BY DEF TakesSlot
    <2> HIDE DEF i, run
    <2>3. LET z == Asked(run, TakesSlot(run.by), u.relays, i)
          IN  z.do = run.do /\ z.by = run.by /\ z.secret = run.secret /\ z.rec = i
      BY <1>0, <1>5, <2>1, <2>2, AsksIs
    <2> QED  BY <1>5, <2>1, <2>3 DEF i
  <1> HIDE DEF b, q
  <1>10. FromScene(Scene, q) /\ AsksOnItsRelays(secrets', q)
    BY <1>6, <1>9 DEF FromScene, AsksOnItsRelays
  <1>11. SteadyTo(secrets, secrets')  BY <1>3, <1>7, <1>8, SteadyHanded
  <1>12. NobodyNew  BY <1>3 DEF Handed, NobodyNew
  <1>13. \A j \in AwaitSet(runs') : \/ j \in AwaitSet(runs) /\ runs'[j] = runs[j]
                                    \/ FromScene(Scene, runs'[j]) /\ AsksOnItsRelays(secrets', runs'[j])
    BY <1>4, <1>10, RunsAfter DEF Whole
  <1> QED  BY <1>11, <1>12, <1>13, PlainExport DEF Whole

LEMMA SweptExport ==
    ASSUME Whole, Exportable, Sound', Ordinary, Scene' = Scene, NobodyNew, secrets' \in {secrets, Swept(secrets)},
           runs' = runs \/ \E k \in Slots, run \in RunT : ~Waits(run) /\ Becomes(runs, k, run, runs')
    PROVE  Exportable'
  <1>1. secrets \in Store  BY Basics DEF Whole
  <1>2. SteadyTo(secrets, secrets')
    <2>1. CASE secrets' = secrets  BY <2>1, SteadySelf
    <2>2. CASE secrets' = Swept(secrets)
      <3>1. \A x \in Secrets : /\ secrets'[x] # None => secrets'[x] = secrets[x]
                               /\ secrets[x] # None /\ secrets[x].confirmed => secrets'[x] = secrets[x]
        BY <1>1, <2>2, SweptIs
      <3> QED  BY <3>1 DEF SteadyTo, GoesOn
    <2> QED  BY <2>1, <2>2
  <1> QED  BY <1>2, QuietExport

LEMMA RunExport ==
    ASSUME Whole, Exportable, Sound', Ordinary, Scene' = Scene, NEW k \in Slots,
           \/ \E r \in Scene.requests : Deliver(k, r)
           \/ \E u \in Scene.scans : Scan(k, u)
           \/ Reject(k)
           \/ Discard(k)
           \/ Sent(k)
           \/ \E ok \in BOOLEAN : Answer(k, ok)
    PROVE  Exportable'
  <1>0. runs[k] \in RunT /\ Sound  BY Basics DEF Whole
  <1>1. ASSUME NEW r \in Scene.requests, Deliver(k, r)  PROVE Exportable'  BY <1>1, DeliverExport
  <1>2. ASSUME NEW u \in Scene.scans, Scan(k, u)  PROVE Exportable'  BY <1>2, ScanExport
  <1>3. ASSUME Reject(k)  PROVE Exportable'
    BY <1>3, EndExport DEF Reject
  <1>4. ASSUME Discard(k)  PROVE Exportable'
    <2>1. EmitIf(HoldsRecord(k), IF HoldsRecord(k) THEN Unbound(secrets, runs[k].secret) ELSE secrets, clients)
      BY <1>4 DEF Discard, EmitIf
    <2> QED  BY <1>4, <2>1, EndExport DEF Discard
  <1>5. ASSUME Sent(k)  PROVE Exportable'
    <2>1. Over \in RunT /\ ~Waits(Over) /\ Becomes(runs, k, Over, runs')
      BY <1>0, <1>5, Reply DEF Sent, To, Becomes
    <2>2. Forget(secrets, runs[k].by, generation, host.generation) \/ UNCHANGED <<secrets, clients>>
      BY <1>5 DEF Sent
    <2>3. NobodyNew /\ secrets' \in {secrets, Swept(secrets)}
      <3>1. CASE Forget(secrets, runs[k].by, generation, host.generation)
        <4>1. NobodyNew  BY <1>0, <3>1, ForgetNobody
        <4>2. secrets' = Swept(secrets)  BY <3>1 DEF Forget, Emit
        <4> QED  BY <4>1, <4>2
      <3>2. CASE UNCHANGED <<secrets, clients>>  BY <3>2 DEF NobodyNew
      <3> QED  BY <2>2, <3>1, <3>2
    <2> QED  BY <2>1, <2>3, SweptExport
  <1>6. ASSUME NEW ok \in BOOLEAN, Answer(k, ok)  PROVE Exportable'
    <2> DEFINE q == [runs[k] EXCEPT !.at = "reply", !.ok = ok]
    <2>1. Over \in RunT /\ ~Waits(Over) /\ q \in RunT /\ ~Waits(q)  BY <1>0, Reply
    <2>2. Becomes(runs, k, Over, runs') \/ Becomes(runs, k, q, runs')
      BY <1>6 DEF Answer, Replies, To, Becomes
    <2> HIDE DEF q
    <2>3. NobodyNew /\ secrets' = secrets  BY <1>6 DEF Answer, NobodyNew
    <2>4. \E run \in RunT : ~Waits(run) /\ Becomes(runs, k, run, runs')  BY <2>1, <2>2
    <2> QED  BY <2>3, <2>4, SweptExport
  <1> QED  BY <1>1, <1>2, <1>3, <1>4, <1>5, <1>6

LEMMA HostExport ==
    ASSUME Whole, Exportable, Sound', Ordinary, Scene' = Scene,
           \/ \E x \in Secrets, R \in Relays, lapse \in {"later", "never"} : Mint(x, R, lapse)
           \/ \E x \in Secrets : Lapse(x)
           \/ \E c \in Clients : Kick(c)
           \/ Sweep
    PROVE  Exportable'
  <1>0. Sound /\ secrets \in Store /\ history.born \in Nat /\ StoreInv(secrets, clients, history.born)
    BY Basics DEF Whole
  <1>1. ASSUME NEW x \in Secrets, NEW R \in Relays, NEW lapse \in {"later", "never"}, Mint(x, R, lapse)
        PROVE  Exportable'
    <2> DEFINE s == Swept(secrets)
    <2>1. /\ s \in Store
          /\ \A y \in Secrets : /\ s[y] # None => s[y] = secrets[y]
                                /\ secrets[y] # None /\ secrets[y].confirmed => s[y] = secrets[y]
      BY <1>0, SweptIs
    <2>2. \A y \in Secrets : secrets[y] # None => /\ secrets[y].id # history.born + 1
                                                  /\ secrets[y].confirmed => secrets[y].client # None
      BY <1>0, StoreParts
    <2>3. runs' = runs  BY <1>1 DEF Mint
    <2>4. CASE s[x] # None
      <3> DEFINE R1 == IF s[x].client = None THEN R ELSE s[x].relays
                 t  == [s EXCEPT ![x].relays = R1]
      <3>1. s[x] \in SecretT /\ R1 \in Relays  BY <2>1, <2>4, RecordType
      <3>2. t \in Store /\ (\A y \in Secrets : y # x => t[y] = s[y]) /\ t[x] # None
            /\ t[x].id = s[x].id /\ t[x].client = s[x].client /\ t[x].confirmed = s[x].confirmed /\ t[x].relays = R1
        <4> HIDE DEF R1, s
        <4> DEFINE e == [s[x] EXCEPT !.relays = R1]
        <4>1. e \in SecretT /\ e.id = s[x].id /\ e.client = s[x].client /\ e.confirmed = s[x].confirmed /\ e.relays = R1
          BY <3>1 DEF SecretT
        <4>2. t = [s EXCEPT ![x] = e]  BY <2>1 DEF Store
        <4> HIDE DEF e, t
        <4> QED  BY <2>1, <4>1, <4>2, Names DEF Store
      <3>3. Keep(t, clients)
        <4>1. Keep([s EXCEPT ![x].relays = IF s[x].client = None THEN R ELSE @], clients)
          BY <1>1, <2>4 DEF Mint
        <4>2. [s EXCEPT ![x].relays = IF s[x].client = None THEN R ELSE @] = t
          BY <2>1 DEF Store
        <4> QED  BY <4>1, <4>2
      <3>4. Handed(t, clients)  BY <1>0, <3>3, KeepHands DEF Sound
      <3> HIDE DEF t, s
      <3>5. s[x].client # None => R1 = s[x].relays  OBVIOUS
      <3> HIDE DEF R1
      <3>6. SteadyTo(secrets, t)  BY <2>1, <2>4, <3>2, <3>5 DEF SteadyTo, GoesOn
      <3>7. SteadyTo(secrets, secrets') /\ NobodyNew
        BY <3>2, <3>4, <3>6, SteadyHanded DEF Handed, NobodyNew
      <3> QED  BY <2>3, <3>7, QuietExport
    <2>5. CASE s[x] = None
      <3> DEFINE f == Fresh(R, "bunker", lapse)
                 t == [s EXCEPT ![x] = f]
      <3>1. Keep(t, clients)  BY <1>1, <2>5 DEF Mint
      <3>2. f \in SecretT /\ f.id = history.born + 1  BY <1>0, FreshIs
      <3> HIDE DEF f, s
      <3>3. t \in Store /\ t[x] = f /\ \A y \in Secrets : y # x => t[y] = s[y]
        BY <2>1, <3>2 DEF Store
      <3>4. Handed(t, clients)  BY <1>0, <3>1, KeepHands DEF Sound
      <3> HIDE DEF t
      <3>5. secrets[x] # None => ~secrets[x].confirmed  BY <2>1, <2>5
      <3>6. SteadyTo(secrets, t)
        BY <2>1, <2>2, <3>2, <3>3, <3>5 DEF SteadyTo, GoesOn
      <3>7. SteadyTo(secrets, secrets') /\ NobodyNew
        BY <3>3, <3>4, <3>6, SteadyHanded DEF Handed, NobodyNew
      <3> QED  BY <2>3, <3>7, QuietExport
    <2> QED  BY <2>4, <2>5
  <1>2. ASSUME NEW x \in Secrets, Lapse(x)  PROVE Exportable'
    <2> DEFINE e == [secrets[x] EXCEPT !.lapse = "now"]
    <2>1. secrets[x] # None /\ secrets' = [secrets EXCEPT ![x].lapse = "now"] /\ UNCHANGED <<clients, runs>>
      BY <1>2 DEF Lapse
    <2>2. secrets[x] \in SecretT  BY <1>0, <2>1, RecordType
    <2>3. e.id = secrets[x].id /\ e.client = secrets[x].client /\ e.confirmed = secrets[x].confirmed
          /\ e.relays = secrets[x].relays /\ e \in SecretT
      BY <2>2 DEF SecretT
    <2>4. secrets'[x] = e /\ \A y \in Secrets : y # x => secrets'[y] = secrets[y]
      BY <1>0, <2>1 DEF Store
    <2> HIDE DEF e
    <2>5. SteadyTo(secrets, secrets')  BY <2>1, <2>3, <2>4, Names DEF SteadyTo, GoesOn
    <2> QED  BY <2>1, <2>5, QuietExport DEF NobodyNew
  <1>3. ASSUME NEW c \in Clients, Kick(c)  PROVE Exportable'
    <2>1. Forget(secrets, c, generation, host.generation) /\ runs' = runs  BY <1>3 DEF Kick
    <2>2. NobodyNew /\ secrets' \in {secrets, Swept(secrets)}
      BY <1>0, <2>1, ForgetNobody DEF Forget, Emit
    <2> QED  BY <2>1, <2>2, SweptExport
  <1>4. ASSUME Sweep  PROVE Exportable'
    <2>1. Keep(secrets, clients) /\ runs' = runs  BY <1>4 DEF Sweep
    <2>2. NobodyNew /\ secrets' \in {secrets, Swept(secrets)}
      BY <2>1 DEF Keep, Emit, NobodyNew
    <2> QED  BY <2>1, <2>2, SweptExport
  <1> QED  BY <1>1, <1>2, <1>3, <1>4

\* A client that awaits an answer on a record never does so by both doors.
LEMMA ApproveExport ==
    ASSUME Whole, Exportable, Sound', Ordinary, Scene' = Scene, OneDoor(Scene), NEW k \in Slots, Approve(k)
    PROVE  Exportable'
  <1> DEFINE c == runs[k].by
             x == runs[k].secret
             i == runs[k].rec
             Q == runs[k].relays
             R == IF runs[k].do = "scan" THEN Q ELSE secrets[x].relays
             s == IF HoldsRecord(k) THEN Confirmed(secrets, x, R) ELSE secrets
             e == [secret |-> x, id |-> i, relays |-> Q]
             C == [clients EXCEPT ![c] = e]
             q == [runs[k] EXCEPT !.at = "reply", !.ok = TRUE]
  <1>1. Awaiting(k) /\ (i = 0 \/ HoldsRecord(k)) /\ Keep(s, C) /\ Replies(k, TRUE)
    BY DEF Approve
  <1>2. Handed(s, C) /\ clients' = C
    BY <1>1, KeepHands DEF Whole, Sound, Handed
  <1>3. k \in AwaitSet(runs) /\ c \in Clients /\ i \in Nat /\ secrets \in Store /\ clients \in Book
        /\ Q \in Relays /\ x \in Secrets \cup {None} /\ runs[k] \in RunT
        /\ StoreInv(secrets, clients, history.born) /\ history.born \in Nat
    BY <1>1, AwaitingIs, Basics DEF Whole
  <1>4. ~Waits(q) /\ Becomes(runs, k, q, runs')
    BY <1>1, <1>3, Reply DEF Replies, To, Becomes
  <1>5. \A j \in AwaitSet(runs') : j \in AwaitSet(runs) /\ runs'[j] = runs[j]
    <2> HIDE DEF q
    <2> QED  BY <1>4, RunsAfter DEF Whole
  <1> SUFFICES ASSUME Scene.required, ~Scene.anytime
               PROVE  Awaited(Scene, secrets', runs') /\ AllBacked(secrets', clients')
    BY ExportNext DEF Whole, Ordinary
  <1>6. Awaited(Scene, secrets, runs) /\ AllBacked(secrets, clients)  BY DEF Exportable
  <1>7. FromScene(Scene, runs[k]) /\ AsksOnItsRelays(secrets, runs[k])  BY <1>3, <1>6 DEF Awaited
  <1>8. HoldsRecord(k)  BY <1>1, <1>7 DEF FromScene
  <1>9. x \in Secrets /\ secrets[x] # None /\ secrets[x].id = i /\ secrets[x].client = c /\ secrets[x].pending > 0
        /\ secrets[x].relays \in Relays
    BY <1>1, <1>3, <1>8, AwaitingIs, RecordType DEF Whole
  <1>10. R = Q
    <2>1. CASE runs[k].do = "scan"  BY <2>1
    <2>2. CASE runs[k].do = "connect"  BY <1>7, <1>9, <2>2 DEF AsksOnItsRelays
    <2> QED  BY <1>1, <2>1, <2>2 DEF Awaiting
  <1>11. s = Confirmed(secrets, x, Q)  BY <1>8, <1>10
  <1>12. /\ clients'[c] = e /\ e.secret = x /\ e.relays = Q
         /\ \A d \in Clients : d # c => clients'[d] = clients[d]
    BY <1>2, <1>3 DEF Book
  <1>13. runs[k].do \in {"connect", "scan"}  BY <1>1 DEF Awaiting
  <1> HIDE DEF s, R, C, e, q
  <1>14. /\ s \in Store /\ \A y \in Secrets : y # x => s[y] = secrets[y]
         /\ s[x] # None /\ s[x].id = i /\ s[x].client = c /\ s[x].confirmed /\ s[x].relays = Q
    <2> HIDE DEF i, c, x, Q
    <2> QED  BY <1>3, <1>9, <1>11, ConfirmedIs
  <1>15. \A y \in Secrets : /\ secrets'[y] # None => secrets'[y] = s[y]
                            /\ s[y] # None /\ s[y].confirmed => secrets'[y] = s[y]
    BY <1>2, <1>14, SweptIs DEF Handed
  <1>16. AllBacked(secrets', clients')
    <2> SUFFICES ASSUME NEW d \in Clients, clients'[d] # None
                 PROVE  BackedBy(secrets', d, clients'[d])
      BY DEF AllBacked
    <2>1. CASE d = c
      <3>1. secrets'[x] = s[x]  BY <1>9, <1>14, <1>15
      <3> QED  BY <1>9, <1>12, <1>14, <2>1, <3>1 DEF BackedBy
    <2>2. CASE d # c
      <3>1. clients'[d] = clients[d] /\ BackedBy(secrets, d, clients[d])  BY <1>6, <1>12, <2>2 DEF AllBacked
      <3>2. clients[d].secret # x  BY <1>9, <2>2, <3>1 DEF BackedBy
      <3> HIDE DEF x, c
      <3> QED  BY <1>14, <1>15, <3>1, <3>2 DEF BackedBy
    <2> QED  BY <2>1, <2>2
  <1>17. Awaited(Scene, secrets', runs')
    <2> SUFFICES ASSUME NEW j \in AwaitSet(runs)
                 PROVE  FromScene(Scene, runs[j]) /\ AsksOnItsRelays(secrets', runs[j])
      BY <1>5 DEF Awaited
    <2>1. FromScene(Scene, runs[j]) /\ AsksOnItsRelays(secrets, runs[j])  BY <1>6 DEF Awaited
    <2>2. WaitsFor(secrets, runs[j], history.born)  BY Basics DEF Whole
    <2>3. ASSUME NEW y \in Secrets, runs[j].do = "connect", secrets'[y] # None, secrets'[y].id = runs[j].rec
          PROVE  runs[j].relays = secrets'[y].relays
      <3>1. CASE y # x
        BY <1>14, <1>15, <2>1, <2>3, <3>1 DEF AsksOnItsRelays
      <3>2. CASE y = x
        <4>1. runs[j].rec = i  BY <1>14, <1>15, <2>3, <3>2
        <4>2. runs[j].secret = x /\ runs[j].by = c  BY <1>9, <2>2, <4>1 DEF WaitsFor
        <4>3. runs[j].relays = secrets[x].relays  BY <1>9, <2>1, <2>3, <4>1 DEF AsksOnItsRelays
        <4>4. runs[k].do # "scan"
          <5> SUFFICES ASSUME runs[k].do = "scan"  PROVE FALSE
            OBVIOUS
          <5>1. \E r \in Scene.requests : r.do = "connect" /\ r.by = c /\ r.secret = x
            BY <2>1, <2>3, <4>2 DEF FromScene
          <5>2. \E u \in Scene.scans : u.by = c /\ u.secret = x
            BY <1>7 DEF FromScene
          <5> HIDE DEF c, x
          <5> QED  BY <5>1, <5>2 DEF OneDoor
        <4>5. runs[k].do = "connect"  BY <1>13, <4>4
        <4>6. Q = secrets[x].relays  BY <1>7, <1>9, <4>5 DEF AsksOnItsRelays
        <4>7. secrets'[y].relays = Q  BY <1>14, <1>15, <2>3, <3>2
        <4> QED  BY <4>3, <4>6, <4>7
      <3> QED  BY <3>1, <3>2
    <2> QED  BY <2>1, <2>3 DEF AsksOnItsRelays
  <1> QED  BY <1>16, <1>17

\* A revocation drops the clients that came through the record: those that stay are backed by another.
LEMMA DroppedBacked ==
    ASSUME Sound, NEW x \in Held, AllBacked(secrets, clients)
    PROVE  AllBacked(Without(x), Dropped(x)) /\ AllBacked(Swept(Without(x)), Dropped(x))
  <1> DEFINE S == Without(x)
             C == Dropped(x)
             Z == Swept(S)
  <1>0. x \in Secrets /\ secrets[x] # None /\ S \in Store /\ secrets \in Store  BY WithoutIs, Basics
  <1>1. \A y \in Secrets : y # x => S[y] = secrets[y]  BY <1>0 DEF Without, Store
  <1>2. \A y \in Secrets : S[y] # None /\ S[y].confirmed => Z[y] = S[y]  BY <1>0, SweptIs
  <1>3. ASSUME NEW c \in Clients, C[c] # None
        PROVE  BackedBy(S, c, C[c]) /\ BackedBy(Z, c, C[c])
    <2>1. C[c] = clients[c] /\ clients[c] # None /\ c \notin Through(x)  BY <1>3 DEF Dropped
    <2>2. BackedBy(secrets, c, clients[c])  BY <2>1 DEF AllBacked
    <2>3. clients[c].secret # x  BY <2>1, <2>2 DEF BackedBy, Through, Connected
    <2> HIDE DEF S, C, Z
    <2> QED  BY <1>1, <1>2, <2>1, <2>2, <2>3 DEF BackedBy
  <1> QED  BY <1>3 DEF AllBacked

LEMMA RevokeExport ==
    ASSUME Whole, Exportable, Sound', Scene' = Scene, NEW x \in Secrets, Revoke(x)
    PROVE  Exportable'
  <1>1. Emit(Without(x), Dropped(x), generation + 1, generation + 1) /\ runs' = runs /\ x \in Held
    BY DEF Revoke, Without, Dropped
  <1>2. Saves /\ secrets' = Swept(Without(x)) /\ clients' = Dropped(x)
    BY <1>1, EmitHands DEF Whole, Sound, Handed
  <1>3. Ordinary  BY RevokeStep DEF Whole
  <1>4. /\ Without(x) \in Store /\ \A y \in Secrets : Without(x)[y] # None => Without(x)[y] = secrets[y]
    BY <1>1, WithoutIs DEF Whole
  <1>5. \A y \in Secrets : secrets'[y] # None => secrets'[y] = secrets[y]
    BY <1>2, <1>4, SweptIs
  <1>6. ASSUME Scene.required /\ ~Scene.anytime
        PROVE  Awaited(Scene, secrets', runs') /\ AllBacked(secrets', clients')
    <2>1. Awaited(Scene, secrets, runs) /\ AllBacked(secrets, clients)  BY <1>6 DEF Exportable
    <2>2. Awaited(Scene, secrets', runs')  BY <1>1, <1>5, <2>1 DEF Awaited, AsksOnItsRelays
    <2>3. AllBacked(secrets', clients')  BY <1>1, <1>2, <2>1, DroppedBacked DEF Whole
    <2> QED  BY <2>2, <2>3
  <1> QED  BY <1>2, <1>6, ExportNext DEF Whole

\* A new process has nothing that could not be handed out.
LEMMA ProcessExport ==
    ASSUME NewProcess, AwaitSet(runs') = {}
    PROVE  Awaited(Scene, secrets', runs') /\ AllBacked(secrets', clients')
  <1>1. \A c \in Clients : clients'[c] = None  BY DEF NewProcess
  <1> QED  BY <1>1 DEF Awaited, AllBacked

LEMMA CrashExport ==
    ASSUME Whole, Exportable, Sound', Scene' = Scene, Crash
    PROVE  Exportable'
  <1>1. NewProcess /\ host' = host /\ history' = history /\ spent' = [spent EXCEPT !.crashes = @ + 1]  BY DEF Crash
  <1>2. SceneKept /\ host' \in HostT  BY <1>1, Basics DEF SceneKept, Whole, Sound, Shapes
  <1>3. AwaitSet(runs') = {}  BY <1>1, <1>2, ProcessStep DEF Whole
  <1>4. Awaited(Scene, secrets', runs') /\ AllBacked(secrets', clients')  BY <1>1, <1>3, ProcessExport
  <1>5. generation' = generation  BY <1>1 DEF NewProcess, Whole, Sound, Shapes
  <1> SUFFICES ASSUME Scene.required, ~Scene.anytime, host.saved # None
               PROVE  Restorable(host.saved, generation)'
    BY <1>1, <1>4 DEF Exportable
  <1>6. Restorable(host.saved, generation)  BY DEF Exportable
  <1>7. \A c : Backed(host.saved, c) <=> Backed(host.saved, c)'  BY <1>1 DEF Backed, Incoming
  <1>8. Valid(host.saved)'  BY <1>1, <1>6, <1>7 DEF Restorable, Valid, Incoming, StateClients
  <1> QED  BY <1>1, <1>5, <1>6, <1>8 DEF Restorable, StateGeneration

LEMMA CutShortExport ==
    ASSUME Whole, Exportable, Sound', Scene' = Scene, NEW x \in Secrets, RevokeCutShort(x)
    PROVE  Exportable'
  <1> DEFINE S == Swept(Without(x))
             C == Dropped(x)
             st == CutShort(x)
             n == history.born
  <1>1. /\ NewProcess /\ UNCHANGED history /\ x \in Held /\ host' = [host EXCEPT !.saved = st] /\ host'.saved = st
        /\ spent' = [spent EXCEPT !.revokes = @ + 1, !.crashes = @ + 1]
    <2>1. NewProcess /\ spent' = [spent EXCEPT !.revokes = @ + 1, !.crashes = @ + 1]  BY DEF RevokeCutShort
    <2> QED  BY <2>1, RevokeCutShortStep DEF Whole
  <1>2. /\ S \in Store /\ C \in Book /\ StoreInv(S, C, n) /\ n \in Nat
        /\ \A y \in Secrets : S[y] # None => S[y] = secrets[y]
        /\ \A c \in Clients : C[c] # None => C[c] = clients[c]
        /\ StateInv(st, n) /\ StateGeneration(st) = generation + 1 /\ st \in StateT /\ st.clients = C
        /\ \A y \in Secrets : Like(S[y], st.secrets[y])
    BY <1>1, CutShortIs, Basics DEF Whole
  <1>3. SceneKept
    <2>1. "scene" \in DOMAIN spent  BY DEF Whole, Sound, Shapes
    <2> QED  BY <1>1, <2>1 DEF SceneKept
  <1>4. host' \in HostT /\ host'.generation = host.generation
    <2>1. host \in HostT /\ host' = [host EXCEPT !.saved = st] /\ st \in StateT  BY <1>1, <1>2, Basics DEF Whole
    <2> HIDE DEF st
    <2> QED  BY <2>1 DEF HostT
  <1>5. AwaitSet(runs') = {}  BY <1>1, <1>3, <1>4, ProcessStep DEF Whole
  <1>6. Awaited(Scene, secrets', runs') /\ AllBacked(secrets', clients')  BY <1>1, <1>5, ProcessExport
  <1>7. generation' = generation /\ generation \in Nat  BY <1>1, <1>4, Basics DEF NewProcess, Whole, Sound, Shapes
  <1> SUFFICES ASSUME Scene.required, ~Scene.anytime
               PROVE  Restorable(host.saved, generation)'
    BY <1>6 DEF Exportable
  <1>8. AllBacked(S, C)  BY <1>1, DroppedBacked DEF Exportable, Whole
  <1>9. st.secrets \in Store  BY <1>2, StateParts
  <1>10. StateGeneration(st) >= generation  BY <1>2, <1>7
  <1> HIDE DEF S, C, st
  <1>11. Cardinality({y \in Secrets : S[y] # None}) <= Scene.maxSecrets
         /\ Cardinality({c \in Clients : C[c] # None}) <= Scene.maxClients
    <2>1. /\ Cardinality({y \in Secrets : S[y] # None}) <= Cardinality(Held)
          /\ Cardinality({y \in Secrets : S[y] # None}) \in Nat /\ Cardinality(Held) \in Nat
      BY <1>2, HeldFewer DEF Held
    <2>2. Cardinality(Held) <= Scene.maxSecrets /\ Scene.maxSecrets \in Nat
      BY SceneIs DEF Whole, Sound, Ceilings
    <2> QED  BY <1>2, <2>1, <2>2, NoMoreClients DEF Whole
  <1>12. Restorable(st, generation)
    BY <1>2, <1>7, <1>8, <1>9, <1>10, <1>11, Handable DEF Whole
  <1>13. \A c : Backed(st, c) <=> Backed(host.saved, c)'  BY <1>1 DEF Backed, Incoming
  <1>14. Valid(host.saved)'  BY <1>1, <1>12, <1>13 DEF Restorable, Valid, Incoming, StateClients
  <1> QED  BY <1>1, <1>7, <1>12, <1>14 DEF Restorable, StateGeneration

LEMMA CopyExport ==
    ASSUME Whole, Exportable, Sound', Scene' = Scene, Copy
    PROVE  Exportable'
  <1>1. UNCHANGED <<memory, history, spent>> /\ host'.saved = host.saved  BY CopyStep DEF Whole
  <1>2. UNCHANGED <<secrets, clients, runs, generation>>  BY <1>1 DEF memory
  <1>3. \A c : Backed(host.saved, c) <=> Backed(host.saved, c)'  BY <1>1 DEF Backed, Incoming
  <1>4. Valid(host.saved) => Valid(host.saved)'
    BY <1>1, <1>3 DEF Valid, Incoming, StateClients
  <1>5. Restorable(host.saved, generation) => Restorable(host.saved, generation)'
    BY <1>1, <1>2, <1>4 DEF Restorable, StateGeneration
  <1> QED  BY <1>1, <1>2, <1>5 DEF Exportable, Awaited, AllBacked

LEMMA RestoreExport ==
    ASSUME Whole, Exportable, Sound', Scene' = Scene, NEW st \in {host.saved, host.kept}, st # None,
           NEW old \in BOOLEAN, Restore(st, old)
    PROVE  Exportable'
  <1> DEFINE M == Merged(st)
             C == Rejoined(st)
             I == Incoming(st)
             T == st.secrets
  <1>1. /\ Restorable(st, generation) /\ secrets' = Swept(M) /\ clients' = C /\ Saves
        /\ runs' = runs /\ approvals = 0
    BY RestoreIs DEF Whole
  <1>2. T \in Store /\ st.clients \in Book  BY FitsIs, StateParts, Basics DEF Fits, Whole
  <1>3. /\ M \in Store
        /\ \A x \in Secrets : IF BoundHere(x) \/ I[x] = None THEN M[x] = secrets[x] ELSE M[x] = I[x]
        /\ \A c \in Clients : IF clients[c] # None THEN C[c] = clients[c] ELSE C[c] = st.clients[c]
    BY <1>2, MergedIs DEF Whole
  <1>4. AwaitSet(runs') = {}  BY <1>1, NothingPends DEF Whole
  <1>5. ASSUME Scene.required /\ ~Scene.anytime
        PROVE  Awaited(Scene, secrets', runs') /\ AllBacked(secrets', clients')
    <2>1. Held \cup Connected = {}  BY <1>5 DEF Restore
    <2>2. \A x \in Secrets : ~BoundHere(x)  BY <2>1 DEF BoundHere, Held
    <2>3. \A c \in Clients : C[c] = st.clients[c]  BY <1>3, <2>1 DEF Connected
    <2>4. ASSUME NEW c \in Clients, C[c] # None
          PROVE  BackedBy(secrets', c, C[c])
      <3> DEFINE x == st.clients[c].secret
      <3>1. c \in StateClients(st) /\ Backed(st, c)
        BY <1>1, <2>3, <2>4 DEF StateClients, Restorable, Valid
      <3>2. x \in Secrets /\ I[x] # None /\ I[x].client = c /\ I[x].confirmed /\ I[x].relays = st.clients[c].relays
        <4>1. x \in Secrets \cup {None}  BY <1>2, <2>3, <2>4, ClientTypes
        <4> QED  BY <1>5, <3>1, <4>1 DEF Backed
      <3> HIDE DEF M, C, I
      <3>3. M[x] = I[x]  BY <1>3, <2>2, <3>2
      <3>4. secrets'[x] = M[x]  BY <1>1, <1>3, <3>2, <3>3, SweptIs
      <3> QED  BY <2>3, <3>2, <3>3, <3>4 DEF BackedBy
    <2> QED  BY <1>1, <1>4, <2>4 DEF Awaited, AllBacked
  <1> QED  BY <1>1, <1>5, ExportNext DEF Whole

LEMMA ExportAtFirst ==
    ASSUME Init
    PROVE  Exportable
  <1>0. Whole  BY AtFirst
  <1>1. PICK N \in DOMAIN Scenes : Scene = Scenes[N] /\ host.saved = Scenes[N].found
    BY DEF Init, Scene
  <1>2. /\ secrets = [x \in Secrets |-> None] /\ clients = [c \in Clients |-> None]
        /\ runs = [k \in Slots |-> IdleRun] /\ generation = 0
    BY DEF Init
  <1>3. AwaitSet(runs) = {}
    <2>1. ~Waits(IdleRun)  BY DEF IdleRun, Waits
    <2> QED  BY <1>2, <2>1 DEF AwaitSet
  <1>4. Awaited(Scene, secrets, runs) /\ AllBacked(secrets, clients)
    BY <1>2, <1>3 DEF Awaited, AllBacked
  <1> SUFFICES ASSUME Scene.required, host.saved # None  PROVE Restorable(host.saved, generation)
    BY <1>4 DEF Exportable
  <1>5. PICK c \in Clients, x \in Secrets, R \in Relays : host.saved = Legacy(c, x, R)
    BY <1>1, BunkerAssumption
  <1>6. Scene.maxClients > 0 /\ Scene.maxSecrets > 0 /\ Scene.maxClients \in Nat /\ Scene.maxSecrets \in Nat
    BY <1>1, BunkerAssumption
  <1> DEFINE st == host.saved
             r  == [id |-> 1, relays |-> R, client |-> c, confirmed |-> TRUE, pending |-> 0,
                    origin |-> "bunker", lapse |-> "never"]
             cl == [secret |-> x, id |-> 1, relays |-> R]
             T  == [y \in Secrets |-> IF y # x THEN None ELSE r]
             D  == [d \in Clients |-> IF d = c THEN cl ELSE None]
  <1>7. r.id = 1 /\ r.client = c /\ r.confirmed /\ r.relays = R /\ r \in SecretT  BY DEF SecretT
  <1>8. cl.secret = x /\ cl.relays = R /\ cl \in ClientT  BY DEF ClientT
  <1>9. st.secrets = T /\ st.clients = D /\ StateGeneration(st) = 0
    BY <1>5 DEF Legacy, StateGeneration
  <1>10. r # None /\ cl # None /\ c # None /\ x # None  BY <1>7, <1>8, Names
  <1> HIDE DEF r, cl
  <1>11. /\ T \in [Secrets -> SecretT \cup {None}] /\ T[x] = r /\ \A y \in Secrets : y # x => T[y] = None
         /\ D \in [Clients -> ClientT \cup {None}] /\ D[c] = cl /\ \A d \in Clients : d # c => D[d] = None
    BY <1>7, <1>8
  <1> HIDE DEF T, D, st
  <1>12. AllBacked(T, D)
    BY <1>7, <1>8, <1>10, <1>11 DEF AllBacked, BackedBy
  <1>13. StateInv(st, 1) /\ st.secrets \in Store  BY <1>5, LegacyIs, StateParts DEF st
  <1>14. StoreInv(T, D, 1)  BY <1>9, <1>13 DEF StateInv
  <1>15. Cardinality({y \in Secrets : T[y] # None}) <= Scene.maxSecrets
         /\ Cardinality({d \in Clients : D[d] # None}) <= Scene.maxClients
    <2>1. {y \in Secrets : T[y] # None} = {x} /\ {d \in Clients : D[d] # None} = {c}
      BY <1>10, <1>11
    <2>2. Cardinality({x}) = 1 /\ Cardinality({c}) = 1  BY FS_Singleton
    <2>3. Cardinality({y \in Secrets : T[y] # None}) = 1 /\ Cardinality({d \in Clients : D[d] # None}) = 1
      BY <2>1, <2>2
    <2>4. 1 <= Scene.maxSecrets /\ 1 <= Scene.maxClients  BY <1>6
    <2> QED  BY <2>3, <2>4
  <1>16. StateGeneration(st) >= 0  BY <1>9
  <1>17. \A y \in Secrets : Like(T[y], st.secrets[y])  BY <1>9 DEF Like
  <1>18. Restorable(st, 0)
    BY <1>0, <1>9, <1>12, <1>13, <1>14, <1>15, <1>16, <1>17, Handable DEF Whole
  <1> QED  BY <1>2, <1>18 DEF st

LEMMA ExportEveryStep ==
    ASSUME Whole, Exportable, OneDoor(Scene), [Next]_vars
    PROVE  Exportable'
  <1>0. Whole' /\ Sound' /\ Sound /\ Scene' = Scene
    BY EveryStep, SceneStays DEF Whole
  <1>1. CASE UNCHANGED vars
    <2>1. UNCHANGED <<secrets, clients, runs, generation, host, spent>>  BY <1>1 DEF vars, memory
    <2>2. \A c : Backed(host.saved, c) <=> Backed(host.saved, c)'  BY <1>0, <2>1 DEF Backed, Incoming
    <2>3. Valid(host.saved) => Valid(host.saved)'
      BY <1>0, <2>1, <2>2 DEF Valid, Incoming, StateClients
    <2>4. Restorable(host.saved, generation) => Restorable(host.saved, generation)'
      BY <2>1, <2>3 DEF Restorable, StateGeneration
    <2> QED  BY <1>0, <2>1, <2>4 DEF Exportable, Awaited, AllBacked
  <1>2. CASE Next
    <2>1. ASSUME NEW k \in Slots, \/ \E r \in Scene.requests : Deliver(k, r)
                                  \/ \E u \in Scene.scans : Scan(k, u)
                                  \/ Reject(k)
                                  \/ Discard(k)
                                  \/ Sent(k)
                                  \/ \E ok \in BOOLEAN : Answer(k, ok)
          PROVE  Exportable'
      <3>1. Ordinary
        BY <1>0, <2>1, DeliverStep, ScanStep, RejectStep, DiscardStep, SentStep, AnswerStep
      <3> QED  BY <1>0, <2>1, <3>1, RunExport
    <2>2. ASSUME NEW k \in Slots, Approve(k)  PROVE Exportable'
      <3>1. Ordinary  BY <1>0, <2>2, ApproveStep
      <3> QED  BY <1>0, <2>2, <3>1, ApproveExport
    <2>3. ASSUME \/ \E x \in Secrets, R \in Relays, lapse \in {"later", "never"} : Mint(x, R, lapse)
                 \/ \E x \in Secrets : Lapse(x)
                 \/ \E c \in Clients : Kick(c)
                 \/ Sweep
          PROVE  Exportable'
      <3>1. Ordinary  BY <1>0, <2>3, MintStep, LapseStep, KickStep, SweepStep
      <3> QED  BY <1>0, <2>3, <3>1, HostExport
    <2>4. ASSUME NEW x \in Secrets, Revoke(x)  PROVE Exportable'  BY <1>0, <2>4, RevokeExport
    <2>5. ASSUME NEW x \in Secrets, RevokeCutShort(x)  PROVE Exportable'  BY <1>0, <2>5, CutShortExport
    <2>6. ASSUME Crash  PROVE Exportable'  BY <1>0, <2>6, CrashExport
    <2>7. ASSUME Copy  PROVE Exportable'  BY <1>0, <2>7, CopyExport
    <2>8. ASSUME RestoreSaved  PROVE Exportable'
      <3>1. host.saved # None /\ Restore(host.saved, FALSE)  BY <2>8 DEF RestoreSaved
      <3> QED  BY <1>0, <3>1, RestoreExport
    <2>9. ASSUME RestoreKept  PROVE Exportable'
      <3>1. host.kept # None /\ Restore(host.kept, TRUE)  BY <2>9 DEF RestoreKept
      <3> QED  BY <1>0, <3>1, RestoreExport
    <2> QED  BY <1>2, <2>1, <2>2, <2>3, <2>4, <2>5, <2>6, <2>7, <2>8, <2>9 DEF Next
  <1> QED  BY <1>1, <1>2

\* server.ts, exportState() and restore(): the state that was handed out last is accepted by
\* the next process, of a host that requires secrets and restores into a process that has
\* nothing yet.  The hypothesis is needed: connect takes the relays of its record before
\* the user is asked, and a scan of the same client and secret that is approved meanwhile
\* replaces them, so that the client is then admitted on relays its record no longer has.
THEOREM ExportsRestoreHolds ==
    ASSUME \A n \in DOMAIN Scenes : OneDoor(Scenes[n])
    PROVE  Spec => []ExportsRestore
  <1> DEFINE Good == Whole /\ Exportable
  <1>1. Init => Good  BY AtFirst, ExportAtFirst
  <1>2. Good /\ [Next]_vars => Good'
    <2> SUFFICES ASSUME Good, [Next]_vars  PROVE Good'
      OBVIOUS
    <2>1. OneDoor(Scene)  BY DEF Whole, Sound, Shapes, Scene
    <2> QED  BY <2>1, EveryStep, ExportEveryStep
  <1>3. Good => ExportsRestore
    BY DEF Exportable, ExportsRestore, Whole, Sound, Shapes
  <1> HIDE DEF Good
  <1> QED  BY <1>1, <1>2, <1>3, PTL DEF Spec

=============================================================================
