------------------------------ MODULE HubProofs ------------------------------
(***************************************************************************)
(* Proofs about one socket of the hub (RelayHub, a part of RelaySide), for *)
(* any subscriptions, leases, keys, challenges and scenes: the registry    *)
(* and what callers hold of it fit together, and AUTH belongs to its       *)
(* connection and its key.                                                 *)
(*                                                                         *)
(* A handler is a composition of operators over one record, so the proof   *)
(* goes by operator. The scheduler leaves the registry, the holders and    *)
(* the AUTH record alone (Beside), its loops included, by the fold         *)
(* induction of FoldFacts; what keeps Sane is then shown of each operator, *)
(* and of each action.                                                     *)
(***************************************************************************)
EXTENDS RelaySide, FiniteSetTheorems, TLAPS

Recs == Hub!LiveRecord
Hubs == Hub!HubState

LEMMA HubAssumed ==
    /\ IsFiniteSet(HubLives) /\ HubLives \subseteq Nat \ {0} /\ 0 \notin HubLives
    /\ HubOps \subseteq Nat \ {0} /\ 0 \notin HubOps
    /\ None \notin HubKeys /\ None \notin HubPubkeys /\ None \notin HubChallenges
    /\ None \notin Recs /\ None \notin Hub!AuthRecord /\ None \notin Hub!Signature
<1>1. Hub!IsFiniteSet(HubLives) /\ HubLives = 1..Hub!Cardinality(HubLives)
      BY RelayAssumption DEF Hub!RelayHubAssumption
<1>2. Hub!IsFiniteSet(HubLives) = IsFiniteSet(HubLives) /\ Hub!Cardinality(HubLives) = Cardinality(HubLives)
      BY DEF Hub!IsFiniteSet, IsFiniteSet, Hub!Cardinality, Cardinality
<1>3. Cardinality(HubLives) \in Nat
      BY <1>1, <1>2, FS_CardinalityType
<1> QED BY <1>1, <1>2, <1>3, RelayAssumption DEF Hub!RelayHubAssumption, Recs

-----------------------------------------------------------------------------
(* What the scheduler leaves alone: everything but how far the requests of *)
(* the live records are, and who was told that it is over.                 *)

Likewise(k, l) ==
    /\ k \in Recs /\ l.key = k.key /\ l.ent = k.ent /\ l.holders = k.holders /\ l.pri = k.pri /\ l.watch = k.watch
    /\ l.cap = k.cap /\ l.oneshot = k.oneshot /\ l.late = k.late /\ (k.told => l.told)

OneOrNone(k, l) == \/ k \in Recs /\ l \in Recs /\ Likewise(k, l)
                   \/ k = None /\ l = None

Beside(s, t) ==
    /\ s \in Hubs /\ t \in Hubs
    /\ t.sock = s.sock /\ t.ents = s.ents /\ t.born = s.born /\ t.subs = s.subs /\ t.max = s.max
    /\ t.penalty = s.penalty /\ t.auth = s.auth /\ t.ops = s.ops /\ t.rides = s.rides
    /\ \A i \in HubLives : OneOrNone(s.live[i], t.live[i])

LEMMA BesideItself == ASSUME NEW s \in Hubs PROVE Beside(s, s)
<1>1. \A i \in HubLives : s.live[i] \in Recs \cup {None}
      BY DEF Hubs, Hub!HubState, Recs
<1>2. \A i \in HubLives : OneOrNone(s.live[i], s.live[i])
      BY <1>1 DEF OneOrNone, Likewise
<1> QED BY <1>2 DEF Beside

LEMMA BesideBoth == ASSUME NEW s, NEW t, NEW u, Beside(s, t), Beside(t, u) PROVE Beside(s, u)
<1>1. ASSUME NEW i \in HubLives
      PROVE  OneOrNone(s.live[i], u.live[i])
      BY HubAssumed DEF Beside, OneOrNone, Likewise
<1> QED BY <1>1 DEF Beside

\* One record replaced by one like it.
LEMMA OneBeside ==
    ASSUME NEW s \in Hubs, NEW i \in HubLives, s.live[i] \in Recs, NEW l \in Recs, Likewise(s.live[i], l)
    PROVE  Beside(s, [s EXCEPT !.live[i] = l])
<1> DEFINE t == [s EXCEPT !.live[i] = l]
<1>1. s.live \in [HubLives -> Recs \cup {None}]
      BY DEF Hubs, Hub!HubState, Recs
<1>2. t.live = [s.live EXCEPT ![i] = l]
      BY DEF Hubs, Hub!HubState
<1>3. t.live \in [HubLives -> Recs \cup {None}]
      BY <1>1, <1>2
<1>4. t \in Hubs
      BY <1>3 DEF Hubs, Hub!HubState, Recs
<1>5. \A j \in HubLives : OneOrNone(s.live[j], t.live[j])
      BY <1>1, <1>2 DEF OneOrNone, Likewise
<1>6. /\ t.sock = s.sock /\ t.ents = s.ents /\ t.born = s.born /\ t.subs = s.subs /\ t.max = s.max
      /\ t.penalty = s.penalty /\ t.auth = s.auth /\ t.ops = s.ops /\ t.rides = s.rides
      BY DEF Hubs, Hub!HubState
<1> QED BY <1>4, <1>5, <1>6 DEF Beside

LEMMA ParkBeside ==
    ASSUME NEW s \in Hubs, NEW i \in HubLives, s.live[i] \in Recs
    PROVE  Beside(s, Hub!Park(s, i))
<1> DEFINE l == [Hub!Quiet(s.live[i]) EXCEPT !.status = "parked"]
<1>1. l \in Recs /\ Likewise(s.live[i], l)
      BY DEF Recs, Hub!LiveRecord, Likewise, Hub!Quiet
<1> HIDE DEF l
<1>2. Beside(s, [s EXCEPT !.live[i] = l])
      BY <1>1, OneBeside
<1> QED BY <1>2 DEF Hub!Park, Hub!SetLive, l

LEMMA IssueBeside ==
    ASSUME NEW s \in Hubs, NEW i \in HubLives, s.live[i] \in Recs
    PROVE  Beside(s, Hub!Issue(s, i))
<1> DEFINE l == [s.live[i] EXCEPT !.issued = TRUE, !.status = "open", !.dog = s.live[i].watch,
                                  !.attempt = Hub!More(@)]
<1>a. Hub!More(s.live[i].attempt) \in Nat
      BY DEF Recs, Hub!LiveRecord, Hub!More, Hub!Many
<1>1. l \in Recs /\ Likewise(s.live[i], l)
      BY <1>a DEF Recs, Hub!LiveRecord, Likewise
<1> HIDE DEF l
<1>2. Beside(s, [s EXCEPT !.live[i] = l])
      BY <1>1, OneBeside
<1> QED BY <1>2 DEF Hub!Issue, Hub!SetLive, l

LEMMA MarkBeside ==
    ASSUME NEW s \in Hubs, NEW i \in HubLives, s.live[i] \in Recs, NEW v \in {"pending", "parked"}
    PROVE  Beside(s, Hub!SetLive(s, i, [s.live[i] EXCEPT !.status = v]))
<1> DEFINE l == [s.live[i] EXCEPT !.status = v]
<1>1. l \in Recs /\ Likewise(s.live[i], l)
      BY DEF Recs, Hub!LiveRecord, Likewise
<1> HIDE DEF l
<1>2. Beside(s, [s EXCEPT !.live[i] = l])
      BY <1>1, OneBeside
<1> QED BY <1>2 DEF Hub!SetLive, l

-----------------------------------------------------------------------------
(* Which one is taken first and which last.                                *)

Ends == INSTANCE FoldFacts WITH Step <- Hub!End, Pick <- Hub!LowestOf, Good <- LAMBDA s, J, t : Beside(s, t)

\* Records, as a set of ids.
Known(s, I) == I \subseteq HubLives /\ \A i \in I : s.live[i] \in Recs

LEMMA Greatest == ASSUME NEW I, I \subseteq HubLives, I # {} PROVE \E m \in I : \A k \in I : k <= m
<1> DEFINE n == Cardinality(HubLives)
           D == {n - k : k \in I}
<1>1. HubLives = 1..n /\ n \in Nat
  <2>1. Hub!IsFiniteSet(HubLives) /\ HubLives = 1..Hub!Cardinality(HubLives)
        BY RelayAssumption DEF Hub!RelayHubAssumption
  <2>2. IsFiniteSet(HubLives) /\ Hub!Cardinality(HubLives) = Cardinality(HubLives)
        BY <2>1 DEF Hub!IsFiniteSet, IsFiniteSet, Hub!Cardinality, Cardinality
  <2> QED BY <2>1, <2>2, FS_CardinalityType
<1> HIDE DEF n
<1>a. \A k \in I : k \in Nat /\ k <= n /\ n - k \in Nat
      BY <1>1
<1>2. D \subseteq Nat /\ D # {}
      BY <1>a
<1>3. PICK d \in D : \A k \in D : d <= k
  <2> HIDE DEF D
  <2> QED BY <1>2, Ends!Least
<1>4. PICK m \in I : d = n - m
      OBVIOUS
<1>5. ASSUME NEW k \in I PROVE k <= m
  <2>1. n - k \in D
        OBVIOUS
  <2>2. n - m <= n - k
        BY <1>3, <1>4, <2>1
  <2> QED BY <1>1, <1>a, <2>2
<1> QED BY <1>5

LEMMA LowestIs ==
    ASSUME NEW s, NEW I, Known(s, I), I # {}
    PROVE  /\ Hub!LowestOf(s, I) \in I
           /\ \A j \in I \ {Hub!LowestOf(s, I)} : Hub!Higher(s, j, Hub!LowestOf(s, I))
<1> DEFINE J == {i \in I : \A k \in I : s.live[i].pri <= s.live[k].pri}
<1>1. \A i \in I : s.live[i].pri \in {0, 1} /\ i \in Nat
      BY HubAssumed DEF Known, Recs, Hub!LiveRecord
<1>2. J # {} /\ J \subseteq HubLives
      BY <1>1 DEF Known
<1>3. PICK m \in J : \A k \in J : k <= m
  <2> HIDE DEF J
  <2> QED BY <1>2, Greatest
<1>4. \A j \in I \ {m} : Hub!Higher(s, j, m)
      BY <1>1, <1>3 DEF Hub!Higher
<1>5. \E i \in I : \A j \in I \ {i} : Hub!Higher(s, j, i)
      BY <1>3, <1>4
<1> QED BY <1>5 DEF Hub!LowestOf

LEMMA HighestIs ==
    ASSUME NEW s, NEW I, Known(s, I), I # {}
    PROVE  /\ Hub!HighestOf(s, I) \in I
           /\ \A j \in I \ {Hub!HighestOf(s, I)} : Hub!Higher(s, Hub!HighestOf(s, I), j)
<1> DEFINE J == {i \in I : \A k \in I : s.live[i].pri >= s.live[k].pri}
<1>1. \A i \in I : s.live[i].pri \in {0, 1} /\ i \in Nat
      BY HubAssumed DEF Known, Recs, Hub!LiveRecord
<1>2. J # {} /\ J \subseteq Nat
      BY <1>1
<1>3. PICK m \in J : \A k \in J : m <= k
  <2> HIDE DEF J
  <2> QED BY <1>2, Ends!Least
<1>4. \A j \in I \ {m} : Hub!Higher(s, m, j)
      BY <1>1, <1>3 DEF Hub!Higher
<1>5. \E i \in I : \A j \in I \ {i} : Hub!Higher(s, i, j)
      BY <1>3, <1>4
<1> QED BY <1>5 DEF Hub!HighestOf

LEMMA InOrder ==
    ASSUME NEW s, NEW I, Known(s, I)
    PROVE  /\ IsFiniteSet(I) /\ \A J \in SUBSET I : J # {} => Hub!LowestOf(s, J) \in J
           /\ \A J \in SUBSET I : J # {} => Hub!Max(J) \in J
<1>1. IsFiniteSet(I)
      BY HubAssumed, FS_Subset DEF Known
<1>2. ASSUME NEW J \in SUBSET I, J # {} PROVE Hub!LowestOf(s, J) \in J /\ Hub!Max(J) \in J
  <2>1. Known(s, J)
        BY DEF Known
  <2>2. \E m \in J : \A k \in J : k <= m
        BY <1>2, <2>1, Greatest DEF Known
  <2>3. \E m \in J : \A k \in J : m >= k
        BY <2>1, <2>2, HubAssumed DEF Known
  <2>4. Hub!Max(J) \in J
        BY <2>3 DEF Hub!Max
  <2> QED BY <1>2, <2>1, <2>4, LowestIs
<1> QED BY <1>1, <1>2

-----------------------------------------------------------------------------
(* The scheduler's operations leave the rest of the hub alone.             *)

LEMMA BucketKnown == ASSUME NEW s \in Hubs PROVE Known(s, Hub!InBucket(s)) /\ Known(s, Hub!Issued(s))
<1>1. \A i \in HubLives : s.live[i] # None => s.live[i] \in Recs
      BY DEF Hubs, Hub!HubState, Recs
<1> QED BY <1>1 DEF Known, Hub!InBucket, Hub!Issued, Hub!Is

LEMMA BesideKnown == ASSUME NEW s, NEW t, Beside(s, t), NEW I, Known(s, I) PROVE Known(t, I) /\ s \in Hubs /\ t \in Hubs
<1>1. \A i \in I : t.live[i] \in Recs
      BY HubAssumed DEF Beside, Known, OneOrNone
<1> QED BY <1>1 DEF Known, Beside

LEMMA PlaceBeside ==
    ASSUME NEW s \in Hubs, NEW i \in HubLives, s.live[i] \in Recs
    PROVE  Beside(s, Hub!Place(s, i))
<1>1. CASE ~s.sock.up \/ (s.sock.up /\ s.penalty)
      BY <1>1, MarkBeside DEF Hub!Place
<1>2. CASE s.sock.up /\ ~s.penalty /\ Hub!Cardinality(Hub!Issued(s)) < s.max
      BY <1>2, IssueBeside DEF Hub!Place
<1>3. CASE s.sock.up /\ ~s.penalty /\ ~(Hub!Cardinality(Hub!Issued(s)) < s.max)
  <2> DEFINE e == Hub!Lowest(s)
  <2>1. CASE s.live[e].pri < s.live[i].pri
    <3>1. Hub!Issued(s) # {}
      <4> SUFFICES ASSUME Hub!Issued(s) = {} PROVE FALSE
          OBVIOUS
      <4>1. Hub!Cardinality(Hub!Issued(s)) = 0
            BY FS_EmptySet DEF Hub!Cardinality, Cardinality
      <4> QED BY <1>3, <4>1 DEF Hubs, Hub!HubState
    <3>2. e \in Hub!Issued(s)
          BY <3>1, BucketKnown, LowestIs DEF Hub!Lowest
    <3>3. e \in HubLives /\ s.live[e] \in Recs
          BY <3>2, BucketKnown DEF Known
    <3> HIDE DEF e
    <3>4. Beside(s, Hub!Park(s, e))
          BY <3>3, ParkBeside
    <3>5. Hub!Park(s, e) \in Hubs /\ Hub!Park(s, e).live[i] \in Recs
          BY <3>4, HubAssumed DEF Beside, OneOrNone
    <3>6. Beside(Hub!Park(s, e), Hub!Issue(Hub!Park(s, e), i))
          BY <3>5, IssueBeside
    <3>7. Beside(s, Hub!Issue(Hub!Park(s, e), i))
          BY <3>4, <3>6, BesideBoth
    <3> QED BY <1>3, <2>1, <3>7 DEF Hub!Place, e
  <2>2. CASE ~(s.live[e].pri < s.live[i].pri)
    <3>1. Hub!Place(s, i) = Hub!SetLive(s, i, [s.live[i] EXCEPT !.status = "parked"])
          BY <1>3, <2>2 DEF Hub!Place
    <3> QED BY <3>1, MarkBeside
  <2> QED BY <2>1, <2>2
<1>4. \/ ~s.sock.up
      \/ s.sock.up /\ s.penalty
      \/ s.sock.up /\ ~s.penalty /\ Hub!Cardinality(Hub!Issued(s)) < s.max
      \/ s.sock.up /\ ~s.penalty /\ ~(Hub!Cardinality(Hub!Issued(s)) < s.max)
      OBVIOUS
<1> QED BY <1>1, <1>2, <1>3, <1>4, Zenon

LEMMA EndBeside ==
    ASSUME NEW s \in Hubs, NEW i \in HubLives, s.live[i] \in Recs
    PROVE  Beside(s, Hub!End(s, i))
<1>1. CASE s.live[i].told
      BY <1>1, BesideItself DEF Hub!End
<1>2. CASE ~s.live[i].told
  <2> DEFINE l == [Hub!Quiet(s.live[i]) EXCEPT !.status = "closed", !.told = TRUE]
             t == [s EXCEPT !.live[i] = l]
             u == [t EXCEPT !.told = @ \cup s.live[i].holders]
  <2>1. l \in Recs /\ Likewise(s.live[i], l)
        BY DEF Recs, Hub!LiveRecord, Likewise, Hub!Quiet
  <2> HIDE DEF l
  <2>2. Beside(s, t)
        BY <2>1, OneBeside
  <2>3. s.live[i].holders \subseteq HubHandles
        BY DEF Recs, Hub!LiveRecord
  <2>4. u \in Hubs
        BY <2>2, <2>3 DEF Beside, Hubs, Hub!HubState
  <2>5. /\ u.sock = t.sock /\ u.ents = t.ents /\ u.born = t.born /\ u.subs = t.subs /\ u.max = t.max
        /\ u.penalty = t.penalty /\ u.auth = t.auth /\ u.ops = t.ops /\ u.rides = t.rides /\ u.live = t.live
        BY <2>2 DEF Beside, Hubs, Hub!HubState
  <2>6. Beside(s, u)
    <3> HIDE DEF u, t
    <3> QED BY <2>2, <2>4, <2>5 DEF Beside
  <2> QED BY <1>2, <2>6 DEF Hub!End, Hub!SetLive, l
<1> QED BY <1>1, <1>2

\* A fold of steps that each leave the rest alone does too.
LEMMA EndsBeside ==
    ASSUME NEW s \in Hubs, NEW I, Known(s, I)
    PROVE  Beside(s, Hub!Ranked(Hub!End, s, I))
<1>1. Hub!Ranked(Hub!End, s, I) = Ends!Fold(s, s, I)
      BY DEF Hub!Ranked, Hub!MapThenFoldSet, Ends!Fold, Ends!MapThenFoldSet
<1>2. Ends!IsFiniteSet(I) /\ Ends!Picks(s, I)
      BY InOrder DEF Ends!IsFiniteSet, IsFiniteSet, Ends!Picks
<1>3. ASSUME NEW J \in SUBSET I, NEW t, J # {}, Beside(s, t)
      PROVE  Beside(s, Hub!End(t, Hub!LowestOf(s, J)))
  <2> DEFINE i == Hub!LowestOf(s, J)
  <2>1. i \in I
        BY <1>3, InOrder
  <2>2. i \in HubLives /\ t.live[i] \in Recs /\ t \in Hubs
        BY <1>3, <2>1, BesideKnown DEF Known
  <2> HIDE DEF i
  <2>3. Beside(t, Hub!End(t, i))
        BY <2>2, EndBeside
  <2>4. Beside(s, Hub!End(t, i))
        BY <1>3, <2>3, BesideBoth
  <2> QED BY <2>4 DEF i
<1>4. Beside(s, s)
      BY BesideItself
<1>5. Beside(s, Ends!Fold(s, s, I))
  <2>1. \A J \in SUBSET I : \A t : J # {} /\ Beside(s, t) => Beside(s, Hub!End(t, Hub!LowestOf(s, J)))
        BY <1>3
  <2> QED BY <1>2, <1>4, <2>1, Ends!FoldKeeps
<1> QED BY <1>1, <1>5

LEMMA UnparkBeside == ASSUME NEW s \in Hubs PROVE Beside(s, Hub!Unpark(s))
<1> DEFINE parked == {i \in Hub!InBucket(s) : s.live[i].status = "parked" /\ ~s.live[i].told /\ ~s.live[i].issued}
           fit    == {i \in parked : ~s.live[i].late}
           over   == {i \in parked : s.live[i].late /\ \A j \in fit : Hub!Higher(s, i, j)}
           ended  == Hub!Ranked(Hub!End, s, over)
           i      == Hub!HighestOf(s, fit)
<1>1. Known(s, fit) /\ Known(s, over)
      BY BucketKnown DEF Known
<1>2. Beside(s, ended)
      BY <1>1, EndsBeside
<1>3. Hub!Unpark(s) = IF fit = {} THEN ended ELSE IF Hub!Dormant(ended, i) THEN ended ELSE Hub!Place(ended, i)
      BY DEF Hub!Unpark
<1> HIDE DEF over, ended
<1>4. ASSUME fit # {} PROVE Beside(s, Hub!Place(ended, i))
  <2>1. i \in fit
    <3> HIDE DEF fit
    <3> QED BY <1>1, <1>4, HighestIs
  <2>2. i \in HubLives /\ ended.live[i] \in Recs /\ ended \in Hubs
    <3> HIDE DEF fit, i
    <3> QED BY <1>1, <1>2, <2>1, BesideKnown DEF Known
  <2> HIDE DEF i
  <2>3. Beside(ended, Hub!Place(ended, i))
        BY <2>2, PlaceBeside
  <2> QED BY <1>2, <2>3, BesideBoth
<1> HIDE DEF i, fit
<1> QED BY <1>2, <1>3, <1>4

LEMMA TerminateBeside ==
    ASSUME NEW s \in Hubs, NEW i \in HubLives, s.live[i] \in Recs
    PROVE  Beside(s, Hub!Terminate(s, i))
<1>1. CASE s.live[i].told
      BY <1>1, BesideItself DEF Hub!Terminate
<1>2. CASE ~s.live[i].told
  <2>1. Beside(s, Hub!End(s, i))
        BY EndBeside
  <2>2. Beside(Hub!End(s, i), Hub!Unpark(Hub!End(s, i)))
        BY <2>1, UnparkBeside DEF Beside
  <2>3. Beside(s, Hub!Unpark(Hub!End(s, i)))
        BY <2>1, <2>2, BesideBoth
  <2> QED BY <1>2, <2>3 DEF Hub!Terminate
<1> QED BY <1>1, <1>2

LEMMA TryIssueBeside ==
    ASSUME NEW s \in Hubs, NEW i \in HubLives, s.live[i] \in Recs
    PROVE  Beside(s, Hub!TryIssue(s, i))
BY BesideItself, TerminateBeside, PlaceBeside DEF Hub!TryIssue

\* A flag of one record set or cleared.
LEMMA FlagBeside ==
    ASSUME NEW s \in Hubs, NEW i \in HubLives, s.live[i] \in Recs, NEW l \in Recs, Likewise(s.live[i], l),
           NEW t, t = [s EXCEPT !.live[i] = l]
    PROVE  Beside(s, t) /\ t \in Hubs /\ t.live[i] \in Recs
<1>1. Beside(s, t)
      BY OneBeside
<1>2. t.live[i] = l
      BY DEF Hubs, Hub!HubState
<1> QED BY <1>1, <1>2 DEF Beside

LEMMA ScheduleRetryBeside ==
    ASSUME NEW s \in Hubs, NEW i \in HubLives, s.live[i] \in Recs
    PROVE  Beside(s, Hub!ScheduleRetry(s, i))
<1>1. CASE s.live[i].attempt >= s.live[i].cap
  <2> DEFINE l == [s.live[i] EXCEPT !.retry = FALSE]
             t == [s EXCEPT !.live[i] = l]
  <2>1. l \in Recs /\ Likewise(s.live[i], l)
        BY DEF Recs, Hub!LiveRecord, Likewise
  <2>2. t = [s EXCEPT !.live[i].retry = FALSE]
        BY DEF Hubs, Hub!HubState
  <2> HIDE DEF l
  <2>3. Beside(s, t) /\ t \in Hubs /\ t.live[i] \in Recs
        BY <2>1, FlagBeside
  <2> HIDE DEF t
  <2>4. Beside(s, Hub!Terminate(t, i))
        BY <2>3, TerminateBeside, BesideBoth
  <2> QED BY <1>1, <2>2, <2>4 DEF Hub!ScheduleRetry
<1>2. CASE ~(s.live[i].attempt >= s.live[i].cap)
  <2> DEFINE l == [s.live[i] EXCEPT !.retry = TRUE, !.status = "pending"]
  <2>1. l \in Recs /\ Likewise(s.live[i], l)
        BY DEF Recs, Hub!LiveRecord, Likewise
  <2> HIDE DEF l
  <2>2. Beside(s, [s EXCEPT !.live[i] = l])
        BY <2>1, OneBeside
  <2> QED BY <1>2, <2>2 DEF Hub!ScheduleRetry, Hub!SetLive, l
<1> QED BY <1>1, <1>2

LEMMA ReissueBeside ==
    ASSUME NEW s \in Hubs, NEW i \in HubLives, s.live[i] \in Recs
    PROVE  Beside(s, Hub!Reissue(s, i))
<1> DEFINE l == [s.live[i] EXCEPT !.attempt = 0, !.retry = FALSE]
           t == [s EXCEPT !.live[i] = l]
<1>1. l \in Recs /\ Likewise(s.live[i], l)
      BY DEF Recs, Hub!LiveRecord, Likewise
<1>2. t = [s EXCEPT !.live[i].attempt = 0, !.live[i].retry = FALSE]
      BY DEF Hubs, Hub!HubState
<1> HIDE DEF l
<1>3. Beside(s, t) /\ t \in Hubs /\ t.live[i] \in Recs
      BY <1>1, FlagBeside
<1> HIDE DEF t
<1>4. Beside(s, Hub!TryIssue(t, i))
      BY <1>3, TryIssueBeside, BesideBoth
<1> QED BY <1>2, <1>4, BesideItself DEF Hub!Reissue

LEMMA LoseWireBeside ==
    ASSUME NEW s \in Hubs, NEW i \in HubLives, s.live[i] \in Recs
    PROVE  Beside(s, Hub!LoseWire(s, i))
<1> DEFINE l == [Hub!Quiet(s.live[i]) EXCEPT !.status = "pending"]
<1>1. l \in Recs /\ Likewise(s.live[i], l)
      BY DEF Recs, Hub!LiveRecord, Likewise, Hub!Quiet
<1>2. Hub!LoseWire(s, i) = IF s.live[i].oneshot THEN Hub!Terminate(s, i) ELSE IF s.live[i].told THEN s
                           ELSE [s EXCEPT !.live[i] = l]
      BY DEF Hub!LoseWire, Hub!SetLive
<1> HIDE DEF l
<1> QED BY <1>1, <1>2, OneBeside, TerminateBeside, BesideItself

LEMMA CutOffBeside ==
    ASSUME NEW s \in Hubs, NEW i \in HubLives, s.live[i] \in Recs
    PROVE  Beside(s, Hub!CutOff(s, i))
<1> DEFINE l == [s.live[i] EXCEPT !.issued = FALSE, !.dog = FALSE, !.status = "pending"]
<1>1. l \in Recs /\ Likewise(s.live[i], l)
      BY DEF Recs, Hub!LiveRecord, Likewise
<1> HIDE DEF l
<1>2. Beside(s, [s EXCEPT !.live[i] = l])
      BY <1>1, OneBeside
<1> QED BY <1>2 DEF Hub!CutOff, Hub!SetLive, l

LEMMA OthersBeside ==
    ASSUME NEW s \in Hubs, NEW i \in HubLives, s.live[i] \in Recs
    PROVE  Beside(s, Hub!Readmit(s, i)) /\ Beside(s, Hub!Rejoin(s, i)) /\ Beside(s, Hub!GiveUp(s, i))
BY BesideItself, TerminateBeside, TryIssueBeside DEF Hub!Readmit, Hub!Rejoin, Hub!GiveUp

-----------------------------------------------------------------------------
(* Folds of such steps.                                                    *)

LastOf(s, J) == Hub!Max(J)
Kept(s, J, t) == Beside(s, t)
Reissues   == INSTANCE FoldFacts WITH Step <- Hub!Reissue, Pick <- Hub!LowestOf, Good <- Kept
Readmits   == INSTANCE FoldFacts WITH Step <- Hub!Readmit, Pick <- Hub!LowestOf, Good <- Kept
Losses     == INSTANCE FoldFacts WITH Step <- Hub!LoseWire, Pick <- LastOf, Good <- Kept
CutOffs    == INSTANCE FoldFacts WITH Step <- Hub!CutOff, Pick <- LastOf, Good <- Kept
Terminates == INSTANCE FoldFacts WITH Step <- Hub!Terminate, Pick <- LastOf, Good <- Kept
Rejoins    == INSTANCE FoldFacts WITH Step <- Hub!Rejoin, Pick <- LastOf, Good <- Kept
GiveUps    == INSTANCE FoldFacts WITH Step <- Hub!GiveUp, Pick <- LastOf, Good <- Kept

LEMMA StepsBeside ==
    ASSUME NEW s \in Hubs, NEW I, Known(s, I), NEW J \in SUBSET I, NEW t, J # {}, Kept(s, J, t)
    PROVE  /\ Kept(s, J, Hub!Reissue(t, Hub!LowestOf(s, J))) /\ Kept(s, J, Hub!Readmit(t, Hub!LowestOf(s, J)))
           /\ Kept(s, J, Hub!LoseWire(t, LastOf(s, J))) /\ Kept(s, J, Hub!Terminate(t, LastOf(s, J)))
           /\ Kept(s, J, Hub!CutOff(t, LastOf(s, J)))
<1>1. /\ Hub!LowestOf(s, J) \in HubLives /\ t.live[Hub!LowestOf(s, J)] \in Recs /\ t \in Hubs
      /\ LastOf(s, J) \in HubLives /\ t.live[LastOf(s, J)] \in Recs /\ Beside(s, t)
  <2>1. Hub!LowestOf(s, J) \in I /\ LastOf(s, J) \in I
        BY InOrder DEF LastOf
  <2>2. Beside(s, t)
        BY DEF Kept
  <2>3. Known(t, I) /\ t \in Hubs
        BY <2>2, BesideKnown
  <2> QED BY <2>1, <2>2, <2>3 DEF Known
<1>2. \A i \in HubLives : t.live[i] \in Recs =>
         /\ Beside(s, Hub!Reissue(t, i)) /\ Beside(s, Hub!Readmit(t, i)) /\ Beside(s, Hub!LoseWire(t, i))
         /\ Beside(s, Hub!Terminate(t, i)) /\ Beside(s, Hub!CutOff(t, i))
      BY <1>1, BesideBoth, ReissueBeside, LoseWireBeside, CutOffBeside, TerminateBeside, OthersBeside
<1> QED BY <1>1, <1>2 DEF Kept

LEMMA FoldsBeside ==
    ASSUME NEW s \in Hubs, NEW I, Known(s, I)
    PROVE  /\ Beside(s, Hub!Ranked(Hub!Reissue, s, I)) /\ Beside(s, Hub!Ranked(Hub!Readmit, s, I))
           /\ Beside(s, Hub!Each(Hub!LoseWire, s, I)) /\ Beside(s, Hub!Each(Hub!Terminate, s, I))
           /\ Beside(s, Hub!Each(Hub!CutOff, s, I))
<1>1. /\ IsFiniteSet(I) /\ Kept(s, {}, s) /\ (\A J \in SUBSET I : J # {} => Hub!LowestOf(s, J) \in J)
      /\ \A J \in SUBSET I : J # {} => LastOf(s, J) \in J
      BY InOrder, BesideItself DEF LastOf, Kept
<1>2. Kept(s, I, Reissues!Fold(s, s, I))
  <2>1. Reissues!IsFiniteSet(I) /\ Reissues!Picks(s, I)
        BY <1>1 DEF Reissues!IsFiniteSet, IsFiniteSet, Reissues!Picks
  <2>2. \A J \in SUBSET I : \A t : J # {} /\ Kept(s, J \ {Hub!LowestOf(s, J)}, t) => Kept(s, J, Hub!Reissue(t, Hub!LowestOf(s, J)))
        BY StepsBeside DEF Kept
  <2> QED BY <1>1, <2>1, <2>2, Reissues!FoldKeeps
<1>3. Kept(s, I, Readmits!Fold(s, s, I))
  <2>1. Readmits!IsFiniteSet(I) /\ Readmits!Picks(s, I)
        BY <1>1 DEF Readmits!IsFiniteSet, IsFiniteSet, Readmits!Picks
  <2>2. \A J \in SUBSET I : \A t : J # {} /\ Kept(s, J \ {Hub!LowestOf(s, J)}, t) => Kept(s, J, Hub!Readmit(t, Hub!LowestOf(s, J)))
        BY StepsBeside DEF Kept
  <2> QED BY <1>1, <2>1, <2>2, Readmits!FoldKeeps
<1>4. Kept(s, I, Losses!Fold(s, s, I))
  <2>1. Losses!IsFiniteSet(I) /\ Losses!Picks(s, I)
        BY <1>1 DEF Losses!IsFiniteSet, IsFiniteSet, Losses!Picks
  <2>2. \A J \in SUBSET I : \A t : J # {} /\ Kept(s, J \ {LastOf(s, J)}, t) => Kept(s, J, Hub!LoseWire(t, LastOf(s, J)))
        BY StepsBeside DEF Kept
  <2> QED BY <1>1, <2>1, <2>2, Losses!FoldKeeps
<1>5. Kept(s, I, Terminates!Fold(s, s, I))
  <2>1. Terminates!IsFiniteSet(I) /\ Terminates!Picks(s, I)
        BY <1>1 DEF Terminates!IsFiniteSet, IsFiniteSet, Terminates!Picks
  <2>2. \A J \in SUBSET I : \A t : J # {} /\ Kept(s, J \ {LastOf(s, J)}, t) => Kept(s, J, Hub!Terminate(t, LastOf(s, J)))
        BY StepsBeside DEF Kept
  <2> QED BY <1>1, <2>1, <2>2, Terminates!FoldKeeps
<1>6. Kept(s, I, CutOffs!Fold(s, s, I))
  <2>1. CutOffs!IsFiniteSet(I) /\ CutOffs!Picks(s, I)
        BY <1>1 DEF CutOffs!IsFiniteSet, IsFiniteSet, CutOffs!Picks
  <2>2. \A J \in SUBSET I : \A t : J # {} /\ Kept(s, J \ {LastOf(s, J)}, t) => Kept(s, J, Hub!CutOff(t, LastOf(s, J)))
        BY StepsBeside DEF Kept
  <2> QED BY <1>1, <2>1, <2>2, CutOffs!FoldKeeps
<1>8. Hub!Ranked(Hub!Reissue, s, I) = Reissues!Fold(s, s, I)
      BY DEF Hub!Ranked, Hub!MapThenFoldSet, Reissues!Fold, Reissues!MapThenFoldSet
<1>9. Hub!Ranked(Hub!Readmit, s, I) = Readmits!Fold(s, s, I)
      BY DEF Hub!Ranked, Hub!MapThenFoldSet, Readmits!Fold, Readmits!MapThenFoldSet
<1>10. Hub!Each(Hub!LoseWire, s, I) = Losses!Fold(s, s, I)
      BY DEF Hub!Each, Hub!MapThenFoldSet, Losses!Fold, Losses!MapThenFoldSet, LastOf
<1>11. Hub!Each(Hub!Terminate, s, I) = Terminates!Fold(s, s, I)
      BY DEF Hub!Each, Hub!MapThenFoldSet, Terminates!Fold, Terminates!MapThenFoldSet, LastOf
<1>12. Hub!Each(Hub!CutOff, s, I) = CutOffs!Fold(s, s, I)
      BY DEF Hub!Each, Hub!MapThenFoldSet, CutOffs!Fold, CutOffs!MapThenFoldSet, LastOf
<1> QED BY <1>2, <1>3, <1>4, <1>5, <1>6, <1>8, <1>9, <1>10, <1>11, <1>12 DEF Kept

\* Those that rode a prompt, some of them gone.
LEMMA RidersBeside ==
    ASSUME NEW s \in Hubs, NEW I, I \subseteq HubLives
    PROVE  Beside(s, Hub!Each(Hub!Rejoin, s, I)) /\ Beside(s, Hub!Each(Hub!GiveUp, s, I))
<1>1. IsFiniteSet(I)
      BY HubAssumed, FS_Subset
<1>2. \A J \in SUBSET I : J # {} => LastOf(s, J) \in J
  <2> SUFFICES ASSUME NEW J \in SUBSET I, J # {} PROVE LastOf(s, J) \in J
      OBVIOUS
  <2>1. \E m \in J : \A k \in J : k <= m
        BY Greatest
  <2>2. \E m \in J : \A k \in J : m >= k
        BY <2>1, HubAssumed
  <2> QED BY <2>2 DEF LastOf, Hub!Max
<1>3. ASSUME NEW t, Beside(s, t), NEW i \in HubLives
      PROVE  Beside(s, Hub!Rejoin(t, i)) /\ Beside(s, Hub!GiveUp(t, i))
  <2>1. t \in Hubs /\ t.live[i] \in Recs \cup {None}
        BY <1>3 DEF Beside, Hubs, Hub!HubState, Recs
  <2>2. CASE t.live[i] = None
        BY <1>3, <2>2 DEF Hub!Rejoin, Hub!GiveUp, Hub!Is
  <2>3. CASE t.live[i] \in Recs
    <3>1. Beside(t, Hub!Rejoin(t, i)) /\ Beside(t, Hub!GiveUp(t, i))
          BY <2>1, <2>3, OthersBeside
    <3> QED BY <1>3, <3>1, BesideBoth
  <2> QED BY <2>1, <2>2, <2>3
<1>4. Beside(s, s)
      BY BesideItself
<1>5. Kept(s, I, Rejoins!Fold(s, s, I))
  <2>1. Rejoins!IsFiniteSet(I) /\ Rejoins!Picks(s, I)
        BY <1>1, <1>2 DEF Rejoins!IsFiniteSet, IsFiniteSet, Rejoins!Picks
  <2>2. \A J \in SUBSET I : \A t : J # {} /\ Kept(s, J \ {LastOf(s, J)}, t) => Kept(s, J, Hub!Rejoin(t, LastOf(s, J)))
        BY <1>2, <1>3 DEF Kept
  <2>3. Kept(s, {}, s)
        BY <1>4 DEF Kept
  <2> QED BY <2>1, <2>2, <2>3, Rejoins!FoldKeeps
<1>6. Kept(s, I, GiveUps!Fold(s, s, I))
  <2>1. GiveUps!IsFiniteSet(I) /\ GiveUps!Picks(s, I)
        BY <1>1, <1>2 DEF GiveUps!IsFiniteSet, IsFiniteSet, GiveUps!Picks
  <2>2. \A J \in SUBSET I : \A t : J # {} /\ Kept(s, J \ {LastOf(s, J)}, t) => Kept(s, J, Hub!GiveUp(t, LastOf(s, J)))
        BY <1>2, <1>3 DEF Kept
  <2>3. Kept(s, {}, s)
        BY <1>4 DEF Kept
  <2> QED BY <2>1, <2>2, <2>3, GiveUps!FoldKeeps
<1>7. Hub!Each(Hub!Rejoin, s, I) = Rejoins!Fold(s, s, I)
      BY DEF Hub!Each, Hub!MapThenFoldSet, Rejoins!Fold, Rejoins!MapThenFoldSet, LastOf
<1>8. Hub!Each(Hub!GiveUp, s, I) = GiveUps!Fold(s, s, I)
      BY DEF Hub!Each, Hub!MapThenFoldSet, GiveUps!Fold, GiveUps!MapThenFoldSet, LastOf
<1> QED BY <1>5, <1>6, <1>7, <1>8 DEF Kept

-----------------------------------------------------------------------------
(* What holds of the registry and of the AUTH record.                      *)

\* A key's record is one of it, and ids are given in order.
Registry(s) ==
    /\ \A k \in HubKeys : s.subs[k] # 0 => s.live[s.subs[k]] \in Recs /\ s.live[s.subs[k]].key = k /\ s.subs[k] <= s.born
    /\ \A i \in HubLives : i > s.born => s.live[i] = None

\* A held handle's record exists, and counts it among its holders.
Holds(s, hd) == \A h \in HubHandles : hd[h].at = "held" =>
                   /\ hd[h].live \in HubLives /\ s.live[hd[h].live] \in Recs /\ h \in s.live[hd[h].live].holders

Lost == {"dead", "late"}
\* Signatures are named in order, and each belongs to a record named by its first.
OpsInOrder(s) == /\ \A o, p \in HubOps : p < o /\ s.ops[o] # None => s.ops[p] # None
                 /\ \A o \in HubOps : s.ops[o] # None => s.ops[s.ops[o].rec] # None
Siblings(s, o, p) == s.ops[p] # None /\ s.ops[p].rec = s.ops[o].rec /\ s.ops[p].gen = s.ops[o].gen
\* Another challenge of its record and connection was signed after o, and before n.
Superseded(s, o, n) == \E q \in HubOps : o < q /\ q < n /\ Siblings(s, o, q) /\ s.ops[q].challenge # s.ops[o].challenge
SignedOnce(s) == \A o, p \in HubOps :
    o < p /\ s.ops[o] # None /\ Siblings(s, o, p) /\ s.ops[p].challenge = s.ops[o].challenge
    => {s.ops[o].at, s.ops[p].at} \cap Lost # {} \/ Superseded(s, o, p)

\* The record is of the connection it says, and so are its signatures; the one it follows is
\* the last of the key's, on the connection there is.
OfRecord(s) == s.auth # None =>
    /\ s.sock.ent # 0 /\ s.auth.gen <= s.sock.gen /\ s.ops[s.auth.rec] # None
    /\ \A o \in HubOps : s.ops[o] # None /\ s.ops[o].rec = s.auth.rec => s.ops[o].gen <= s.auth.gen
    /\ s.auth.state = "authenticated" => s.auth.op # 0
Follows(s, key) == s.auth # None /\ s.auth.op # 0 =>
    /\ s.ops[s.auth.op] # None /\ s.ops[s.auth.op].rec = s.auth.rec /\ s.ops[s.auth.op].gen = s.auth.gen
    /\ s.ops[s.auth.op].challenge = s.auth.challenge /\ s.ops[s.auth.op].by = key /\ s.ops[s.auth.op].mine
    /\ s.ops[s.auth.op].at \notin Lost /\ s.sock.up /\ s.auth.gen = s.sock.gen
\* What the memo and the pin do not hold any more was superseded.
Remembers(s) == s.auth # None /\ s.sock.up /\ s.auth.gen = s.sock.gen =>
    \A o \in HubOps : s.ops[o] # None /\ s.ops[o].rec = s.auth.rec /\ s.ops[o].gen = s.auth.gen /\ s.ops[o].at \notin Lost
       => o = s.auth.op \/ \E q \in HubOps : o < q /\ Siblings(s, o, q) /\ s.ops[q].challenge # s.ops[o].challenge
AuthSane(s, key) == /\ OpsInOrder(s) /\ SignedOnce(s) /\ OfRecord(s) /\ Follows(s, key) /\ Remembers(s)
                    /\ s.sock.up => s.sock.ent # 0

Sane(s, hd, key) == s \in Hubs /\ Registry(s) /\ Holds(s, hd) /\ AuthSane(s, key)

HubSpent == [scene : DOMAIN HubPlays, priorities : Nat, identities : Nat, removals : Nat, drops : Nat,
             forgets : Nat, closes : Nat, silences : Nat, frames : Nat, disposed : BOOLEAN, taken : SUBSET HubHandles]
HubHandle == [at : {"idle", "held", "gone"}, live : HubLives \cup {0}, pri : {0, 1}]
HubLease  == [row : Nat, held : SUBSET HubLeases, done : SUBSET HubLeases]
HubIdent  == [known : BOOLEAN, key : HubPubkeys, answers : BOOLEAN]
HubOk(s, hd, le, id, sp) ==
    /\ hd \in [HubHandles -> HubHandle] /\ le \in HubLease /\ id \in HubIdent /\ sp \in HubSpent
    /\ Sane(s, hd, id.key)
    /\ ~id.known => s.sock.ent = 0
HubInv == HubOk(slot1, slot2, slot3, slot4, slot5)

LEMMA BesideSane ==
    ASSUME NEW s, NEW t, NEW hd, NEW key, Sane(s, hd, key), Beside(s, t)
    PROVE  Sane(t, hd, key)
<1>1. Registry(t)
  <2>1. ASSUME NEW k \in HubKeys, t.subs[k] # 0
        PROVE  t.live[t.subs[k]] \in Recs /\ t.live[t.subs[k]].key = k /\ t.subs[k] <= t.born
    <3>1. t.subs[k] = s.subs[k] /\ s.subs[k] \in HubLives /\ t.born = s.born
          BY <2>1 DEF Beside, Hubs, Hub!HubState
    <3>2. s.live[s.subs[k]] \in Recs /\ s.live[s.subs[k]].key = k /\ s.subs[k] <= s.born
          BY <2>1, <3>1 DEF Sane, Registry
    <3>3. OneOrNone(s.live[s.subs[k]], t.live[s.subs[k]])
          BY <3>1 DEF Beside
    <3> QED BY <3>1, <3>2, <3>3, HubAssumed DEF OneOrNone, Likewise
  <2>2. ASSUME NEW i \in HubLives, i > t.born PROVE t.live[i] = None
    <3>1. s.live[i] = None /\ OneOrNone(s.live[i], t.live[i])
          BY <2>2 DEF Sane, Registry, Beside
    <3> QED BY <3>1, HubAssumed DEF OneOrNone
  <2> QED BY <2>1, <2>2 DEF Registry
<1>2. Holds(t, hd)
  <2> SUFFICES ASSUME NEW h \in HubHandles, hd[h].at = "held"
               PROVE  hd[h].live \in HubLives /\ t.live[hd[h].live] \in Recs /\ h \in t.live[hd[h].live].holders
      BY DEF Holds
  <2>1. hd[h].live \in HubLives /\ s.live[hd[h].live] \in Recs /\ h \in s.live[hd[h].live].holders
        BY DEF Sane, Holds
  <2>2. OneOrNone(s.live[hd[h].live], t.live[hd[h].live])
        BY <2>1 DEF Beside
  <2> QED BY <2>1, <2>2, HubAssumed DEF OneOrNone, Likewise
<1>3. AuthSane(t, key)
  <2>1. t.sock = s.sock /\ t.auth = s.auth /\ t.ops = s.ops /\ AuthSane(s, key)
        BY DEF Beside, Sane
  <2> QED BY <2>1 DEF AuthSane, OpsInOrder, SignedOnce, Siblings, Superseded, OfRecord, Follows, Remembers
<1> QED BY <1>1, <1>2, <1>3 DEF Sane, Beside

\* What the AUTH record does not depend on.
LEMMA AuthAside ==
    ASSUME NEW s, NEW t, NEW key, AuthSane(s, key), t.auth = s.auth, t.ops = s.ops,
           t.sock.ent = s.sock.ent, t.sock.up = s.sock.up, t.sock.gen = s.sock.gen
    PROVE  AuthSane(t, key)
BY DEF AuthSane, OpsInOrder, SignedOnce, Siblings, Superseded, OfRecord, Follows, Remembers

\* Without a record there is nothing to be wrong about.
LEMMA AuthGone ==
    ASSUME NEW s, NEW t, NEW old, NEW key, AuthSane(s, old), t.auth = None, t.ops = s.ops, t.sock.up => t.sock.ent # 0
    PROVE  AuthSane(t, key)
BY DEF AuthSane, OpsInOrder, SignedOnce, Siblings, Superseded, OfRecord, Follows, Remembers

\* What the registry does not depend on.
LEMMA RegistryAside ==
    ASSUME NEW s, NEW t, NEW hd, Registry(s), Holds(s, hd), t.live = s.live, t.subs = s.subs, t.born = s.born
    PROVE  Registry(t) /\ Holds(t, hd)
BY DEF Registry, Holds

\* Signatures that differ only in how far they are, and none that was lost came back.
OpsLike(s, t) == \A o \in HubOps :
    /\ s.ops[o] = None <=> t.ops[o] = None
    /\ s.ops[o] # None => /\ t.ops[o].rec = s.ops[o].rec /\ t.ops[o].gen = s.ops[o].gen
                          /\ t.ops[o].challenge = s.ops[o].challenge /\ t.ops[o].by = s.ops[o].by
                          /\ s.ops[o].at \in Lost => t.ops[o].at \in Lost

LEMMA OpsAside ==
    ASSUME NEW s \in Hubs, NEW t, OpsInOrder(s), SignedOnce(s), OpsLike(s, t)
    PROVE  OpsInOrder(t) /\ SignedOnce(t)
<1>1. \A o \in HubOps : s.ops[o] # None => s.ops[o].rec \in HubOps
      BY DEF Hubs, Hub!HubState, Hub!Signature
<1>2. OpsInOrder(t)
      BY <1>1 DEF OpsInOrder, OpsLike
<1>3. SignedOnce(t)
  <2> SUFFICES ASSUME NEW o \in HubOps, NEW p \in HubOps, o < p, t.ops[o] # None, Siblings(t, o, p),
                      t.ops[p].challenge = t.ops[o].challenge
               PROVE  {t.ops[o].at, t.ops[p].at} \cap Lost # {} \/ Superseded(t, o, p)
      BY DEF SignedOnce
  <2>1. s.ops[o] # None /\ Siblings(s, o, p) /\ s.ops[p].challenge = s.ops[o].challenge
        BY DEF OpsLike, Siblings
  <2>2. CASE {s.ops[o].at, s.ops[p].at} \cap Lost # {}
        BY <2>1, <2>2 DEF OpsLike, Siblings
  <2>3. CASE Superseded(s, o, p)
        BY <2>1, <2>3 DEF Superseded, OpsLike, Siblings
  <2> QED BY <2>1, <2>2, <2>3 DEF SignedOnce
<1> QED BY <1>2, <1>3

-----------------------------------------------------------------------------
(* Asking for a signature.                                                 *)

\* The next name is later than all in use.
LEMMA FreshIs ==
    ASSUME NEW s \in Hubs, OpsInOrder(s), Hub!FreshOp(s) # 0
    PROVE  /\ Hub!FreshOp(s) \in HubOps /\ s.ops[Hub!FreshOp(s)] = None
           /\ \A p \in HubOps : p < Hub!FreshOp(s) => s.ops[p] # None
           /\ \A o \in HubOps : s.ops[o] # None => o < Hub!FreshOp(s)
<1> DEFINE F == {o \in HubOps : s.ops[o] = None}
           n == Hub!FreshOp(s)
<1>1. F # {} /\ F \subseteq Nat
      BY HubAssumed DEF Hub!FreshOp
<1>2. PICK m \in F : \A k \in F : m <= k
  <2> HIDE DEF F
  <2> QED BY <1>1, Ends!Least
<1>3. \E o \in HubOps : s.ops[o] = None /\ \A p \in HubOps : p < o => s.ops[p] # None
  <2>1. m \in HubOps /\ s.ops[m] = None
        OBVIOUS
  <2>2. ASSUME NEW p \in HubOps, p < m PROVE s.ops[p] # None
    <3>1. p \notin F
      <4>1. m \in Nat /\ p \in Nat /\ ~(m <= p)
            BY <2>1, <2>2, HubAssumed
      <4> HIDE DEF F
      <4> QED BY <1>2, <4>1
    <3> QED BY <3>1
  <2> QED BY <2>1, <2>2
<1>4. n \in HubOps /\ s.ops[n] = None /\ \A p \in HubOps : p < n => s.ops[p] # None
      BY <1>3 DEF Hub!FreshOp
<1> HIDE DEF n
<1>5. ASSUME NEW o \in HubOps, s.ops[o] # None PROVE o < n
  <2>1. o # n /\ ~(n < o)
        BY <1>4, <1>5 DEF OpsInOrder
  <2>2. o \in Nat /\ n \in Nat
        BY <1>4, HubAssumed
  <2> QED BY <2>1, <2>2
<1> QED BY <1>4, <1>5 DEF n

LEMMA DisownIs ==
    ASSUME NEW s \in Hubs, NEW key, Follows(s, key)
    PROVE  /\ Hub!Disown(s) \in [HubOps -> Hub!Signature \cup {None}]
           /\ OpsLike(s, [s EXCEPT !.ops = Hub!Disown(s)])
           /\ \A o \in HubOps : s.ops[o] # None => Hub!Disown(s)[o] # None /\ Hub!Disown(s)[o].at = s.ops[o].at
<1>1. s.ops \in [HubOps -> Hub!Signature \cup {None}]
      BY DEF Hubs, Hub!HubState
<1>2. [s EXCEPT !.ops = Hub!Disown(s)].ops = Hub!Disown(s)
      BY DEF Hubs, Hub!HubState
<1>3. CASE s.auth = None \/ s.auth.op = 0
  <2>1. Hub!Disown(s) = s.ops
        BY <1>3 DEF Hub!Disown
  <2> QED BY <1>1, <1>2, <2>1 DEF OpsLike
<1>4. CASE ~(s.auth = None \/ s.auth.op = 0)
  <2> DEFINE n == s.auth.op
             p == [s.ops[n] EXCEPT !.mine = FALSE]
  <2>1. n \in HubOps /\ s.ops[n] # None
        BY <1>4 DEF Follows, Hubs, Hub!HubState, Hub!AuthRecord
  <2>2. s.ops[n] \in Hub!Signature
        BY <1>1, <2>1
  <2>3. /\ p \in Hub!Signature /\ p.rec = s.ops[n].rec /\ p.gen = s.ops[n].gen /\ p.challenge = s.ops[n].challenge
        /\ p.by = s.ops[n].by /\ p.at = s.ops[n].at
        BY <2>2 DEF Hub!Signature
  <2>4. Hub!Disown(s) = [s.ops EXCEPT ![n] = p]
        BY <1>4 DEF Hub!Disown
  <2> HIDE DEF p, n
  <2>5. p # None
        BY <2>3, HubAssumed
  <2> QED BY <1>1, <1>2, <2>1, <2>3, <2>4, <2>5 DEF OpsLike
<1> QED BY <1>3, <1>4

LEMMA SignSane ==
    ASSUME NEW s, NEW hd, Sane(s, hd, slot4.key), s.sock.up, s.sock.challenge \in HubChallenges, Hub!FreshOp(s) # 0,
           slot4 \in HubIdent
    PROVE  Sane(Hub!Sign(s), hd, slot4.key) /\ Hub!Sign(s).sock.ent = s.sock.ent /\ Hub!Sign(s).sock.up
<1>1. CASE ~slot4.answers \/ Hub!Memo(s)
      BY <1>1 DEF Hub!Sign
<1>2. CASE ~(~slot4.answers \/ Hub!Memo(s))
  <2> DEFINE n == Hub!FreshOp(s)
             c == s.sock.challenge
             g == s.sock.gen
             r == Hub!Record(s)
             a == [r EXCEPT !.state = "signing", !.gen = g, !.challenge = c, !.op = n]
             p == [at |-> "asking", mine |-> TRUE, rec |-> r.rec, gen |-> g, challenge |-> c, by |-> slot4.key]
             D == Hub!Disown(s)
             t == Hub!Sign(s)
  <2>0. s \in Hubs /\ AuthSane(s, slot4.key)
        BY DEF Sane
  <2>1. /\ n \in HubOps /\ s.ops[n] = None /\ \A o \in HubOps : s.ops[o] # None => o < n
        /\ \A o \in HubOps : o < n => s.ops[o] # None
        BY <2>0, FreshIs DEF AuthSane
  <2>2. t = [s EXCEPT !.auth = a, !.sock.promise = n, !.ops = [D EXCEPT ![n] = p]]
        BY <1>2 DEF Hub!Sign
  <2>3. /\ s.sock \in [ent : Nat, up : BOOLEAN, gen : Nat, onauth : BOOLEAN, subs : Nat,
                       challenge : HubChallenges \cup {None}, promise : HubOps \cup {0}]
        /\ s.auth \in Hub!AuthRecord \cup {None} /\ s.ops \in [HubOps -> Hub!Signature \cup {None}]
        BY <2>0 DEF Hubs, Hub!HubState
  <2>4. g \in Nat /\ c \in HubChallenges
        BY <2>3
  <2>5. /\ a \in Hub!AuthRecord /\ a.rec = r.rec /\ a.gen = g /\ a.challenge = c /\ a.op = n /\ a.state = "signing"
        /\ r.rec \in HubOps /\ (s.auth = None => r.rec = n) /\ (s.auth # None => r.rec = s.auth.rec)
    <3>1. CASE s.auth = None
      <4>1. r = [rec |-> n, state |-> "none", gen |-> 0, challenge |-> None, op |-> 0, refused |-> None]
            BY <3>1 DEF Hub!Record, Hub!NoAuth
      <4> HIDE DEF r, n, g, c
      <4> QED BY <2>1, <2>4, <3>1, <4>1 DEF Hub!AuthRecord
    <3>2. CASE s.auth # None
      <4>1. r = s.auth /\ r \in Hub!AuthRecord
            BY <2>3, <3>2 DEF Hub!Record
      <4> HIDE DEF r, n, g, c
      <4> QED BY <2>1, <2>4, <3>2, <4>1 DEF Hub!AuthRecord
    <3> QED BY <3>1, <3>2
  <2> HIDE DEF a, t
  <2>6. p \in Hub!Signature /\ p # None
    <3>1. p \in Hub!Signature
      <4> HIDE DEF n, g, c, r
      <4> QED BY <2>4, <2>5 DEF Hub!Signature, HubIdent
    <3> QED BY <3>1, HubAssumed
  <2>7. D \in [HubOps -> Hub!Signature \cup {None}] /\ OpsLike(s, [s EXCEPT !.ops = D])
        /\ \A o \in HubOps : s.ops[o] # None => D[o] # None /\ D[o].at = s.ops[o].at
        BY <2>0, DisownIs DEF AuthSane
  <2> HIDE DEF n, D
  <2>8. t.ops = [D EXCEPT ![n] = p] /\ t.auth = a /\ t.sock = [s.sock EXCEPT !.promise = n]
        /\ t.live = s.live /\ t.subs = s.subs /\ t.born = s.born /\ t \in Hubs
    <3> DEFINE x == [s.sock EXCEPT !.promise = n]
               y == [D EXCEPT ![n] = p]
    <3>1. x \in [ent : Nat, up : BOOLEAN, gen : Nat, onauth : BOOLEAN, subs : Nat,
                 challenge : HubChallenges \cup {None}, promise : HubOps \cup {0}]
          BY <2>1, <2>3
    <3>2. y \in [HubOps -> Hub!Signature \cup {None}]
      <4> HIDE DEF p
      <4> QED BY <2>1, <2>6, <2>7
    <3>3. t = [s EXCEPT !.auth = a, !.sock = x, !.ops = y]
          BY <2>2
    <3> HIDE DEF p, c, g, x, y, r
    <3>4. t.ops = y /\ t.auth = a /\ t.sock = x /\ t.live = s.live /\ t.subs = s.subs /\ t.born = s.born /\ t \in Hubs
          BY <2>0, <2>5, <3>1, <3>2, <3>3 DEF Hubs, Hub!HubState
    <3> QED BY <3>4 DEF x, y
  <2>9. /\ t.ops[n] = p
        /\ \A o \in HubOps : o # n => /\ s.ops[o] = None <=> t.ops[o] = None
                                      /\ s.ops[o] # None => /\ t.ops[o].rec = s.ops[o].rec /\ t.ops[o].gen = s.ops[o].gen
                                                            /\ t.ops[o].challenge = s.ops[o].challenge
                                                            /\ t.ops[o].at = s.ops[o].at
    <3>1. [s EXCEPT !.ops = D].ops = D
          BY <2>0 DEF Hubs, Hub!HubState
    <3> QED BY <2>1, <2>7, <2>8, <3>1 DEF OpsLike
  <2>10. t.sock.up /\ t.sock.gen = g /\ t.sock.ent = s.sock.ent /\ s.sock.ent # 0
         BY <2>0, <2>3, <2>8 DEF AuthSane
  <2>11. p.rec = r.rec /\ p.gen = g /\ p.challenge = c /\ p.by = slot4.key /\ p.mine /\ p.at = "asking"
         OBVIOUS
  <2>12. s.auth = None => \A o \in HubOps : s.ops[o] # None => s.ops[o].rec # r.rec
         BY <2>0, <2>1, <2>5 DEF AuthSane, OpsInOrder
  <2>13. \A o \in HubOps : s.ops[o] # None => s.ops[o].gen \in Nat /\ s.ops[o].rec \in HubOps
         BY <2>3 DEF Hub!Signature
  <2>14. ASSUME NEW o \in HubOps, s.ops[o] # None, s.ops[o].rec = r.rec, s.ops[o].gen = g, s.ops[o].at \notin Lost
         PROVE  s.ops[o].challenge # c \/ Superseded(s, o, n)
    <3>1. s.auth # None /\ s.auth.rec = r.rec
          BY <2>5, <2>12, <2>14
    <3>2. s.auth.gen \in Nat
          BY <2>3, <3>1 DEF Hub!AuthRecord
    <3>3. s.auth.gen = g
          BY <2>0, <2>4, <2>14, <3>1, <3>2 DEF AuthSane, OfRecord
    <3>4. o = s.auth.op \/ \E q \in HubOps : o < q /\ Siblings(s, o, q) /\ s.ops[q].challenge # s.ops[o].challenge
          BY <2>0, <2>14, <3>1, <3>3 DEF AuthSane, Remembers
    <3>5. CASE o = s.auth.op
      <4>1. o # 0 /\ s.ops[o].challenge = s.auth.challenge
            BY <2>0, <3>1, <3>5, HubAssumed DEF AuthSane, Follows
      <4>2. ~(s.auth.op # 0 /\ s.auth.challenge = c)
            BY <1>2, <3>1, <3>3 DEF Hub!Memo
      <4> QED BY <3>5, <4>1, <4>2
    <3>6. CASE \E q \in HubOps : o < q /\ Siblings(s, o, q) /\ s.ops[q].challenge # s.ops[o].challenge
          BY <2>1, <3>6 DEF Superseded, Siblings
    <3> QED BY <3>4, <3>5, <3>6
  <2> HIDE DEF p, c, g, r
  <2>15. OpsInOrder(t)
    <3>1. \A o, q \in HubOps : q < o /\ t.ops[o] # None => t.ops[q] # None
          BY <2>0, <2>1, <2>6, <2>9 DEF AuthSane, OpsInOrder
    <3>2. \A o \in HubOps : t.ops[o] # None => t.ops[t.ops[o].rec] # None
      <4> SUFFICES ASSUME NEW o \in HubOps, t.ops[o] # None PROVE t.ops[t.ops[o].rec] # None
          OBVIOUS
      <4>1. CASE o # n
            BY <2>0, <2>1, <2>6, <2>9, <2>13, <4>1 DEF AuthSane, OpsInOrder
      <4>2. CASE o = n /\ s.auth = None
            BY <2>5, <2>6, <2>9, <2>11, <4>2
      <4>3. CASE o = n /\ s.auth # None
        <5>1. r.rec \in HubOps /\ s.ops[r.rec] # None /\ t.ops[o].rec = r.rec
              BY <2>0, <2>5, <2>9, <2>11, <4>3 DEF AuthSane, OfRecord
        <5> QED BY <2>1, <2>6, <2>9, <5>1
      <4> QED BY <4>1, <4>2, <4>3
    <3> QED BY <3>1, <3>2 DEF OpsInOrder
  <2>16. SignedOnce(t)
    <3> SUFFICES ASSUME NEW o \in HubOps, NEW q \in HubOps, o < q, t.ops[o] # None, Siblings(t, o, q),
                        t.ops[q].challenge = t.ops[o].challenge
                 PROVE  {t.ops[o].at, t.ops[q].at} \cap Lost # {} \/ Superseded(t, o, q)
        BY DEF SignedOnce
    <3>1. o # n
      <4>1. CASE q = n
            BY <2>1, <4>1, HubAssumed
      <4>2. CASE q # n
        <5>1. q < n
              BY <2>1, <2>9, <4>2 DEF Siblings
        <5> QED BY <2>1, <5>1, HubAssumed
      <4> QED BY <4>1, <4>2
    <3>2. s.ops[o] # None
          BY <2>9, <3>1
    <3>3. CASE q = n
      <4>1. CASE t.ops[o].at \in Lost
            BY <4>1
      <4>2. CASE t.ops[o].at \notin Lost
        <5>1. s.ops[o].rec = r.rec /\ s.ops[o].gen = g /\ s.ops[o].at \notin Lost /\ s.ops[o].challenge = c
              BY <2>9, <2>11, <3>1, <3>2, <3>3, <4>2 DEF Siblings
        <5>2. Superseded(s, o, n)
              BY <2>14, <3>2, <5>1
        <5>3. Superseded(t, o, n)
              BY <2>1, <2>9, <3>1, <3>2, <5>2 DEF Superseded, Siblings
        <5> QED BY <3>3, <5>3
      <4> QED BY <4>1, <4>2
    <3>4. CASE q # n
      <4>1. Siblings(s, o, q) /\ s.ops[q].challenge = s.ops[o].challenge /\ t.ops[o].at = s.ops[o].at /\ t.ops[q].at = s.ops[q].at
            BY <2>9, <3>1, <3>2, <3>4 DEF Siblings
      <4>2. {s.ops[o].at, s.ops[q].at} \cap Lost # {} \/ Superseded(s, o, q)
            BY <2>0, <3>2, <4>1 DEF AuthSane, SignedOnce
      <4>3. Superseded(s, o, q) => Superseded(t, o, q)
            BY <2>1, <2>9, <3>1, <3>2 DEF Superseded, Siblings
      <4> QED BY <4>1, <4>2, <4>3
    <3> QED BY <3>3, <3>4
  <2>17. OfRecord(t)
    <3>1. ASSUME NEW o \in HubOps, t.ops[o] # None, t.ops[o].rec = r.rec
          PROVE  t.ops[o].gen <= g
      <4>1. CASE o = n
            BY <2>4, <2>9, <2>11, <4>1
      <4>2. CASE o # n
        <5>1. s.ops[o] # None /\ s.ops[o].rec = r.rec /\ t.ops[o].gen = s.ops[o].gen
              BY <2>9, <3>1, <4>2
        <5>2. s.auth # None /\ s.auth.rec = r.rec
              BY <2>5, <2>12, <5>1
        <5>3. s.auth.gen \in Nat /\ s.ops[o].gen \in Nat
              BY <2>3, <2>13, <5>1, <5>2 DEF Hub!AuthRecord
        <5>4. s.ops[o].gen <= s.auth.gen /\ s.auth.gen <= g
              BY <2>0, <5>1, <5>2 DEF AuthSane, OfRecord, g
        <5> QED BY <2>4, <5>1, <5>3, <5>4
      <4> QED BY <4>1, <4>2
    <3>2. t.ops[r.rec] # None
      <4>1. CASE s.auth = None
            BY <2>5, <2>6, <2>9, <4>1
      <4>2. CASE s.auth # None
        <5>1. s.ops[r.rec] # None
              BY <2>0, <2>5, <4>2 DEF AuthSane, OfRecord
        <5> QED BY <2>1, <2>5, <2>6, <2>9, <5>1
      <4> QED BY <4>1, <4>2
    <3> QED BY <2>4, <2>5, <2>8, <2>10, <3>1, <3>2 DEF OfRecord
  <2>18. Follows(t, slot4.key)
         BY <2>5, <2>6, <2>8, <2>9, <2>10, <2>11 DEF Follows, Lost
  <2>19. Remembers(t)
    <3> SUFFICES ASSUME NEW o \in HubOps, t.ops[o] # None, t.ops[o].rec = r.rec, t.ops[o].gen = g, t.ops[o].at \notin Lost
                 PROVE  o = n \/ \E q \in HubOps : o < q /\ Siblings(t, o, q) /\ t.ops[q].challenge # t.ops[o].challenge
        BY <2>5, <2>8 DEF Remembers
    <3>1. CASE o # n
      <4>1. s.ops[o] # None /\ s.ops[o].rec = r.rec /\ s.ops[o].gen = g /\ s.ops[o].at \notin Lost /\ o < n
            BY <2>1, <2>9, <3>1
      <4>2. s.ops[o].challenge # c \/ Superseded(s, o, n)
            BY <2>14, <4>1
      <4>3. CASE s.ops[o].challenge # c
            BY <2>1, <2>6, <2>9, <2>11, <3>1, <4>1, <4>3 DEF Siblings
      <4>4. CASE Superseded(s, o, n)
            BY <2>1, <2>9, <3>1, <4>1, <4>4 DEF Superseded, Siblings
      <4> QED BY <4>2, <4>3, <4>4
    <3> QED BY <3>1
  <2>20. Registry(t) /\ Holds(t, hd)
         BY <2>8, RegistryAside DEF Sane
  <2>21. AuthSane(t, slot4.key)
         BY <2>10, <2>15, <2>16, <2>17, <2>18, <2>19 DEF AuthSane
  <2> QED BY <2>8, <2>10, <2>20, <2>21 DEF Sane, t
<1> QED BY <1>1, <1>2

LEMMA RelayAuthSane ==
    ASSUME NEW s, NEW hd, Sane(s, hd, slot4.key), s.sock.up, Hub!FreshOp(s) # 0,
           slot4 \in HubIdent
    PROVE  Sane(Hub!RelayAuth(s), hd, slot4.key) /\ Hub!RelayAuth(s).sock.ent = s.sock.ent
<1>1. s.sock.challenge \in HubChallenges \cup {None}
      BY DEF Sane, Hubs, Hub!HubState
<1>2. s.sock.challenge # None => Sane(Hub!Sign(s), hd, slot4.key) /\ Hub!Sign(s).sock.ent = s.sock.ent
      BY <1>1, SignSane
<1> QED BY <1>2 DEF Hub!RelayAuth

-----------------------------------------------------------------------------
(* Steps on the hub that are no step of the AUTH record.                   *)

LEMMA HubAside ==
    ASSUME NEW s, NEW hd, NEW key, Sane(s, hd, key), NEW t \in Hubs, t.live = s.live, t.subs = s.subs, t.born = s.born,
           t.auth = s.auth, t.ops = s.ops, t.sock.ent = s.sock.ent, t.sock.up = s.sock.up, t.sock.gen = s.sock.gen
    PROVE  Sane(t, hd, key)
BY AuthAside, RegistryAside DEF Sane

\* Who holds nothing any more.
LetGo(hd, to) == \A h \in HubHandles : to[h].at = "held" => hd[h].at = "held" /\ to[h].live = hd[h].live

\* One record replaced by one of the same key that whoever still holds it is a holder of.
LEMMA RecordSane ==
    ASSUME NEW s, NEW hd, NEW key, Sane(s, hd, key), NEW i \in HubLives, s.live[i] \in Recs, NEW l \in Recs, l.key = s.live[i].key,
           NEW to, LetGo(hd, to), \A h \in HubHandles : to[h].at = "held" /\ hd[h].live = i => h \in l.holders
    PROVE  Sane([s EXCEPT !.live[i] = l], to, key)
<1> DEFINE t == [s EXCEPT !.live[i] = l]
<1>0. s \in Hubs /\ Registry(s) /\ Holds(s, hd) /\ AuthSane(s, key)
      BY DEF Sane
<1>1. s.live \in [HubLives -> Recs \cup {None}]
      BY <1>0 DEF Hubs, Hub!HubState, Recs
<1>2. t.live = [s.live EXCEPT ![i] = l] /\ t.subs = s.subs /\ t.born = s.born /\ t.auth = s.auth /\ t.ops = s.ops /\ t.sock = s.sock
      BY <1>0 DEF Hubs, Hub!HubState
<1>3. t.live \in [HubLives -> Recs \cup {None}]
      BY <1>1, <1>2
<1>4. t \in Hubs
      BY <1>0, <1>3 DEF Hubs, Hub!HubState, Recs
<1> HIDE DEF t
<1>5. Registry(t)
  <2>1. \A j \in HubLives : j > s.born => j # i
        BY <1>0, HubAssumed DEF Registry
  <2> QED BY <1>0, <1>1, <1>2, <2>1, HubAssumed DEF Registry
<1>6. Holds(t, to)
  <2> SUFFICES ASSUME NEW h \in HubHandles, to[h].at = "held"
               PROVE  to[h].live \in HubLives /\ t.live[to[h].live] \in Recs /\ h \in t.live[to[h].live].holders
      BY DEF Holds
  <2>1. /\ to[h].live = hd[h].live /\ hd[h].live \in HubLives /\ s.live[hd[h].live] \in Recs
        /\ h \in s.live[hd[h].live].holders
        BY <1>0 DEF LetGo, Holds
  <2> QED BY <1>1, <1>2, <2>1
<1>7. AuthSane(t, key)
      BY <1>0, <1>2, AuthAside
<1> QED BY <1>4, <1>5, <1>6, <1>7 DEF Sane, t

LEMMA DropSane ==
    ASSUME NEW s, NEW hd, NEW key, Sane(s, hd, key)
    PROVE  LET d == Hub!AuthDrop([s EXCEPT !.sock.up = FALSE])
           IN  Sane(d, hd, key) /\ ~d.sock.up /\ d.sock.ent = s.sock.ent /\ (s.auth = None => d.auth = None)
<1> DEFINE u == [s EXCEPT !.sock.up = FALSE]
           d == Hub!AuthDrop(u)
           D == Hub!Disown(s)
<1>0. s \in Hubs /\ Registry(s) /\ Holds(s, hd) /\ AuthSane(s, key)
      BY DEF Sane
<1>1. /\ u \in Hubs /\ u.live = s.live /\ u.subs = s.subs /\ u.born = s.born /\ u.auth = s.auth /\ u.ops = s.ops
      /\ u.sock.ent = s.sock.ent /\ ~u.sock.up /\ u.sock.gen = s.sock.gen
      BY <1>0 DEF Hubs, Hub!HubState
<1> HIDE DEF u
<1>2. CASE s.auth = None
  <2>1. d = u
        BY <1>1, <1>2 DEF Hub!AuthDrop
  <2>2. AuthSane(u, key)
        BY <1>0, <1>1, <1>2, AuthGone
  <2> QED BY <1>0, <1>1, <1>2, <2>1, <2>2, RegistryAside DEF Sane, u
<1>3. CASE s.auth # None
  <2> DEFINE a == [s.auth EXCEPT !.state = Hub!Staled(@), !.op = 0]
  <2>1. /\ D \in [HubOps -> Hub!Signature \cup {None}] /\ OpsLike(s, [s EXCEPT !.ops = D])
        /\ \A o \in HubOps : s.ops[o] # None => D[o] # None /\ D[o].at = s.ops[o].at
        BY <1>0, DisownIs DEF AuthSane
  <2>2. Hub!Disown(u) = D
        BY <1>1 DEF Hub!Disown
  <2> HIDE DEF D
  <2>3. s.auth \in Hub!AuthRecord
        BY <1>0, <1>3 DEF Hubs, Hub!HubState
  <2>4. /\ a \in Hub!AuthRecord /\ a # None /\ a.rec = s.auth.rec /\ a.gen = s.auth.gen /\ a.op = 0
        /\ a.state # "authenticated"
    <3>1. Hub!Staled(s.auth.state) \in {"signing", "authenticated", "refused", "failed", "stale"} \ {"authenticated"}
          BY <2>3 DEF Hub!AuthRecord, Hub!Staled
    <3>2. a \in Hub!AuthRecord /\ a.rec = s.auth.rec /\ a.gen = s.auth.gen /\ a.op = 0 /\ a.state # "authenticated"
          BY <2>3, <3>1 DEF Hub!AuthRecord
    <3> QED BY <3>2, HubAssumed
  <2>5. d = [u EXCEPT !.auth = a, !.ops = D]
    <3>1. d = [u EXCEPT !.auth = [u.auth EXCEPT !.state = Hub!Staled(@), !.op = 0], !.ops = Hub!Disown(u)]
          BY <1>1, <1>3 DEF Hub!AuthDrop, Hubs, Hub!HubState
    <3> QED BY <1>1, <2>2, <3>1
  <2> HIDE DEF a
  <2>6. /\ d \in Hubs /\ d.live = s.live /\ d.subs = s.subs /\ d.born = s.born /\ d.auth = a /\ d.ops = D /\ d.sock = u.sock
        /\ [s EXCEPT !.ops = D].ops = D
        BY <1>0, <1>1, <2>1, <2>4, <2>5 DEF Hubs, Hub!HubState
  <2> HIDE DEF d
  <2>7. OpsLike(s, d)
        BY <2>1, <2>6 DEF OpsLike
  <2>8. OpsInOrder(d) /\ SignedOnce(d)
        BY <1>0, <2>7, OpsAside DEF AuthSane
  <2>9. OfRecord(d)
        BY <1>0, <1>1, <1>3, <2>4, <2>6, <2>7, <2>3 DEF AuthSane, OfRecord, OpsLike, Hub!AuthRecord
  <2>10. Follows(d, key) /\ Remembers(d)
         BY <1>1, <2>4, <2>6 DEF Follows, Remembers
  <2>11. Registry(d) /\ Holds(d, hd)
         BY <1>0, <2>6, RegistryAside
  <2>12. Sane(d, hd, key) /\ ~d.sock.up /\ d.sock.ent = s.sock.ent
         BY <1>1, <2>6, <2>8, <2>9, <2>10, <2>11 DEF Sane, AuthSane
  <2> QED BY <1>3, <2>12 DEF d, u
<1> QED BY <1>2, <1>3 DEF u

LEMMA SocketDropSane ==
    ASSUME NEW s, NEW hd, NEW key, Sane(s, hd, key)
    PROVE  /\ Sane(Hub!SocketDrop(s), hd, key) /\ ~Hub!SocketDrop(s).sock.up /\ Hub!SocketDrop(s).sock.ent = s.sock.ent
           /\ s.auth = None => Hub!SocketDrop(s).auth = None
<1> DEFINE d == Hub!AuthDrop([s EXCEPT !.sock.up = FALSE])
           c == Hub!Each(Hub!LoseWire, d, Hub!InBucket(d))
           t == Hub!Each(Hub!CutOff, c, Hub!Unlisted(c))
<1>1. Sane(d, hd, key) /\ ~d.sock.up /\ d.sock.ent = s.sock.ent /\ (s.auth = None => d.auth = None)
      BY DropSane
<1>2. Hub!SocketDrop(s) = t
      BY DEF Hub!SocketDrop
<1> HIDE DEF d
<1>3. Beside(d, c)
      BY <1>1, BucketKnown, FoldsBeside DEF Sane
<1> HIDE DEF c
<1>4. Known(c, Hub!Unlisted(c)) /\ c \in Hubs
      BY <1>3 DEF Known, Beside, Hubs, Hub!HubState, Hub!Unlisted, Hub!Is, Recs
<1>5. Beside(c, t)
      BY <1>4, FoldsBeside
<1> HIDE DEF t
<1>6. Beside(d, t)
      BY <1>3, <1>5, BesideBoth
<1>7. Sane(t, hd, key)
      BY <1>1, <1>6, BesideSane
<1> QED BY <1>1, <1>2, <1>6, <1>7 DEF Beside

\* The AUTH record is dropped: of any key, since there is none.
LEMMA AuthlessSane ==
    ASSUME NEW s, NEW hd, NEW old, NEW key, Sane(s, hd, old)
    PROVE  /\ Sane([s EXCEPT !.auth = None], hd, key) /\ [s EXCEPT !.auth = None].auth = None
           /\ [s EXCEPT !.auth = None].sock = s.sock
<1> DEFINE t == [s EXCEPT !.auth = None]
<1>1. /\ t \in Hubs /\ t.live = s.live /\ t.subs = s.subs /\ t.born = s.born /\ t.auth = None /\ t.ops = s.ops /\ t.sock = s.sock
      BY DEF Sane, Hubs, Hub!HubState
<1> HIDE DEF t
<1>2. AuthSane(t, key)
      BY <1>1, AuthGone DEF Sane, AuthSane
<1> QED BY <1>1, <1>2, RegistryAside DEF Sane, t

\* Every bucket of an identity's socket forgotten; the records are ended and stay without one.
LEMMA ForgetBucketSane ==
    ASSUME NEW s, NEW hd, NEW key, Sane(s, hd, key), slot5 \in HubSpent
    PROVE  /\ Sane(Hub!ForgetBucket(s), hd, key) /\ Hub!ForgetBucket(s).auth = s.auth
           /\ Hub!ForgetBucket(s).sock = s.sock /\ Hub!ForgetBucket(s).subs = [k \in HubKeys |-> 0]
<1> DEFINE e == Hub!Each(Hub!Terminate, s, Hub!InBucket(s))
           z == [k \in HubKeys |-> 0]
           m == Hub!Scene.max
           t == [e EXCEPT !.subs = z, !.max = m, !.penalty = FALSE]
<1>1. Beside(s, e)
      BY BucketKnown, FoldsBeside DEF Sane
<1>2. Sane(e, hd, key)
      BY <1>1, BesideSane
<1>3. m \in Nat \ {0}
      BY RelayAssumption DEF Hub!RelayHubAssumption, HubSpent, Hub!Scene
<1>4. z \in [HubKeys -> HubLives \cup {0}]
      OBVIOUS
<1> HIDE DEF e, m, z
<1>5. /\ t \in Hubs /\ t.live = e.live /\ t.subs = z /\ t.born = e.born /\ t.auth = e.auth /\ t.ops = e.ops
      /\ t.sock = e.sock
      BY <1>2, <1>3, <1>4 DEF Sane, Hubs, Hub!HubState
<1>6. Hub!ForgetBucket(s) = t
      BY DEF Hub!ForgetBucket, e, m, z
<1> HIDE DEF t
<1>7. Registry(t) /\ Holds(t, hd)
      BY <1>2, <1>5 DEF Sane, Registry, Holds, z
<1>8. AuthSane(t, key)
      BY <1>2, <1>5, AuthAside DEF Sane
<1> QED BY <1>1, <1>5, <1>6, <1>7, <1>8 DEF Sane, Beside, z

LEMMA ForgetSane ==
    ASSUME NEW s, NEW hd, NEW old, NEW key, Sane(s, hd, old), slot5 \in HubSpent
    PROVE  Sane(Hub!Forget(s), hd, key) /\ Hub!Forget(s).sock = Hub!NoSock
<1> DEFINE d == [Hub!SocketDrop(s) EXCEPT !.auth = None]
           b == Hub!ForgetBucket(d)
           t == [b EXCEPT !.sock = Hub!NoSock]
<1>1. Sane(d, hd, key) /\ d.auth = None
      BY SocketDropSane, AuthlessSane
<1> HIDE DEF d
<1>2. Sane(b, hd, key) /\ b.auth = None
      BY <1>1, ForgetBucketSane
<1> HIDE DEF b
<1>3. Hub!NoSock \in [ent : Nat, up : BOOLEAN, gen : Nat, onauth : BOOLEAN, subs : Nat,
                      challenge : HubChallenges \cup {None}, promise : HubOps \cup {0}] /\ ~Hub!NoSock.up
      BY DEF Hub!NoSock
<1>4. /\ t \in Hubs /\ t.live = b.live /\ t.subs = b.subs /\ t.born = b.born /\ t.auth = None /\ t.ops = b.ops
      /\ t.sock = Hub!NoSock
      BY <1>2, <1>3 DEF Sane, Hubs, Hub!HubState
<1>5. Hub!Forget(s) = t
      BY DEF Hub!Forget, b, d
<1> HIDE DEF t
<1>6. AuthSane(t, key) /\ Registry(t) /\ Holds(t, hd)
      BY <1>2, <1>3, <1>4, AuthGone, RegistryAside DEF Sane
<1> QED BY <1>4, <1>5, <1>6 DEF Sane

\* Leaving: the holders that stay are holders of the record that stays.
LEMMA DetachSane ==
    ASSUME NEW s, NEW hd, NEW key, Sane(s, hd, key), NEW i \in HubLives, s.live[i] \in Recs, NEW L \in SUBSET HubHandles,
           NEW to, LetGo(hd, to), \A h \in L : to[h].at # "held"
    PROVE  /\ Sane(Hub!Detach(s, i, L), to, key) /\ Hub!Detach(s, i, L).sock.ent = s.sock.ent
           /\ s.live[i].holders \ L # {} => /\ Hub!Detach(s, i, L).live[i] \in Recs
                                            /\ Hub!Detach(s, i, L).ents = s.ents
<1> DEFINE l == s.live[i]
           H == l.holders \ L
           t == Hub!Detach(s, i, L)
<1>0. s \in Hubs /\ Registry(s) /\ Holds(s, hd) /\ AuthSane(s, key)
      BY DEF Sane
<1>1. CASE H = l.holders
  <2>1. t = s
        BY <1>1 DEF Hub!Detach
  <2>2. Holds(s, to)
        BY <1>0 DEF Holds, LetGo
  <2> QED BY <1>0, <2>1, <2>2 DEF Sane
<1>2. CASE H # l.holders /\ H # {}
  <2> DEFINE T == Hub!Top(H, [j \in HubHandles |-> slot2[j].pri])
             n == [l EXCEPT !.holders = H, !.pri = T]
  <2>1. t = [s EXCEPT !.live[i] = n]
        BY <1>2 DEF Hub!Detach, Hub!SetLive
  <2>2. T \in {0, 1} /\ H \subseteq HubHandles
        BY DEF Hub!Top, Recs, Hub!LiveRecord
  <2> HIDE DEF T
  <2>3. n \in Recs /\ n.key = l.key /\ n.holders = H
    <3> HIDE DEF H
    <3> QED BY <2>2 DEF Recs, Hub!LiveRecord
  <2> HIDE DEF n
  <2>4. \A h \in HubHandles : to[h].at = "held" /\ hd[h].live = i => h \in n.holders
        BY <1>0, <2>3 DEF Holds, LetGo
  <2>5. Sane([s EXCEPT !.live[i] = n], to, key)
        BY <2>3, <2>4, RecordSane
  <2>6. [s EXCEPT !.live[i] = n].live[i] = n /\ [s EXCEPT !.live[i] = n].sock = s.sock /\ [s EXCEPT !.live[i] = n].ents = s.ents
        BY <1>0 DEF Hubs, Hub!HubState
  <2> QED BY <2>1, <2>3, <2>5, <2>6
<1>3. CASE H # l.holders /\ H = {}
  <2> DEFINE m == IF s.sock.ent = l.ent THEN Hub!Less(s.sock.subs) ELSE s.sock.subs
             u == [s EXCEPT !.live[i] = None, !.subs[l.key] = 0, !.sock.subs = m]
  <2>1. t = Hub!Unpark(u)
        BY <1>3 DEF Hub!Detach
  <2>2. /\ s.live \in [HubLives -> Recs \cup {None}] /\ s.subs \in [HubKeys -> HubLives \cup {0}] /\ s.sock.subs \in Nat
        /\ l.key \in HubKeys
        BY <1>0 DEF Hubs, Hub!HubState, Recs, Hub!LiveRecord
  <2>3. m \in Nat
        BY <2>2 DEF Hub!Less
  <2> HIDE DEF m
  <2>4. [s.live EXCEPT ![i] = None] \in [HubLives -> Recs \cup {None}] /\ [s.subs EXCEPT ![l.key] = 0] \in [HubKeys -> HubLives \cup {0}]
        BY <2>2
  <2>5. /\ u.live = [s.live EXCEPT ![i] = None] /\ u.subs = [s.subs EXCEPT ![l.key] = 0]
        /\ u.born = s.born /\ u.auth = s.auth /\ u.ops = s.ops /\ u.sock.ent = s.sock.ent /\ u.sock.up = s.sock.up
        /\ u.sock.gen = s.sock.gen
        BY <1>0 DEF Hubs, Hub!HubState
  <2>6. u \in Hubs
    <3>1. [s.sock EXCEPT !.subs = m] \in [ent : Nat, up : BOOLEAN, gen : Nat, onauth : BOOLEAN, subs : Nat,
                                          challenge : HubChallenges \cup {None}, promise : HubOps \cup {0}]
          BY <1>0, <2>3 DEF Hubs, Hub!HubState
    <3>2. u = [s EXCEPT !.live = [s.live EXCEPT ![i] = None], !.subs = [s.subs EXCEPT ![l.key] = 0],
                        !.sock = [s.sock EXCEPT !.subs = m]]
          BY <1>0 DEF Hubs, Hub!HubState
    <3> DEFINE x == [s.live EXCEPT ![i] = None]
               y == [s.subs EXCEPT ![l.key] = 0]
               z == [s.sock EXCEPT !.subs = m]
    <3>3. x \in [HubLives -> Recs \cup {None}] /\ y \in [HubKeys -> HubLives \cup {0}] /\ u = [s EXCEPT !.live = x, !.subs = y, !.sock = z]
          BY <2>4, <3>2
    <3> HIDE DEF x, y, z, u
    <3>4. z \in [ent : Nat, up : BOOLEAN, gen : Nat, onauth : BOOLEAN, subs : Nat,
                 challenge : HubChallenges \cup {None}, promise : HubOps \cup {0}]
          BY <3>1 DEF z
    <3> QED BY <1>0, <3>3, <3>4 DEF Hubs, Hub!HubState, Recs
  <2> HIDE DEF u
  <2>7. Registry(u)
        BY <1>0, <2>2, <2>5, HubAssumed DEF Registry
  <2>8. Holds(u, to)
    <3> SUFFICES ASSUME NEW h \in HubHandles, to[h].at = "held"
                 PROVE  to[h].live \in HubLives /\ u.live[to[h].live] \in Recs /\ h \in u.live[to[h].live].holders
        BY DEF Holds
    <3>1. /\ to[h].live = hd[h].live /\ hd[h].live \in HubLives /\ s.live[hd[h].live] \in Recs
          /\ h \in s.live[hd[h].live].holders /\ h \notin L
          BY <1>0 DEF LetGo, Holds
    <3>2. hd[h].live # i
          BY <1>3, <3>1
    <3> QED BY <2>2, <2>5, <3>1, <3>2
  <2>9. AuthSane(u, key)
        BY <1>0, <2>5, AuthAside
  <2>10. Sane(u, to, key)
         BY <2>6, <2>7, <2>8, <2>9 DEF Sane
  <2>11. Beside(u, Hub!Unpark(u))
         BY <2>6, UnparkBeside
  <2>12. Sane(Hub!Unpark(u), to, key)
         BY <2>10, <2>11, BesideSane
  <2> QED BY <1>3, <2>1, <2>5, <2>11, <2>12 DEF Beside
<1> QED BY <1>1, <1>2, <1>3

LEMMA QuotaSane ==
    ASSUME NEW s, NEW hd, NEW key, Sane(s, hd, key), NEW i \in HubLives, s.live[i] \in Recs
    PROVE  /\ Sane(Hub!QuotaHit(s, i), hd, key) /\ Hub!QuotaHit(s, i).live[i] \in Recs
           /\ Hub!QuotaHit(s, i).live[i].holders = s.live[i].holders /\ Hub!QuotaHit(s, i).sock = s.sock
<1> DEFINE m == Hub!Fewer(s.max)
           u == [s EXCEPT !.max = m, !.penalty = TRUE]
           p == Hub!Park(u, i)
           e == Hub!Lowest(p)
<1>0. s \in Hubs
      BY DEF Sane
<1>1. m \in Nat \ {0}
      BY <1>0 DEF Hubs, Hub!HubState, Hub!Fewer
<1> HIDE DEF m
<1>2. /\ u \in Hubs /\ u.live = s.live /\ u.subs = s.subs /\ u.born = s.born /\ u.auth = s.auth /\ u.ops = s.ops
      /\ u.sock = s.sock /\ u.max = m
      BY <1>0, <1>1 DEF Hubs, Hub!HubState
<1>3. Hub!QuotaHit(s, i) = IF Hub!Cardinality(Hub!Issued(p)) > p.max THEN Hub!Park(p, e) ELSE p
      BY DEF Hub!QuotaHit, m
<1> HIDE DEF u
<1>4. Sane(u, hd, key)
      BY <1>2, HubAside
<1>5. Beside(u, p)
      BY <1>2, ParkBeside
<1> HIDE DEF p
<1>6. ASSUME Hub!Cardinality(Hub!Issued(p)) > p.max
      PROVE  Beside(p, Hub!Park(p, e))
  <2>1. Hub!Issued(p) # {}
    <3> SUFFICES ASSUME Hub!Issued(p) = {} PROVE FALSE
        OBVIOUS
    <3>1. Hub!Cardinality(Hub!Issued(p)) = 0
          BY FS_EmptySet DEF Hub!Cardinality, Cardinality
    <3> QED BY <1>1, <1>2, <1>5, <1>6, <3>1 DEF Beside
  <2>2. e \in Hub!Issued(p)
        BY <1>5, <2>1, BucketKnown, LowestIs DEF Hub!Lowest, Beside
  <2>3. e \in HubLives /\ p.live[e] \in Recs /\ p \in Hubs
        BY <1>5, <2>2, BucketKnown DEF Known, Beside
  <2> HIDE DEF e
  <2> QED BY <2>3, ParkBeside
<1> DEFINE t == Hub!QuotaHit(s, i)
<1>7. Beside(u, t)
      BY <1>3, <1>5, <1>6, BesideBoth
<1> HIDE DEF t
<1>8. Sane(t, hd, key)
      BY <1>4, <1>7, BesideSane
<1>9. OneOrNone(s.live[i], t.live[i]) /\ t.sock = s.sock
      BY <1>2, <1>7 DEF Beside
<1> QED BY <1>8, <1>9, HubAssumed DEF OneOrNone, Likewise, t

LEMMA AuthClosedSane ==
    ASSUME NEW s, NEW hd, NEW key, Sane(s, hd, key), NEW i \in HubLives, s.live[i] \in Recs
    PROVE  Sane(Hub!AuthClosed(s, i), hd, key) /\ Hub!AuthClosed(s, i).sock = s.sock
<1>0. s \in Hubs /\ AuthSane(s, key)
      BY DEF Sane
<1>1. CASE ~s.sock.onauth \/ (s.auth # None /\ s.auth.state = "refused")
  <2>1. Beside(s, Hub!Terminate(s, i)) /\ Hub!AuthClosed(s, i) = Hub!Terminate(s, i)
        BY <1>0, <1>1, TerminateBeside DEF Hub!AuthClosed
  <2> QED BY <2>1, BesideSane DEF Beside
<1>2. CASE ~(~s.sock.onauth \/ (s.auth # None /\ s.auth.state = "refused")) /\ Hub!Signing(s) /\ s.auth.op # 0
  <2> DEFINE l == [s.live[i] EXCEPT !.status = "pending"]
             u == [s EXCEPT !.live[i] = l]
             R == s.rides \cup {<<i, s.auth.op>>}
             t == [u EXCEPT !.rides = R]
  <2>1. l \in Recs /\ Likewise(s.live[i], l)
        BY DEF Recs, Hub!LiveRecord, Likewise
  <2> HIDE DEF l
  <2>2. Beside(s, u)
        BY <1>0, <2>1, OneBeside
  <2>3. Sane(u, hd, key)
        BY <2>2, BesideSane
  <2>4. u = [s EXCEPT !.live[i].status = "pending"]
        BY <1>0 DEF l, Hubs, Hub!HubState
  <2> HIDE DEF u
  <2>5. s.auth.op \in HubOps
        BY <1>0, <1>2 DEF Hub!Signing, Hubs, Hub!HubState, Hub!AuthRecord
  <2>6. R \in SUBSET (HubLives \X HubOps)
        BY <1>0, <2>5 DEF Hubs, Hub!HubState
  <2> HIDE DEF R
  <2>7. /\ t \in Hubs /\ t.live = u.live /\ t.subs = u.subs /\ t.born = u.born /\ t.auth = u.auth /\ t.ops = u.ops
        /\ t.sock = u.sock
        BY <2>3, <2>6 DEF Sane, Hubs, Hub!HubState
  <2>8. Hub!AuthClosed(s, i) = t
    <3>1. Hub!AuthClosed(s, i) = [s EXCEPT !.live[i].status = "pending", !.rides = @ \cup {<<i, s.auth.op>>}]
          BY <1>2 DEF Hub!AuthClosed
    <3>2. u.rides = s.rides
          BY <2>2 DEF Beside
    <3> QED BY <2>4, <3>1, <3>2, <1>0 DEF R
  <2> HIDE DEF t
  <2>9. Sane(t, hd, key)
        BY <2>3, <2>7, HubAside
  <2> QED BY <2>2, <2>7, <2>8, <2>9 DEF Beside
<1>3. CASE ~(~s.sock.onauth \/ (s.auth # None /\ s.auth.state = "refused")) /\ ~(Hub!Signing(s) /\ s.auth.op # 0)
  <2>1. Beside(s, Hub!ScheduleRetry(s, i)) /\ Hub!AuthClosed(s, i) = Hub!ScheduleRetry(s, i)
        BY <1>0, <1>3, ScheduleRetryBeside DEF Hub!AuthClosed
  <2> QED BY <2>1, BesideSane DEF Beside
<1> QED BY <1>1, <1>2, <1>3

-----------------------------------------------------------------------------
(* The handlers: callers.                                                  *)

\* A scene grants what it has left.
LEMMA SpendsIt ==
    ASSUME slot5 \in HubSpent
    PROVE  /\ Hub!Spend("priorities") => slot5' \in HubSpent
           /\ Hub!Spend("identities") => slot5' \in HubSpent
           /\ Hub!Spend("removals") => slot5' \in HubSpent
           /\ Hub!Spend("drops") => slot5' \in HubSpent
           /\ Hub!Spend("forgets") => slot5' \in HubSpent
           /\ Hub!Spend("closes") => slot5' \in HubSpent
           /\ Hub!Spend("silences") => slot5' \in HubSpent
           /\ Hub!Spend("frames") => slot5' \in HubSpent
<1>1. Hub!Spend("priorities") => slot5' \in HubSpent
      BY DEF Hub!Spend, HubSpent
<1>2. Hub!Spend("identities") => slot5' \in HubSpent
      BY DEF Hub!Spend, HubSpent
<1>3. Hub!Spend("removals") => slot5' \in HubSpent
      BY DEF Hub!Spend, HubSpent
<1>4. Hub!Spend("drops") => slot5' \in HubSpent
      BY DEF Hub!Spend, HubSpent
<1>5. Hub!Spend("forgets") => slot5' \in HubSpent
      BY DEF Hub!Spend, HubSpent
<1>6. Hub!Spend("closes") => slot5' \in HubSpent
      BY DEF Hub!Spend, HubSpent
<1>7. Hub!Spend("silences") => slot5' \in HubSpent
      BY DEF Hub!Spend, HubSpent
<1>8. Hub!Spend("frames") => slot5' \in HubSpent
      BY DEF Hub!Spend, HubSpent
<1> QED BY <1>1, <1>2, <1>3, <1>4, <1>5, <1>6, <1>7, <1>8

LEMMA EnsureSane ==
    ASSUME NEW s, NEW hd, NEW key, Sane(s, hd, key), slot3 \in HubLease, slot4 \in HubIdent
    PROVE  /\ Sane(Hub!Ensure(s), hd, key) /\ Hub!Ensure(s).live = s.live /\ Hub!Ensure(s).subs = s.subs
           /\ Hub!Ensure(s).born = s.born
<1>0. s \in Hubs /\ Registry(s) /\ Holds(s, hd) /\ AuthSane(s, key)
      BY DEF Sane
<1>1. CASE s.sock.ent # 0
      BY <1>1 DEF Hub!Ensure
<1>2. CASE s.sock.ent = 0
  <2> DEFINE w == Hub!Wants(slot3.row, slot4)
             x == [Hub!NoSock EXCEPT !.ent = s.ents + 1, !.onauth = w]
             t == [s EXCEPT !.sock = x, !.ents = @ + 1]
  <2>1. w \in BOOLEAN
        BY DEF Hub!Wants, HubIdent
  <2>2. s.ents \in Nat
        BY <1>0 DEF Hubs, Hub!HubState
  <2> HIDE DEF w
  <2>3. /\ x \in [ent : Nat, up : BOOLEAN, gen : Nat, onauth : BOOLEAN, subs : Nat,
                  challenge : HubChallenges \cup {None}, promise : HubOps \cup {0}]
        /\ ~x.up
    <3> DEFINE N == Hub!NoSock
               X == [ent : Nat, up : BOOLEAN, gen : Nat, onauth : BOOLEAN, subs : Nat,
                     challenge : HubChallenges \cup {None}, promise : HubOps \cup {0}]
    <3>1. N \in X /\ ~N.up
          BY DEF Hub!NoSock
    <3>2. s.ents + 1 \in Nat
          BY <2>2
    <3> HIDE DEF N
    <3>3. ASSUME NEW n \in Nat, NEW v \in BOOLEAN
          PROVE  [N EXCEPT !.ent = n, !.onauth = v] \in X /\ ~[N EXCEPT !.ent = n, !.onauth = v].up
          BY <3>1
    <3> HIDE DEF X
    <3>4. [N EXCEPT !.ent = s.ents + 1, !.onauth = w] \in X /\ ~[N EXCEPT !.ent = s.ents + 1, !.onauth = w].up
          BY <2>1, <3>2, <3>3
    <3> QED BY <3>4 DEF N, X
  <2>4. s.auth = None
        BY <1>0, <1>2 DEF AuthSane, OfRecord
  <2> HIDE DEF x
  <2>5. /\ t \in Hubs /\ t.live = s.live /\ t.subs = s.subs /\ t.born = s.born /\ t.auth = None /\ t.ops = s.ops /\ t.sock = x
    <3> DEFINE n == s.ents + 1
    <3>1. n \in Nat /\ t = [s EXCEPT !.sock = x, !.ents = n]
          BY <1>0, <2>2 DEF Hubs, Hub!HubState
    <3> HIDE DEF n, t
    <3> QED BY <1>0, <2>3, <2>4, <3>1 DEF Hubs, Hub!HubState
  <2>6. Hub!Ensure(s) = t
        BY <1>2 DEF Hub!Ensure, x, w
  <2> HIDE DEF t
  <2>7. AuthSane(t, key)
        BY <1>0, <2>3, <2>5, AuthGone
  <2> QED BY <1>0, <2>5, <2>6, <2>7, RegistryAside DEF Sane
<1> QED BY <1>1, <1>2

\* A handle becomes a holder of its key's record, old or new.
LEMMA AdoptSane ==
    ASSUME NEW s, NEW hd, NEW key, Sane(s, hd, key), NEW h \in HubHandles, NEW i \in HubLives, NEW l \in Recs, h \in l.holders,
           \/ s.subs[l.key] = i /\ s.live[i].holders \subseteq l.holders
           \/ s.subs[l.key] = 0 /\ i = s.born + 1,
           NEW t \in Hubs, t.live = [s.live EXCEPT ![i] = l], t.subs = [s.subs EXCEPT ![l.key] = i],
           t.born = IF s.subs[l.key] # 0 THEN s.born ELSE i,
           t.auth = s.auth, t.ops = s.ops, t.sock.ent = s.sock.ent, t.sock.up = s.sock.up, t.sock.gen = s.sock.gen,
           NEW to, to[h].live = i, \A j \in HubHandles : j # h => to[j] = hd[j]
    PROVE  Sane(t, to, key)
<1>0. s \in Hubs /\ Registry(s) /\ Holds(s, hd) /\ AuthSane(s, key)
      BY DEF Sane
<1>1. /\ s.live \in [HubLives -> Recs \cup {None}] /\ s.subs \in [HubKeys -> HubLives \cup {0}] /\ l.key \in HubKeys
      /\ s.born \in Nat /\ i \in Nat /\ i # 0
      BY <1>0, HubAssumed DEF Hubs, Hub!HubState, Recs, Hub!LiveRecord
<1>2. Registry(t)
  <2>1. ASSUME NEW k \in HubKeys, t.subs[k] # 0
        PROVE  t.live[t.subs[k]] \in Recs /\ t.live[t.subs[k]].key = k /\ t.subs[k] <= t.born
    <3>1. CASE k = l.key
          BY <1>0, <1>1, <2>1, <3>1 DEF Registry
    <3>2. CASE k # l.key
      <4>1. t.subs[k] = s.subs[k] /\ s.subs[k] \in HubLives
            BY <1>1, <2>1, <3>2
      <4>2. s.live[s.subs[k]] \in Recs /\ s.live[s.subs[k]].key = k /\ s.subs[k] <= s.born /\ s.subs[k] \in Nat
            BY <1>0, <2>1, <4>1, HubAssumed DEF Registry
      <4>3. s.subs[k] # i
        <5>1. CASE s.subs[l.key] = i
              BY <1>0, <1>1, <3>2, <4>2, <5>1 DEF Registry
        <5>2. CASE i = s.born + 1
              BY <1>1, <4>2, <5>2
        <5> QED BY <5>1, <5>2
      <4> QED BY <1>1, <4>1, <4>2, <4>3
    <3> QED BY <3>1, <3>2
  <2>2. ASSUME NEW j \in HubLives, j > t.born PROVE t.live[j] = None
    <3>1. j \in Nat
          BY HubAssumed
    <3>2. j > s.born /\ j # i
          BY <1>0, <1>1, <2>2, <3>1 DEF Registry
    <3> QED BY <1>0, <1>1, <3>2 DEF Registry
  <2> QED BY <2>1, <2>2 DEF Registry
<1>3. Holds(t, to)
  <2> SUFFICES ASSUME NEW j \in HubHandles, to[j].at = "held"
               PROVE  to[j].live \in HubLives /\ t.live[to[j].live] \in Recs /\ j \in t.live[to[j].live].holders
      BY DEF Holds
  <2>1. CASE j = h
        BY <1>1, <2>1
  <2>2. CASE j # h
    <3>1. to[j] = hd[j] /\ hd[j].live \in HubLives /\ s.live[hd[j].live] \in Recs /\ j \in s.live[hd[j].live].holders
          BY <1>0, <2>2 DEF Holds
    <3>2. CASE hd[j].live = i
      <4>1. s.live[i] # None
            BY <3>1, <3>2, HubAssumed
      <4>2. ~(i = s.born + 1)
            BY <1>0, <1>1, <4>1 DEF Registry
      <4> QED BY <1>1, <3>1, <3>2, <4>2
    <3>3. CASE hd[j].live # i
          BY <1>1, <3>1, <3>3
    <3> QED BY <3>2, <3>3
  <2> QED BY <2>1, <2>2
<1>4. AuthSane(t, key)
      BY <1>0, AuthAside
<1> QED BY <1>2, <1>3, <1>4 DEF Sane

LEMMA SubscribeSafe ==
    ASSUME HubInv, NEW h \in HubHandles, Hub!Subscribe(h)
    PROVE  HubInv'
<1> DEFINE spec == Hub!Scene.spec[h]
           e    == Hub!Ensure(slot1)
           old  == e.subs[spec.key]
           i    == IF old # 0 THEN old ELSE Hub!NextLive(slot1)
           l    == IF old # 0 THEN e.live[i] ELSE Hub!NewLive(e.sock.ent, spec)
           pri  == [j \in HubHandles |-> IF j = h THEN spec.pri ELSE slot2[j].pri]
           n    == Hub!Adopt(l, h, spec, pri)
           b    == IF old # 0 THEN e.born ELSE i
           m    == IF old # 0 THEN e.sock.subs ELSE e.sock.subs + 1
           a    == [e EXCEPT !.live[i] = n, !.subs[spec.key] = i, !.born = b, !.sock.subs = m]
<1>1. /\ Sane(slot1, slot2, slot4.key) /\ slot2 \in [HubHandles -> HubHandle] /\ slot3 \in HubLease /\ slot4 \in HubIdent
      /\ slot5 \in HubSpent
      BY DEF HubInv, HubOk
<1>2. /\ Sane(e, slot2, slot4.key) /\ e.live = slot1.live /\ e.subs = slot1.subs /\ e.born = slot1.born
      BY <1>1, EnsureSane
<1>3. /\ slot4.known /\ i # 0
      /\ slot2' = [slot2 EXCEPT ![h] = [at |-> "held", live |-> i, pri |-> spec.pri]]
      /\ slot1' = IF l.told THEN [a EXCEPT !.told = @ \cup {h}] ELSE IF l.issued \/ l.retry THEN a ELSE Hub!TryIssue(a, i)
      /\ slot3' = slot3 /\ slot4' = slot4 /\ slot5' = slot5
      BY DEF Hub!Subscribe, Hub!Known
<1>4. spec \in [key : HubKeys, pri : {0, 1}, watch : BOOLEAN, cap : Nat, oneshot : BOOLEAN]
      BY <1>1, RelayAssumption DEF Hub!RelayHubAssumption, HubSpent, Hub!Scene
<1> HIDE DEF spec, e
<1>5. /\ e \in Hubs /\ e.live \in [HubLives -> Recs \cup {None}] /\ e.subs \in [HubKeys -> HubLives \cup {0}]
      /\ e.sock.subs \in Nat /\ e.sock.ent \in Nat /\ e.born \in HubLives \cup {0} /\ Registry(e)
      BY <1>2 DEF Sane, Hubs, Hub!HubState, Recs
<1>6. i \in HubLives /\ (old = 0 => i = e.born + 1)
  <2>1. old \in HubLives \cup {0}
        BY <1>4, <1>5
  <2>2. CASE old # 0
        BY <2>1, <2>2
  <2>3. CASE old = 0
    <3>1. i = Hub!NextLive(slot1) /\ i # 0
          BY <1>3, <2>3
    <3>2. i = slot1.born + 1 /\ \E j \in HubLives : j > slot1.born
          BY <3>1 DEF Hub!NextLive
    <3>3. Hub!IsFiniteSet(HubLives) /\ HubLives = 1..Hub!Cardinality(HubLives)
          BY RelayAssumption DEF Hub!RelayHubAssumption
    <3>4. Hub!Cardinality(HubLives) \in Nat
          BY <3>3, FS_CardinalityType DEF Hub!IsFiniteSet, IsFiniteSet, Hub!Cardinality, Cardinality
    <3>5. slot1.born \in Nat
      <4>1. \A x \in HubLives \cup {0} : x \in Nat
            BY HubAssumed
      <4>2. e.born \in Nat
        <5> HIDE DEF i
        <5> QED BY <1>5, <4>1
      <4> QED BY <1>2, <4>2
    <3>6. i \in HubLives
      <4> DEFINE c == Hub!Cardinality(HubLives)
      <4>1. c \in Nat /\ HubLives = 1..c
            BY <3>3, <3>4
      <4> HIDE DEF c, i
      <4> QED BY <3>2, <3>5, <4>1
    <3> QED BY <1>2, <3>2, <3>6
  <2> QED BY <2>2, <2>3
<1>7. l \in Recs /\ l.key = spec.key /\ (old # 0 => l = e.live[i])
  <2>1. CASE old # 0
        BY <1>4, <1>5, <2>1 DEF Registry
  <2>2. CASE old = 0
        BY <1>4, <1>5, <2>2 DEF Hub!NewLive, Recs, Hub!LiveRecord
  <2> QED BY <2>1, <2>2
<1> HIDE DEF l
<1>8. n \in Recs /\ n.key = spec.key /\ n.holders = l.holders \cup {h}
  <2> DEFINE H == l.holders \cup {h}
             T == Hub!Top(H, pri)
             w == l.watch \/ spec.watch
             c == IF Hub!Cardinality(H) = 1 \/ spec.cap > l.cap THEN spec.cap ELSE l.cap
  <2>1. n = [l EXCEPT !.holders = H, !.pri = T, !.watch = w, !.cap = c]
        BY DEF Hub!Adopt
  <2>2. T \in {0, 1} /\ H \in SUBSET HubHandles /\ w \in BOOLEAN /\ c \in Nat
        BY <1>4, <1>7 DEF Hub!Top, Recs, Hub!LiveRecord
  <2> HIDE DEF T, H, w, c, n
  <2>3. n \in Recs /\ n.key = spec.key /\ n.holders = H
        BY <1>7, <2>1, <2>2 DEF Recs, Hub!LiveRecord
  <2> QED BY <2>3 DEF H
<1> HIDE DEF n
<1>9. b \in HubLives \cup {0} /\ m \in Nat /\ b = (IF e.subs[spec.key] # 0 THEN e.born ELSE i)
      BY <1>5, <1>6
<1>10. (e.subs[spec.key] = i /\ e.live[i].holders \subseteq n.holders) \/ (e.subs[spec.key] = 0 /\ i = e.born + 1)
       BY <1>6, <1>7, <1>8
<1> HIDE DEF b, m, i
<1>11. /\ a \in Hubs /\ a.live = [e.live EXCEPT ![i] = n] /\ a.subs = [e.subs EXCEPT ![spec.key] = i] /\ a.born = b
       /\ a.auth = e.auth /\ a.ops = e.ops /\ a.sock.ent = e.sock.ent /\ a.sock.up = e.sock.up /\ a.sock.gen = e.sock.gen
  <2> DEFINE x == [e.live EXCEPT ![i] = n]
             y == [e.subs EXCEPT ![spec.key] = i]
             z == [e.sock EXCEPT !.subs = m]
  <2>1. x \in [HubLives -> Recs \cup {None}] /\ y \in [HubKeys -> HubLives \cup {0}]
        BY <1>4, <1>5, <1>6, <1>8
  <2>2. /\ z \in [ent : Nat, up : BOOLEAN, gen : Nat, onauth : BOOLEAN, subs : Nat,
                  challenge : HubChallenges \cup {None}, promise : HubOps \cup {0}]
        /\ z.ent = e.sock.ent /\ z.up = e.sock.up /\ z.gen = e.sock.gen
        BY <1>5, <1>9 DEF Hubs, Hub!HubState
  <2>3. a = [e EXCEPT !.live = x, !.subs = y, !.born = b, !.sock = z]
        BY <1>5 DEF Hubs, Hub!HubState
  <2> HIDE DEF x, y, z, a
  <2>4. /\ a \in Hubs /\ a.live = x /\ a.subs = y /\ a.born = b /\ a.auth = e.auth /\ a.ops = e.ops /\ a.sock = z
        BY <1>5, <1>9, <2>1, <2>2, <2>3 DEF Hubs, Hub!HubState, Recs
  <2> QED BY <2>2, <2>4 DEF x, y
<1> HIDE DEF a
<1>12. /\ slot2' \in [HubHandles -> HubHandle] /\ slot2'[h].live = i /\ \A j \in HubHandles : j # h => slot2'[j] = slot2[j]
       BY <1>1, <1>3, <1>4, <1>6 DEF HubHandle
<1>13. Sane(a, slot2', slot4.key)
  <2>1. h \in n.holders /\ n.key = spec.key
        BY <1>8
  <2> QED BY <1>2, <1>6, <1>8, <1>9, <1>10, <1>11, <1>12, <2>1, AdoptSane
<1>14. Sane(slot1', slot2', slot4.key)
  <2>1. CASE l.told
    <3> DEFINE u == [a EXCEPT !.told = @ \cup {h}]
    <3>1. /\ u \in Hubs /\ u.live = a.live /\ u.subs = a.subs /\ u.born = a.born /\ u.auth = a.auth /\ u.ops = a.ops /\ u.sock = a.sock
          BY <1>11 DEF Hubs, Hub!HubState
    <3> HIDE DEF u
    <3>2. Sane(u, slot2', slot4.key)
          BY <1>13, <3>1, HubAside
    <3> QED BY <1>3, <2>1, <3>2 DEF u
  <2>2. CASE ~l.told
    <3>1. a.live[i] \in Recs
          BY <1>5, <1>6, <1>8, <1>11
    <3>2. Beside(a, Hub!TryIssue(a, i))
          BY <1>6, <1>11, <3>1, TryIssueBeside
    <3>3. Sane(Hub!TryIssue(a, i), slot2', slot4.key)
          BY <1>13, <3>2, BesideSane
    <3> QED BY <1>3, <1>13, <2>2, <3>3
  <2> QED BY <2>1, <2>2
<1> QED BY <1>1, <1>3, <1>12, <1>14 DEF HubInv, HubOk

LEMMA HubStep ==
    ASSUME HubInv, slot2' \in [HubHandles -> HubHandle], slot3' \in HubLease, slot4' = slot4, slot5' \in HubSpent,
           Sane(slot1', slot2', slot4.key), slot1.sock.ent = 0 => slot1'.sock.ent = 0
    PROVE  HubInv'
BY DEF HubInv, HubOk

\* With Rest, only the hub and what the scene has left change.
LEMMA RestStep ==
    ASSUME HubInv, Hub!Rest, slot5' \in HubSpent, Sane(slot1', slot2, slot4.key), slot1.sock.ent = 0 => slot1'.sock.ent = 0
    PROVE  HubInv'
BY HubStep DEF HubInv, HubOk, Hub!Rest

LEMMA BesideStep ==
    ASSUME HubInv, Hub!Rest, slot5' \in HubSpent, Beside(slot1, slot1')
    PROVE  HubInv'
BY RestStep, BesideSane DEF HubInv, HubOk, Beside

LEMMA SyncIs ==
    ASSUME NEW s, NEW hd, NEW key, Sane(s, hd, key), NEW n, NEW id \in HubIdent
    PROVE  /\ Sane(Hub!Sync(s, n, id), hd, key) /\ Hub!Sync(s, n, id).sock.ent = s.sock.ent
           /\ Hub!Sync(s, n, id).sock.up = s.sock.up /\ Hub!Sync(s, n, id).auth = s.auth
           /\ Hub!FreshOp(Hub!Sync(s, n, id)) = Hub!FreshOp(s)
<1> DEFINE w == Hub!Wants(n, id)
           z == [s.sock EXCEPT !.onauth = w]
           t == [s EXCEPT !.sock = z]
<1>0. s \in Hubs
      BY DEF Sane
<1>1. w \in BOOLEAN
      BY DEF Hub!Wants, HubIdent
<1> HIDE DEF w
<1>2. z \in [ent : Nat, up : BOOLEAN, gen : Nat, onauth : BOOLEAN, subs : Nat,
             challenge : HubChallenges \cup {None}, promise : HubOps \cup {0}]
      /\ z.ent = s.sock.ent /\ z.up = s.sock.up /\ z.gen = s.sock.gen
      BY <1>0, <1>1 DEF Hubs, Hub!HubState
<1>3. Hub!Sync(s, n, id) = t
      BY <1>0 DEF Hub!Sync, w, Hubs, Hub!HubState
<1> HIDE DEF z
<1>4. t \in Hubs /\ t.live = s.live /\ t.subs = s.subs /\ t.born = s.born /\ t.auth = s.auth /\ t.ops = s.ops /\ t.sock = z
      BY <1>0, <1>2 DEF Hubs, Hub!HubState
<1> HIDE DEF t
<1>5. Sane(t, hd, key)
      BY <1>2, <1>4, HubAside
<1>6. Hub!FreshOp(t) = Hub!FreshOp(s)
      BY <1>4 DEF Hub!FreshOp
<1> QED BY <1>2, <1>3, <1>4, <1>5, <1>6

LEMMA OustedIs ==
    ASSUME NEW i \in HubLives, slot1.live[i] \in Recs, NEW L, Sane(slot1, slot2, slot4.key), slot5 \in HubSpent
    PROVE  Hub!Ousted(i, L) \subseteq HubHandles
<1> DEFINE j == slot1.subs[slot1.live[i].key]
<1>1. j \in HubLives \cup {0}
      BY DEF Sane, Hubs, Hub!HubState, Recs, Hub!LiveRecord
<1>2. j # 0 => slot1.live[j] \in Recs
      BY <1>1 DEF Sane, Registry, Recs, Hub!LiveRecord
<1>3. j # 0 => slot1.live[j].holders \subseteq HubHandles
      BY <1>2 DEF Recs, Hub!LiveRecord
<1> QED BY <1>3 DEF Hub!Ousted

LEMMA ReleaseSafe ==
    ASSUME HubInv, NEW h \in HubHandles, Hub!Release(h)
    PROVE  HubInv'
<1> DEFINE i == slot2[h].live
<1>1. /\ Sane(slot1, slot2, slot4.key) /\ slot2 \in [HubHandles -> HubHandle] /\ slot3 \in HubLease /\ slot5 \in HubSpent
      BY DEF HubInv, HubOk
<1>2. /\ slot2[h].at = "held" /\ slot2' = [slot2 EXCEPT ![h].at = "gone"]
      /\ slot1' = (IF slot1.live[i] = None THEN slot1 ELSE Hub!Detach(slot1, i, {h}))
      /\ slot3' = slot3 /\ slot4' = slot4
      /\ slot5' = [slot5 EXCEPT !.taken = IF slot1.live[i] = None THEN @ ELSE @ \cup Hub!Ousted(i, {h})]
      BY DEF Hub!Release
<1>3. i \in HubLives /\ slot1.live[i] \in Recs
      BY <1>1, <1>2 DEF Sane, Holds
<1>4. slot2' \in [HubHandles -> HubHandle] /\ LetGo(slot2, slot2') /\ \A j \in {h} : slot2'[j].at # "held"
      BY <1>1, <1>2 DEF HubHandle, LetGo
<1>5. slot1' = Hub!Detach(slot1, i, {h})
      BY <1>2, <1>3, HubAssumed
<1> HIDE DEF i
<1>6. Sane(slot1', slot2', slot4.key) /\ slot1'.sock.ent = slot1.sock.ent
      BY <1>1, <1>3, <1>4, <1>5, DetachSane
<1>7. Hub!Ousted(i, {h}) \subseteq HubHandles
      BY <1>1, <1>3, OustedIs
<1>8. slot5' \in HubSpent
      BY <1>1, <1>2, <1>7 DEF HubSpent
<1> QED BY <1>1, <1>2, <1>4, <1>6, <1>8, HubStep

LEMMA SetPrioritySafe ==
    ASSUME HubInv, NEW h \in HubHandles, Hub!SetPriority(h)
    PROVE  HubInv'
<1> DEFINE i == slot2[h].live
           p == [j \in HubHandles |-> IF j = h THEN 1 - slot2[h].pri ELSE slot2[j].pri]
           T == Hub!Top(slot1.live[i].holders, p)
           l == [slot1.live[i] EXCEPT !.pri = T]
<1>1. /\ Sane(slot1, slot2, slot4.key) /\ slot2 \in [HubHandles -> HubHandle] /\ slot3 \in HubLease /\ slot5 \in HubSpent
      BY DEF HubInv, HubOk
<1>2. /\ slot2[h].at = "held" /\ Hub!Spend("priorities") /\ slot2' = [slot2 EXCEPT ![h].pri = p[h]]
      /\ slot1' = [slot1 EXCEPT !.live[i] = l] /\ slot3' = slot3 /\ slot4' = slot4
      BY DEF Hub!SetPriority, Hub!SetLive
<1>3. i \in HubLives /\ slot1.live[i] \in Recs
      BY <1>1, <1>2 DEF Sane, Holds
<1>4. T \in {0, 1} /\ p[h] \in {0, 1}
      BY <1>1 DEF Hub!Top, HubHandle
<1> HIDE DEF T, p
<1>5. slot2' \in [HubHandles -> HubHandle] /\ LetGo(slot2, slot2')
      BY <1>1, <1>2, <1>4 DEF HubHandle, LetGo
<1> HIDE DEF i
<1>6. l \in Recs /\ l.key = slot1.live[i].key /\ l.holders = slot1.live[i].holders
      BY <1>3, <1>4 DEF Recs, Hub!LiveRecord
<1> HIDE DEF l
<1>7. \A j \in HubHandles : slot2'[j].at = "held" /\ slot2[j].live = i => j \in l.holders
      BY <1>1, <1>5, <1>6 DEF Sane, Holds, LetGo
<1>8. Sane(slot1', slot2', slot4.key)
      BY <1>1, <1>2, <1>3, <1>5, <1>6, <1>7, RecordSane
<1>9. slot1'.sock = slot1.sock
      BY <1>1, <1>2 DEF Sane, Hubs, Hub!HubState
<1> QED BY <1>1, <1>2, <1>5, <1>8, <1>9, HubStep, SpendsIt

LEMMA AcquireSafe ==
    ASSUME HubInv, NEW l \in HubLeases, Hub!Acquire(l)
    PROVE  HubInv'
<1> DEFINE s == Hub!Sync(slot1, slot3.row + 1, slot4)
<1>1. /\ Sane(slot1, slot2, slot4.key) /\ slot2 \in [HubHandles -> HubHandle] /\ slot3 \in HubLease /\ slot4 \in HubIdent
      /\ slot5 \in HubSpent
      BY DEF HubInv, HubOk
<1>2. /\ Hub!FreshOp(slot1) # 0 /\ slot3' = [slot3 EXCEPT !.row = @ + 1, !.held = @ \cup {l}]
      /\ slot1' = IF slot1.sock.ent = 0 THEN slot1
                  ELSE IF s.sock.onauth /\ ~slot1.sock.onauth /\ slot1.sock.up THEN Hub!RelayAuth(s) ELSE s
      /\ slot2' = slot2 /\ slot4' = slot4 /\ slot5' = slot5
      BY DEF Hub!Acquire
<1>3. slot3' \in HubLease
  <2> DEFINE n == slot3.row + 1
             H == slot3.held \cup {l}
  <2>1. slot3' = [slot3 EXCEPT !.row = n, !.held = H]
        BY <1>2
  <2>2. n \in Nat /\ H \in SUBSET HubLeases
        BY <1>1 DEF HubLease
  <2> HIDE DEF n, H
  <2> QED BY <1>1, <2>1, <2>2 DEF HubLease
<1>4. Sane(s, slot2, slot4.key) /\ s.sock.ent = slot1.sock.ent /\ s.sock.up = slot1.sock.up /\ Hub!FreshOp(s) = Hub!FreshOp(slot1)
      BY <1>1, SyncIs
<1> HIDE DEF s
<1>5. slot1.sock.up => Sane(Hub!RelayAuth(s), slot2, slot4.key) /\ Hub!RelayAuth(s).sock.ent = s.sock.ent
      BY <1>1, <1>2, <1>4, RelayAuthSane
<1>6. Sane(slot1', slot2, slot4.key) /\ slot1'.sock.ent = slot1.sock.ent
      BY <1>1, <1>2, <1>4, <1>5
<1> QED BY <1>1, <1>2, <1>3, <1>6, HubStep

LEMMA ReleaseLeaseSafe ==
    ASSUME HubInv, NEW l \in HubLeases, Hub!ReleaseLease(l)
    PROVE  HubInv'
<1> DEFINE s == Hub!Sync(slot1, slot3.row - 1, slot4)
<1>1. /\ Sane(slot1, slot2, slot4.key) /\ slot2 \in [HubHandles -> HubHandle] /\ slot3 \in HubLease /\ slot4 \in HubIdent
      /\ slot5 \in HubSpent
      BY DEF HubInv, HubOk
<1>2. /\ slot3' = [row |-> IF slot3.row = 0 THEN 0 ELSE slot3.row - 1,
                   held |-> slot3.held \ {l}, done |-> slot3.done \cup {l}]
      /\ slot1' = IF slot3.row = 0 \/ slot1.sock.ent = 0 THEN slot1
                  ELSE IF slot3.row = 1 THEN [s EXCEPT !.auth = None] ELSE s
      /\ slot2' = slot2 /\ slot4' = slot4 /\ slot5' = slot5
      BY DEF Hub!ReleaseLease
<1>3. slot3' \in HubLease
  <2> DEFINE r == IF slot3.row = 0 THEN 0 ELSE slot3.row - 1
  <2>1. r \in Nat
        BY <1>1 DEF HubLease
  <2> DEFINE H == slot3.held \ {l}
             D == slot3.done \cup {l}
  <2>2. slot3' = [row |-> r, held |-> H, done |-> D]
        BY <1>2
  <2>3. H \in SUBSET HubLeases /\ D \in SUBSET HubLeases
        BY <1>1 DEF HubLease
  <2> HIDE DEF r, H, D
  <2> QED BY <2>1, <2>2, <2>3 DEF HubLease
<1>4. Sane(s, slot2, slot4.key) /\ s.sock.ent = slot1.sock.ent
      BY <1>1, SyncIs
<1> HIDE DEF s
<1>5. Sane([s EXCEPT !.auth = None], slot2, slot4.key) /\ [s EXCEPT !.auth = None].sock = s.sock
      BY <1>4, AuthlessSane
<1>6. Sane(slot1', slot2, slot4.key) /\ slot1'.sock.ent = slot1.sock.ent
      BY <1>1, <1>2, <1>4, <1>5
<1> QED BY <1>1, <1>2, <1>3, <1>6, HubStep

LEMMA SetIdentitySafe ==
    ASSUME HubInv, NEW k \in HubPubkeys, NEW a \in BOOLEAN, Hub!SetIdentity(k, a)
    PROVE  HubInv'
<1> DEFINE new == [known |-> TRUE, key |-> k, answers |-> a]
           g == [slot1 EXCEPT !.auth = None]
           y == Hub!Sync(slot1, slot3.row, new)
<1>1. /\ Sane(slot1, slot2, slot4.key) /\ slot2 \in [HubHandles -> HubHandle] /\ slot3 \in HubLease /\ slot4 \in HubIdent
      /\ slot5 \in HubSpent /\ (~slot4.known => slot1.sock.ent = 0)
      BY DEF HubInv, HubOk
<1>2. /\ Hub!Spend("identities") /\ slot4' = new /\ slot2' = slot2 /\ slot3' = slot3
      /\ IF slot4.known /\ (slot4.key # k \/ slot4.answers # a) THEN slot1' = Hub!SocketDrop(g) \/ slot1' = g
         ELSE slot1' = IF slot1.sock.ent # 0 THEN y ELSE slot1
      BY DEF Hub!SetIdentity
<1>3. new \in HubIdent /\ new.known /\ new.key = k
      BY DEF HubIdent
<1>4. slot5' \in HubSpent
      BY <1>1, <1>2, SpendsIt
<1> HIDE DEF new
<1>5. Sane(Hub!SocketDrop(g), slot2, k) /\ Sane(g, slot2, k)
      BY <1>1, AuthlessSane, SocketDropSane
<1>6. CASE slot4.known /\ (slot4.key # k \/ slot4.answers # a)
      BY <1>1, <1>2, <1>3, <1>4, <1>5, <1>6 DEF HubInv, HubOk
<1>7. CASE ~(slot4.known /\ (slot4.key # k \/ slot4.answers # a)) /\ slot1.sock.ent # 0
  <2>1. slot4.key = k /\ slot1' = y
        BY <1>1, <1>2, <1>7
  <2>2. Sane(y, slot2, slot4.key)
        BY <1>1, <1>3, SyncIs
  <2> QED BY <1>1, <1>2, <1>3, <1>4, <2>1, <2>2 DEF HubInv, HubOk
<1>8. CASE ~(slot4.known /\ (slot4.key # k \/ slot4.answers # a)) /\ slot1.sock.ent = 0
  <2>1. slot1' = slot1 /\ slot1.auth = None
        BY <1>1, <1>2, <1>8 DEF Sane, AuthSane, OfRecord
  <2>2. AuthSane(slot1, k)
        BY <1>1, <2>1, AuthGone DEF Sane, AuthSane
  <2>3. Sane(slot1, slot2, k)
        BY <1>1, <2>2 DEF Sane
  <2> QED BY <1>1, <1>2, <1>3, <1>4, <2>1, <2>3 DEF HubInv, HubOk
<1> QED BY <1>6, <1>7, <1>8

LEMMA RemoveIdentitySafe ==
    ASSUME HubInv, Hub!RemoveIdentity
    PROVE  HubInv'
<1> DEFINE e == Hub!Each(Hub!Terminate, slot1, Hub!InBucket(slot1))
<1>1. /\ Sane(slot1, slot2, slot4.key) /\ slot2 \in [HubHandles -> HubHandle] /\ slot3 \in HubLease /\ slot4 \in HubIdent
      /\ slot5 \in HubSpent
      BY DEF HubInv, HubOk
<1>2. /\ Hub!Spend("removals") /\ slot1' = Hub!Forget(e) /\ slot2' = slot2
      /\ slot3' = [slot3 EXCEPT !.row = 0] /\ slot4' = [slot4 EXCEPT !.known = FALSE]
      BY DEF Hub!RemoveIdentity
<1>3. Beside(slot1, e)
      BY <1>1, BucketKnown, FoldsBeside DEF Sane
<1> HIDE DEF e
<1>4. Sane(slot1', slot2, slot4.key) /\ slot1'.sock = Hub!NoSock
      BY <1>1, <1>2, <1>3, BesideSane, ForgetSane
<1>5. slot3' \in HubLease /\ slot4' \in HubIdent /\ slot4'.key = slot4.key
      BY <1>1, <1>2 DEF HubLease, HubIdent
<1>6. slot5' \in HubSpent
      BY <1>1, <1>2, SpendsIt
<1> QED BY <1>1, <1>2, <1>4, <1>5, <1>6 DEF HubInv, HubOk, Hub!NoSock

LEMMA DisposeSafe ==
    ASSUME HubInv, Hub!Dispose
    PROVE  HubInv'
<1>1. /\ Sane(slot1, slot2, slot4.key) /\ slot2 \in [HubHandles -> HubHandle] /\ slot3 \in HubLease /\ slot4 \in HubIdent
      /\ slot5 \in HubSpent
      BY DEF HubInv, HubOk
<1>2. /\ slot1' = Hub!Forget(Hub!ForgetBucket(slot1)) /\ slot2' = slot2
      /\ slot3' = [slot3 EXCEPT !.row = 0] /\ slot4' = [slot4 EXCEPT !.known = FALSE]
      /\ slot5' = [slot5 EXCEPT !.disposed = TRUE]
      BY DEF Hub!Dispose
<1>3. Sane(slot1', slot2, slot4.key) /\ slot1'.sock = Hub!NoSock
      BY <1>1, <1>2, ForgetBucketSane, ForgetSane
<1>4. slot3' \in HubLease /\ slot4' \in HubIdent /\ slot4'.key = slot4.key
      BY <1>1, <1>2 DEF HubLease, HubIdent
<1>5. slot5' \in HubSpent
      BY <1>1, <1>2 DEF HubSpent
<1> QED BY <1>1, <1>2, <1>3, <1>4, <1>5 DEF HubInv, HubOk, Hub!NoSock

LEMMA ForgottenSafe ==
    ASSUME HubInv, Hub!Forgotten
    PROVE  HubInv'
<1>1. Sane(slot1, slot2, slot4.key) /\ slot5 \in HubSpent
      BY DEF HubInv, HubOk
<1>2. Hub!Spend("forgets") /\ slot1' = Hub!Forget(slot1) /\ Hub!Rest
      BY DEF Hub!Forgotten
<1>3. Sane(slot1', slot2, slot4.key) /\ slot1'.sock = Hub!NoSock
      BY <1>1, <1>2, ForgetSane
<1> QED BY <1>1, <1>2, <1>3, RestStep, SpendsIt DEF Hub!NoSock

-----------------------------------------------------------------------------
(* The handlers: the relay, the timers and the signer.                     *)

LEMMA DroppedSafe ==
    ASSUME HubInv, Hub!Dropped
    PROVE  HubInv'
<1>1. Sane(slot1, slot2, slot4.key) /\ slot5 \in HubSpent
      BY DEF HubInv, HubOk
<1>2. Hub!Spend("drops") /\ slot1' = Hub!SocketDrop(slot1) /\ Hub!Rest
      BY DEF Hub!Dropped
<1> QED BY <1>1, <1>2, SocketDropSane, RestStep, SpendsIt

LEMMA OpenedSafe ==
    ASSUME HubInv, Hub!Opened
    PROVE  HubInv'
<1> DEFINE g == slot1.sock.gen + 1
           z == [slot1.sock EXCEPT !.up = TRUE, !.gen = g, !.promise = 0, !.challenge = None]
           u == [slot1 EXCEPT !.sock = z]
           s == Hub!Sync(u, slot3.row, slot4)
           t == Hub!Ranked(Hub!Reissue, s, Hub!InBucket(s))
<1>1. Sane(slot1, slot2, slot4.key) /\ slot4 \in HubIdent /\ slot5 \in HubSpent
      BY DEF HubInv, HubOk
<1>2. slot1 \in Hubs /\ Registry(slot1) /\ Holds(slot1, slot2) /\ AuthSane(slot1, slot4.key)
      BY <1>1 DEF Sane
<1>3. /\ slot1.sock.ent # 0 /\ ~slot1.sock.up /\ slot5' = slot5 /\ Hub!Rest
      /\ slot1' = Hub!SocketOpen(Hub!Sync([slot1 EXCEPT !.sock.up = TRUE, !.sock.gen = @ + 1, !.sock.promise = 0,
                                                        !.sock.challenge = None], slot3.row, slot4))
      BY DEF Hub!Opened
<1>4. slot1.sock \in [ent : Nat, up : BOOLEAN, gen : Nat, onauth : BOOLEAN, subs : Nat,
                      challenge : HubChallenges \cup {None}, promise : HubOps \cup {0}]
      BY <1>2 DEF Hubs, Hub!HubState
<1>5. g \in Nat /\ g > slot1.sock.gen
      BY <1>4
<1>6. u = [slot1 EXCEPT !.sock.up = TRUE, !.sock.gen = @ + 1, !.sock.promise = 0, !.sock.challenge = None]
      BY <1>2 DEF Hubs, Hub!HubState
<1>7. slot1' = t
      BY <1>3, <1>6 DEF Hub!SocketOpen
<1> HIDE DEF g
<1>8. /\ z \in [ent : Nat, up : BOOLEAN, gen : Nat, onauth : BOOLEAN, subs : Nat,
               challenge : HubChallenges \cup {None}, promise : HubOps \cup {0}]
      /\ z.ent = slot1.sock.ent /\ z.up /\ z.gen = g
      BY <1>4, <1>5
<1> HIDE DEF z
<1>9. /\ u \in Hubs /\ u.live = slot1.live /\ u.subs = slot1.subs /\ u.born = slot1.born /\ u.auth = slot1.auth
      /\ u.ops = slot1.ops /\ u.sock = z
      BY <1>2, <1>8 DEF Hubs, Hub!HubState
<1> HIDE DEF u
<1>10. slot1.auth # None => slot1.auth.gen \in Nat /\ slot1.auth.gen < g
  <2>1. slot1.auth # None => slot1.auth.gen \in Nat
        BY <1>2 DEF Hubs, Hub!HubState, Hub!AuthRecord
  <2>2. slot1.auth # None => slot1.auth.gen <= slot1.sock.gen
        BY <1>2 DEF AuthSane, OfRecord
  <2> QED BY <1>4, <1>5, <2>1, <2>2
<1>11. OpsInOrder(u) /\ SignedOnce(u)
       BY <1>2, <1>9 DEF AuthSane, OpsInOrder, SignedOnce, Siblings, Superseded
<1>12. OfRecord(u)
  <2>1. slot1.auth # None => slot1.auth.gen <= g
        BY <1>5, <1>10
  <2> QED BY <1>2, <1>3, <1>8, <1>9, <2>1 DEF AuthSane, OfRecord
<1>13. Follows(u, slot4.key)
       BY <1>2, <1>3, <1>9 DEF AuthSane, Follows
<1>14. Remembers(u)
  <2>1. slot1.auth # None => slot1.auth.gen # g
        BY <1>5, <1>10
  <2> QED BY <1>8, <1>9, <2>1 DEF Remembers
<1>15. Sane(u, slot2, slot4.key)
       BY <1>2, <1>3, <1>8, <1>9, <1>11, <1>12, <1>13, <1>14, RegistryAside DEF Sane, AuthSane
<1>16. Sane(s, slot2, slot4.key)
       BY <1>1, <1>15, SyncIs
<1> HIDE DEF s
<1>17. Beside(s, t)
       BY <1>16, BucketKnown, FoldsBeside DEF Sane
<1> HIDE DEF t
<1>18. Sane(t, slot2, slot4.key)
       BY <1>16, <1>17, BesideSane
<1> QED BY <1>1, <1>3, <1>7, <1>18, RestStep

LEMMA PenaltyEndsSafe ==
    ASSUME HubInv, Hub!PenaltyEnds
    PROVE  HubInv'
<1> DEFINE m == Hub!Scene.max
           s == [slot1 EXCEPT !.penalty = FALSE, !.max = m]
           t == Hub!Ranked(Hub!Readmit, s, Hub!InBucket(s))
<1>1. Sane(slot1, slot2, slot4.key) /\ slot5 \in HubSpent
      BY DEF HubInv, HubOk
<1>2. slot1' = t /\ slot5' = slot5 /\ Hub!Rest
      BY DEF Hub!PenaltyEnds
<1>3. m \in Nat \ {0}
      BY <1>1, RelayAssumption DEF Hub!RelayHubAssumption, HubSpent, Hub!Scene
<1> HIDE DEF m
<1>4. /\ s \in Hubs /\ s.live = slot1.live /\ s.subs = slot1.subs /\ s.born = slot1.born /\ s.auth = slot1.auth
      /\ s.ops = slot1.ops /\ s.sock = slot1.sock
      BY <1>1, <1>3 DEF Sane, Hubs, Hub!HubState
<1> HIDE DEF s
<1>5. Sane(s, slot2, slot4.key)
      BY <1>1, <1>4, HubAside
<1>6. Beside(s, t)
      BY <1>4, BucketKnown, FoldsBeside
<1> HIDE DEF t
<1>7. Sane(t, slot2, slot4.key) /\ t.sock = slot1.sock
      BY <1>4, <1>5, <1>6, BesideSane DEF Beside
<1> QED BY <1>1, <1>2, <1>7, RestStep

LEMMA ChallengedSafe ==
    ASSUME HubInv, NEW c \in HubChallenges, Hub!Challenged(c)
    PROVE  HubInv'
<1> DEFINE z == [slot1.sock EXCEPT !.challenge = c]
           s == [slot1 EXCEPT !.sock = z]
<1>1. Sane(slot1, slot2, slot4.key) /\ slot4 \in HubIdent /\ slot5 \in HubSpent
      BY DEF HubInv, HubOk
<1>2. slot1 \in Hubs
      BY <1>1 DEF Sane
<1>3. s = [slot1 EXCEPT !.sock.challenge = c]
      BY <1>2 DEF Hubs, Hub!HubState
<1>4. slot1.sock.up /\ Hub!FreshOp(slot1) # 0 /\ Hub!Spend("frames") /\ Hub!Rest /\ (slot1' = Hub!Sign(s) \/ slot1' = s)
      BY <1>3 DEF Hub!Challenged
<1>5. z \in [ent : Nat, up : BOOLEAN, gen : Nat, onauth : BOOLEAN, subs : Nat,
             challenge : HubChallenges \cup {None}, promise : HubOps \cup {0}]
      /\ z.ent = slot1.sock.ent /\ z.up = slot1.sock.up /\ z.gen = slot1.sock.gen /\ z.challenge = c
      BY <1>2 DEF Hubs, Hub!HubState
<1> HIDE DEF z
<1>6. /\ s \in Hubs /\ s.live = slot1.live /\ s.subs = slot1.subs /\ s.born = slot1.born /\ s.auth = slot1.auth
      /\ s.ops = slot1.ops /\ s.sock = z
      BY <1>2, <1>5 DEF Hubs, Hub!HubState
<1> HIDE DEF s
<1>7. Sane(s, slot2, slot4.key)
      BY <1>1, <1>5, <1>6, HubAside
<1>8. Hub!FreshOp(s) = Hub!FreshOp(slot1)
      BY <1>6 DEF Hub!FreshOp
<1>9. Sane(Hub!Sign(s), slot2, slot4.key) /\ Hub!Sign(s).sock.ent = s.sock.ent
      BY <1>1, <1>4, <1>5, <1>6, <1>7, <1>8, SignSane
<1>10. Sane(slot1', slot2, slot4.key) /\ slot1'.sock.ent = slot1.sock.ent
       BY <1>4, <1>5, <1>6, <1>7, <1>9
<1> QED BY <1>1, <1>4, <1>10, RestStep, SpendsIt

\* A step of one record that leaves the rest of the hub alone.
LEMMA OnWireIs ==
    ASSUME HubInv, NEW i \in HubLives, Hub!Is(slot1, i)
    PROVE  slot1 \in Hubs /\ slot1.live[i] \in Recs /\ slot5 \in HubSpent /\ Sane(slot1, slot2, slot4.key)
BY DEF HubInv, HubOk, Sane, Hub!Is, Hubs, Hub!HubState, Recs

LEMMA RelaySpeaksSafe ==
    ASSUME HubInv, NEW i \in HubLives, Hub!RelaySpeaks(i)
    PROVE  HubInv'
<1>1. slot1 \in Hubs /\ slot1.live[i] \in Recs /\ slot5 \in HubSpent
      BY OnWireIs DEF Hub!RelaySpeaks, Hub!OnWire
<1>2. PICK a \in {0, slot1.live[i].attempt} : slot1' = [slot1 EXCEPT !.live[i] = [slot1.live[i] EXCEPT !.attempt = a, !.dog = FALSE]]
      BY DEF Hub!RelaySpeaks, Hub!SetLive
<1> DEFINE l == [slot1.live[i] EXCEPT !.attempt = a, !.dog = FALSE]
<1>a. a \in Nat
      BY <1>1 DEF Recs, Hub!LiveRecord
<1>3. l \in Recs /\ Likewise(slot1.live[i], l)
      BY <1>1, <1>a DEF Recs, Hub!LiveRecord, Likewise
<1>4. slot1' = [slot1 EXCEPT !.live[i] = l] /\ slot5' = slot5 /\ Hub!Rest
      BY <1>2 DEF Hub!RelaySpeaks
<1> HIDE DEF l
<1>5. Beside(slot1, slot1')
      BY <1>1, <1>3, <1>4, OneBeside
<1> QED BY <1>1, <1>4, <1>5, BesideStep

LEMMA RetryFiresSafe ==
    ASSUME HubInv, NEW i \in HubLives, Hub!RetryFires(i)
    PROVE  HubInv'
<1> DEFINE l == [slot1.live[i] EXCEPT !.retry = FALSE]
           t == [slot1 EXCEPT !.live[i] = l]
<1>1. slot1 \in Hubs /\ slot1.live[i] \in Recs /\ slot5 \in HubSpent
      BY OnWireIs DEF Hub!RetryFires
<1>2. slot1' = Hub!TryIssue([slot1 EXCEPT !.live[i].retry = FALSE], i) /\ slot5' = slot5 /\ Hub!Rest
      BY DEF Hub!RetryFires
<1>3. l \in Recs /\ Likewise(slot1.live[i], l)
      BY <1>1 DEF Recs, Hub!LiveRecord, Likewise
<1>4. t = [slot1 EXCEPT !.live[i].retry = FALSE]
      BY <1>1 DEF Hubs, Hub!HubState
<1> HIDE DEF l
<1>5. Beside(slot1, t) /\ t \in Hubs /\ t.live[i] \in Recs
      BY <1>1, <1>3, FlagBeside
<1> HIDE DEF t
<1>6. Beside(slot1, Hub!TryIssue(t, i))
      BY <1>5, TryIssueBeside, BesideBoth
<1> QED BY <1>1, <1>2, <1>4, <1>6, BesideStep

LEMMA SilenceSafe ==
    ASSUME HubInv, NEW i \in HubLives, Hub!Silence(i)
    PROVE  HubInv'
<1> DEFINE l == [slot1.live[i] EXCEPT !.issued = FALSE, !.dog = FALSE]
           t == [slot1 EXCEPT !.live[i] = l]
<1>1. slot1 \in Hubs /\ slot1.live[i] \in Recs /\ slot5 \in HubSpent
      BY OnWireIs DEF Hub!Silence, Hub!OnWire
<1>2. slot1' = Hub!ScheduleRetry(t, i) /\ Hub!Spend("silences") /\ Hub!Rest
      BY DEF Hub!Silence, Hub!SetLive
<1>3. l \in Recs /\ Likewise(slot1.live[i], l)
      BY <1>1 DEF Recs, Hub!LiveRecord, Likewise
<1> HIDE DEF l
<1>4. Beside(slot1, t) /\ t \in Hubs /\ t.live[i] \in Recs
      BY <1>1, <1>3, FlagBeside
<1> HIDE DEF t
<1>5. Beside(slot1, Hub!ScheduleRetry(t, i))
      BY <1>4, ScheduleRetryBeside, BesideBoth
<1> QED BY <1>1, <1>2, <1>5, BesideStep, SpendsIt

LEMMA DeadlineSafe ==
    ASSUME HubInv, NEW i \in HubLives, Hub!Deadline(i)
    PROVE  HubInv'
<1> DEFINE l == [slot1.live[i] EXCEPT !.late = TRUE]
<1>1. slot1 \in Hubs /\ slot1.live[i] \in Recs /\ slot5 \in HubSpent /\ Sane(slot1, slot2, slot4.key)
      BY OnWireIs DEF Hub!Deadline
<1>2. slot1' = [slot1 EXCEPT !.live[i].late = TRUE] /\ slot5' = slot5 /\ Hub!Rest
      BY DEF Hub!Deadline
<1>3. l \in Recs /\ l.key = slot1.live[i].key /\ l.holders = slot1.live[i].holders
      BY <1>1 DEF Recs, Hub!LiveRecord
<1>4. slot1' = [slot1 EXCEPT !.live[i] = l]
      BY <1>1, <1>2 DEF Hubs, Hub!HubState
<1> HIDE DEF l
<1>5. LetGo(slot2, slot2) /\ \A j \in HubHandles : slot2[j].at = "held" /\ slot2[j].live = i => j \in l.holders
      BY <1>1, <1>3 DEF LetGo, Sane, Holds
<1>6. Sane([slot1 EXCEPT !.live[i] = l], slot2, slot4.key)
      BY <1>1, <1>3, <1>5, RecordSane
<1>7. slot1'.sock = slot1.sock
      BY <1>1, <1>4 DEF Hubs, Hub!HubState
<1> QED BY <1>1, <1>2, <1>4, <1>6, <1>7, RestStep

LEMMA RelayClosesSafe ==
    ASSUME HubInv, NEW i \in HubLives, NEW r \in Hub!Reasons, NEW L \in SUBSET HubHandles, Hub!RelayCloses(i, r, L)
    PROVE  HubInv'
<1> DEFINE l == slot1.live[i]
           n == [l EXCEPT !.issued = FALSE, !.dog = FALSE]
           class == Hub!Class(r)
           c == [slot1 EXCEPT !.live[i] = n]
           q == IF class = "quota" THEN Hub!QuotaHit(c, i) ELSE c
           s == Hub!Detach(q, i, L)
<1>1. slot1 \in Hubs /\ l \in Recs /\ slot5 \in HubSpent /\ Sane(slot1, slot2, slot4.key)
      BY OnWireIs DEF Hub!RelayCloses, Hub!OnWire
<1>2. slot2 \in [HubHandles -> HubHandle] /\ slot3 \in HubLease
      BY DEF HubInv, HubOk
<1>3. /\ slot5' = [slot5 EXCEPT !.closes = @ - 1, !.taken = @ \cup Hub!Ousted(i, L)] /\ slot5.closes > 0
      /\ L \subseteq l.holders /\ slot3' = slot3 /\ slot4' = slot4
      /\ slot2' = [h \in HubHandles |-> IF h \in L THEN [slot2[h] EXCEPT !.at = "gone"] ELSE slot2[h]]
      /\ slot1' = IF L = l.holders \/ class = "quota" THEN s
                  ELSE IF class = "auth" THEN Hub!AuthClosed(s, i)
                  ELSE IF class = "restricted" \/ l.attempt >= 3 THEN Hub!Terminate(s, i)
                  ELSE Hub!ScheduleRetry(s, i)
      BY DEF Hub!RelayCloses, Hub!SetLive
<1>4. n \in Recs /\ Likewise(l, n)
      BY <1>1 DEF Recs, Hub!LiveRecord, Likewise
<1>5. slot2' \in [HubHandles -> HubHandle] /\ LetGo(slot2, slot2') /\ \A h \in L : slot2'[h].at # "held"
      BY <1>2, <1>3 DEF HubHandle, LetGo
<1> HIDE DEF n
<1>6. Beside(slot1, c) /\ c \in Hubs /\ c.live[i] \in Recs /\ c.live[i].holders = l.holders /\ c.sock = slot1.sock
  <2>1. Beside(slot1, c) /\ c \in Hubs /\ c.live[i] \in Recs
        BY <1>1, <1>4, FlagBeside
  <2>2. OneOrNone(slot1.live[i], c.live[i]) /\ c.sock = slot1.sock
        BY <2>1 DEF Beside
  <2> QED BY <1>1, <2>1, <2>2, HubAssumed DEF OneOrNone, Likewise
<1> HIDE DEF c, class
<1>7. Sane(c, slot2, slot4.key)
      BY <1>1, <1>6, BesideSane
<1>8. Sane(q, slot2, slot4.key) /\ q.live[i] \in Recs /\ q.live[i].holders = l.holders /\ q.sock = slot1.sock
      BY <1>6, <1>7, QuotaSane
<1> HIDE DEF q
<1>9. /\ Sane(s, slot2', slot4.key) /\ s.sock.ent = slot1.sock.ent
      /\ L # l.holders => s.live[i] \in Recs
  <2>1. L # l.holders => q.live[i].holders \ L # {}
        BY <1>3, <1>8
  <2> QED BY <1>5, <1>8, <2>1, DetachSane
<1> HIDE DEF s
<1>10. L # l.holders => /\ Sane(Hub!AuthClosed(s, i), slot2', slot4.key) /\ Hub!AuthClosed(s, i).sock = s.sock
                        /\ Beside(s, Hub!Terminate(s, i)) /\ Beside(s, Hub!ScheduleRetry(s, i))
       BY <1>9, AuthClosedSane, TerminateBeside, ScheduleRetryBeside DEF Sane
<1>11. Sane(slot1', slot2', slot4.key) /\ slot1'.sock.ent = slot1.sock.ent
  <2>1. CASE L = l.holders \/ class = "quota"
        BY <1>3, <1>9, <2>1
  <2>2. CASE ~(L = l.holders \/ class = "quota")
    <3>1. slot1' = Hub!AuthClosed(s, i) \/ Beside(s, slot1')
          BY <1>3, <1>10, <2>2
    <3>2. Beside(s, slot1') => Sane(slot1', slot2', slot4.key) /\ slot1'.sock = s.sock
          BY <1>9, BesideSane DEF Beside
    <3> QED BY <1>9, <1>10, <2>2, <3>1, <3>2
  <2> QED BY <2>1, <2>2
<1>12. slot5' \in HubSpent
  <2>1. Hub!Ousted(i, L) \subseteq HubHandles
        BY <1>1, OustedIs
  <2>2. slot5.closes - 1 \in Nat /\ slot5.taken \cup Hub!Ousted(i, L) \in SUBSET HubHandles
        BY <1>1, <1>3, <2>1 DEF HubSpent
  <2> HIDE DEF l, s
  <2>3. slot5' = [slot5 EXCEPT !.closes = slot5.closes - 1, !.taken = slot5.taken \cup Hub!Ousted(i, L)]
        BY <1>3
  <2> QED BY <1>1, <2>2, <2>3 DEF HubSpent
<1> QED BY <1>1, <1>2, <1>3, <1>5, <1>11, <1>12, HubStep

\* How far a signature is, and the record it may be the last of.
OpFits(s, o, at, mine, a, R) ==
    /\ s.ops[o] # None /\ at \in {"asking", "sent", "dead", "over", "late"} /\ mine \in BOOLEAN /\ s.ops[o].at \notin Lost
    /\ a \in Hub!AuthRecord \cup {None} /\ (a = None <=> s.auth = None) /\ R \in SUBSET (HubLives \X HubOps)
    /\ a # None => /\ a.rec = s.auth.rec /\ a.gen = s.auth.gen /\ a.challenge = s.auth.challenge
                   /\ a.state = "authenticated" => a.op # 0
                   /\ a.op = s.auth.op \/ (a.op = 0 /\ s.auth.op = o /\ at \in Lost)
    /\ s.auth # None /\ s.auth.op = o /\ (at \in Lost \/ ~mine) => a.op = 0
WithOp(s, o, at, mine, a, R) == [s EXCEPT !.ops[o].at = at, !.ops[o].mine = mine, !.auth = a, !.rides = R]

LEMMA OpSane ==
    ASSUME NEW s, NEW hd, NEW key, Sane(s, hd, key), NEW o \in HubOps, NEW at, NEW mine, NEW a, NEW R,
           OpFits(s, o, at, mine, a, R)
    PROVE  Sane(WithOp(s, o, at, mine, a, R), hd, key) /\ WithOp(s, o, at, mine, a, R).sock = s.sock
<1> USE DEF OpFits
<1> DEFINE p == [s.ops[o] EXCEPT !.at = at, !.mine = mine]
           P == [s.ops EXCEPT ![o] = p]
           t == [s EXCEPT !.ops = P, !.auth = a, !.rides = R]
<1>0. s \in Hubs /\ Registry(s) /\ Holds(s, hd) /\ AuthSane(s, key)
      BY DEF Sane
<1>1. s.ops \in [HubOps -> Hub!Signature \cup {None}] /\ s.ops[o] \in Hub!Signature
      BY <1>0 DEF Hubs, Hub!HubState
<1>2. /\ p \in Hub!Signature /\ p.rec = s.ops[o].rec /\ p.gen = s.ops[o].gen /\ p.challenge = s.ops[o].challenge
      /\ p.by = s.ops[o].by /\ p.at = at /\ p.mine = mine
      BY <1>1 DEF Hub!Signature
<1>3. t = WithOp(s, o, at, mine, a, R)
      BY <1>0, <1>1 DEF WithOp, Hubs, Hub!HubState, Hub!Signature
<1> HIDE DEF p
<1>4. P \in [HubOps -> Hub!Signature \cup {None}] /\ p # None
      BY <1>1, <1>2, HubAssumed
<1>5. P[o] = p /\ \A x \in HubOps : x # o => P[x] = s.ops[x]
      BY <1>1
<1> HIDE DEF P
<1>6. /\ t \in Hubs /\ t.live = s.live /\ t.subs = s.subs /\ t.born = s.born /\ t.auth = a /\ t.ops = P /\ t.sock = s.sock
      BY <1>0, <1>4 DEF Hubs, Hub!HubState
<1> HIDE DEF t
<1>7. OpsLike(s, t)
      BY <1>1, <1>2, <1>4, <1>5, <1>6 DEF OpsLike
<1>8. OpsInOrder(t) /\ SignedOnce(t)
      BY <1>0, <1>7, OpsAside DEF AuthSane
<1>9. s.auth # None => s.auth.rec \in HubOps
      BY <1>0 DEF Hubs, Hub!HubState, Hub!AuthRecord
<1>10. OfRecord(t)
       BY <1>0, <1>6, <1>7, <1>9 DEF AuthSane, OfRecord, OpsLike
<1>11. Follows(t, key)
  <2> SUFFICES ASSUME a # None, a.op # 0 PROVE Follows(t, key)
      BY <1>6 DEF Follows
  <2>1. s.auth # None /\ a.op = s.auth.op
        OBVIOUS
  <2>2. s.auth.op \in HubOps
        BY <1>0, <2>1, HubAssumed DEF Hubs, Hub!HubState, Hub!AuthRecord
  <2>3. CASE s.auth.op = o
    <3>1. at \notin Lost /\ mine
          BY <2>1, <2>3
    <3>2. a.rec = s.auth.rec /\ a.gen = s.auth.gen /\ a.challenge = s.auth.challenge
          BY <2>1
    <3> HIDE DEF OpFits
    <3>3. /\ p.rec = s.auth.rec /\ p.gen = s.auth.gen /\ p.challenge = s.auth.challenge /\ p.by = key
          /\ s.sock.up /\ s.auth.gen = s.sock.gen
          BY <1>0, <1>2, <2>1, <2>3 DEF AuthSane, Follows
    <3>4. t.ops[t.auth.op] = p /\ t.auth = a /\ t.sock = s.sock /\ p # None /\ p.mine /\ p.at \notin Lost
          BY <1>2, <1>4, <1>5, <1>6, <2>1, <2>3, <3>1
    <3> QED BY <3>2, <3>3, <3>4 DEF Follows
  <2>4. CASE s.auth.op # o
    <3>1. a.rec = s.auth.rec /\ a.gen = s.auth.gen /\ a.challenge = s.auth.challenge
          BY <2>1
    <3> HIDE DEF OpFits
    <3>2. t.ops[t.auth.op] = s.ops[s.auth.op] /\ t.auth = a /\ t.sock = s.sock
          BY <1>5, <1>6, <2>1, <2>2, <2>4
    <3> QED BY <1>0, <2>1, <3>1, <3>2 DEF AuthSane, Follows
  <2> QED BY <2>3, <2>4
<1>12. Remembers(t)
  <2> SUFFICES ASSUME a # None, s.sock.up, a.gen = s.sock.gen, NEW x \in HubOps, P[x] # None, P[x].rec = a.rec,
                      P[x].gen = a.gen, P[x].at \notin Lost
               PROVE  x = a.op \/ \E q \in HubOps : x < q /\ Siblings(t, x, q) /\ P[q].challenge # P[x].challenge
      BY <1>6 DEF Remembers
  <2>1. s.ops[x] # None /\ s.ops[x].rec = s.auth.rec /\ s.ops[x].gen = s.auth.gen /\ s.ops[x].at \notin Lost /\ s.auth # None
        BY <1>6, <1>7 DEF OpsLike
  <2>2. x = s.auth.op \/ \E q \in HubOps : x < q /\ Siblings(s, x, q) /\ s.ops[q].challenge # s.ops[x].challenge
        BY <1>0, <2>1 DEF AuthSane, Remembers
  <2>3. CASE x = s.auth.op
    <3>1. CASE a.op = s.auth.op
          BY <2>3, <3>1
    <3>2. CASE s.auth.op = o /\ at \in Lost
          BY <1>2, <1>5, <2>3, <3>2
    <3> QED BY <3>1, <3>2
  <2>4. CASE \E q \in HubOps : x < q /\ Siblings(s, x, q) /\ s.ops[q].challenge # s.ops[x].challenge
        BY <1>6, <1>7, <2>1, <2>4 DEF OpsLike, Siblings
  <2> QED BY <2>2, <2>3, <2>4
<1>13. Registry(t) /\ Holds(t, hd)
       BY <1>0, <1>6, RegistryAside
<1>14. Sane(t, hd, key)
       BY <1>0, <1>6, <1>8, <1>10, <1>11, <1>12, <1>13 DEF Sane, AuthSane
<1> QED BY <1>3, <1>6, <1>14

LEMMA SignerAnswersSafe ==
    ASSUME HubInv, NEW o \in HubOps, NEW ok \in BOOLEAN, Hub!SignerAnswers(o, ok)
    PROVE  HubInv'
<1> DEFINE p == slot1.ops[o]
           a == IF p.mine /\ slot1.auth # None /\ slot1.auth.op = o
                THEN [slot1.auth EXCEPT !.state = "failed", !.op = 0] ELSE slot1.auth
<1>1. Sane(slot1, slot2, slot4.key) /\ slot5 \in HubSpent
      BY DEF HubInv, HubOk
<1>2. slot1 \in Hubs /\ AuthSane(slot1, slot4.key)
      BY <1>1 DEF Sane
<1>3. /\ p # None /\ p.at = "asking" /\ slot5' = slot5 /\ Hub!Rest
      /\ slot1' = IF ok THEN [slot1 EXCEPT !.ops[o].at = "sent"]
                  ELSE [slot1 EXCEPT !.ops[o].at = "dead", !.ops[o].mine = FALSE, !.auth = a]
      BY DEF Hub!SignerAnswers
<1>4. /\ p \in Hub!Signature /\ p.mine \in BOOLEAN /\ p.at \notin Lost /\ slot1.rides \in SUBSET (HubLives \X HubOps)
      /\ slot1.auth \in Hub!AuthRecord \cup {None} /\ slot1.ops \in [HubOps -> Hub!Signature \cup {None}]
      BY <1>2, <1>3 DEF Hubs, Hub!HubState, Hub!Signature, Lost
<1>5. slot1.auth # None /\ slot1.auth.op = o => p.mine
  <2>1. o # 0
        BY HubAssumed
  <2> QED BY <1>2, <2>1 DEF AuthSane, Follows
<1>6. CASE ok
  <2>1. slot1' = WithOp(slot1, o, "sent", p.mine, slot1.auth, slot1.rides)
        BY <1>2, <1>3, <1>4, <1>6 DEF WithOp, Hubs, Hub!HubState, Hub!Signature
  <2>2. slot1.auth # None /\ slot1.auth.state = "authenticated" => slot1.auth.op # 0
        BY <1>2 DEF AuthSane, OfRecord
  <2>3. "sent" \notin Lost
        BY DEF Lost
  <2>4. OpFits(slot1, o, "sent", p.mine, slot1.auth, slot1.rides)
        BY <1>3, <1>4, <1>5, <2>2, <2>3 DEF OpFits
  <2>5. Sane(slot1', slot2, slot4.key) /\ slot1'.sock = slot1.sock
        BY <1>1, <2>1, <2>4, OpSane
  <2> QED BY <1>1, <1>3, <2>5, RestStep
<1>7. CASE ~ok
  <2>1. /\ a \in Hub!AuthRecord \cup {None} /\ (a = None <=> slot1.auth = None)
        /\ a # None => /\ a.rec = slot1.auth.rec /\ a.gen = slot1.auth.gen /\ a.challenge = slot1.auth.challenge
                       /\ a.state = "authenticated" => a.op # 0
                       /\ a.op = slot1.auth.op \/ (a.op = 0 /\ slot1.auth.op = o)
        /\ slot1.auth # None /\ slot1.auth.op = o => a.op = 0
    <3>1. CASE p.mine /\ slot1.auth # None /\ slot1.auth.op = o
      <4>1. slot1.auth \in Hub!AuthRecord /\ a = [slot1.auth EXCEPT !.state = "failed", !.op = 0]
            BY <1>4, <3>1
      <4> HIDE DEF a
      <4>2. a \in Hub!AuthRecord /\ a.rec = slot1.auth.rec /\ a.gen = slot1.auth.gen /\ a.challenge = slot1.auth.challenge /\ a.op = 0
            /\ a.state = "failed"
            BY <4>1 DEF Hub!AuthRecord
      <4> QED BY <3>1, <4>2, HubAssumed
    <3>2. CASE ~(p.mine /\ slot1.auth # None /\ slot1.auth.op = o)
      <4>1. a = slot1.auth
            BY <3>2
      <4>2. slot1.auth # None /\ slot1.auth.state = "authenticated" => slot1.auth.op # 0
            BY <1>2 DEF AuthSane, OfRecord
      <4> HIDE DEF a
      <4> QED BY <1>4, <1>5, <3>2, <4>1, <4>2
    <3> QED BY <3>1, <3>2
  <2> HIDE DEF a
  <2> DEFINE m == FALSE
  <2>2. slot1' = WithOp(slot1, o, "dead", m, a, slot1.rides)
        BY <1>2, <1>3, <1>4, <1>7 DEF WithOp, Hubs, Hub!HubState
  <2>3. "dead" \in Lost
        BY DEF Lost
  <2>4. OpFits(slot1, o, "dead", m, a, slot1.rides)
        BY <1>3, <1>4, <2>1, <2>3 DEF OpFits
  <2> HIDE DEF m
  <2>5. Sane(slot1', slot2, slot4.key) /\ slot1'.sock = slot1.sock
        BY <1>1, <2>2, <2>4, OpSane
  <2> QED BY <1>1, <1>3, <2>5, RestStep
<1> QED BY <1>6, <1>7

LEMMA VerdictSafe ==
    ASSUME HubInv, NEW o \in HubOps, NEW v \in {"ok", "refused", "late"}, Hub!Verdict(o, v)
    PROVE  HubInv'
<1> DEFINE p   == slot1.ops[o]
           cur == p.mine /\ slot1.auth # None /\ slot1.auth.op = o
           a   == IF ~cur THEN slot1.auth
                  ELSE IF v = "ok" THEN [slot1.auth EXCEPT !.state = "authenticated"]
                  ELSE IF v = "refused" THEN [slot1.auth EXCEPT !.state = "refused", !.refused = p.challenge]
                  ELSE [slot1.auth EXCEPT !.state = "failed", !.op = 0]
           at  == IF v = "late" THEN v ELSE "over"
           m   == p.mine /\ v # "late"
           R   == {r \in slot1.rides : r[2] # o}
           s   == WithOp(slot1, o, at, m, a, R)
           I   == {i \in HubLives : <<i, o>> \in slot1.rides}
<1>1. Sane(slot1, slot2, slot4.key) /\ slot5 \in HubSpent
      BY DEF HubInv, HubOk
<1>2. slot1 \in Hubs /\ AuthSane(slot1, slot4.key)
      BY <1>1 DEF Sane
<1>3. /\ p # None /\ p.at = "sent" /\ slot5' = slot5 /\ Hub!Rest
      /\ slot1' = Hub!Each(Hub!Rejoin, s, I) \/ slot1' = Hub!Each(Hub!GiveUp, s, I)
      BY DEF Hub!Verdict, WithOp
<1>4. /\ p \in Hub!Signature /\ p.mine \in BOOLEAN /\ p.challenge \in HubChallenges /\ p.at \notin Lost
      /\ slot1.auth \in Hub!AuthRecord \cup {None} /\ R \in SUBSET (HubLives \X HubOps)
      BY <1>2, <1>3 DEF Hubs, Hub!HubState, Hub!Signature, Lost
<1>5. slot1.auth # None /\ slot1.auth.op = o => p.mine
  <2>1. o # 0
        BY HubAssumed
  <2> QED BY <1>2, <2>1 DEF AuthSane, Follows
<1>6. /\ at \in {"asking", "sent", "dead", "over", "late"} /\ m \in BOOLEAN /\ (at \in Lost <=> v = "late")
      BY <1>4 DEF Lost
<1>7. /\ a \in Hub!AuthRecord \cup {None} /\ (a = None <=> slot1.auth = None)
      /\ a # None => /\ a.rec = slot1.auth.rec /\ a.gen = slot1.auth.gen /\ a.challenge = slot1.auth.challenge
                     /\ a.state = "authenticated" => a.op # 0
                     /\ a.op = slot1.auth.op \/ (a.op = 0 /\ slot1.auth.op = o /\ v = "late")
      /\ slot1.auth # None /\ slot1.auth.op = o /\ v = "late" => a.op = 0
  <2>1. CASE ~cur
    <3>1. a = slot1.auth
          BY <2>1
    <3>2. slot1.auth # None /\ slot1.auth.state = "authenticated" => slot1.auth.op # 0
          BY <1>2 DEF AuthSane, OfRecord
    <3> HIDE DEF a
    <3> QED BY <1>4, <1>5, <2>1, <3>1, <3>2
  <2>2. CASE cur
    <3>0. slot1.auth \in Hub!AuthRecord /\ slot1.auth.op = o /\ o # 0
          BY <1>4, <2>2, HubAssumed
    <3>1. CASE v = "ok"
      <4>1. a = [slot1.auth EXCEPT !.state = "authenticated"]
            BY <2>2, <3>1
      <4> HIDE DEF a
      <4>2. a \in Hub!AuthRecord /\ a.rec = slot1.auth.rec /\ a.gen = slot1.auth.gen /\ a.challenge = slot1.auth.challenge /\ a.op = o
            BY <3>0, <4>1 DEF Hub!AuthRecord
      <4> QED BY <2>2, <3>0, <3>1, <4>2, HubAssumed
    <3>2. CASE v = "refused"
      <4>1. a = [slot1.auth EXCEPT !.state = "refused", !.refused = p.challenge]
            BY <2>2, <3>2
      <4> HIDE DEF a
      <4>2. a \in Hub!AuthRecord /\ a.rec = slot1.auth.rec /\ a.gen = slot1.auth.gen /\ a.challenge = slot1.auth.challenge /\ a.op = o
            BY <1>4, <3>0, <4>1 DEF Hub!AuthRecord
      <4> QED BY <2>2, <3>0, <3>2, <4>2, HubAssumed
    <3>3. CASE v = "late"
      <4>1. a = [slot1.auth EXCEPT !.state = "failed", !.op = 0]
            BY <2>2, <3>3
      <4> HIDE DEF a
      <4>2. a \in Hub!AuthRecord /\ a.rec = slot1.auth.rec /\ a.gen = slot1.auth.gen /\ a.challenge = slot1.auth.challenge /\ a.op = 0
            /\ a.state = "failed"
            BY <3>0, <4>1 DEF Hub!AuthRecord
      <4> QED BY <2>2, <3>0, <3>3, <4>2, HubAssumed
    <3> QED BY <3>1, <3>2, <3>3
  <2> QED BY <2>1, <2>2
<1>8. slot1.auth # None /\ slot1.auth.op = o /\ (at \in Lost \/ ~m) => a.op = 0
      BY <1>5, <1>6, <1>7
<1> HIDE DEF a, at, m, R
<1>9. Sane(s, slot2, slot4.key) /\ s.sock = slot1.sock
  <2>1. OpFits(slot1, o, at, m, a, R)
        BY <1>3, <1>4, <1>6, <1>7, <1>8 DEF OpFits
  <2> QED BY <1>1, <2>1, OpSane
<1>10. s \in Hubs
       BY <1>9 DEF Sane
<1> HIDE DEF s
<1>11. I \subseteq HubLives
       OBVIOUS
<1> HIDE DEF I
<1>12. Beside(s, slot1')
       BY <1>3, <1>10, <1>11, RidersBeside
<1>13. Sane(slot1', slot2, slot4.key) /\ slot1'.sock = slot1.sock
       BY <1>9, <1>12, BesideSane DEF Beside
<1> QED BY <1>1, <1>3, <1>13, RestStep

-----------------------------------------------------------------------------
(* The socket all along.                                                   *)

LEMMA HubBegins == ASSUME Hub!Init PROVE HubInv
<1>1. PICK n \in DOMAIN HubPlays : Hub!InitOf(n)
      BY DEF Hub!Init
<1>2. HubPlays[n].bounds \in [scene : Nat, priorities : Nat, identities : Nat, removals : Nat, drops : Nat,
                              forgets : Nat, closes : Nat, silences : Nat, frames : Nat, disposed : {FALSE},
                              taken : {{}}]
      BY RelayAssumption DEF Hub!RelayHubAssumption
<1>3. HubPlays[n].max \in Nat \ {0} /\ HubPlays[n].key \in HubPubkeys /\ HubPlays[n].answers \in BOOLEAN
      BY RelayAssumption DEF Hub!RelayHubAssumption
<1>4. slot5 \in HubSpent
      BY <1>1, <1>2 DEF Hub!InitOf, HubSpent
<1>5. slot2 \in [HubHandles -> HubHandle] /\ \A h \in HubHandles : slot2[h].at # "held"
      BY <1>1 DEF Hub!InitOf, HubHandle
<1>6. slot3 \in HubLease
      BY <1>1 DEF Hub!InitOf, HubLease
<1>7. slot4 \in HubIdent /\ slot4.known
      BY <1>1, <1>3 DEF Hub!InitOf, HubIdent
<1> DEFINE l == [i \in HubLives |-> None]
           b == [k \in HubKeys |-> 0]
           p == [o \in HubOps |-> None]
<1>8. slot1 = [sock |-> Hub!NoSock, ents |-> 0, born |-> 0, live |-> l, subs |-> b, max |-> HubPlays[n].max,
               penalty |-> FALSE, auth |-> None, ops |-> p, rides |-> {}, told |-> {}]
      BY <1>1 DEF Hub!InitOf
<1>9. l \in [HubLives -> Recs \cup {None}] /\ b \in [HubKeys -> HubLives \cup {0}] /\ p \in [HubOps -> Hub!Signature \cup {None}]
      OBVIOUS
<1>10. (\A i \in HubLives : l[i] = None) /\ (\A k \in HubKeys : b[k] = 0) /\ \A o \in HubOps : p[o] = None
       OBVIOUS
<1>11. Hub!NoSock \in [ent : Nat, up : BOOLEAN, gen : Nat, onauth : BOOLEAN, subs : Nat,
                       challenge : HubChallenges \cup {None}, promise : HubOps \cup {0}] /\ ~Hub!NoSock.up
       BY DEF Hub!NoSock
<1> HIDE DEF l, b, p
<1>12. slot1 \in Hubs
       BY <1>3, <1>8, <1>9, <1>11 DEF Hubs, Hub!HubState, Recs
<1>13. slot1.live = l /\ slot1.subs = b /\ slot1.auth = None /\ slot1.ops = p /\ slot1.sock = Hub!NoSock
       BY <1>8
<1>14. Registry(slot1) /\ Holds(slot1, slot2)
       BY <1>5, <1>10, <1>13 DEF Registry, Holds
<1>15. AuthSane(slot1, slot4.key)
       BY <1>10, <1>11, <1>13 DEF AuthSane, OpsInOrder, SignedOnce, OfRecord, Follows, Remembers
<1> QED BY <1>4, <1>5, <1>6, <1>7, <1>12, <1>14, <1>15 DEF HubInv, HubOk, Sane

LEMMA HubKeeps == ASSUME HubInv, Hub!Next PROVE HubInv'
<1>1. CASE Hub!Callers
  <2>1. CASE \E h \in HubHandles : Hub!Subscribe(h) \/ Hub!Release(h) \/ Hub!SetPriority(h)
        BY <2>1, SubscribeSafe, ReleaseSafe, SetPrioritySafe
  <2>2. CASE \E l \in HubLeases : Hub!Acquire(l) \/ Hub!ReleaseLease(l)
        BY <2>2, AcquireSafe, ReleaseLeaseSafe
  <2>3. CASE \E k \in HubPubkeys, a \in BOOLEAN : Hub!SetIdentity(k, a)
        BY <2>3, SetIdentitySafe
  <2>4. CASE Hub!RemoveIdentity \/ Hub!Dispose \/ Hub!Forgotten
        BY <2>4, RemoveIdentitySafe, DisposeSafe, ForgottenSafe
  <2> QED BY <1>1, <2>1, <2>2, <2>3, <2>4 DEF Hub!Callers
<1>2. CASE Hub!Relay
  <2>1. CASE Hub!Dropped \/ \E c \in HubChallenges : Hub!Challenged(c)
        BY <2>1, DroppedSafe, ChallengedSafe
  <2>2. CASE \E i \in HubLives : Hub!RelaySpeaks(i) \/ Hub!Silence(i) \/ Hub!Deadline(i)
        BY <2>2, RelaySpeaksSafe, SilenceSafe, DeadlineSafe
  <2>3. CASE \E i \in HubLives, r \in Hub!Reasons, H \in SUBSET HubHandles : Hub!RelayCloses(i, r, H)
        BY <2>3, RelayClosesSafe
  <2> QED BY <1>2, <2>1, <2>2, <2>3 DEF Hub!Relay
<1>3. CASE Hub!Progress
  <2>1. CASE Hub!Opened \/ Hub!PenaltyEnds
        BY <2>1, OpenedSafe, PenaltyEndsSafe
  <2>2. CASE \E i \in HubLives : Hub!RetryFires(i)
        BY <2>2, RetryFiresSafe
  <2>3. CASE \E o \in HubOps : Hub!Answers(o)
        BY <2>3, SignerAnswersSafe, VerdictSafe DEF Hub!Answers
  <2> QED BY <1>3, <2>1, <2>2, <2>3 DEF Hub!Progress
<1> QED BY <1>1, <1>2, <1>3 DEF Hub!Next

LEMMA HubAlone == ASSUME part = "hub", Next PROVE part' = "hub" /\ Hub!Next
<1>1. part' = "hub"
      BY DEF Next, InSockets, InQueries, InProfiles, InBatches, InFacade, InBatcher, InFeed, InHeld, InHub
<1>2. Hub!Next
      BY DEF Next, InSockets, InQueries, InProfiles, InBatches, InFacade, InBatcher, InFeed, InHeld,
             Hub!Next, Hub!Callers, Hub!Relay, Hub!Progress, Hub!Answers
<1> QED BY <1>1, <1>2

LEMMA OtherPartsStay == ASSUME Next PROVE part' = part
BY DEF Next, InSockets, InQueries, InProfiles, InBatches, InFacade, InBatcher, InFeed, InHeld, InHub

HubIsSound == part = "hub" => HubInv

\* registry.ts, sub-scheduler.ts, auth.ts: the registry of a socket, what callers hold of it and its
\* AUTH record fit together, whatever is subscribed, refused, parked, challenged, signed or forgotten.
THEOREM HubInvariant == Spec => []HubIsSound
<1>1. Init => HubIsSound
      BY HubBegins DEF Init, HubIsSound
<1>2. HubIsSound /\ [Next]_all => HubIsSound'
  <2>1. ASSUME HubIsSound, Next PROVE HubIsSound'
        BY <2>1, HubAlone, OtherPartsStay, HubKeeps DEF HubIsSound
  <2>2. ASSUME HubIsSound, UNCHANGED all PROVE HubIsSound'
        BY <2>2 DEF HubIsSound, HubInv, all
  <2> QED BY <2>1, <2>2
<1> QED BY <1>1, <1>2, PTL DEF Spec

LEMMA AuthStaysCurrent == HubInv => Hub!AuthIsCurrent
<1> SUFFICES ASSUME HubInv PROVE Hub!AuthIsCurrent
    OBVIOUS
<1>1. slot1 \in Hubs /\ AuthSane(slot1, slot4.key)
      BY DEF HubInv, HubOk, Sane
<1>2. ASSUME slot1.auth # None, slot1.auth.state = "authenticated"
      PROVE  /\ slot1.sock.up /\ slot1.auth.gen = slot1.sock.gen /\ slot1.auth.op # 0
             /\ slot1.ops[slot1.auth.op].gen = slot1.sock.gen /\ slot1.ops[slot1.auth.op].by = slot4.key
      BY <1>1, <1>2 DEF AuthSane, OfRecord, Follows
<1>3. ASSUME NEW o \in HubOps, NEW p \in HubOps, o # p, slot1.ops[o] # None, slot1.ops[p] # None,
             slot1.ops[o].rec = slot1.ops[p].rec, slot1.ops[o].gen = slot1.ops[p].gen,
             slot1.ops[o].challenge = slot1.ops[p].challenge
      PROVE  \/ {slot1.ops[o].at, slot1.ops[p].at} \cap {"dead", "late"} # {}
             \/ \E q \in HubOps : /\ (o < q /\ q < p) \/ (p < q /\ q < o)
                                 /\ slot1.ops[q] # None /\ slot1.ops[q].rec = slot1.ops[o].rec
                                 /\ slot1.ops[q].gen = slot1.ops[o].gen /\ slot1.ops[q].challenge # slot1.ops[o].challenge
  <2>1. o < p \/ p < o
        BY <1>3, HubAssumed
  <2>2. CASE o < p
        BY <1>1, <1>3, <2>2 DEF AuthSane, SignedOnce, Siblings, Superseded, Lost
  <2>3. CASE p < o
        BY <1>1, <1>3, <2>3 DEF AuthSane, SignedOnce, Siblings, Superseded, Lost
  <2> QED BY <2>1, <2>2, <2>3
<1> QED BY <1>2, <1>3 DEF Hub!AuthIsCurrent

\* auth.ts, hub.ts: a socket counts as authenticated only on the connection it has and for the key
\* it acts for, and a record has the user sign a challenge once on a connection, unless the signature
\* came to nothing or another challenge took its place.
THEOREM AuthStays == Spec => []AuthIsCurrent
<1>1. HubIsSound => AuthIsCurrent
      BY AuthStaysCurrent DEF HubIsSound, AuthIsCurrent
<1> QED BY <1>1, HubInvariant, PTL
=============================================================================
