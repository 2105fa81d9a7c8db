---------------------------- MODULE BoundedCache -----------------------------
(***************************************************************************)
(* The cache primitive of the relay hub (bounded-map.ts), as operators on  *)
(* a value: the entries of the Map in insertion order, oldest first.  An   *)
(* entry is [k, v, bytes, exp], with exp = 0 when it does not expire.      *)
(* Options are [max, maxBytes, lru], with maxBytes = 0 for no byte bound.  *)
(***************************************************************************)
EXTENDS Naturals, Sequences, SequencesExt

KeysOf(m)      == {m[i].k : i \in DOMAIN m}
EntryOf(m, k)  == CHOOSE e \in ToSet(m) : e.k = k
Without(m, k)  == SelectSeq(m, LAMBDA e : e.k # k)
BytesOf(m)     == FoldLeft(LAMBDA n, e : n + e.bytes, 0, m)
Expired(e, now) == e.exp # 0 /\ e.exp <= now

\* peek(): what it answers, and the map it leaves.
Hit(m, k, now)    == k \in KeysOf(m) /\ ~Expired(EntryOf(m, k), now)
Peeked(m, k, now) == IF k \in KeysOf(m) /\ ~Hit(m, k, now) THEN Without(m, k) ELSE m
\* Slip: a read does not renew the entry.
GotInPlace(m, k, now, o) == Peeked(m, k, now)
Got(m, k, now, o) == IF o.lru /\ Hit(m, k, now) THEN Append(Without(m, k), EntryOf(m, k)) ELSE Peeked(m, k, now)

\* trimTo(): the n entries at the end stay.
Trimmed(m, n) == IF Len(m) > n THEN SubSeq(m, Len(m) - n + 1, Len(m)) ELSE m
\* enforce(): first the count, then the bytes, which never cost the newest entry.
Enforced(m, o) ==
    LET c == Trimmed(m, o.max)
        From(i) == SubSeq(c, i, Len(c))
    IN  IF o.maxBytes = 0 \/ c = <<>> THEN c
        ELSE From(CHOOSE i \in DOMAIN c : /\ BytesOf(From(i)) <= o.maxBytes \/ i = Len(c)
                                          /\ \A j \in 1..(i - 1) : BytesOf(From(j)) > o.maxBytes)
Put(m, k, v, bytes, exp, o) == Enforced(Append(Without(m, k), [k |-> k, v |-> v, bytes |-> bytes, exp |-> exp]), o)
Swept(m, now) == SelectSeq(m, LAMBDA e : ~Expired(e, now))

Bounded(m, o) == /\ Len(m) <= o.max /\ Cardinality(KeysOf(m)) = Len(m)
                 /\ o.maxBytes # 0 => BytesOf(m) <= o.maxBytes \/ Len(m) = 1
=============================================================================
