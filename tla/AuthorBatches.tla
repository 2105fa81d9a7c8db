---------------------------- MODULE AuthorBatches ----------------------------
(***************************************************************************)
(* The merging of author-list filters into one request (batch.ts): the     *)
(* plan for a list of filters, and what each filter is given of what a     *)
(* relay answers.  A filter is [kinds, authors, limit, other]: limit is    *)
(* NoLimit when it has none, other says that it carries a key beyond these *)
(* three.  The list grows by a filter at a step.                           *)
(***************************************************************************)
EXTENDS Naturals, Sequences, SequencesExt, FiniteSets, FiniteSetsExt, Folds

CONSTANTS Filters, NoLimit, AuthorsPerChunk, MaxMergedLimit, MaxFilters,
          Stores   \* what relays may have: events [kind, author, rev], newest first

VARIABLE filters
vars == <<filters>>

-----------------------------------------------------------------------------
(* planAuthorBatches.                                                      *)

IsCandidate(f) == /\ ~f.other /\ f.kinds # {} /\ f.authors # {}
                  /\ Cardinality(f.authors) <= AuthorsPerChunk
                  /\ f.limit = NoLimit \/ f.limit > 0
GroupKey(f)    == <<f.kinds, f.limit # NoLimit>>

Fits(chunk, f) ==
    /\ GroupKey(chunk) = GroupKey(f)
    /\ Cardinality(chunk.authors \cup f.authors) <= AuthorsPerChunk
    /\ f.limit # NoLimit => chunk.limit + f.limit <= MaxMergedLimit

NewChunk(f, i) == [kinds |-> f.kinds, authors |-> f.authors, limit |-> f.limit, other |-> FALSE, members |-> {i}]
Fold(chunk, f, i) == [chunk EXCEPT !.authors = @ \cup f.authors, !.members = @ \cup {i},
                                   !.limit = IF @ = NoLimit THEN @ ELSE @ + f.limit]
\* The first chunk of the group with room takes the filter; else it opens one.
Placed(chunks, i, f) ==
    LET room == {n \in DOMAIN chunks : Fits(chunks[n], f)}
    IN  IF ~IsCandidate(f) THEN chunks
        ELSE IF room = {} THEN Append(chunks, NewChunk(f, i))
        ELSE [chunks EXCEPT ![Min(room)] = Fold(@, f, i)]
Chunks(F) == FoldLeft(LAMBDA c, i : Placed(c, i, F[i]), <<>>, [i \in DOMAIN F |-> i])

\* The wire: group by group in the order they were opened, then the others as they are.
Verbatim(F) == [n \in 1..Len(SelectSeq(F, LAMBDA f : ~IsCandidate(f))) |->
                  LET i == CHOOSE i \in DOMAIN F : /\ ~IsCandidate(F[i])
                                                   /\ Cardinality({j \in 1..i : ~IsCandidate(F[j])}) = n
                  IN  F[i] @@ [members |-> {i}]]
Wire(F) ==
    LET cs == Chunks(F)
        First(n) == Min({m \in DOMAIN cs : GroupKey(cs[m]) = GroupKey(cs[n])})
        order == SetToSortSeq(DOMAIN cs, LAMBDA m, n : First(m) < First(n) \/ (First(m) = First(n) /\ m < n))
    IN  [n \in DOMAIN order |-> cs[order[n]]] \o Verbatim(F)
Placement(F) == [i \in DOMAIN F |-> CHOOSE n \in DOMAIN Wire(F) : i \in Wire(F)[n].members]

-----------------------------------------------------------------------------
(* The relay, and demuxByFilter.                                           *)

Matches(f, e) == e.kind \in f.kinds /\ e.author \in f.authors
\* A relay applies the limit to all that the filter asks for.
Answer(store, f) == LET all == SelectSeq(store, LAMBDA e : Matches(f, e))
                    IN  IF f.limit = NoLimit THEN all ELSE SubSeq(all, 1, Min({Len(all), f.limit}))
Demux(F, i, store) == SelectSeq(FlattenSeq([n \in DOMAIN Wire(F) |-> Answer(store, Wire(F)[n])]),
                                LAMBDA e : Matches(F[i], e))

Init == filters = <<>>
Next == \E f \in Filters : Len(filters) < MaxFilters /\ filters' = Append(filters, f)
Spec == Init /\ [][Next]_vars

-----------------------------------------------------------------------------
(* Properties.                                                             *)

\* Every filter is in the request exactly once, as itself or in a chunk that asks for no event
\* none of its members asked for; a chunk keeps to its size and its limit is what its members
\* asked for together, and one without a limit is never with one that has it.
PlanKeepsMeaning ==
    LET W == Wire(filters)
    IN  /\ \A i \in DOMAIN filters : Cardinality({n \in DOMAIN W : i \in W[n].members}) = 1
        /\ \A n \in DOMAIN W : LET M == {filters[i] : i \in W[n].members} IN
              /\ W[n].kinds = UNION {f.kinds : f \in M} /\ W[n].authors = UNION {f.authors : f \in M}
              /\ \A f \in M : f.kinds = W[n].kinds /\ f.authors \subseteq W[n].authors
              /\ W[n].limit = IF NoLimit \in {f.limit : f \in M} THEN NoLimit
                              ELSE MapThenSumSet(LAMBDA i : filters[i].limit, W[n].members)
              /\ Cardinality(W[n].members) > 1 => /\ Cardinality(W[n].authors) <= AuthorsPerChunk
                                                  /\ W[n].limit = NoLimit \/ W[n].limit <= MaxMergedLimit

Given(i, store) == Cardinality(ToSet(Demux(filters, i, store)))
Owed(f, store) == LET has == Len(SelectSeq(store, LAMBDA e : Matches(f, e)))
                  IN  IF f.limit = NoLimit THEN has ELSE Min({has, f.limit})
Latest(store)  == \A i, j \in DOMAIN store : store[i].author = store[j].author => i = j
\* A filter that asks for as many as its authors can have of such kinds takes none of another's share.
Roomy(f) == f.limit = NoLimit \/ f.limit >= Cardinality(f.authors) * Cardinality(f.kinds)
\* Of kinds of which a relay keeps the last per author, a filter is given what it would have been
\* given alone, at the least, beside others that are roomy.  One that asks for fewer than it has
\* authors leaves its newest ones the limit of the chunk, and may starve the members beside it
\* although batch.ts:22-26 promises each "at least limit_i".
SharesOfLatest ==
    \A s \in {t \in Stores : Latest(t)}, i \in DOMAIN filters :
        (\A j \in Wire(filters)[Placement(filters)[i]].members \ {i} : Roomy(filters[j]))
            => Given(i, s) >= Owed(filters[i], s)
BatchSound == PlanKeepsMeaning /\ SharesOfLatest
=============================================================================
