------------------------- MODULE UsageRollupProofs -------------------------
(***************************************************************************)
(* Proofs about UsageRollup: whatever the requests, keys and releases, the *)
(* triggers keep the rollup tables what a GROUP BY over the requests would *)
(* give; and about DashboardReader: what queries join of those tables and  *)
(* of the requests is what the requests alone would give.                  *)
(*                                                                         *)
(* The argument: between the statements of a trigger a group "stands" for  *)
(* a set of requests: its counts are theirs, and its span covers them and  *)
(* ends at one of them or at the time of the row that just left.  Taking a *)
(* row out, putting one in and pruning keep that, and spanSQL puts an end  *)
(* at a remaining request wherever the row that left may have been it.     *)
(*                                                                         *)
(* For the queries: a range is cut at the ends of days, so a group of the  *)
(* rollup is joined whole, with all its requests selected, or not at all.  *)
(* What is joined then "accounts" for the requests that are selected: each *)
(* fact speaks for some of them, and no request is spoken for twice.       *)
(*                                                                         *)
(* For the pages of a list: an entry's place is the number of those ahead  *)
(* of it, and while no time recedes, whoever is ahead of an entry that     *)
(* stays where it is remains ahead of it.                                  *)
(*                                                                         *)
(* For the sums of a page: what requests measure is counted in units, so   *)
(* that a sum over points, rows, days or entries is the number of units of *)
(* requests that are shared out among them, each to one.                   *)
(***************************************************************************)
EXTENDS DashboardReader, FiniteSetTheorems, SequenceTheorems, TLAPS

-----------------------------------------------------------------------------
(* First and last.                                                         *)

\* Some member of a finite set has the least value, and some the greatest.
LEMMA ExtremesExist ==
  ASSUME NEW M, IsFiniteSet(M), M # {}, NEW f \in [M -> Nat]
  PROVE  /\ \E j \in M : \A k \in M : f[j] <= f[k]
         /\ \E j \in M : \A k \in M : f[j] >= f[k]
<1>. DEFINE below(j) == {k \in M : f[k] < f[j]}
            above(j) == {k \in M : f[k] > f[j]}
<1>1. IsWellFoundedOn(StrictSubsetOrdering(M), FiniteSubsetsOf(M))
  BY FS_StrictSubsetOrderingWellFounded
<1>2. \E j \in M : \A k \in M : f[j] <= f[k]
  <2>. DEFINE T == {below(j) : j \in M}
  <2>1. \A j \in M : below(j) \in FiniteSubsetsOf(M)
    BY FS_Subset DEF FiniteSubsetsOf
  <2>2. T \subseteq FiniteSubsetsOf(M) /\ T # {}
    <3>. HIDE DEF below
    <3>. QED BY <2>1
  <2>3. PICK X \in T : \A Y \in T : ~ (<<Y, X>> \in StrictSubsetOrdering(M))
    <3>. HIDE DEF T
    <3>. QED BY <1>1, <2>2, WFMin
  <2>4. PICK j \in M : X = below(j)
    BY <2>3
  <2>5. SUFFICES ASSUME NEW k \in M, f[k] < f[j] PROVE FALSE
    OBVIOUS
  <2>6. below(k) \subseteq below(j) /\ k \in below(j) /\ k \notin below(k)
    BY <2>5
  <2>7. <<below(k), below(j)>> \in StrictSubsetOrdering(M) /\ below(k) \in T
    <3>1. below(k) # below(j)
      BY <2>6
    <3>. QED BY <2>6, <3>1 DEF StrictSubsetOrdering
  <2>. QED BY <2>3, <2>4, <2>7
<1>3. \E j \in M : \A k \in M : f[j] >= f[k]
  <2>. DEFINE T == {above(j) : j \in M}
  <2>1. \A j \in M : above(j) \in FiniteSubsetsOf(M)
    BY FS_Subset DEF FiniteSubsetsOf
  <2>2. T \subseteq FiniteSubsetsOf(M) /\ T # {}
    <3>. HIDE DEF above
    <3>. QED BY <2>1
  <2>3. PICK X \in T : \A Y \in T : ~ (<<Y, X>> \in StrictSubsetOrdering(M))
    <3>. HIDE DEF T
    <3>. QED BY <1>1, <2>2, WFMin
  <2>4. PICK j \in M : X = above(j)
    BY <2>3
  <2>5. SUFFICES ASSUME NEW k \in M, f[k] > f[j] PROVE FALSE
    OBVIOUS
  <2>6. above(k) \subseteq above(j) /\ k \in above(j) /\ k \notin above(k)
    BY <2>5
  <2>7. <<above(k), above(j)>> \in StrictSubsetOrdering(M) /\ above(k) \in T
    <3>1. above(k) # above(j)
      BY <2>6
    <3>. QED BY <2>6, <3>1 DEF StrictSubsetOrdering
  <2>. QED BY <2>3, <2>4, <2>7
<1>. QED BY <1>2, <1>3

\* Least and Greatest find what is there.
LEMMA LeastIs ==
  ASSUME NEW S \in SUBSET Nat, NEW t \in S, \A u \in S : t <= u
  PROVE  Least(S) = t
<1>1. \E v \in S : \A u \in S : v <= u
  OBVIOUS
<1>2. Least(S) \in S /\ \A u \in S : Least(S) <= u
  BY <1>1, Zenon DEF Least
<1>3. Least(S) \in Nat /\ t \in Nat /\ Least(S) <= t /\ Least(S) >= t
  BY <1>2
<1>. QED BY <1>3

\* The same at the other end.
LEMMA GreatestIs ==
  ASSUME NEW S \in SUBSET Nat, NEW t \in S, \A u \in S : t >= u
  PROVE  Greatest(S) = t
<1>1. \E v \in S : \A u \in S : v >= u
  OBVIOUS
<1>2. Greatest(S) \in S /\ \A u \in S : Greatest(S) >= u
  BY <1>1, Zenon DEF Greatest
<1>3. Greatest(S) \in Nat /\ t \in Nat /\ Greatest(S) <= t /\ Greatest(S) >= t
  BY <1>2
<1>. QED BY <1>3

-----------------------------------------------------------------------------
(* How often each fact occurs among a set of requests.                     *)

Of(M, fact, f) == {j \in M : fact[j] = f}
Tally(M, fact) == [f \in {fact[j] : j \in M} |-> Cardinality(Of(M, fact, f))]

\* A fact is counted as often as it occurs.
LEMMA Occurrences ==
  ASSUME NEW M, IsFiniteSet(M), NEW fact, NEW f
  PROVE  /\ IsFiniteSet(Of(M, fact, f)) /\ Cardinality(Of(M, fact, f)) \in Nat
         /\ f \in DOMAIN Tally(M, fact) <=> Cardinality(Of(M, fact, f)) # 0
         /\ Multiplicity(Tally(M, fact), f) = Cardinality(Of(M, fact, f))
<1>1. IsFiniteSet(Of(M, fact, f)) /\ Cardinality(Of(M, fact, f)) \in Nat
  BY FS_Subset, FS_CardinalityType DEF Of
<1>2. f \in DOMAIN Tally(M, fact) <=> Of(M, fact, f) # {}
  BY DEF Tally, Of
<1>3. Cardinality(Of(M, fact, f)) = 0 <=> Of(M, fact, f) = {}
  BY <1>1, FS_EmptySet
<1>4. f \in DOMAIN Tally(M, fact) => Tally(M, fact)[f] = Cardinality(Of(M, fact, f))
  BY DEF Tally
<1>. QED BY <1>1, <1>2, <1>3, <1>4 DEF Multiplicity

\* A tally is known by how often each fact occurs.
LEMMA TallyIs ==
  ASSUME NEW M, IsFiniteSet(M), NEW fact, NEW D, NEW sums, sums = [f \in D |-> sums[f]],
         \A f : f \in D <=> Cardinality(Of(M, fact, f)) # 0,
         \A f \in D : sums[f] = Cardinality(Of(M, fact, f))
  PROVE  sums = Tally(M, fact)
<1>1. D = DOMAIN Tally(M, fact)
  BY Occurrences
<1>2. Tally(M, fact) = [f \in D |-> Cardinality(Of(M, fact, f))]
  BY <1>1 DEF Tally
<1>. QED BY <1>2

\* Plus keeps the tally of a fact that enters.
LEMMA TallyEnters ==
  ASSUME NEW M, IsFiniteSet(M), NEW i, i \notin M, NEW fact
  PROVE  Plus(Tally(M, fact), fact[i], 1) = Tally(M \cup {i}, fact)
<1>. DEFINE N == M \cup {i}
            sums == Plus(Tally(M, fact), fact[i], 1)
<1>1. IsFiniteSet(N)
  BY FS_AddElement
<1>2. Cardinality(Of(N, fact, fact[i])) = Cardinality(Of(M, fact, fact[i])) + 1
  <2>1. Of(N, fact, fact[i]) = Of(M, fact, fact[i]) \cup {i}
    BY DEF Of
  <2>2. i \notin Of(M, fact, fact[i])
    BY DEF Of
  <2>3. IsFiniteSet(Of(M, fact, fact[i]))
    BY Occurrences
  <2>. QED BY <2>1, <2>2, <2>3, FS_AddElement
<1>3. \A f : f # fact[i] => Of(N, fact, f) = Of(M, fact, f)
  BY DEF Of
<1>4. sums = [f \in DOMAIN Tally(M, fact) \cup {fact[i]} |->
                IF f = fact[i] THEN Cardinality(Of(M, fact, fact[i])) + 1 ELSE Tally(M, fact)[f]]
  BY Occurrences DEF Plus
<1>. DEFINE D == DOMAIN Tally(M, fact) \cup {fact[i]}
<1>5. ASSUME NEW f
      PROVE  /\ f \in D <=> Cardinality(Of(N, fact, f)) # 0
             /\ f \in D => sums[f] = Cardinality(Of(N, fact, f))
  <2>1. CASE f = fact[i]
    BY <1>2, <1>4, <2>1, Occurrences
  <2>2. CASE f # fact[i]
    <3>1. f \in D => sums[f] = Tally(M, fact)[f]
      BY <1>4, <2>2
    <3>2. f \in D => Tally(M, fact)[f] = Cardinality(Of(M, fact, f))
      BY <2>2 DEF Tally
    <3>. QED BY <1>3, <2>2, <3>1, <3>2, Occurrences
  <2>. QED BY <2>1, <2>2
<1>6. sums = [f \in D |-> sums[f]]
  BY <1>4
<1>. HIDE DEF sums, N, D
<1>7. sums = Tally(N, fact)
  BY <1>1, <1>5, <1>6, TallyIs
<1>. QED BY <1>7 DEF sums, N

\* And of one that leaves.
LEMMA TallyLeaves ==
  ASSUME NEW M, IsFiniteSet(M), NEW i \in M, NEW fact
  PROVE  Plus(Tally(M, fact), fact[i], -1) = Tally(M \ {i}, fact)
<1>. DEFINE N == M \ {i}
            sums == Plus(Tally(M, fact), fact[i], -1)
            n == Cardinality(Of(M, fact, fact[i]))
            D == (DOMAIN Tally(M, fact) \cup {fact[i]}) \ (IF n + (-1) = 0 THEN {fact[i]} ELSE {})
<1>1. IsFiniteSet(N)
  BY FS_RemoveElement
<1>2. Cardinality(Of(N, fact, fact[i])) = n - 1 /\ n \in Nat
  <2>1. Of(N, fact, fact[i]) = Of(M, fact, fact[i]) \ {i}
    BY DEF Of
  <2>2. i \in Of(M, fact, fact[i])
    BY DEF Of
  <2>3. IsFiniteSet(Of(M, fact, fact[i])) /\ n \in Nat
    BY Occurrences, FS_CardinalityType
  <2>4. Cardinality(Of(M, fact, fact[i]) \ {i}) = n - 1
    BY <2>2, <2>3, FS_RemoveElement
  <2>. QED BY <2>1, <2>3, <2>4
<1>3. \A f : f # fact[i] => Of(N, fact, f) = Of(M, fact, f)
  BY DEF Of
<1>4. sums = [f \in D |-> IF f = fact[i] THEN n + (-1) ELSE Tally(M, fact)[f]]
  BY Occurrences DEF Plus
<1>5. ASSUME NEW f
      PROVE  /\ f \in D <=> Cardinality(Of(N, fact, f)) # 0
             /\ f \in D => sums[f] = Cardinality(Of(N, fact, f))
  <2>1. CASE f = fact[i]
    <3>. HIDE DEF n
    <3>. QED BY <1>2, <1>4, <2>1
  <2>2. CASE f # fact[i]
    <3>1. f \in D => sums[f] = Tally(M, fact)[f]
      BY <1>4, <2>2
    <3>2. f \in D => Tally(M, fact)[f] = Cardinality(Of(M, fact, f))
      BY <2>2 DEF Tally
    <3>3. f \in D <=> f \in DOMAIN Tally(M, fact)
      BY <2>2
    <3>. QED BY <1>3, <2>2, <3>1, <3>2, <3>3, Occurrences
  <2>. QED BY <2>1, <2>2
<1>6. sums = [f \in D |-> sums[f]]
  BY <1>4
<1>. HIDE DEF sums, N, D, n
<1>7. sums = Tally(N, fact)
  BY <1>1, <1>5, <1>6, TallyIs
<1>. QED BY <1>7 DEF sums, N

-----------------------------------------------------------------------------
(* Groups that stand for a set of requests.                                *)

FactsIn(e, rows) == [j \in Ids |-> Facts(e, rows[j])]

Counted(g, M, e, rows) ==
  g = [requests |-> Cardinality(M), sums |-> Tally(M, FactsIn(e, rows)), first |-> g.first, last |-> g.last]

\* An end of the span that is no request's is a stray one.
Spans(g, M, r, rows, stray) ==
  IF HasSpan(r)
    THEN /\ g.first \in Nat /\ g.last \in Nat
         /\ \A j \in M : g.first <= rows[j].ts /\ rows[j].ts <= g.last
         /\ g.first \in stray \/ \E j \in M : g.first = rows[j].ts
         /\ g.last \in stray \/ \E j \in M : g.last = rows[j].ts
    ELSE g.first = 0 /\ g.last = 0

Stands(g, M, e, r, rows, stray) == Counted(g, M, e, rows) /\ Spans(g, M, r, rows, stray)

\* The members of a group are finitely many requests, and their times numbers.
LEMMA MembersAre ==
  ASSUME NEW rows \in Rows, NEW r, NEW key
  PROVE  /\ Members(rows, r, key) \subseteq Ids /\ IsFiniteSet(Members(rows, r, key))
         /\ \A j \in Members(rows, r, key) : rows[j] \in Row /\ rows[j].ts \in Times /\ rows[j].ts \in Nat
<1>1. Members(rows, r, key) \subseteq Ids
  BY DEF Members, Stored
<1>2. \A j \in Members(rows, r, key) : rows[j] \in Row
  BY DEF Members, Stored, Rows
<1>3. \A j \in Members(rows, r, key) : rows[j].ts \in Times
  BY <1>2 DEF Row
<1>4. Times \subseteq Nat /\ IsFiniteSet(Ids)
  BY FactsAssumption
<1>. QED BY <1>1, <1>2, <1>3, <1>4, FS_Subset

\* The least and the greatest time of some requests are found.
LEMMA ExtremeTimes ==
  ASSUME NEW rows, NEW M, IsFiniteSet(M), M # {}, \A j \in M : rows[j].ts \in Nat,
         NEW times, times = {rows[j].ts : j \in M}
  PROVE  /\ Least(times) \in times /\ Greatest(times) \in times
         /\ \A j \in M : Least(times) <= rows[j].ts /\ rows[j].ts <= Greatest(times)
<1>. DEFINE at == [j \in M |-> rows[j].ts]
<1>1. at \in [M -> Nat] /\ \A j \in M : at[j] = rows[j].ts
  OBVIOUS
<1>2. times \in SUBSET Nat
  OBVIOUS
<1>3. PICK j \in M : \A k \in M : rows[j].ts <= rows[k].ts
  <2>. HIDE DEF at
  <2>. QED BY <1>1, ExtremesExist
<1>4. PICK l \in M : \A k \in M : rows[l].ts >= rows[k].ts
  <2>. HIDE DEF at
  <2>. QED BY <1>1, ExtremesExist
<1>5. Least(times) = rows[j].ts
  BY <1>2, <1>3, LeastIs
<1>6. Greatest(times) = rows[l].ts
  BY <1>2, <1>4, GreatestIs
<1>. QED BY <1>3, <1>4, <1>5, <1>6

\* What GROUP BY makes of them stands for them.
LEMMA GroupStands ==
  ASSUME NEW rows \in Rows, NEW e, NEW r, NEW key, Members(rows, r, key) # {}
  PROVE  Stands(GroupOf(e, rows, r, key), Members(rows, r, key), e, r, rows, {})
<1>. DEFINE M == Members(rows, r, key)
            g == GroupOf(e, rows, r, key)
            factsOf == [j \in M |-> Facts(e, rows[j])]
<1>1. M \subseteq Ids /\ IsFiniteSet(M) /\ \A j \in M : rows[j].ts \in Nat
  BY MembersAre
<1>2. \A j \in M : factsOf[j] = FactsIn(e, rows)[j]
  BY <1>1 DEF FactsIn
<1>3. [f \in {factsOf[j] : j \in M} |-> Cardinality({j \in M : factsOf[j] = f})] = Tally(M, FactsIn(e, rows))
  <2>. HIDE DEF factsOf, M
  <2>. QED BY <1>2 DEF Tally, Of
<1>4. Counted(g, M, e, rows)
  BY <1>3 DEF GroupOf, Counted
<1>5. Spans(g, M, r, rows, {})
  <2>1. CASE ~HasSpan(r)
    BY <2>1 DEF GroupOf, Spans
  <2>2. CASE HasSpan(r)
    <3>. DEFINE times == {rows[j].ts : j \in M}
    <3>1. g.first = Least(times) /\ g.last = Greatest(times)
      BY <2>2 DEF GroupOf
    <3>. HIDE DEF g, M
    <3>2. M # {}
      BY DEF M
    <3>3. times = {rows[j].ts : j \in M}
      OBVIOUS
    <3>. HIDE DEF times
    <3>4. /\ Least(times) \in times /\ Greatest(times) \in times
          /\ \A j \in M : Least(times) <= rows[j].ts /\ rows[j].ts <= Greatest(times)
      BY <1>1, <3>2, <3>3, ExtremeTimes, Zenon
    <3>. QED BY <1>1, <2>2, <3>1, <3>3, <3>4 DEF Spans
  <2>. QED BY <2>1, <2>2
<1>. QED BY <1>4, <1>5 DEF Stands

\* And what stands for them, with no stray end, is what GROUP BY makes.
LEMMA StandsIsGroup ==
  ASSUME NEW rows \in Rows, NEW e, NEW r, NEW key, NEW g, Members(rows, r, key) # {},
         Stands(g, Members(rows, r, key), e, r, rows, {})
  PROVE  g = GroupOf(e, rows, r, key)
<1>. DEFINE M == Members(rows, r, key)
            h == GroupOf(e, rows, r, key)
<1>1. Stands(h, M, e, r, rows, {})
  BY GroupStands
<1>2. g.first = h.first /\ g.last = h.last
  <2>1. \A j \in M : rows[j].ts \in Nat
    BY MembersAre
  <2>. HIDE DEF h, M
  <2>2. Stands(g, M, e, r, rows, {})
    BY DEF M
  <2>. QED BY <1>1, <2>1, <2>2 DEF Stands, Spans
<1>. QED BY <1>1, <1>2 DEF Stands, Counted

-----------------------------------------------------------------------------
(* Tables whose groups stand for the requests with their key; those of one *)
(* group may have a stray end.                                             *)

Keys(rows, r) == {KeyOf(r, rows[j]) : j \in Stored(rows)}

Holds(table, dom, e, r, rows, key, stray) ==
  /\ table = [k \in dom |-> table[k]]
  /\ \A k \in dom : Stands(table[k], Members(rows, r, k), e, r, rows, IF k = key THEN stray ELSE {})

\* A key is one of the table's when some request has it.
LEMMA KeysAre ==
  ASSUME NEW rows \in Rows, NEW r, NEW key
  PROVE  key \in Keys(rows, r) <=> Members(rows, r, key) # {}
BY DEF Keys, Members

\* The aggregate holds.
LEMMA AggregateHolds ==
  ASSUME NEW rows \in Rows, NEW e, NEW r, NEW key
  PROVE  Holds(Aggregate(e, rows, r), Keys(rows, r), e, r, rows, key, {})
<1>1. Aggregate(e, rows, r) = [k \in Keys(rows, r) |-> GroupOf(e, rows, r, k)]
  BY DEF Aggregate, Keys
<1>2. \A k \in Keys(rows, r) : Stands(GroupOf(e, rows, r, k), Members(rows, r, k), e, r, rows, {})
  BY KeysAre, GroupStands
<1>. QED BY <1>1, <1>2 DEF Holds

\* And a table that holds, with no stray end, is the aggregate.
LEMMA HoldsIsAggregate ==
  ASSUME NEW rows \in Rows, NEW e, NEW r, NEW key, NEW table,
         Holds(table, Keys(rows, r), e, r, rows, key, {})
  PROVE  table = Aggregate(e, rows, r)
<1>1. Aggregate(e, rows, r) = [k \in Keys(rows, r) |-> GroupOf(e, rows, r, k)]
  BY DEF Aggregate, Keys
<1>2. \A k \in Keys(rows, r) : Stands(table[k], Members(rows, r, k), e, r, rows, {})
  BY DEF Holds
<1>3. \A k \in Keys(rows, r) : table[k] = GroupOf(e, rows, r, k)
  BY <1>2, KeysAre, StandsIsGroup
<1>4. table = [k \in Keys(rows, r) |-> table[k]]
  BY DEF Holds
<1>. QED BY <1>1, <1>3, <1>4

\* The requests after a statement on one of them.
Changed(rows, i, row) == [rows EXCEPT ![i] = row]

\* A stored row is not an absent one.
LEMMA RowIsThere == Absent \notin Row
BY DEF Absent, Row

\* A tally depends on the members' facts alone.
LEMMA TallySame ==
  ASSUME NEW M, NEW f, NEW g, \A j \in M : f[j] = g[j]
  PROVE  Tally(M, f) = Tally(M, g)
<1>1. {f[j] : j \in M} = {g[j] : j \in M}
  OBVIOUS
<1>2. \A x : Of(M, f, x) = Of(M, g, x)
  BY DEF Of
<1>. QED BY <1>1, <1>2 DEF Tally

\* A group that does not have the row that changes stands as before.
LEMMA OthersStand ==
  ASSUME NEW rows, NEW now, NEW M \in SUBSET Ids, \A j \in M : now[j] = rows[j],
         NEW e, NEW r, NEW g, NEW stray, Stands(g, M, e, r, rows, stray)
  PROVE  Stands(g, M, e, r, now, stray)
<1>1. Tally(M, FactsIn(e, rows)) = Tally(M, FactsIn(e, now))
  <2>1. \A j \in M : FactsIn(e, rows)[j] = FactsIn(e, now)[j]
    BY DEF FactsIn
  <2>. QED BY <2>1, TallySame
<1>. QED BY <1>1 DEF Stands, Counted, Spans

-----------------------------------------------------------------------------
(* The statements of the triggers.                                         *)

\* A group without one of its members, whose span may end where that was.
LEMMA GroupWithout ==
  ASSUME NEW rows \in Rows, NEW r, NEW k, NEW i \in Members(rows, r, k), NEW e, NEW g, NEW h,
         Stands(g, Members(rows, r, k), e, r, rows, {}),
         h = [requests |-> g.requests + (-1), sums |-> Plus(g.sums, Facts(e, rows[i]), -1),
              first |-> g.first, last |-> g.last]
  PROVE  Stands(h, Members(rows, r, k) \ {i}, e, r, rows, {rows[i].ts})
<1>. DEFINE M == Members(rows, r, k)
            fact == FactsIn(e, rows)
<1>1. M \subseteq Ids /\ IsFiniteSet(M) /\ i \in M
  BY MembersAre
<1>2. Facts(e, rows[i]) = fact[i]
  BY <1>1 DEF FactsIn
<1>3. g.requests = Cardinality(M) /\ g.sums = Tally(M, fact)
  BY DEF Stands, Counted
<1>4. Stands(g, M, e, r, rows, {})
  OBVIOUS
<1>. HIDE DEF M, fact
<1>5. Cardinality(M \ {i}) = Cardinality(M) - 1 /\ Cardinality(M) \in Nat
  BY <1>1, FS_RemoveElement, FS_CardinalityType
<1>6. Plus(g.sums, Facts(e, rows[i]), -1) = Tally(M \ {i}, fact)
  BY <1>1, <1>2, <1>3, TallyLeaves
<1>7. h.requests = Cardinality(M \ {i}) /\ h.sums = Tally(M \ {i}, fact)
      /\ h.first = g.first /\ h.last = g.last
  BY <1>3, <1>5, <1>6
<1>8. Counted(h, M \ {i}, e, rows)
  BY <1>7 DEF Counted, fact
<1>9. Spans(h, M \ {i}, r, rows, {rows[i].ts})
  BY <1>1, <1>4, <1>7 DEF Stands, Spans
<1>. QED BY <1>8, <1>9 DEF Stands, M

\* A group with one more.
LEMMA GroupWith ==
  ASSUME NEW rows \in Rows, NEW i \in Ids, rows[i] \in Row,
         NEW M \in SUBSET Ids, IsFiniteSet(M), i \notin M, \A j \in M : rows[j].ts \in Nat,
         NEW e, NEW r, NEW g, NEW stray, Stands(g, M, e, r, rows, stray),
         NEW h, h = [requests |-> g.requests + 1, sums |-> Plus(g.sums, Facts(e, rows[i]), 1),
                     first |-> h.first, last |-> h.last],
         HasSpan(r) => /\ h.first = IF rows[i].ts < g.first THEN rows[i].ts ELSE g.first
                       /\ h.last = IF rows[i].ts > g.last THEN rows[i].ts ELSE g.last,
         ~HasSpan(r) => h.first = 0 /\ h.last = 0
  PROVE  Stands(h, M \cup {i}, e, r, rows, stray)
<1>. DEFINE fact == FactsIn(e, rows)
<1>1. Facts(e, rows[i]) = fact[i]
  BY DEF FactsIn
<1>2. g.requests = Cardinality(M) /\ g.sums = Tally(M, fact)
  BY DEF Stands, Counted
<1>. HIDE DEF fact
<1>3. Cardinality(M \cup {i}) = Cardinality(M) + 1
  BY FS_AddElement
<1>4. Plus(g.sums, Facts(e, rows[i]), 1) = Tally(M \cup {i}, fact)
  BY <1>1, <1>2, TallyEnters
<1>5. h.requests = Cardinality(M \cup {i}) /\ h.sums = Tally(M \cup {i}, fact)
  BY <1>2, <1>3, <1>4
<1>6. Counted(h, M \cup {i}, e, rows)
  BY <1>5 DEF Counted, fact
<1>7. Spans(h, M \cup {i}, r, rows, stray)
  <2>1. Spans(g, M, r, rows, stray)
    BY DEF Stands
  <2>2. CASE HasSpan(r)
    <3>1. rows[i].ts \in Nat
      BY FactsAssumption DEF Row
    <3>. QED BY <2>1, <2>2, <3>1 DEF Spans
  <2>3. CASE ~HasSpan(r)
    BY <2>1, <2>3 DEF Spans
  <2>. QED BY <2>2, <2>3
<1>. QED BY <1>6, <1>7 DEF Stands

\* A group of one.
LEMMA GroupOfOne ==
  ASSUME NEW rows \in Rows, NEW i \in Ids, rows[i] \in Row, NEW e, NEW r, NEW stray,
         NEW h, h = [requests |-> 1, sums |-> Plus([f \in {} |-> 0], Facts(e, rows[i]), 1),
                     first |-> h.first, last |-> h.last],
         h.first = IF HasSpan(r) THEN rows[i].ts ELSE 0, h.last = h.first
  PROVE  Stands(h, {i}, e, r, rows, stray)
<1>. DEFINE fact == FactsIn(e, rows)
<1>1. Facts(e, rows[i]) = fact[i]
  BY DEF FactsIn
<1>2. [f \in {} |-> 0] = Tally({}, fact)
  BY DEF Tally
<1>. HIDE DEF fact
<1>3. Plus([f \in {} |-> 0], Facts(e, rows[i]), 1) = Tally({i}, fact)
  <2>1. {} \cup {i} = {i} /\ i \notin {} /\ IsFiniteSet({})
    BY FS_EmptySet
  <2>2. Plus(Tally({}, fact), fact[i], 1) = Tally({} \cup {i}, fact)
    BY <2>1, TallyEnters
  <2>. QED BY <1>1, <1>2, <2>1, <2>2
<1>4. Cardinality({i}) = 1
  BY FS_Singleton
<1>5. Counted(h, {i}, e, rows)
  BY <1>3, <1>4 DEF Counted, fact
<1>6. Spans(h, {i}, r, rows, stray)
  <2>1. rows[i].ts \in Nat
    BY FactsAssumption DEF Row
  <2>. QED BY <2>1 DEF Spans
<1>. QED BY <1>5, <1>6 DEF Stands

\* addSQL takes a row out of its group, whose span may end where the row was.
LEMMA TakeOut ==
  ASSUME NEW rows \in Rows, NEW i \in Ids, NEW old \in Row, rows[i] = old,
         NEW gone, gone = Changed(rows, i, Absent),
         NEW r, NEW table, Holds(table, Keys(rows, r), triggers, r, rows, KeyOf(r, old), {})
  PROVE  Holds(AddRow(r, table, old, -1), Keys(rows, r), triggers, r, gone, KeyOf(r, old), {old.ts})
<1>. DEFINE key == KeyOf(r, old)
            dom == Keys(rows, r)
            group == [requests |-> table[key].requests + (-1),
                      sums     |-> Plus(table[key].sums, Facts(triggers, old), -1),
                      first    |-> table[key].first,
                      last     |-> table[key].last]
            after == Put(table, key, group)
<1>1. DOMAIN table = dom /\ key \in dom /\ i \in Members(rows, r, key)
  BY RowIsThere DEF Holds, Keys, Members, Stored
<1>2. AddRow(r, table, old, -1) = after
  BY <1>1 DEF AddRow
<1>3. \A k \in dom : Stands(table[k], Members(rows, r, k), triggers, r, rows, {})
  BY DEF Holds
<1>4. Stands(group, Members(rows, r, key) \ {i}, triggers, r, rows, {old.ts})
  BY <1>1, <1>3, GroupWithout
<1>5. \A k : k # key => i \notin Members(rows, r, k)
  BY DEF Members
<1>. HIDE DEF key, dom, group
<1>6. after = [k \in dom |-> after[k]] /\ after[key] = group /\ \A k \in dom : k # key => after[k] = table[k]
  <2>1. dom \cup {key} = dom /\ DOMAIN table = dom
    BY <1>1
  <2>2. /\ Put(table, key, group) = [k \in DOMAIN table \cup {key} |-> Put(table, key, group)[k]]
        /\ Put(table, key, group)[key] = group
        /\ \A k \in DOMAIN table : k # key => Put(table, key, group)[k] = table[k]
    BY DEF Put
  <2>3. after = Put(table, key, group)
    OBVIOUS
  <2>. HIDE DEF after
  <2>. QED BY <2>1, <2>2, <2>3
<1>. HIDE DEF after
<1>7. ASSUME NEW k \in dom
      PROVE  Stands(after[k], Members(gone, r, k), triggers, r, gone, IF k = key THEN {old.ts} ELSE {})
  <2>1. /\ Members(gone, r, k) = Members(rows, r, k) \ {i} /\ Members(gone, r, k) \subseteq Ids
        /\ \A j \in Members(gone, r, k) : gone[j] = rows[j]
    <3>1. gone \in Rows /\ gone[i] = Absent /\ \A j \in Ids : j # i => gone[j] = rows[j]
      BY DEF Rows, Changed
    <3>2. Members(gone, r, k) = Members(rows, r, k) \ {i}
      BY <3>1 DEF Members, Stored
    <3>3. Members(gone, r, k) \subseteq Ids
      BY <3>1, MembersAre
    <3>. QED BY <3>1, <3>2, <3>3
  <2>2. Stands(after[k], Members(gone, r, k), triggers, r, rows, IF k = key THEN {old.ts} ELSE {})
    BY <1>3, <1>4, <1>5, <1>6, <2>1
  <2>. QED BY <2>1, <2>2, OthersStand
<1>. QED BY <1>2, <1>6, <1>7 DEF Holds, key, dom

\* addSQL puts a row in its group, or makes one.
LEMMA PutIn ==
  ASSUME NEW gone \in Rows, NEW i \in Ids, gone[i] = Absent, NEW new \in Row,
         NEW now, now = Changed(gone, i, new),
         NEW r, NEW dom, Keys(gone, r) \subseteq dom, NEW spot, NEW stray,
         NEW table, Holds(table, dom, triggers, r, gone, spot, stray)
  PROVE  Holds(AddRow(r, table, new, 1), dom \cup {KeyOf(r, new)}, triggers, r, now, spot, stray)
<1>. DEFINE key == KeyOf(r, new)
            ts == IF HasSpan(r) THEN new.ts ELSE 0
            more == [requests |-> table[key].requests + 1,
                     sums     |-> Plus(table[key].sums, Facts(triggers, new), 1),
                     first    |-> IF ts < table[key].first THEN ts ELSE table[key].first,
                     last     |-> IF ts > table[key].last THEN ts ELSE table[key].last]
            one == [requests |-> 1, sums |-> Plus([f \in {} |-> 0], Facts(triggers, new), 1),
                    first |-> ts, last |-> ts]
            group == IF key \in dom THEN more ELSE one
            after == Put(table, key, group)
            strayAt(k) == IF k = spot THEN stray ELSE {}
<1>1. DOMAIN table = dom
  BY DEF Holds
<1>2. AddRow(r, table, new, 1) = after
  BY <1>1 DEF AddRow
<1>3. \A k \in dom : Stands(table[k], Members(gone, r, k), triggers, r, gone, strayAt(k))
  BY DEF Holds
<1>4. now \in Rows /\ now[i] = new /\ new # Absent /\ \A j \in Ids : j # i => now[j] = gone[j]
  BY RowIsThere DEF Rows, Changed
<1>5. \A k : i \notin Members(gone, r, k)
  BY DEF Members, Stored
<1>6. \A k : k # key => Members(now, r, k) = Members(gone, r, k)
  BY <1>4 DEF Members, Stored
<1>7. Members(now, r, key) = Members(gone, r, key) \cup {i}
  BY <1>4 DEF Members, Stored
<1>8. /\ after = [k \in dom \cup {key} |-> after[k]] /\ after[key] = group
      /\ \A k \in dom : k # key => after[k] = table[k]
  BY <1>1 DEF Put
<1>9. \A k : /\ Members(gone, r, k) \in SUBSET Ids /\ IsFiniteSet(Members(gone, r, k))
             /\ \A j \in Members(gone, r, k) : now[j] = gone[j] /\ now[j].ts \in Nat
  BY <1>4, <1>5, MembersAre
<1>. HIDE DEF key, after, strayAt
<1>10. \A k \in dom : Stands(table[k], Members(gone, r, k), triggers, r, now, strayAt(k))
  BY <1>3, <1>9, OthersStand
<1>11. Stands(group, Members(now, r, key), triggers, r, now, strayAt(key))
  <2>1. CASE key \in dom
    <3>1. Stands(more, Members(gone, r, key) \cup {i}, triggers, r, now, strayAt(key))
      <4>1. Stands(table[key], Members(gone, r, key), triggers, r, now, strayAt(key))
        BY <1>10, <2>1
      <4>2. more = [requests |-> table[key].requests + 1,
                    sums     |-> Plus(table[key].sums, Facts(triggers, now[i]), 1),
                    first    |-> more.first, last |-> more.last]
        BY <1>4
      <4>3. HasSpan(r) =>
              /\ more.first = IF now[i].ts < table[key].first THEN now[i].ts ELSE table[key].first
              /\ more.last = IF now[i].ts > table[key].last THEN now[i].ts ELSE table[key].last
        BY <1>4
      <4>4. ~HasSpan(r) => more.first = 0 /\ more.last = 0
        BY <4>1 DEF Stands, Spans
      <4>5. /\ Members(gone, r, key) \in SUBSET Ids /\ IsFiniteSet(Members(gone, r, key))
            /\ i \notin Members(gone, r, key) /\ now[i] \in Row
            /\ \A j \in Members(gone, r, key) : now[j].ts \in Nat
        BY <1>4, <1>5, <1>9
      <4>. HIDE DEF ts, more, one, group
      <4>. QED BY <1>4, <4>1, <4>2, <4>3, <4>4, <4>5, GroupWith
    <3>2. group = more
      BY <2>1
    <3>. QED BY <1>7, <3>1, <3>2
  <2>2. CASE key \notin dom
    <3>1. Members(gone, r, key) = {}
      BY <2>2, KeysAre
    <3>2. Stands(one, {i}, triggers, r, now, strayAt(key))
      <4>1. /\ one = [requests |-> 1, sums |-> Plus([f \in {} |-> 0], Facts(triggers, now[i]), 1),
                      first |-> one.first, last |-> one.last]
            /\ one.first = (IF HasSpan(r) THEN now[i].ts ELSE 0) /\ one.last = one.first
            /\ now[i] \in Row
        BY <1>4
      <4>. HIDE DEF ts, more, one, group
      <4>. QED BY <1>4, <4>1, GroupOfOne
    <3>3. group = one /\ Members(now, r, key) = {i}
      BY <1>7, <2>2, <3>1
    <3>. QED BY <3>2, <3>3
  <2>. QED BY <2>1, <2>2
<1>. HIDE DEF group
<1>12. ASSUME NEW k \in dom \cup {key}
       PROVE  Stands(after[k], Members(now, r, k), triggers, r, now, strayAt(k))
  <2>1. CASE k = key
    BY <1>8, <1>11, <2>1
  <2>2. CASE k # key
    <3>1. k \in dom /\ after[k] = table[k] /\ Members(now, r, k) = Members(gone, r, k)
      BY <1>6, <1>8, <2>2
    <3>. QED BY <1>10, <3>1
  <2>. QED BY <2>1, <2>2
<1>. QED BY <1>2, <1>8, <1>12 DEF Holds, key, strayAt

\* pruneSQL drops the group of a row that left when nothing is in it.
LEMMA PruneHolds ==
  ASSUME NEW now \in Rows, NEW r, NEW old, NEW dom, NEW table, NEW stray,
         Keys(now, r) \subseteq dom, dom \subseteq Keys(now, r) \cup {KeyOf(r, old)},
         Holds(table, dom, triggers, r, now, KeyOf(r, old), stray)
  PROVE  Holds(Prune(r, table, old), Keys(now, r), triggers, r, now, KeyOf(r, old), stray)
<1>. DEFINE key == KeyOf(r, old)
<1>1. DOMAIN table = dom
  BY DEF Holds
<1>2. ASSUME NEW k \in dom
      PROVE  Stands(table[k], Members(now, r, k), triggers, r, now, IF k = key THEN stray ELSE {})
  BY DEF Holds
<1>3. ASSUME key \in dom
      PROVE  table[key].requests = 0 <=> key \notin Keys(now, r)
  <2>1. table[key].requests = Cardinality(Members(now, r, key))
    <3>1. Stands(table[key], Members(now, r, key), triggers, r, now, IF key = key THEN stray ELSE {})
      BY <1>2, <1>3
    <3>. HIDE DEF key
    <3>2. table[key] = [requests |-> Cardinality(Members(now, r, key)),
                        sums |-> Tally(Members(now, r, key), FactsIn(triggers, now)),
                        first |-> table[key].first, last |-> table[key].last]
      BY <3>1 DEF Stands, Counted
    <3>. QED BY <3>2
  <2>2. Cardinality(Members(now, r, key)) = 0 <=> Members(now, r, key) = {}
    BY MembersAre, FS_EmptySet
  <2>. QED BY <2>1, <2>2, KeysAre
<1>4. Prune(r, table, old) = [k \in Keys(now, r) |-> table[k]]
  <2>1. CASE key \in dom /\ table[key].requests = 0
    <3>1. dom \ {key} = Keys(now, r)
      BY <1>3, <2>1
    <3>2. Prune(r, table, old) = [k \in dom \ {key} |-> table[k]]
      BY <1>1, <2>1 DEF Prune
    <3>. QED BY <3>1, <3>2
  <2>2. CASE ~(key \in dom /\ table[key].requests = 0)
    <3>1. dom = Keys(now, r)
      BY <1>3, <2>2
    <3>2. Prune(r, table, old) = table
      BY <1>1, <2>2 DEF Prune
    <3>. QED BY <3>1, <3>2 DEF Holds
  <2>. QED BY <2>1, <2>2
<1>. QED BY <1>2, <1>4 DEF Holds

\* spanScope misses no request of the group: a request whose conversation is
\* another one than its own id is in a group with a key made up for its day.
LEMMA RemainingAre ==
  ASSUME NEW now \in Rows, NEW old
  PROVE  Remaining(now, old) = Members(now, "conversation_daily", KeyOf("conversation_daily", old))
<1>. SUFFICES ASSUME NEW j \in Members(now, "conversation_daily", KeyOf("conversation_daily", old)),
                     Narrowed(old)
              PROVE  now[j].conv = old.conv
  BY DEF Remaining
<1>1. Conversation(now[j]) = old.conv /\ ~LooksKeyed(old.conv)
  BY DEF Members, KeyOf, Narrowed
<1>2. now[j].ts \in Times
  BY MembersAre
<1>3. old.conv # Keyed("autocomplete", Day(now[j].ts)) /\ old.conv # Keyed("titleprogress", Day(now[j].ts))
      /\ old.conv # Keyed("other", Day(now[j].ts))
  BY <1>1, <1>2 DEF LooksKeyed
<1>. QED BY <1>1, <1>3 DEF Conversation

\* spanSQL puts the ends of the group of a row that left at requests again.
LEMMA SpanHolds ==
  ASSUME NEW now \in Rows, NEW r \in Rollups, NEW old, NEW table,
         Holds(table, Keys(now, r), triggers, r, now, KeyOf(r, old), {old.ts})
  PROVE  Holds(Span(r, table, now, old), Keys(now, r), triggers, r, now, KeyOf(r, old), {})
<1>. DEFINE key == KeyOf(r, old)
            dom == Keys(now, r)
            M   == Members(now, r, key)
            g   == table[key]
<1>1. DOMAIN table = dom /\ table = [k \in dom |-> table[k]]
  BY DEF Holds
<1>2. \A k \in dom : Stands(table[k], Members(now, r, k), triggers, r, now, IF k = key THEN {old.ts} ELSE {})
  BY DEF Holds
<1>3. CASE ~HasSpan(r)
  <2>1. Span(r, table, now, old) = table
    BY <1>3 DEF Span
  <2>2. \A k \in dom : Stands(table[k], Members(now, r, k), triggers, r, now, {})
    BY <1>2, <1>3 DEF Stands, Spans
  <2>. QED BY <1>1, <2>1, <2>2 DEF Holds
<1>4. CASE HasSpan(r) /\ ~(key \in dom /\ old.ts \in {g.first, g.last})
  <2>1. Span(r, table, now, old) = table
    BY <1>1, <1>4 DEF Span
  <2>2. ASSUME NEW k \in dom
        PROVE  Stands(table[k], Members(now, r, k), triggers, r, now, {})
    <3>1. CASE k # key
      BY <1>2, <3>1
    <3>2. CASE k = key
      <4>1. Stands(table[k], Members(now, r, k), triggers, r, now, {old.ts})
        BY <1>2, <3>2
      <4>2. table[k].first # old.ts /\ table[k].last # old.ts
        BY <1>4, <3>2
      <4>. QED BY <1>4, <4>1, <4>2 DEF Stands, Spans
    <3>. QED BY <3>1, <3>2
  <2>. QED BY <1>1, <2>1, <2>2 DEF Holds
<1>5. CASE HasSpan(r) /\ key \in dom /\ old.ts \in {g.first, g.last}
  <2>. DEFINE h == [g EXCEPT !.first = IF @ = old.ts THEN NearestAfter(now, old) ELSE @,
                             !.last  = IF @ = old.ts THEN NearestBefore(now, old) ELSE @]
              after == Put(table, key, h)
  <2>1. Span(r, table, now, old) = after
    BY <1>1, <1>5 DEF Span
  <2>2. M # {} /\ IsFiniteSet(M) /\ \A j \in M : now[j].ts \in Nat
    BY <1>5, MembersAre, KeysAre
  <2>3. Remaining(now, old) = M
    BY <1>5, RemainingAre DEF HasSpan
  <2>4. Stands(g, M, triggers, r, now, {old.ts})
    BY <1>2, <1>5
  <2>. HIDE DEF M, g
  <2>5. /\ g.first \in Nat /\ g.last \in Nat
        /\ \A j \in M : g.first <= now[j].ts /\ now[j].ts <= g.last
        /\ g.first = old.ts \/ \E j \in M : g.first = now[j].ts
        /\ g.last = old.ts \/ \E j \in M : g.last = now[j].ts
    BY <1>5, <2>4 DEF Stands, Spans
  <2>. DEFINE times == {now[j].ts : j \in M}
  <2>6. /\ times # {} /\ Least(times) \in times /\ Greatest(times) \in times
        /\ \A j \in M : Least(times) <= now[j].ts /\ now[j].ts <= Greatest(times)
    <3>1. times = {now[j].ts : j \in M} /\ times # {}
      BY <2>2
    <3>. HIDE DEF times
    <3>. QED BY <2>2, <3>1, ExtremeTimes, Zenon
  <2>7. g.first = old.ts => NearestAfter(now, old) = Least(times)
    <3>1. g.first = old.ts => {j \in M : now[j].ts >= old.ts} = M
      BY <2>2, <2>5
    <3>. QED BY <2>3, <2>6, <3>1 DEF NearestAfter
  <2>8. g.last = old.ts => NearestBefore(now, old) = Greatest(times)
    <3>1. g.last = old.ts => {j \in M : now[j].ts <= old.ts} = M
      BY <2>2, <2>5
    <3>. QED BY <2>3, <2>6, <3>1 DEF NearestBefore
  <2>9. g = [requests |-> Cardinality(M), sums |-> Tally(M, FactsIn(triggers, now)),
             first |-> g.first, last |-> g.last]
    BY <2>4 DEF Stands, Counted
  <2>10. h = [requests |-> Cardinality(M), sums |-> Tally(M, FactsIn(triggers, now)),
              first |-> IF g.first = old.ts THEN Least(times) ELSE g.first,
              last |-> IF g.last = old.ts THEN Greatest(times) ELSE g.last]
    <3>1. h = [requests |-> Cardinality(M), sums |-> Tally(M, FactsIn(triggers, now)),
               first |-> IF g.first = old.ts THEN NearestAfter(now, old) ELSE g.first,
               last |-> IF g.last = old.ts THEN NearestBefore(now, old) ELSE g.last]
      <4>. DEFINE x == IF g.first = old.ts THEN NearestAfter(now, old) ELSE g.first
                  y == IF g.last = old.ts THEN NearestBefore(now, old) ELSE g.last
      <4>1. h = [g EXCEPT !.first = x, !.last = y]
        OBVIOUS
      <4>. HIDE DEF x, y
      <4>. DEFINE n == Cardinality(M)
                  sums == Tally(M, FactsIn(triggers, now))
      <4>2. g = [requests |-> n, sums |-> sums, first |-> g.first, last |-> g.last]
        BY <2>9
      <4>. HIDE DEF n, sums
      <4>3. h \in [requests : {n}, sums : {sums}, first : {x}, last : {y}]
        <5>1. PICK first, last : g = [requests |-> n, sums |-> sums, first |-> first, last |-> last]
          BY <4>2, Zenon
        <5>2. [g EXCEPT !.first = x, !.last = y] \in [requests : {n}, sums : {sums}, first : {x}, last : {y}]
          BY ONLY <5>1
        <5>. QED BY <4>1, <5>2
      <4>. HIDE DEF h
      <4>4. h = [requests |-> n, sums |-> sums, first |-> x, last |-> y]
        BY <4>3
      <4>. QED BY <4>4 DEF n, sums, x, y
    <3>. HIDE DEF h, times
    <3>. QED BY <2>7, <2>8, <3>1
  <2>11. Spans(h, M, r, now, {})
    <3>1. /\ h.first = IF g.first = old.ts THEN Least(times) ELSE g.first
          /\ h.last = IF g.last = old.ts THEN Greatest(times) ELSE g.last
      BY <2>10
    <3>. HIDE DEF h
    <3>2. /\ \A j \in M : h.first <= now[j].ts /\ now[j].ts <= h.last
          /\ h.first \in times /\ h.last \in times
      BY <2>5, <2>6, <3>1
    <3>3. h.first \in Nat /\ h.last \in Nat
      BY <2>2, <3>2
    <3>. QED BY <1>5, <3>2, <3>3 DEF Spans
  <2>12. Stands(h, M, triggers, r, now, {})
    <3>1. h.requests = Cardinality(M) /\ h.sums = Tally(M, FactsIn(triggers, now))
          /\ h = [requests |-> h.requests, sums |-> h.sums, first |-> h.first, last |-> h.last]
      BY <2>10
    <3>. HIDE DEF h
    <3>. QED BY <2>11, <3>1 DEF Stands, Counted
  <2>. HIDE DEF h
  <2>13. after = [k \in dom |-> after[k]] /\ after[key] = h /\ \A k \in dom : k # key => after[k] = table[k]
    BY <1>1, <1>5 DEF Put
  <2>. HIDE DEF after, key
  <2>14. ASSUME NEW k \in dom
         PROVE  Stands(after[k], Members(now, r, k), triggers, r, now, {})
    <3>1. CASE k = key
      BY <2>12, <2>13, <3>1 DEF M
    <3>2. CASE k # key
      <4>1. Stands(table[k], Members(now, r, k), triggers, r, now, {})
        BY <1>2, <3>2 DEF key
      <4>. QED BY <2>13, <3>2, <4>1
    <3>. QED BY <3>1, <3>2
  <2>. QED BY <2>1, <2>13, <2>14 DEF Holds, key
<1>. QED BY <1>3, <1>4, <1>5

\* The keys after a row went.
LEMMA KeysWithout ==
  ASSUME NEW rows \in Rows, NEW i \in Ids, NEW old \in Row, rows[i] = old,
         NEW gone, gone = Changed(rows, i, Absent), NEW r
  PROVE  /\ gone \in Rows /\ gone[i] = Absent
         /\ Keys(gone, r) \subseteq Keys(rows, r)
         /\ Keys(rows, r) = Keys(gone, r) \cup {KeyOf(r, old)}
<1>1. gone \in Rows /\ gone[i] = Absent /\ \A j \in Ids : j # i => gone[j] = rows[j]
  BY DEF Rows, Changed
<1>2. Stored(rows) = Stored(gone) \cup {i} /\ i \notin Stored(gone)
  BY <1>1, RowIsThere DEF Stored
<1>3. Keys(gone, r) = {KeyOf(r, rows[j]) : j \in Stored(gone)}
  <2>1. \A j \in Stored(gone) : gone[j] = rows[j]
    BY <1>1 DEF Stored
  <2>. QED BY <2>1 DEF Keys
<1>4. Keys(rows, r) = {KeyOf(r, rows[j]) : j \in Stored(gone)} \cup {KeyOf(r, old)}
  BY <1>2 DEF Keys
<1>. QED BY <1>1, <1>3, <1>4

\* The keys after a row came.
LEMMA KeysWith ==
  ASSUME NEW gone \in Rows, NEW i \in Ids, gone[i] = Absent, NEW new \in Row,
         NEW now, now = Changed(gone, i, new), NEW r
  PROVE  /\ now \in Rows
         /\ Keys(now, r) = Keys(gone, r) \cup {KeyOf(r, new)}
<1>1. now \in Rows /\ now[i] = new /\ \A j \in Ids : j # i => now[j] = gone[j]
  BY DEF Rows, Changed
<1>2. Stored(now) = Stored(gone) \cup {i} /\ i \notin Stored(gone)
  BY <1>1, RowIsThere DEF Stored
<1>3. \A j \in Stored(gone) : now[j] = gone[j]
  BY <1>1 DEF Stored
<1>. QED BY <1>1, <1>2, <1>3 DEF Keys

\* AFTER INSERT.
LEMMA InsertKeeps ==
  ASSUME NEW rows \in Rows, NEW i \in Ids, rows[i] = Absent, NEW new \in Row,
         NEW now, now = Changed(rows, i, new), NEW r,
         NEW table, table = Aggregate(triggers, rows, r)
  PROVE  AddRow(r, table, new, 1) = Aggregate(triggers, now, r)
<1>1. Holds(table, Keys(rows, r), triggers, r, rows, KeyOf(r, new), {})
  BY AggregateHolds
<1>2. Holds(AddRow(r, table, new, 1), Keys(rows, r) \cup {KeyOf(r, new)}, triggers, r, now, KeyOf(r, new), {})
  BY <1>1, PutIn
<1>3. now \in Rows /\ Keys(now, r) = Keys(rows, r) \cup {KeyOf(r, new)}
  BY KeysWith
<1>. QED BY <1>2, <1>3, HoldsIsAggregate

\* AFTER DELETE.
LEMMA DeleteKeeps ==
  ASSUME NEW rows \in Rows, NEW i \in Ids, NEW old \in Row, rows[i] = old,
         NEW gone, gone = Changed(rows, i, Absent), NEW r \in Rollups,
         NEW table, table = Aggregate(triggers, rows, r)
  PROVE  Removed(r, table, gone, old) = Aggregate(triggers, gone, r)
<1>. DEFINE out    == AddRow(r, table, old, -1)
            pruned == Prune(r, out, old)
            spot   == KeyOf(r, old)
<1>1. Holds(table, Keys(rows, r), triggers, r, rows, spot, {})
  BY AggregateHolds
<1>2. Holds(out, Keys(rows, r), triggers, r, gone, spot, {old.ts})
  BY <1>1, TakeOut
<1>3. gone \in Rows /\ Keys(gone, r) \subseteq Keys(rows, r) /\ Keys(rows, r) = Keys(gone, r) \cup {spot}
  BY KeysWithout
<1>. HIDE DEF out
<1>4. Holds(pruned, Keys(gone, r), triggers, r, gone, spot, {old.ts})
  BY <1>2, <1>3, PruneHolds
<1>. HIDE DEF pruned
<1>5. Holds(Span(r, pruned, gone, old), Keys(gone, r), triggers, r, gone, spot, {})
  BY <1>3, <1>4, SpanHolds
<1>6. Span(r, pruned, gone, old) = Aggregate(triggers, gone, r)
  BY <1>3, <1>5, HoldsIsAggregate
<1>. QED BY <1>6 DEF Removed, pruned, out

\* AFTER UPDATE.
LEMMA UpdateKeeps ==
  ASSUME NEW rows \in Rows, NEW i \in Ids, NEW old \in Row, rows[i] = old, NEW new \in Row,
         NEW now, now = Changed(rows, i, new), NEW r \in Rollups,
         NEW table, table = Aggregate(triggers, rows, r)
  PROVE  Moved(r, table, now, old, new) = Aggregate(triggers, now, r)
<1>. DEFINE gone   == Changed(rows, i, Absent)
            out    == AddRow(r, table, old, -1)
            moved  == AddRow(r, out, new, 1)
            pruned == Prune(r, moved, old)
            spot   == KeyOf(r, old)
            dom    == Keys(rows, r) \cup {KeyOf(r, new)}
<1>1. Holds(table, Keys(rows, r), triggers, r, rows, spot, {})
  BY AggregateHolds
<1>2. gone = Changed(rows, i, Absent) /\ now = Changed(gone, i, new)
  BY DEF Rows, Changed
<1>. HIDE DEF gone
<1>3. Holds(out, Keys(rows, r), triggers, r, gone, spot, {old.ts})
  BY <1>1, <1>2, TakeOut
<1>4. /\ gone \in Rows /\ gone[i] = Absent
      /\ Keys(gone, r) \subseteq Keys(rows, r) /\ Keys(rows, r) = Keys(gone, r) \cup {spot}
  BY <1>2, KeysWithout
<1>5. now \in Rows /\ Keys(now, r) = Keys(gone, r) \cup {KeyOf(r, new)}
  BY <1>2, <1>4, KeysWith
<1>. HIDE DEF out
<1>6. Holds(moved, dom, triggers, r, now, spot, {old.ts})
  BY <1>2, <1>3, <1>4, PutIn
<1>7. Keys(now, r) \subseteq dom /\ dom \subseteq Keys(now, r) \cup {spot}
  BY <1>4, <1>5
<1>. HIDE DEF moved, dom
<1>8. Holds(pruned, Keys(now, r), triggers, r, now, spot, {old.ts})
  BY <1>5, <1>6, <1>7, PruneHolds
<1>. HIDE DEF pruned
<1>9. Holds(Span(r, pruned, now, old), Keys(now, r), triggers, r, now, spot, {})
  BY <1>5, <1>8, SpanHolds
<1>10. Span(r, pruned, now, old) = Aggregate(triggers, now, r)
  BY <1>5, <1>9, HoldsIsAggregate
<1>. QED BY <1>10 DEF Moved, pruned, moved, out

\* Every statement on a row keeps the tables the aggregate of the rows.
LEMMA FiredIsAggregate ==
  ASSUME data.rows \in Rows, triggers # 0, NEW i \in Ids, NEW row \in Row \cup {Absent},
         NEW now, now = Changed(data.rows, i, row), NEW r \in Rollups,
         data.tables[r] = Aggregate(triggers, data.rows, r)
  PROVE  Fired(i, now)[r] = Aggregate(triggers, now, r)
<1>. DEFINE old == data.rows[i]
            table == data.tables[r]
<1>1. now[i] = row /\ old \in Row \cup {Absent} /\ Absent \notin Row
  BY RowIsThere DEF Rows, Changed
<1>2. CASE old = row
  <2>1. now = data.rows
    BY <1>2 DEF Rows, Changed
  <2>2. Fired(i, now)[r] = table
    BY <1>1, <1>2 DEF Fired
  <2>. QED BY <2>1, <2>2
<1>3. CASE old # row /\ old = Absent
  <2>1. Fired(i, now)[r] = AddRow(r, table, row, 1)
    BY <1>1, <1>3 DEF Fired
  <2>2. row \in Row
    BY <1>3
  <2>. QED BY <1>3, <2>1, <2>2, InsertKeeps
<1>4. CASE old # row /\ row = Absent
  <2>1. Fired(i, now)[r] = Removed(r, table, now, old)
    BY <1>1, <1>4 DEF Fired
  <2>2. old \in Row
    BY <1>1, <1>4
  <2>. QED BY <1>4, <2>1, <2>2, DeleteKeeps
<1>5. CASE old # row /\ old # Absent /\ row # Absent
  <2>1. Fired(i, now)[r] = Moved(r, table, now, old, row)
    BY <1>1, <1>5 DEF Fired
  <2>2. old \in Row /\ row \in Row
    BY <1>1, <1>5
  <2>. QED BY <2>1, <2>2, UpdateKeeps
<1>. QED BY <1>2, <1>3, <1>4, <1>5

-----------------------------------------------------------------------------
(* The invariant: triggers that stand were built by one release and have   *)
(* kept the tables its aggregates, for the open transaction and for what   *)
(* it found; only the serving program writes, under its own triggers.      *)

ShapeOK(d) ==
  /\ d.rows \in Rows
  /\ d = [rows |-> d.rows, tables |-> d.tables]
  /\ d.tables = [r \in Rollups |-> d.tables[r]]

Standing(d) == triggers # 0 => \A r \in Rollups : d.tables[r] = Aggregate(triggers, d.rows, r)

Trusted ==
  /\ triggers # 0 => built = triggers
  /\ release \in Releases
  /\ mode = "serving" => triggers = release

Transaction ==
  /\ txn # "none" => mode = "serving"
  /\ txn = "none" => data = before
  /\ tokens \in Tokens \cup {0}
  /\ txn = "claim" => tokens = 1 /\ tokens \in Tokens

IInv ==
  /\ ShapeOK(data) /\ ShapeOK(before)
  /\ Standing(data) /\ Standing(before)
  /\ Trusted /\ Transaction

\* The start.
LEMMA Initially == Init => IInv
<1>. SUFFICES ASSUME Init PROVE IInv
  OBVIOUS
<1>1. ShapeOK(data)
  BY RollupAssumption DEF Init, ShapeOK, NoTables
<1>. QED BY <1>1 DEF Init, IInv, Standing, Trusted, Transaction

\* Rows that mergeSQL, ApplyPricing and SeedTokenID write.
LEMMA MergedIsRow ==
  ASSUME NEW old \in Row, NEW g \in Telemetry
  PROVE  MergeRow(old, g) \in Row
<1>. DEFINE tok == [c \in Columns |-> Coalesce(old.tok[c], g.tok[c])]
<1>1. NewRow(g) \in Row
  BY RollupAssumption
<1>2. /\ g.ts \in Times /\ g.model \in Models \cup {Nil} /\ g.token \in Tokens \cup {Nil}
      /\ g.agent \in Agents \cup {Nil} /\ g.conv \in ConversationIds \cup {Nil}
      /\ g.tok \in [Columns -> Counts \cup {Nil}] /\ g.cost \in Prices \cup {Nil}
  BY <1>1 DEF NewRow, Row
<1>3. /\ old.ts \in Times /\ old.source \in Sources /\ old.model \in Models \cup {Nil}
      /\ old.token \in Tokens \cup {Nil} /\ old.agent \in Agents \cup {Nil}
      /\ old.conv \in ConversationIds \cup {Nil} /\ old.tok \in [Columns -> Counts \cup {Nil}]
      /\ old.cost \in Prices \cup {Nil} /\ old.costSource \in CostSources
  BY DEF Row
<1>4. tok \in [Columns -> Counts \cup {Nil}]
  <2>1. \A c \in Columns : Coalesce(old.tok[c], g.tok[c]) \in Counts \cup {Nil}
    BY <1>2, <1>3 DEF Coalesce
  <2>. QED BY <2>1
<1>5. MergeRow(old, g).costSource \in CostSources
  BY <1>3 DEF MergeRow, CostSources
<1>. HIDE DEF tok
<1>6. /\ Earlier(old.ts, g.ts) \in Times
      /\ Coalesce(old.model, g.model) \in Models \cup {Nil}
      /\ Coalesce(old.token, g.token) \in Tokens \cup {Nil}
      /\ Coalesce(old.agent, g.agent) \in Agents \cup {Nil}
      /\ Coalesce(old.conv, g.conv) \in ConversationIds \cup {Nil}
      /\ CostMerged(old, g) \in Prices \cup {Nil}
  BY <1>2, <1>3 DEF Earlier, Coalesce, CostMerged
<1>7. (IF g.cost # Nil THEN "harness" ELSE old.costSource) \in CostSources
  BY <1>3 DEF CostSources
<1>. HIDE DEF Earlier, Coalesce
<1>8. MergeRow(old, g) =
        [ts |-> Earlier(old.ts, g.ts), source |-> old.source, model |-> Coalesce(old.model, g.model),
         token |-> Coalesce(old.token, g.token), agent |-> Coalesce(old.agent, g.agent),
         conv |-> Coalesce(old.conv, g.conv), tok |-> tok, cost |-> CostMerged(old, g),
         costSource |-> IF g.cost # Nil THEN "harness" ELSE old.costSource]
  BY DEF MergeRow, tok
<1>. QED BY <1>3, <1>4, <1>6, <1>7, <1>8 DEF Row

\* A write under the standing triggers keeps everything about the data.
LEMMA WriteKeeps ==
  ASSUME IInv, mode = "serving", NEW i \in Ids, NEW row \in Row \cup {Absent}, Write(i, row)
  PROVE  /\ ShapeOK(data)'
         /\ triggers' = triggers => Standing(data)'
<1>. DEFINE now == Changed(data.rows, i, row)
            fired == Fired(i, now)
<1>1. triggers # 0 /\ data.rows \in Rows /\ \A r \in Rollups : data.tables[r] = Aggregate(triggers, data.rows, r)
  BY RollupAssumption DEF IInv, ShapeOK, Standing, Trusted
<1>2. data' = [rows |-> now, tables |-> fired]
  BY DEF Write, Changed
<1>3. now \in Rows /\ now = Changed(data.rows, i, row)
  BY <1>1 DEF Rows, Changed
<1>4. fired = [r \in Rollups |-> fired[r]]
  BY DEF Fired
<1>. HIDE DEF now
<1>5. \A r \in Rollups : fired[r] = Aggregate(triggers, now, r)
  BY <1>1, <1>3, FiredIsAggregate
<1>. HIDE DEF fired
<1>6. data'.rows = now /\ data'.tables = fired
  BY <1>2
<1>. QED BY <1>2, <1>3, <1>4, <1>5, <1>6 DEF ShapeOK, Standing

\* In the open transaction, and alone.
LEMMA WriteInsideKeeps ==
  ASSUME IInv, mode = "serving", txn # "none", NEW i \in Ids, NEW row \in Row, WriteInside(i, row)
  PROVE  IInv'
<1>1. Write(i, row) /\ UNCHANGED <<before, txn, tokens, triggers, built, schema, release, mode>>
  BY DEF WriteInside, definition, program
<1>2. ShapeOK(data)' /\ Standing(data)'
  BY <1>1, WriteKeeps
<1>3. ShapeOK(before)' /\ Standing(before)' /\ Trusted' /\ Transaction'
  BY <1>1 DEF IInv, ShapeOK, Standing, Trusted, Transaction
<1>. QED BY <1>2, <1>3 DEF IInv

\* The same for one that commits by itself.
LEMMA WriteAloneKeeps ==
  ASSUME IInv, NEW i \in Ids, NEW row \in Row \cup {Absent}, WriteAlone(i, row)
  PROVE  IInv'
<1>1. /\ Write(i, row) /\ mode = "serving" /\ txn = "none" /\ before' = data'
      /\ UNCHANGED <<txn, tokens, triggers, built, schema, release, mode>>
  BY DEF WriteAlone, definition, program
<1>2. ShapeOK(data)' /\ Standing(data)'
  BY <1>1, WriteKeeps
<1>3. ShapeOK(before)' /\ Standing(before)'
  BY <1>1, <1>2 DEF ShapeOK, Standing
<1>4. Trusted' /\ Transaction'
  BY <1>1 DEF IInv, Trusted, Transaction
<1>. QED BY <1>2, <1>3, <1>4 DEF IInv

\* What an open transaction leaves behind.
LEMMA UndoneKeeps ==
  ASSUME IInv, Undone, UNCHANGED definition, UNCHANGED release,
         mode' = mode \/ mode' = "down"
  PROVE  IInv'
<1>1. data' = before /\ before' = before /\ txn' = "none" /\ UNCHANGED <<triggers, built, schema, release>>
  BY DEF Undone, definition
<1>2. ShapeOK(data)' /\ Standing(data)' /\ ShapeOK(before)' /\ Standing(before)'
  BY <1>1 DEF IInv, ShapeOK, Standing
<1>3. Trusted'
  BY <1>1 DEF IInv, Trusted
<1>4. Transaction'
  BY <1>1 DEF IInv, Transaction, Undone
<1>. QED BY <1>2, <1>3, <1>4 DEF IInv

\* Every step.
LEMMA Stepwise == IInv /\ [Next]_vars => IInv'
<1>. SUFFICES ASSUME IInv, [Next]_vars PROVE IInv'
  OBVIOUS
<1>1. data.rows \in Rows /\ \A i \in Ids : data.rows[i] = Absent \/ data.rows[i] \in Row
  BY DEF IInv, ShapeOK, Rows
<1>2. CASE InsertGenerations
  BY <1>2 DEF InsertGenerations, IInv, ShapeOK, Standing, Trusted, Transaction, definition, program
<1>3. ASSUME NEW g \in Telemetry, InsertGeneration(g) PROVE IInv'
  <2>1. txn # "none" /\ mode = "serving" /\ g.id \in Ids
    BY <1>3, RollupAssumption DEF InsertGeneration, IInv, Transaction
  <2>. DEFINE row == IF data.rows[g.id] = Absent THEN NewRow(g) ELSE MergeRow(data.rows[g.id], g)
  <2>2. row \in Row
    BY <1>1, <2>1, MergedIsRow, RollupAssumption
  <2>3. WriteInside(g.id, row)
    BY <1>3 DEF InsertGeneration
  <2>. HIDE DEF row
  <2>. QED BY <2>1, <2>2, <2>3, WriteInsideKeeps
<1>4. ASSUME NEW i \in Ids, NEW e \in Estimates, ApplyPricing(i, e) PROVE IInv'
  <2>. DEFINE old == data.rows[i]
              row == [old EXCEPT !.cost = e.cost, !.costSource = e.costSource]
  <2>1. old \in Row /\ WriteAlone(i, row)
    BY <1>1, <1>4 DEF ApplyPricing
  <2>2. e.cost \in Prices /\ e.costSource \in CostSources
    BY RollupAssumption DEF CostSources
  <2>3. row \in Row
    <3>. HIDE DEF old
    <3>. QED BY <2>1, <2>2 DEF Row
  <2>. HIDE DEF row
  <2>. QED BY <2>1, <2>3, WriteAloneKeeps
<1>5. ASSUME NEW i \in Ids, Delete(i) PROVE IInv'
  BY <1>5, WriteAloneKeeps DEF Delete
<1>6. CASE CreateToken
  BY <1>6 DEF CreateToken, IInv, ShapeOK, Standing, Trusted, Transaction, definition, program
<1>7. CASE SeedToken
  <2>1. /\ tokens' = tokens + 1 /\ tokens + 1 \in Tokens /\ txn' = (IF tokens = 0 THEN "claim" ELSE "none")
        /\ mode = "serving" /\ txn = "none"
        /\ UNCHANGED <<data, before, triggers, built, schema, release, mode>>
    BY <1>7 DEF SeedToken, definition, program
  <2>2. Transaction'
    BY <2>1 DEF IInv, Transaction
  <2>. QED BY <2>1, <2>2 DEF IInv, ShapeOK, Standing, Trusted
<1>8. ASSUME NEW i \in Ids, ClaimRow(i) PROVE IInv'
  <2>. DEFINE row == [data.rows[i] EXCEPT !.token = tokens]
  <2>1. txn = "claim" /\ data.rows[i] \in Row /\ WriteInside(i, row)
    BY <1>1, <1>8 DEF ClaimRow, Unattributed, Stored
  <2>2. mode = "serving" /\ tokens \in Tokens
    BY <2>1 DEF IInv, Transaction
  <2>3. row \in Row
    BY <2>1, <2>2 DEF Row
  <2>. HIDE DEF row
  <2>. QED BY <2>1, <2>2, <2>3, WriteInsideKeeps
<1>9. CASE Commit
  BY <1>9 DEF Commit, IInv, ShapeOK, Standing, Trusted, Transaction, definition, program
<1>10. CASE Rollback
  BY <1>10, UndoneKeeps DEF Rollback, program
<1>11. CASE Stop
  BY <1>11, UndoneKeeps DEF Stop
<1>12. ASSUME NEW r \in Releases, Install(r) PROVE IInv'
  BY <1>12 DEF Install, IInv, ShapeOK, Standing, Trusted, Transaction, definition
<1>13. CASE Start
  BY <1>13 DEF Start, IInv, ShapeOK, Standing, Trusted, Transaction, definition
<1>14. CASE ApplyMigration
  BY <1>14 DEF ApplyMigration, IInv, ShapeOK, Standing, Trusted, Transaction, program
<1>15. CASE SyncRollup
  <2>1. CASE InSync
    BY <1>15, <2>1 DEF SyncRollup, InSync, IInv, ShapeOK, Standing, Trusted, Transaction
  <2>2. CASE ~InSync
    <3>1. /\ data' = Rebuilt /\ before' = Rebuilt /\ triggers' = release /\ built' = release
          /\ txn = "none" /\ UNCHANGED <<txn, tokens, release>>
      BY <1>15, <2>2 DEF SyncRollup, IInv, Transaction
    <3>. DEFINE tables == [r \in Rollups |-> Aggregate(release, data.rows, r)]
    <3>2. Rebuilt = [rows |-> data.rows, tables |-> tables]
      <4>1. data \in [rows : {data.rows}, tables : {data.tables}]
        BY DEF IInv, ShapeOK
      <4>2. Rebuilt = [data EXCEPT !.tables = tables]
        BY DEF Rebuilt
      <4>. HIDE DEF tables
      <4>3. [data EXCEPT !.tables = tables] \in [rows : {data.rows}, tables : {tables}]
        BY <4>1
      <4>. QED BY <4>2, <4>3
    <3>3. \A r \in Rollups : tables[r] = Aggregate(release, data.rows, r)
      OBVIOUS
    <3>4. tables = [r \in Rollups |-> tables[r]]
      OBVIOUS
    <3>. HIDE DEF tables
    <3>5. data'.rows = data.rows /\ data'.tables = tables /\ data' = [rows |-> data'.rows, tables |-> data'.tables]
          /\ before' = data'
      BY <3>1, <3>2
    <3>6. ShapeOK(data)' /\ ShapeOK(before)' /\ Standing(data)' /\ Standing(before)'
      BY <1>1, <3>1, <3>3, <3>4, <3>5 DEF ShapeOK, Standing
    <3>7. Trusted' /\ Transaction'
      BY <3>1, <3>5 DEF IInv, Trusted, Transaction
    <3>. QED BY <3>6, <3>7 DEF IInv
  <2>. QED BY <2>1, <2>2
<1>16. CASE UNCHANGED vars
  BY <1>16 DEF vars, definition, program, IInv, ShapeOK, Standing, Trusted, Transaction
<1>. QED BY <1>2, <1>3, <1>4, <1>5, <1>6, <1>7, <1>8, <1>9, <1>10, <1>11, <1>12, <1>13, <1>14, <1>15, <1>16 DEF Next

\* The invariant holds of every reachable state.
THEOREM Invariance == Spec => []IInv
BY Initially, Stepwise, PTL DEF Spec

\* Whatever the requests, releases, migrations and crashes: while the program
\* serves, both rollup tables equal a GROUP BY over generations, for a reader
\* as well as inside the open transaction (the triggers, syncRollup).
THEOREM TablesAreAggregates == Spec => []RollupIsAggregate
<1>1. IInv => RollupIsAggregate
  <2>. SUFFICES ASSUME IInv, mode = "serving"
                PROVE  \A r \in Rollups : InStep(data, r) /\ InStep(before, r)
    BY DEF RollupIsAggregate
  <2>1. triggers = release /\ triggers # 0
    BY RollupAssumption DEF IInv, Trusted
  <2>. QED BY <2>1 DEF IInv, Standing, InStep
<1>. QED BY <1>1, Invariance, PTL

-----------------------------------------------------------------------------
(* The ledger.                                                             *)

\* Its words are those of the tables.
LEMMA SameWords ==
  /\ Ledger!Rows = Rows /\ Ledger!Row = Row /\ Ledger!Absent = Absent
  /\ Ledger!Rollups = Rollups /\ Ledger!Columns = Columns
<1>1. Ledger!Columns = Columns /\ Ledger!CostSources = CostSources /\ Ledger!Absent = Absent
      /\ Ledger!Rollups = Rollups
  BY DEF Ledger!Columns, Columns, Ledger!CostSources, CostSources, Ledger!Absent, Absent,
         Ledger!Rollups, Rollups
<1>2. Ledger!Row = Row
  BY <1>1 DEF Ledger!Row, Row
<1>. QED BY <1>1, <1>2 DEF Ledger!Rows, Rows

\* And so are its totals.
LEMMA SameTotals ==
  ASSUME NEW e, NEW rows
  PROVE  Ledger!Totals(e, rows) = [r \in Rollups |-> Aggregate(e, rows, r)]
<1>1. \A a, b : Ledger!Coalesce(a, b) = Coalesce(a, b)
  BY DEF Ledger!Coalesce, Coalesce
<1>2. \A t : Ledger!Day(t) = Day(t)
  BY DEF Ledger!Day, Day
<1>3. \A row : /\ Ledger!IsAutocomplete(row) <=> IsAutocomplete(row)
               /\ Ledger!IsTitle(row) <=> IsTitle(row)
               /\ Ledger!IsHelper(row) <=> IsHelper(row)
  BY DEF Ledger!IsAutocomplete, IsAutocomplete, Ledger!IsTitle, IsTitle, Ledger!IsHelper, IsHelper
<1>4. \A row : Ledger!IsHelper(row) = IsHelper(row)
  BY DEF Ledger!IsAutocomplete, IsAutocomplete, Ledger!IsTitle, IsTitle, Ledger!IsHelper, IsHelper
<1>5. \A row : Ledger!Conversation(row) = Conversation(row)
  BY <1>2, <1>3 DEF Ledger!Conversation, Conversation, Ledger!Keyed, Keyed
<1>6. \A r, row : Ledger!KeyOf(r, row) = KeyOf(r, row)
  BY <1>1, <1>2, <1>4, <1>5 DEF Ledger!KeyOf, KeyOf
<1>7. \A row : Ledger!Facts(e, row) = Facts(e, row)
  BY DEF Ledger!Facts, Facts, Ledger!UncachedInput, UncachedInput, Ledger!OutputOnly, OutputOnly,
         Ledger!Coalesce, Coalesce, Ledger!Positive, Positive
<1>8. Ledger!Stored(rows) = Stored(rows)
  BY DEF Ledger!Stored, Stored, Ledger!Absent, Absent
<1>9. \A r, key : Ledger!Members(rows, r, key) = Members(rows, r, key)
  BY <1>6, <1>8 DEF Ledger!Members, Members
<1>10. \A S : Ledger!Least(S) = Least(S) /\ Ledger!Greatest(S) = Greatest(S)
  BY DEF Ledger!Least, Least, Ledger!Greatest, Greatest
<1>0. \A S : Ledger!Cardinality(S) = Cardinality(S)
  BY DEF Ledger!Cardinality, Cardinality
<1>11. ASSUME NEW r, NEW key
       PROVE  Ledger!GroupOf(e, rows, r, key) = GroupOf(e, rows, r, key)
  <2>. DEFINE L == Ledger!Members(rows, r, key)
              M == Members(rows, r, key)
              theirs(X) == [i \in X |-> Ledger!Facts(e, rows[i])]
              ours(X) == [i \in X |-> Facts(e, rows[i])]
              times(X) == {rows[i].ts : i \in X}
  <2>1. L = M
    BY <1>9
  <2>2. theirs(M) = ours(M)
    BY <1>7
  <2>3. Ledger!HasSpan(r) <=> HasSpan(r)
    BY DEF Ledger!HasSpan, HasSpan
  <2>4. Ledger!GroupOf(e, rows, r, key) =
          [requests |-> Ledger!Cardinality(L), sums |-> Tally(L, theirs(L)),
           first    |-> IF Ledger!HasSpan(r) THEN Ledger!Least(times(L)) ELSE 0,
           last     |-> IF Ledger!HasSpan(r) THEN Ledger!Greatest(times(L)) ELSE 0]
    BY <1>0 DEF Ledger!GroupOf, Tally, Of
  <2>5. GroupOf(e, rows, r, key) =
          [requests |-> Cardinality(M), sums |-> Tally(M, ours(M)),
           first    |-> IF HasSpan(r) THEN Least(times(M)) ELSE 0,
           last     |-> IF HasSpan(r) THEN Greatest(times(M)) ELSE 0]
    BY DEF GroupOf, Tally, Of
  <2>. HIDE DEF theirs, ours, times, L, M
  <2>6. /\ (IF Ledger!HasSpan(r) THEN Ledger!Least(times(L)) ELSE 0) = IF HasSpan(r) THEN Least(times(M)) ELSE 0
        /\ (IF Ledger!HasSpan(r) THEN Ledger!Greatest(times(L)) ELSE 0) = IF HasSpan(r) THEN Greatest(times(M)) ELSE 0
    BY <1>10, <2>1, <2>3
  <2>7. Tally(L, theirs(L)) = Tally(M, ours(M)) /\ Ledger!Cardinality(L) = Cardinality(M)
    BY <1>0, <2>1, <2>2
  <2>. QED BY <2>4, <2>5, <2>6, <2>7
<1>12. ASSUME NEW r
       PROVE  Ledger!Aggregate(e, rows, r) = Aggregate(e, rows, r)
  BY <1>6, <1>8, <1>11 DEF Ledger!Aggregate, Aggregate
<1>. QED BY <1>12, SameWords DEF Ledger!Totals

\* A request told, and told again, is told.
LEMMA GrownTwice ==
  ASSUME NEW a \in Row \cup {Absent}, NEW b \in Row \cup {Absent}, NEW c \in Row \cup {Absent},
         Ledger!Grown(a, b), Ledger!Grown(b, c)
  PROVE  Ledger!Grown(a, c)
<1>1. \A row \in Row : row.ts \in Nat
  BY FactsAssumption DEF Row
<1>2. CASE a = b \/ b = c
  BY <1>2
<1>3. CASE a # b /\ b # c
  <2>1. b # Absent /\ b \in Row /\ c \in Row /\ c # Absent /\ Absent \notin Row
    BY <1>3, SameWords, RowIsThere DEF Ledger!Grown
  <2>2. CASE a = Absent
    BY <2>1, <2>2, SameWords DEF Ledger!Grown
  <2>3. CASE a # Absent
    BY <1>1, <1>3, <2>1, <2>3, SameWords DEF Ledger!Grown, Ledger!Kept
  <2>. QED BY <2>2, <2>3
<1>. QED BY <1>2, <1>3

\* mergeSQL forgets nothing that was told.
LEMMA MergeGrows ==
  ASSUME NEW old \in Row, NEW g \in Telemetry
  PROVE  Ledger!Grown(old, MergeRow(old, g))
<1>. DEFINE new == MergeRow(old, g)
<1>1. new \in Row /\ old # Absent
  BY MergedIsRow, RowIsThere
<1>2. old.ts \in Nat /\ g.ts \in Nat
  <2>1. NewRow(g) \in Row
    BY RollupAssumption
  <2>2. NewRow(g).ts = g.ts
    BY DEF NewRow
  <2>. QED BY <2>1, <2>2, FactsAssumption DEF Row
<1>3. new.source = old.source /\ new.ts <= old.ts
  BY <1>2 DEF MergeRow, Earlier
<1>4. /\ Ledger!Kept(old.model, new.model) /\ Ledger!Kept(old.token, new.token)
      /\ Ledger!Kept(old.agent, new.agent) /\ Ledger!Kept(old.conv, new.conv)
  BY DEF MergeRow, Coalesce, Ledger!Kept
<1>5. \A c \in Columns : Ledger!Kept(old.tok[c], new.tok[c])
  <2>1. \A c \in Columns : new.tok[c] = Coalesce(old.tok[c], g.tok[c])
    BY DEF MergeRow
  <2>. QED BY <2>1 DEF Coalesce, Ledger!Kept
<1>6. new.cost = CostMerged(old, g) /\ new.costSource = IF g.cost # Nil THEN "harness" ELSE old.costSource
  BY DEF MergeRow
<1>7. old.cost # Nil => new.cost # Nil
  BY <1>6 DEF CostMerged, Coalesce
<1>8. old.costSource = "harness" => new.costSource = "harness" /\ new.cost = old.cost
  BY <1>6 DEF CostMerged
<1>. HIDE DEF new
<1>. QED BY <1>1, <1>3, <1>4, <1>5, <1>7, <1>8, SameWords DEF Ledger!Grown, new

\* Neither does a price, nor the token that claims a request.
LEMMA PriceGrows ==
  ASSUME NEW old \in Row, old.costSource # "harness", NEW e \in Estimates
  PROVE  Ledger!Grown(old, [old EXCEPT !.cost = e.cost, !.costSource = e.costSource])
<1>. DEFINE new == [old EXCEPT !.cost = e.cost, !.costSource = e.costSource]
<1>1. e.cost \in Prices /\ e.costSource \in CostSources /\ e.cost # Nil
  BY RollupAssumption, FactsAssumption DEF CostSources
<1>2. new \in Row /\ old # Absent
  BY <1>1, RowIsThere DEF Row
<1>3. old.ts \in Nat
  BY FactsAssumption DEF Row
<1>4. /\ new.source = old.source /\ new.ts = old.ts /\ new.model = old.model /\ new.token = old.token
      /\ new.agent = old.agent /\ new.conv = old.conv /\ new.tok = old.tok /\ new.cost = e.cost
  BY DEF Row
<1>. HIDE DEF new
<1>5. Ledger!Grown(old, new)
  BY <1>1, <1>2, <1>3, <1>4, SameWords DEF Ledger!Grown, Ledger!Kept
<1>. QED BY <1>5 DEF new

\* The same for the token.
LEMMA ClaimGrows ==
  ASSUME NEW old \in Row, old.token = Nil, NEW token \in Tokens
  PROVE  Ledger!Grown(old, [old EXCEPT !.token = token])
<1>. DEFINE new == [old EXCEPT !.token = token]
<1>1. new \in Row /\ old # Absent
  BY RowIsThere DEF Row
<1>2. old.ts \in Nat
  BY FactsAssumption DEF Row
<1>3. /\ new.source = old.source /\ new.ts = old.ts /\ new.model = old.model
      /\ new.agent = old.agent /\ new.conv = old.conv /\ new.tok = old.tok
      /\ new.cost = old.cost /\ new.costSource = old.costSource
  BY DEF Row
<1>. HIDE DEF new
<1>4. Ledger!Grown(old, new)
  BY <1>1, <1>2, <1>3, SameWords DEF Ledger!Grown, Ledger!Kept
<1>. QED BY <1>4 DEF new

\* What the open transaction has told since it began.
Told == \A i \in Ids : Ledger!Grown(before.rows[i], data.rows[i])

\* One more statement of it.
LEMMA WriteTells ==
  ASSUME IInv, Told, NEW i \in Ids, NEW row \in Row, WriteInside(i, row), Ledger!Grown(data.rows[i], row)
  PROVE  Told'
<1>1. before' = before /\ data'.rows = [data.rows EXCEPT ![i] = row]
  BY DEF WriteInside, Write
<1>2. \A j \in Ids : before.rows[j] \in Row \cup {Absent} /\ data.rows[j] \in Row \cup {Absent}
  BY DEF IInv, ShapeOK, Rows
<1>3. ASSUME NEW j \in Ids
      PROVE  Ledger!Grown(before.rows[j], data'.rows[j])
  <2>1. data'.rows[j] = IF j = i THEN row ELSE data.rows[j]
    BY <1>1 DEF IInv, ShapeOK, Rows
  <2>2. Ledger!Grown(before.rows[j], data.rows[j])
    BY DEF Told
  <2>3. CASE j = i
    BY <1>2, <2>1, <2>2, <2>3, GrownTwice
  <2>. QED BY <2>1, <2>2, <2>3
<1>. QED BY <1>1, <1>3 DEF Told

\* Nothing told is lost before the transaction ends.
LEMMA StillTold == IInv /\ Told /\ [Next]_vars => Told'
<1>. SUFFICES ASSUME IInv, Told, [Next]_vars PROVE Told'
  OBVIOUS
<1>1. \A i \in Ids : data.rows[i] = Absent \/ data.rows[i] \in Row
  BY DEF IInv, ShapeOK, Rows
<1>2. ASSUME NEW g \in Telemetry, InsertGeneration(g) PROVE Told'
  <2>. DEFINE old == data.rows[g.id]
              row == IF old = Absent THEN NewRow(g) ELSE MergeRow(old, g)
  <2>1. g.id \in Ids /\ NewRow(g) \in Row
    BY RollupAssumption
  <2>2. row \in Row
    BY <1>1, <2>1, MergedIsRow
  <2>3. Ledger!Grown(old, row)
    <3>1. CASE old = Absent
      BY <2>1, <3>1, SameWords DEF Ledger!Grown
    <3>2. CASE old # Absent
      BY <1>1, <2>1, <3>2, MergeGrows
    <3>. QED BY <3>1, <3>2
  <2>4. WriteInside(g.id, row)
    BY <1>2 DEF InsertGeneration
  <2>. HIDE DEF row
  <2>. QED BY <2>1, <2>2, <2>3, <2>4, WriteTells
<1>3. ASSUME NEW i \in Ids, ClaimRow(i) PROVE Told'
  <2>. DEFINE old == data.rows[i]
              row == [old EXCEPT !.token = tokens]
  <2>1. old \in Row /\ old.token = Nil /\ WriteInside(i, row) /\ txn = "claim"
    BY <1>1, <1>3 DEF ClaimRow, Unattributed, Stored
  <2>2. tokens \in Tokens
    BY <2>1 DEF IInv, Transaction
  <2>3. Ledger!Grown(old, row)
    BY <2>1, <2>2, ClaimGrows
  <2>4. row \in Row
    BY <2>1, <2>2 DEF Row
  <2>. HIDE DEF row
  <2>. QED BY <2>1, <2>3, <2>4, WriteTells
<1>4. ASSUME before' = data' PROVE Told'
  BY <1>4 DEF Told, Ledger!Grown
<1>5. ASSUME data' = data, before' = before PROVE Told'
  BY <1>5 DEF Told
<1>6. ASSUME NEW i \in Ids, NEW e \in Estimates, ApplyPricing(i, e) PROVE before' = data'
  BY <1>6 DEF ApplyPricing, WriteAlone
<1>7. ASSUME NEW i \in Ids, Delete(i) PROVE before' = data'
  BY <1>7 DEF Delete, WriteAlone
<1>8. Commit \/ Rollback \/ Stop => before' = data'
  BY DEF Commit, Rollback, Stop, Undone
<1>9. SyncRollup => before' = data' \/ (data' = data /\ before' = before)
  BY DEF SyncRollup
<1>10. InsertGenerations \/ CreateToken \/ SeedToken \/ Start \/ ApplyMigration \/ UNCHANGED vars
         => data' = data /\ before' = before
  BY DEF InsertGenerations, CreateToken, SeedToken, Start, ApplyMigration, vars
<1>11. ASSUME NEW r \in Releases, Install(r) PROVE data' = data /\ before' = before
  BY <1>11 DEF Install
<1>. QED
  <2>1. CASE UNCHANGED vars
    BY <1>5, <1>10, <2>1
  <2>2. CASE Next
    BY <1>2, <1>3, <1>4, <1>5, <1>6, <1>7, <1>8, <1>9, <1>10, <1>11, <2>2 DEF Next
  <2>. QED BY <2>1, <2>2

\* While the program serves the ledger is open, and shows its totals.
LEMMA ViewIs ==
  ASSUME IInv
  PROVE  /\ before.rows \in Ledger!Rows
         /\ mode = "serving" => /\ before.tables = Ledger!Totals(release, before.rows)
                                /\ before.tables # Ledger!Closed
<1>1. before.rows \in Ledger!Rows
  BY SameWords DEF IInv, ShapeOK
<1>2. ASSUME mode = "serving"
      PROVE  before.tables = [r \in Rollups |-> Aggregate(release, before.rows, r)]
  <2>1. triggers = release /\ triggers # 0
    BY <1>2, RollupAssumption DEF IInv, Trusted
  <2>. QED BY <2>1 DEF IInv, ShapeOK, Standing
<1>3. Ledger!Totals(release, before.rows) = [r \in Rollups |-> Aggregate(release, before.rows, r)]
  BY SameTotals
<1>4. [r \in Rollups |-> Aggregate(release, before.rows, r)] # Ledger!Closed
  <2>1. DOMAIN Ledger!Closed = {"closed"} /\ "usage_daily" \in Rollups
    BY DEF Ledger!Closed, Rollups
  <2>. QED BY <2>1
<1>. QED BY <1>1, <1>2, <1>3, <1>4

visible == IF mode = "serving" THEN before.tables ELSE [closed |-> TRUE]

\* A step that shows other requests or none, while the program serves.
LEMMA TellsOrNothing ==
  ASSUME IInv, IInv', mode = "serving", mode' = "serving", release' = release,
         \A i \in Ids : Ledger!Grown(before.rows[i], before'.rows[i])
  PROVE  Ledger!Next
<1>1. visible = before.tables /\ visible' = before'.tables
  BY DEF visible
<1>2. visible # Ledger!Closed
  BY <1>1, ViewIs
<1>3. before'.rows \in Ledger!Rows
  BY SameWords DEF IInv, ShapeOK
<1>4. before'.tables = Ledger!Totals(release, before'.rows)
  <2>1. /\ before'.tables = [r \in Rollups |-> before'.tables[r]]
        /\ triggers' # 0 => \A r \in Rollups : before'.tables[r] = Aggregate(triggers', before'.rows, r)
        /\ triggers' = release' /\ triggers' # 0
    BY RollupAssumption DEF IInv, ShapeOK, Standing, Trusted
  <2>2. before'.tables = [r \in Rollups |-> Aggregate(release, before'.rows, r)]
    BY <2>1
  <2>3. ASSUME NEW rows
        PROVE  Ledger!Totals(release, rows) = [r \in Rollups |-> Aggregate(release, rows, r)]
    BY SameTotals
  <2>. QED BY <2>2, <2>3
<1>5. Ledger!Tell
  BY <1>1, <1>2, <1>3, <1>4 DEF Ledger!Tell, visible
<1>. QED BY <1>5 DEF Ledger!Next

\* Every step of the tables is a step of the ledger, or none.
LEMMA Refines == IInv /\ IInv' /\ Told /\ [Next]_vars => [Ledger!Next]_(Ledger!vars)
<1>. SUFFICES ASSUME IInv, IInv', Told, [Next]_vars PROVE Ledger!Next \/ UNCHANGED Ledger!vars
  OBVIOUS
<1>1. ASSUME before' = before, release' = release, mode' = mode PROVE UNCHANGED Ledger!vars
  BY <1>1 DEF Ledger!vars
<1>2. InsertGenerations \/ CreateToken \/ SeedToken \/ Rollback \/ UNCHANGED vars
        => before' = before /\ release' = release /\ mode' = mode
  BY DEF InsertGenerations, CreateToken, SeedToken, Rollback, Undone, vars, program
<1>3. ASSUME NEW g \in Telemetry, InsertGeneration(g)
      PROVE  before' = before /\ release' = release /\ mode' = mode
  BY <1>3 DEF InsertGeneration, WriteInside, program
<1>4. ASSUME NEW i \in Ids, ClaimRow(i)
      PROVE  before' = before /\ release' = release /\ mode' = mode
  BY <1>4 DEF ClaimRow, WriteInside, program
<1>5. ASSUME NEW i \in Ids, NEW e \in Estimates, ApplyPricing(i, e) PROVE Ledger!Next
  <2>. DEFINE old == data.rows[i]
              row == [old EXCEPT !.cost = e.cost, !.costSource = e.costSource]
  <2>1. /\ old # Absent /\ old.costSource # "harness" /\ txn = "none"
        /\ mode = "serving" /\ mode' = mode /\ release' = release
        /\ before' = data' /\ data'.rows = [data.rows EXCEPT ![i] = row]
    BY <1>5 DEF ApplyPricing, WriteAlone, Write, program
  <2>2. data = before /\ data.rows \in Rows
    BY <2>1 DEF IInv, Transaction, ShapeOK
  <2>3. old \in Row
    BY <2>1, <2>2 DEF Rows
  <2>4. Ledger!Grown(old, row)
    BY <2>1, <2>3, PriceGrows
  <2>. HIDE DEF row
  <2>5. ASSUME NEW j \in Ids
        PROVE  Ledger!Grown(before.rows[j], before'.rows[j])
    <3>1. before'.rows[j] = IF j = i THEN row ELSE before.rows[j]
      BY <2>1, <2>2 DEF Rows
    <3>2. CASE j = i
      BY <2>2, <2>4, <3>1, <3>2
    <3>3. CASE j # i
      BY <3>1, <3>3 DEF Ledger!Grown
    <3>. QED BY <3>2, <3>3
  <2>. QED BY <2>1, <2>5, TellsOrNothing
<1>6. ASSUME NEW i \in Ids, Delete(i) PROVE Ledger!Next
  <2>1. /\ data.rows[i] # Absent /\ txn = "none" /\ mode = "serving" /\ mode' = mode /\ release' = release
        /\ before' = data' /\ data'.rows = [data.rows EXCEPT ![i] = Absent]
    BY <1>6 DEF Delete, WriteAlone, Write, program
  <2>2. data = before
    BY <2>1 DEF IInv, Transaction
  <2>3. before'.tables = Ledger!Totals(release, before'.rows)
    <3>1. /\ before'.tables = [r \in Rollups |-> before'.tables[r]]
          /\ triggers' # 0 => \A r \in Rollups : before'.tables[r] = Aggregate(triggers', before'.rows, r)
          /\ triggers' = release' /\ triggers' # 0
      BY <2>1, RollupAssumption DEF IInv, ShapeOK, Standing, Trusted
    <3>2. before'.tables = [r \in Rollups |-> Aggregate(release, before'.rows, r)]
      BY <2>1, <3>1
    <3>3. ASSUME NEW rows
          PROVE  Ledger!Totals(release, rows) = [r \in Rollups |-> Aggregate(release, rows, r)]
      BY SameTotals
    <3>. QED BY <3>2, <3>3
  <2>4. Ledger!Strike(i)
    BY <2>1, <2>2, <2>3, ViewIs, SameWords DEF Ledger!Strike
  <2>. QED BY <2>4 DEF Ledger!Next
<1>7. CASE Commit
  <2>1. mode = "serving" /\ mode' = mode /\ release' = release /\ before' = data
    BY <1>7 DEF Commit, program, IInv, Transaction
  <2>. QED BY <2>1, TellsOrNothing DEF Told
<1>8. CASE Stop
  <2>1. before' = before /\ release' = release /\ mode' = "down"
    BY <1>8 DEF Stop, Undone
  <2>2. Ledger!Close
    BY <2>1 DEF Ledger!Close, Ledger!Closed
  <2>. QED BY <2>2 DEF Ledger!Next
<1>9. ASSUME NEW r \in Releases, Install(r) PROVE Ledger!Next
  <2>1. before' = before /\ release' \in Releases /\ mode = "down" /\ mode' = "down"
    BY <1>9 DEF Install
  <2>2. Ledger!Revise
    BY <2>1 DEF Ledger!Revise, Ledger!Closed
  <2>. QED BY <2>2 DEF Ledger!Next
<1>10. CASE Start \/ ApplyMigration
  <2>1. before' = before /\ release' = release /\ mode # "serving" /\ mode' # "serving"
    BY <1>10 DEF Start, ApplyMigration, program
  <2>. QED BY <2>1 DEF Ledger!vars
<1>11. CASE SyncRollup
  <2>1. mode = "migrating" /\ mode' = "serving" /\ release' = release /\ txn = "none"
    BY <1>11 DEF SyncRollup, IInv, Transaction
  <2>2. before'.rows = before.rows
    <3>1. data = before /\ data = [rows |-> data.rows, tables |-> data.tables]
      BY <2>1 DEF IInv, Transaction, ShapeOK
    <3>2. CASE InSync
      BY <1>11, <3>2 DEF SyncRollup
    <3>3. CASE ~InSync
      <4>1. before' = Rebuilt
        BY <1>11, <3>3 DEF SyncRollup
      <4>2. data \in [rows : {data.rows}, tables : {data.tables}]
        BY <3>1
      <4>3. Rebuilt.rows = data.rows
        BY <4>2 DEF Rebuilt
      <4>. QED BY <3>1, <4>1, <4>3
    <3>. QED BY <3>2, <3>3
  <2>3. before'.tables = Ledger!Totals(release, before.rows)
    <3>1. /\ before'.tables = [r \in Rollups |-> before'.tables[r]]
          /\ triggers' # 0 => \A r \in Rollups : before'.tables[r] = Aggregate(triggers', before'.rows, r)
          /\ triggers' = release' /\ triggers' # 0
      BY <2>1, RollupAssumption DEF IInv, ShapeOK, Standing, Trusted
    <3>2. before'.tables = [r \in Rollups |-> Aggregate(release, before.rows, r)]
      BY <2>1, <2>2, <3>1
    <3>3. ASSUME NEW rows
          PROVE  Ledger!Totals(release, rows) = [r \in Rollups |-> Aggregate(release, rows, r)]
      BY SameTotals
    <3>. QED BY <3>2, <3>3
  <2>4. Ledger!Open
    BY <2>1, <2>2, <2>3 DEF Ledger!Open, Ledger!Closed
  <2>. QED BY <2>4 DEF Ledger!Next
<1>. QED
  <2>1. CASE UNCHANGED vars
    BY <1>1, <1>2, <2>1
  <2>2. CASE Next
    BY <1>1, <1>2, <1>3, <1>4, <1>5, <1>6, <1>7, <1>8, <1>9, <1>10, <1>11, <2>2 DEF Next
  <2>. QED BY <2>1, <2>2

\* For every set of requests, keys and releases: readers of the tables see a
\* ledger. No request is forgotten by a batch, a price, a crash or another
\* release, and what is shown is at every step the total of what is stored.
THEOREM LedgerImplemented == Spec => ImplementsLedger
<1>1. Init => Told
  BY DEF Init, Told, Ledger!Grown
<1>2. Spec => []Told
  BY <1>1, StillTold, Invariance, PTL DEF Spec
<1>3. Init => Ledger!Init
  BY Initially, ViewIs, RollupAssumption DEF Init, Ledger!Init, Ledger!Closed
<1>4. Spec => Ledger!Spec
  BY <1>2, <1>3, Invariance, Refines, PTL DEF Spec, Ledger!Spec
<1>. QED BY <1>4 DEF ImplementsLedger

-----------------------------------------------------------------------------
(* Types.                                                                  *)

\* A group that GROUP BY makes is not empty and spans times of its day.
LEMMA GroupIsOK ==
  ASSUME NEW rows \in Rows, NEW e, NEW r, NEW key \in Keys(rows, r)
  PROVE  GroupOK(r, key, GroupOf(e, rows, r, key))
<1>. DEFINE M == Members(rows, r, key)
            g == GroupOf(e, rows, r, key)
            fact == FactsIn(e, rows)
<1>1. M # {} /\ IsFiniteSet(M) /\ \A j \in M : rows[j].ts \in Times /\ rows[j].ts \in Nat
  BY MembersAre, KeysAre
<1>2. ASSUME NEW j \in M
      PROVE  Day(rows[j].ts) = key.day
  <2>1. key = KeyOf(r, rows[j])
    BY DEF Members
  <2>2. CASE r = "usage_daily"
    BY <2>1, <2>2 DEF KeyOf
  <2>3. CASE r # "usage_daily"
    BY <2>1, <2>3 DEF KeyOf
  <2>. QED BY <2>2, <2>3
<1>3. Stands(g, M, e, r, rows, {})
  BY <1>1, GroupStands
<1>. HIDE DEF g, M, fact
<1>4. g.requests = Cardinality(M) /\ g.sums = Tally(M, fact)
  BY <1>3 DEF Stands, Counted, fact
<1>5. Cardinality(M) \in Nat \ {0}
  BY <1>1, FS_CardinalityType, FS_EmptySet
<1>6. ASSUME NEW f \in DOMAIN Tally(M, fact)
      PROVE  Tally(M, fact)[f] \in 1..Cardinality(M)
  <2>1. Tally(M, fact)[f] = Cardinality(Of(M, fact, f))
    BY DEF Tally
  <2>2. Cardinality(Of(M, fact, f)) \in Nat /\ Cardinality(Of(M, fact, f)) # 0
    BY <1>1, Occurrences
  <2>3. Of(M, fact, f) \subseteq M
    BY DEF Of
  <2>4. Cardinality(Of(M, fact, f)) <= Cardinality(M)
    BY <1>1, <2>3, FS_Subset
  <2>. QED BY <1>5, <2>1, <2>2, <2>4
<1>7. HasSpan(r) => /\ {g.first, g.last} \subseteq Times
                    /\ g.first <= g.last
                    /\ Day(g.first) = key.day /\ Day(g.last) = key.day
  <2>. SUFFICES ASSUME HasSpan(r)
                PROVE  /\ g.first \in Times /\ g.last \in Times /\ g.first <= g.last
                       /\ Day(g.first) = key.day /\ Day(g.last) = key.day
    OBVIOUS
  <2>1. PICK j \in M : g.first = rows[j].ts
    BY <1>3 DEF Stands, Spans
  <2>2. PICK l \in M : g.last = rows[l].ts
    BY <1>3 DEF Stands, Spans
  <2>3. g.first <= g.last
    BY <1>3, <2>2 DEF Stands, Spans
  <2>. QED BY <1>1, <1>2, <2>1, <2>2, <2>3
<1>. QED BY <1>4, <1>5, <1>6, <1>7 DEF GroupOK, g

\* Also while no trigger stands, the tables are some release's aggregates of
\* the rows, or were never filled.
Aggregated(d) ==
  \A r \in Rollups : DOMAIN d.tables[r] = {} \/ \E e : d.tables[r] = Aggregate(e, d.rows, r)

\* Nobody writes while no trigger stands.
LEMMA StaysAggregated ==
  IInv /\ IInv' /\ Aggregated(data) /\ Aggregated(before) /\ [Next]_vars
    => Aggregated(data)' /\ Aggregated(before)'
<1>. SUFFICES ASSUME IInv, IInv', Aggregated(data), Aggregated(before), [Next]_vars
              PROVE  Aggregated(data)' /\ Aggregated(before)'
  OBVIOUS
<1>1. CASE triggers' # 0
  BY <1>1 DEF IInv, Standing, Aggregated
<1>2. ASSUME data' \in {data, before}, before' \in {data, before}
      PROVE  Aggregated(data)' /\ Aggregated(before)'
  BY <1>2 DEF Aggregated
<1>3. \A i \in Ids : \A row : ~(WriteAlone(i, row) /\ triggers' = 0)
  BY RollupAssumption DEF WriteAlone, definition, IInv, Trusted
<1>4. ASSUME txn # "none" PROVE triggers # 0
  BY <1>4, RollupAssumption DEF IInv, Trusted, Transaction
<1>5. ASSUME NEW i \in Ids, NEW row, WriteInside(i, row) PROVE triggers' = triggers
  BY <1>5 DEF WriteInside, definition
<1>6. CASE triggers' = 0
  <2>1. ASSUME NEW g \in Telemetry PROVE ~InsertGeneration(g)
    <3>1. g.id \in Ids
      BY RollupAssumption
    <3>2. InsertGeneration(g) => txn # "none" /\ \E row : WriteInside(g.id, row)
      BY DEF InsertGeneration
    <3>. QED BY <1>4, <1>5, <1>6, <3>1, <3>2
  <2>2. ASSUME NEW i \in Ids PROVE ~ClaimRow(i)
    BY <1>4, <1>5, <1>6 DEF ClaimRow
  <2>3. ASSUME NEW i \in Ids, NEW e \in Estimates PROVE ~ApplyPricing(i, e)
    BY <1>3, <1>6 DEF ApplyPricing
  <2>4. ASSUME NEW i \in Ids PROVE ~Delete(i)
    BY <1>3, <1>6 DEF Delete
  <2>5. InsertGenerations \/ CreateToken \/ SeedToken \/ Commit \/ Rollback \/ Stop \/ Start
          \/ ApplyMigration \/ (\E r \in Releases : Install(r)) \/ UNCHANGED vars
          => data' \in {data, before} /\ before' \in {data, before}
    BY DEF InsertGenerations, CreateToken, SeedToken, Commit, Rollback, Stop, Undone, Start,
           ApplyMigration, Install, vars
  <2>6. SyncRollup => data' = data /\ before' = before
    BY <1>6, RollupAssumption DEF SyncRollup, IInv, Trusted
  <2>. QED BY <1>2, <2>1, <2>2, <2>3, <2>4, <2>5, <2>6 DEF Next
<1>. QED BY <1>1, <1>6

\* Types, and no empty group nor a span outside the group's day, whatever
\* the trigger chains of a transaction are at.
THEOREM TypeCorrect == Spec => []TypeOK
<1>. DEFINE Types == /\ txn \in {"none", "batch", "claim"} /\ schema \in Nat
                     /\ triggers \in Releases \cup {0} /\ built \in Releases \cup {0}
                     /\ mode \in {"down", "migrating", "serving"}
<1>1. Init => Types /\ Aggregated(data) /\ Aggregated(before)
  BY DEF Init, NoTables, Aggregated
<1>2. IInv /\ Types /\ [Next]_vars => Types'
  <2>. SUFFICES ASSUME IInv, Types, [Next]_vars PROVE Types'
    OBVIOUS
  <2>1. release \in Releases
    BY DEF IInv, Trusted
  <2>2. CASE UNCHANGED vars
    BY <2>2 DEF vars, definition, program
  <2>3. CASE Next
    <3>1. ASSUME NEW i \in Ids, NEW row, WriteInside(i, row) \/ WriteAlone(i, row) PROVE Types'
      BY <3>1 DEF WriteInside, WriteAlone, definition, program
    <3>2. ASSUME NEW g \in Telemetry, InsertGeneration(g) PROVE Types'
      <4>1. g.id \in Ids
        BY RollupAssumption
      <4>2. \E row : WriteInside(g.id, row)
        BY <3>2 DEF InsertGeneration
      <4>. HIDE DEF Types
      <4>. QED BY <3>1, <4>1, <4>2
    <3>3. ASSUME NEW i \in Ids, NEW e \in Estimates, ApplyPricing(i, e) PROVE Types'
      BY <3>1, <3>3 DEF ApplyPricing
    <3>4. ASSUME NEW i \in Ids, Delete(i) PROVE Types'
      BY <3>1, <3>4 DEF Delete
    <3>5. ASSUME NEW i \in Ids, ClaimRow(i) PROVE Types'
      BY <3>1, <3>5 DEF ClaimRow
    <3>6. CASE InsertGenerations \/ CreateToken \/ SeedToken \/ Commit \/ Rollback
      BY <3>6 DEF InsertGenerations, CreateToken, SeedToken, Commit, Rollback, Undone, definition, program
    <3>7. CASE Stop \/ Start \/ \E r \in Releases : Install(r)
      BY <3>7 DEF Stop, Start, Undone, Install, definition
    <3>8. CASE ApplyMigration
      BY <3>8 DEF ApplyMigration, program
    <3>9. CASE SyncRollup
      BY <2>1, <3>9 DEF SyncRollup
    <3>. QED BY <2>3, <3>2, <3>3, <3>4, <3>5, <3>6, <3>7, <3>8, <3>9 DEF Next
  <2>. QED BY <2>2, <2>3
<1>3. ASSUME NEW d, ShapeOK(d), Aggregated(d) PROVE DataOK(d)
  <2>1. d.rows \in Rows /\ DOMAIN d.tables = Rollups
    BY <1>3 DEF ShapeOK
  <2>2. ASSUME NEW r \in Rollups, NEW key \in DOMAIN d.tables[r]
        PROVE  GroupOK(r, key, d.tables[r][key])
    <3>1. PICK e : d.tables[r] = Aggregate(e, d.rows, r)
      BY <1>3, <2>2 DEF Aggregated
    <3>2. key \in Keys(d.rows, r) /\ d.tables[r][key] = GroupOf(e, d.rows, r, key)
      BY <2>2, <3>1 DEF Aggregate, Keys
    <3>. QED BY <2>1, <3>2, GroupIsOK
  <2>. QED BY <2>1, <2>2 DEF DataOK
<1>4. IInv /\ Types /\ Aggregated(data) /\ Aggregated(before) => TypeOK
  <2>. SUFFICES ASSUME IInv, Types, Aggregated(data), Aggregated(before) PROVE TypeOK
    OBVIOUS
  <2>1. DataOK(data) /\ DataOK(before)
    BY <1>3 DEF IInv
  <2>. QED BY <2>1 DEF TypeOK, IInv, Trusted, Transaction
<1>. HIDE DEF Types
<1>. QED BY <1>1, <1>2, <1>4, Invariance, StaysAggregated, PTL DEF Spec

-----------------------------------------------------------------------------
(* Sums.  SumOf folds over the subsets of a set; a function that satisfies *)
(* the equations of the fold is that fold.                                 *)

\* g takes measure m over the subsets of S.
SumsUp(g, S, m) ==
  g = [s \in SUBSET S |-> IF s = {} THEN 0
                          ELSE m[CHOOSE x \in s : TRUE] + g[s \ {CHOOSE x \in s : TRUE}]]

\* Only one function does.
LEMMA OneSum ==
  ASSUME NEW S, IsFiniteSet(S), NEW m, NEW g, SumsUp(g, S, m), NEW h, SumsUp(h, S, m)
  PROVE  g[S] = h[S]
<1>. DEFINE pick(s) == CHOOSE x \in s : TRUE
            Differ == {s \in SUBSET S : g[s] # h[s]}
<1>1. \A s \in SUBSET S : s # {} => pick(s) \in s
  OBVIOUS
<1>. HIDE DEF pick
<1>2. \A s \in SUBSET S : /\ g[s] = IF s = {} THEN 0 ELSE m[pick(s)] + g[s \ {pick(s)}]
                          /\ h[s] = IF s = {} THEN 0 ELSE m[pick(s)] + h[s \ {pick(s)}]
  BY Zenon DEF SumsUp, pick
<1>3. IsWellFoundedOn(StrictSubsetOrdering(S), FiniteSubsetsOf(S))
  BY FS_StrictSubsetOrderingWellFounded
<1>4. Differ \subseteq FiniteSubsetsOf(S)
  BY FS_Subset DEF FiniteSubsetsOf
<1>5. ASSUME Differ # {} PROVE FALSE
  <2>1. PICK s \in Differ : \A t \in Differ : ~ (<<t, s>> \in StrictSubsetOrdering(S))
    <3>. HIDE DEF Differ
    <3>. QED BY <1>3, <1>4, <1>5, WFMin
  <2>2. s # {}
    BY <1>2
  <2>3. g[s \ {pick(s)}] # h[s \ {pick(s)}]
    BY <1>2, <2>2
  <2>4. s \ {pick(s)} \in Differ /\ s \ {pick(s)} # s
    BY <1>1, <2>2, <2>3
  <2>5. <<s \ {pick(s)}, s>> \in StrictSubsetOrdering(S)
    BY <2>4 DEF StrictSubsetOrdering
  <2>. QED BY <2>1, <2>4, <2>5
<1>. QED BY <1>5

\* A measure that counts parts which do not overlap sums up to the whole.
Covered(S, part) == UNION {part[x] : x \in S}
Apart(S, part)   == \A x, y \in S : x # y => part[x] \cap part[y] = {}

LEMMA SumOfParts ==
  ASSUME NEW S, NEW T, IsFiniteSet(T), NEW part \in [S -> SUBSET T],
         Apart(S, part), NEW m, \A x \in S : m[x] = Cardinality(part[x])
  PROVE  \E g : SumsUp(g, S, m) /\ g[S] = Cardinality(Covered(S, part))
<1>. DEFINE pick(s) == CHOOSE x \in s : TRUE
            all(s) == UNION {part[x] : x \in s}
            g == [s \in SUBSET S |-> Cardinality(all(s))]
<1>1. \A s \in SUBSET S : s # {} => pick(s) \in s
  OBVIOUS
<1>. HIDE DEF pick
<1>2. ASSUME NEW s \in SUBSET S, NEW x \in s
      PROVE  Cardinality(all(s)) = m[x] + Cardinality(all(s \ {x}))
  <2>1. all(s) = part[x] \cup all(s \ {x}) /\ part[x] \cap all(s \ {x}) = {}
    <3>1. \A y \in s \ {x} : part[x] \cap part[y] = {}
      BY DEF Apart
    <3>. QED BY <3>1
  <2>2. IsFiniteSet(part[x]) /\ IsFiniteSet(all(s \ {x}))
    <3>1. part[x] \subseteq T /\ all(s \ {x}) \subseteq T
      OBVIOUS
    <3>. HIDE DEF all
    <3>. QED BY <3>1, FS_Subset
  <2>3. m[x] = Cardinality(part[x])
    OBVIOUS
  <2>. HIDE DEF all
  <2>4. Cardinality(all(s)) = Cardinality(part[x]) + Cardinality(all(s \ {x})) - Cardinality({})
    <3>. DEFINE one == part[x]
                rest == all(s \ {x})
    <3>. HIDE DEF one, rest
    <3>1. Cardinality(one \cup rest) = Cardinality(one) + Cardinality(rest) - Cardinality(one \cap rest)
      BY <2>2, FS_Union DEF one, rest
    <3>. QED BY <2>1, <3>1 DEF one, rest
  <2>5. Cardinality({}) = 0 /\ Cardinality(part[x]) \in Nat /\ Cardinality(all(s \ {x})) \in Nat
    BY <2>2, FS_EmptySet, FS_CardinalityType
  <2>. QED BY <2>3, <2>4, <2>5
<1>3. Cardinality(all({})) = 0
  <2>1. all({}) = {}
    OBVIOUS
  <2>. QED BY <2>1, FS_EmptySet
<1>4. SumsUp(g, S, m)
  <2>1. \A s \in SUBSET S : g[s] = Cardinality(all(s))
    OBVIOUS
  <2>. HIDE DEF all
  <2>2. ASSUME NEW s \in SUBSET S
        PROVE  Cardinality(all(s)) = IF s = {} THEN 0 ELSE m[pick(s)] + g[s \ {pick(s)}]
    <3>1. CASE s = {}
      BY <1>3, <3>1
    <3>2. CASE s # {}
      <4>1. s \ {pick(s)} \in SUBSET S /\ pick(s) \in s
        BY <1>1, <3>2
      <4>. QED BY <1>2, <2>1, <3>2, <4>1
    <3>. QED BY <3>1, <3>2
  <2>3. g = [s \in SUBSET S |-> IF s = {} THEN 0 ELSE m[pick(s)] + g[s \ {pick(s)}]]
    BY <2>2
  <2>. QED BY <2>3, Zenon DEF SumsUp, pick
<1>. HIDE DEF all
<1>5. g[S] = Cardinality(all(S))
  OBVIOUS
<1>6. all(S) = Covered(S, part)
  BY DEF all, Covered
<1>. HIDE DEF g
<1>. QED BY <1>4, <1>5, <1>6

\* What Totals adds up: the requests of a fact, and how often it has x.
LEMMA RequestsSum ==
  ASSUME NEW facts, IsFiniteSet(facts), NEW g, SumsUp(g, facts, [y \in facts |-> y.requests])
  PROVE  SumOf(facts, LAMBDA y : y.requests) = g[facts]
<1>. DEFINE m == [y \in facts |-> y.requests]
            Rec(h) == h = [s \in SUBSET facts |->
                        IF s = {} THEN 0
                        ELSE (CHOOSE x \in s : TRUE).requests + h[s \ {CHOOSE x \in s : TRUE}]]
            fold == CHOOSE h : Rec(h)
<1>1. SumOf(facts, LAMBDA y : y.requests) = fold[facts]
  BY DEF SumOf, MapThenSumSet, MapThenFoldSet
<1>2. \A s \in SUBSET facts : s # {} => m[CHOOSE x \in s : TRUE] = (CHOOSE x \in s : TRUE).requests
  OBVIOUS
<1>3. \A h : SumsUp(h, facts, m) <=> Rec(h)
  BY <1>2 DEF SumsUp
<1>4. SumsUp(fold, facts, m)
  <2>1. SumsUp(g, facts, m)
    OBVIOUS
  <2>. HIDE DEF Rec, m
  <2>2. Rec(g)
    BY <1>3, <2>1
  <2>3. Rec(fold)
    BY <2>2, Zenon
  <2>. QED BY <1>3, <2>3
<1>. HIDE DEF fold
<1>. QED BY <1>1, <1>4, OneSum

LEMMA MultiplicitiesSum ==
  ASSUME NEW facts, IsFiniteSet(facts), NEW x, NEW g,
         SumsUp(g, facts, [y \in facts |-> Multiplicity(y.sums, x)])
  PROVE  SumOf(facts, LAMBDA y : Multiplicity(y.sums, x)) = g[facts]
<1>. DEFINE m == [y \in facts |-> Multiplicity(y.sums, x)]
            Rec(h) == h = [s \in SUBSET facts |->
                        IF s = {} THEN 0
                        ELSE Multiplicity((CHOOSE z \in s : TRUE).sums, x) + h[s \ {CHOOSE z \in s : TRUE}]]
            fold == CHOOSE h : Rec(h)
<1>1. SumOf(facts, LAMBDA y : Multiplicity(y.sums, x)) = fold[facts]
  BY DEF SumOf, MapThenSumSet, MapThenFoldSet
<1>2. \A s \in SUBSET facts : s # {} =>
        m[CHOOSE z \in s : TRUE] = Multiplicity((CHOOSE z \in s : TRUE).sums, x)
  OBVIOUS
<1>3. \A h : SumsUp(h, facts, m) <=> Rec(h)
  BY <1>2 DEF SumsUp
<1>4. SumsUp(fold, facts, m)
  <2>1. SumsUp(g, facts, m)
    OBVIOUS
  <2>. HIDE DEF Rec, m
  <2>2. Rec(g)
    BY <1>3, <2>1
  <2>3. Rec(fold)
    BY <2>2, Zenon
  <2>. QED BY <1>3, <2>3
<1>. HIDE DEF fold
<1>. QED BY <1>1, <1>4, OneSum

-----------------------------------------------------------------------------
(* The split of a range into whole days and the rest.                      *)

\* Multiples of the day.
LEMMA DaysAre ==
  ASSUME NEW t \in Int
  PROVE  /\ t \div DayLength \in Int /\ t % DayLength \in 0..(DayLength - 1)
         /\ t = DayLength * (t \div DayLength) + (t % DayLength)
         /\ Day(t) = DayLength * (t \div DayLength)
<1>1. DayLength \in Nat /\ DayLength > 0
  BY FactsAssumption
<1>2. /\ t \div DayLength \in Int /\ t % DayLength \in 0..(DayLength - 1)
      /\ t = DayLength * (t \div DayLength) + (t % DayLength)
  BY <1>1
<1>3. \A q \in Int : q * DayLength = DayLength * q
  BY <1>1
<1>. QED BY <1>2, <1>3 DEF Day

LEMMA Multiples ==
  ASSUME NEW a \in Int, NEW b \in Int, DayLength * a < DayLength * b + DayLength
  PROVE  a <= b
<1>1. DayLength \in Nat /\ DayLength > 0
  BY FactsAssumption
<1>2. CASE a >= b + 1
  <2>1. DayLength * a >= DayLength * (b + 1)
    BY <1>1, <1>2
  <2>2. DayLength * (b + 1) = DayLength * b + DayLength
    BY <1>1
  <2>. QED BY <1>1, <2>1, <2>2
<1>. QED BY <1>2

\* A day begins and ends at a multiple, so a time and its day are on the same
\* side of each.
LEMMA SameSide ==
  ASSUME NEW t \in Int, NEW w \in Int
  PROVE  /\ DayLength * w <= t <=> DayLength * w <= Day(t)
         /\ t < DayLength * w <=> Day(t) < DayLength * w
<1>. DEFINE q == t \div DayLength
<1>1. DayLength \in Nat /\ DayLength > 0 /\ DayLength * w \in Int
  BY FactsAssumption
<1>2. q \in Int /\ Day(t) = DayLength * q /\ Day(t) \in Int /\ Day(t) <= t /\ t < Day(t) + DayLength
  BY <1>1, DaysAre
<1>. HIDE DEF q
<1>3. DayLength * w <= t => DayLength * w <= Day(t)
  <2>. SUFFICES ASSUME DayLength * w <= t PROVE DayLength * w <= Day(t)
    OBVIOUS
  <2>1. DayLength * w < DayLength * q + DayLength
    BY <1>1, <1>2
  <2>2. w <= q
    BY <2>1, <1>2, Multiples
  <2>3. DayLength * w <= DayLength * q
    BY <1>1, <1>2, <2>2
  <2>. QED BY <1>2, <2>3
<1>4. DayLength * w <= Day(t) => DayLength * w <= t
  BY <1>1, <1>2
<1>. QED BY <1>1, <1>2, <1>3, <1>4

Bounds(f) == f.from \in Int \cup {Nil} /\ f.to \in Int

\* The whole days lie in the range.
LEMMA WholeDays ==
  ASSUME NEW f, Bounds(f)
  PROVE  /\ \E w \in Int : WholeFrom(f) = DayLength * w
         /\ \E w \in Int : WholeTo(f) = DayLength * w
         /\ f.from # Nil => f.from <= WholeFrom(f)
         /\ WholeTo(f) <= f.to
<1>1. DayLength \in Nat /\ DayLength > 0
  BY FactsAssumption
<1>2. (\E w \in Int : WholeTo(f) = DayLength * w) /\ WholeTo(f) <= f.to
  <2>. DEFINE q == f.to \div DayLength
              p == f.to % DayLength
  <2>1. f.to \in Int /\ q \in Int /\ p \in 0..(DayLength - 1) /\ f.to = DayLength * q + p
    BY DaysAre DEF Bounds
  <2>2. WholeTo(f) = f.to - p
    BY DEF WholeTo
  <2>. HIDE DEF p, q
  <2>3. DayLength * q \in Int
    BY <1>1, <2>1
  <2>4. WholeTo(f) = DayLength * q /\ WholeTo(f) <= f.to
    BY <1>1, <2>1, <2>2, <2>3
  <2>. QED BY <2>1, <2>4
<1>3. (\E w \in Int : WholeFrom(f) = DayLength * w) /\ (f.from # Nil => f.from <= WholeFrom(f))
  <2>1. CASE f.from = Nil
    <3>1. WholeFrom(f) = 0 /\ DayLength * 0 = 0
      BY <1>1, <2>1 DEF WholeFrom
    <3>. QED BY <2>1, <3>1
  <2>2. CASE f.from # Nil
    <3>. DEFINE q == f.from \div DayLength
                p == f.from % DayLength
    <3>1. f.from \in Int /\ q \in Int /\ p \in 0..(DayLength - 1) /\ f.from = DayLength * q + p
      BY <2>2, DaysAre DEF Bounds
    <3>2. WholeFrom(f) = f.from + ((DayLength - p) % DayLength)
      BY <2>2 DEF WholeFrom
    <3>. HIDE DEF p, q
    <3>3. CASE p = 0
      <4>1. (DayLength - p) % DayLength = 0
        BY <1>1, <3>3
      <4>. QED BY <1>1, <3>1, <3>2, <3>3, <4>1
    <3>4. CASE p # 0
      <4>1. DayLength - p \in 1..(DayLength - 1)
        BY <1>1, <3>1, <3>4
      <4>2. (DayLength - p) % DayLength = DayLength - p
        BY <1>1, <4>1
      <4>3. DayLength * (q + 1) = DayLength * q + DayLength
        BY <1>1, <3>1
      <4>4. WholeFrom(f) = DayLength * (q + 1) /\ f.from <= WholeFrom(f)
        BY <1>1, <3>1, <3>2, <4>1, <4>2, <4>3
      <4>. QED BY <3>1, <4>4
    <3>. QED BY <3>3, <3>4
  <2>. QED BY <2>1, <2>2
<1>. QED BY <1>2, <1>3

WholeDay(f, day) == WholeFrom(f) <= day /\ day < WholeTo(f)

\* A time is in a whole day exactly when its day is, and then in the range.
LEMMA WholeTimes ==
  ASSUME NEW f, Bounds(f), NEW t \in Nat
  PROVE  /\ WholeDay(f, t) <=> WholeDay(f, Day(t))
         /\ WholeDay(f, t) => t < f.to /\ (f.from # Nil => t >= f.from)
<1>1. PICK v \in Int : WholeFrom(f) = DayLength * v
  BY WholeDays
<1>2. PICK w \in Int : WholeTo(f) = DayLength * w
  BY WholeDays
<1>3. WholeDay(f, t) <=> WholeDay(f, Day(t))
  BY <1>1, <1>2, SameSide DEF WholeDay
<1>4. WholeFrom(f) \in Int /\ WholeTo(f) \in Int
  BY <1>1, <1>2, FactsAssumption
<1>5. WholeDay(f, t) => t < f.to /\ (f.from # Nil => t >= f.from)
  BY <1>4, WholeDays DEF WholeDay, Bounds
<1>. QED BY <1>3, <1>5

\* A request's key has its day and the dimensions it is filtered by.
LEMMA KeyHas ==
  ASSUME NEW r \in Rollups, NEW row, NEW f
  PROVE  /\ KeyOf(r, row).day = Day(row.ts)
         /\ InDims(f, KeyOf("usage_daily", row)) <=> InDims(f, KeyOf(r, row))
<1>1. CASE r = "usage_daily"
  BY <1>1 DEF KeyOf
<1>2. CASE r = "conversation_daily"
  <2>1. LET a == KeyOf("usage_daily", row)
            b == KeyOf(r, row)
        IN  a.source = b.source /\ a.model = b.model /\ a.token = b.token
    BY <1>2 DEF KeyOf
  <2>2. KeyOf(r, row).day = Day(row.ts)
    BY <1>2 DEF KeyOf
  <2>. QED BY <2>1, <2>2 DEF InDims
<1>. QED BY <1>1, <1>2 DEF Rollups

\* Times without the ones between the first and the last.
LEMMA SameEnds ==
  ASSUME NEW M, IsFiniteSet(M), NEW at \in [M -> Nat], NEW all, all = {at[i] : i \in M}, NEW some \in SUBSET all
  PROVE  /\ (\A t \in all : \E u \in some : u <= t) => Least(some) = Least(all)
         /\ (\A t \in all : \E u \in some : u >= t) => Greatest(some) = Greatest(all)
<1>1. all \in SUBSET Nat /\ some \in SUBSET Nat
  OBVIOUS
<1>2. CASE M = {}
  BY <1>2
<1>3. CASE M # {}
  <2>1. PICK j \in M : \A k \in M : at[j] <= at[k]
    BY <1>3, ExtremesExist
  <2>2. PICK l \in M : \A k \in M : at[l] >= at[k]
    BY <1>3, ExtremesExist
  <2>3. ASSUME \A t \in all : \E u \in some : u <= t PROVE Least(some) = Least(all)
    <3>1. at[j] \in all /\ \A t \in all : at[j] <= t
      BY <2>1
    <3>2. at[j] \in some /\ \A t \in some : at[j] <= t
      BY <1>1, <2>3, <3>1
    <3>. QED BY <1>1, <3>1, <3>2, LeastIs
  <2>4. ASSUME \A t \in all : \E u \in some : u >= t PROVE Greatest(some) = Greatest(all)
    <3>1. at[l] \in all /\ \A t \in all : at[l] >= t
      BY <2>2
    <3>2. at[l] \in some /\ \A t \in some : at[l] >= t
      BY <1>1, <2>4, <3>1
    <3>. QED BY <1>1, <3>1, <3>2, GreatestIs
  <2>. QED BY <2>3, <2>4
<1>. QED BY <1>2, <1>3

-----------------------------------------------------------------------------
(* The facts that a query joins, and the requests they stand for.          *)

\* The fact of one request, and of one group.
RawFact(e, d, r, i, hourly) ==
  [of |-> {i}, bucket |-> IF hourly THEN Hour(d.rows[i].ts) ELSE Day(d.rows[i].ts), key |-> KeyOf(r, d.rows[i]),
   requests |-> 1, sums |-> [y \in {Facts(e, d.rows[i])} |-> 1], first |-> d.rows[i].ts, last |-> d.rows[i].ts]
RolledFact(g, k) ==
  [of |-> {}, bucket |-> k.day, key |-> k, requests |-> g.requests, sums |-> g.sums,
   first |-> g.first, last |-> g.last]

\* The groups of whole days that factsSQL reads, and the requests of the rest.
WholeKeys(d, r, f) == {k \in Keys(d.rows, r) : WholeDay(f, k.day) /\ InDims(f, k)}
Partial(d, f)      == {i \in Selected(d, f) : ~WholeDay(f, d.rows[i].ts)}

FactsOf(e, d, r, M, hourly)  == {RawFact(e, d, r, i, hourly) : i \in M}
Rolled(d, r, f)      == {RolledFact(d.tables[r][k], k) : k \in WholeKeys(d, r, f)}
Joined(e, d, r, f) ==
  IF f.conv = Nil THEN FactsOf(e, d, r, Partial(d, f), FALSE) \cup Rolled(d, r, f)
                  ELSE FactsOf(e, d, r, Selected(d, f), FALSE)

LEMMA RawFactsAre ==
  ASSUME NEW e, NEW d, NEW r, NEW M, NEW hourly
  PROVE  RawFacts(e, d, r, M, hourly) = FactsOf(e, d, r, M, hourly)
BY DEF RawFacts, RawFact, FactsOf

LEMMA QueryFactsAre ==
  ASSUME NEW e, NEW d, NEW r, NEW f, DOMAIN d.tables[r] = Keys(d.rows, r)
  PROVE  QueryFacts(e, d, r, f, FALSE) = Joined(e, d, r, f)
<1>1. CASE f.conv = Nil
  <2>1. QueryFacts(e, d, r, f, FALSE) = RawFacts(e, d, r, Partial(d, f), FALSE) \cup RolledFacts(d, r, f)
    BY <1>1 DEF QueryFacts, Partial, WholeDay
  <2>2. RolledFacts(d, r, f) = Rolled(d, r, f)
    BY DEF RolledFacts, RolledFact, Rolled, WholeKeys, WholeDay
  <2>. QED BY <1>1, <2>1, <2>2, RawFactsAre DEF Joined
<1>2. CASE f.conv # Nil
  <2>1. QueryFacts(e, d, r, f, FALSE) = RawFacts(e, d, r, Selected(d, f), FALSE) \cup {}
    BY <1>2 DEF QueryFacts
  <2>. QED BY <1>2, <2>1, RawFactsAre DEF Joined
<1>. QED BY <1>1, <1>2

RowsOf(d, r, x) == IF x.of = {} THEN Members(d.rows, r, x.key) ELSE x.of

\* A fact that says of some requests with its key what they add up to.
SpeaksFor(x, N, e, d, r) ==
  /\ N # {} /\ \A i \in N : KeyOf(r, d.rows[i]) = x.key
  /\ x.requests = Cardinality(N) /\ x.sums = Tally(N, FactsIn(e, d.rows))
  /\ HasSpan(r) => /\ \A i \in N : x.first <= d.rows[i].ts /\ d.rows[i].ts <= x.last
                   /\ \E i \in N : x.first = d.rows[i].ts
                   /\ \E i \in N : x.last = d.rows[i].ts

\* Facts that account for each of the requests M once.
Accounts(facts, M, e, d, r) ==
  /\ \A x \in facts : RowsOf(d, r, x) \in SUBSET M /\ SpeaksFor(x, RowsOf(d, r, x), e, d, r)
  /\ \A x, y \in facts : x # y => RowsOf(d, r, x) \cap RowsOf(d, r, y) = {}
  /\ \A i \in M : \E x \in facts : i \in RowsOf(d, r, x)

\* The facts of the requests do ...
LEMMA RawAccounts ==
  ASSUME NEW e, NEW d, d.rows \in Rows, NEW r \in Rollups, NEW M \in SUBSET Stored(d.rows), NEW hourly
  PROVE  Accounts(FactsOf(e, d, r, M, hourly), M, e, d, r)
<1>1. ASSUME NEW i \in M
      PROVE  /\ RowsOf(d, r, RawFact(e, d, r, i, hourly)) = {i}
             /\ SpeaksFor(RawFact(e, d, r, i, hourly), {i}, e, d, r)
  <2>. DEFINE x == RawFact(e, d, r, i, hourly)
              fact == FactsIn(e, d.rows)
  <2>1. i \in Ids /\ d.rows[i].ts \in Nat
    BY FactsAssumption DEF Stored, Rows, Row
  <2>2. RowsOf(d, r, x) = {i}
    BY DEF RowsOf, RawFact
  <2>3. /\ x.key = KeyOf(r, d.rows[i]) /\ x.requests = 1
        /\ x.first = d.rows[i].ts /\ x.last = d.rows[i].ts
    BY DEF RawFact
  <2>4. x.sums = Tally({i}, fact)
    <3>1. x.sums = [y \in {fact[i]} |-> 1]
      BY <2>1 DEF RawFact, FactsIn
    <3>. HIDE DEF fact, x
    <3>2. Of({i}, fact, fact[i]) = {i}
      BY DEF Of
    <3>3. Tally({i}, fact) = [y \in {fact[i]} |-> 1]
      BY <3>2, FS_Singleton DEF Tally
    <3>. QED BY <3>1, <3>3
  <2>5. KeyOf(r, d.rows[i]).day = Day(d.rows[i].ts)
    BY KeyHas
  <2>6. Cardinality({i}) = 1
    BY FS_Singleton
  <2>. HIDE DEF x, fact
  <2>7. SpeaksFor(x, {i}, e, d, r)
    BY <2>1, <2>3, <2>4, <2>5, <2>6 DEF SpeaksFor, fact
  <2>. QED BY <2>2, <2>7 DEF x
<1>. DEFINE raw == [i \in M |-> RawFact(e, d, r, i, hourly)]
            facts == {raw[i] : i \in M}
<1>2. FactsOf(e, d, r, M, hourly) = facts
  BY DEF FactsOf
<1>3. \A i \in M : RowsOf(d, r, raw[i]) = {i} /\ SpeaksFor(raw[i], {i}, e, d, r)
  BY <1>1
<1>. HIDE DEF raw
<1>4. ASSUME NEW x \in facts
      PROVE  RowsOf(d, r, x) \in SUBSET M /\ SpeaksFor(x, RowsOf(d, r, x), e, d, r)
  <2>1. PICK i \in M : x = raw[i]
    OBVIOUS
  <2>. QED BY <1>3, <2>1
<1>5. ASSUME NEW x \in facts, NEW y \in facts, x # y
      PROVE  RowsOf(d, r, x) \cap RowsOf(d, r, y) = {}
  <2>1. PICK i \in M, j \in M : x = raw[i] /\ y = raw[j]
    OBVIOUS
  <2>2. i # j /\ RowsOf(d, r, x) = {i} /\ RowsOf(d, r, y) = {j}
    BY <1>3, <1>5, <2>1
  <2>. QED BY <2>2
<1>6. \A i \in M : \E x \in facts : i \in RowsOf(d, r, x)
  BY <1>3
<1>. HIDE DEF facts
<1>. QED BY <1>2, <1>4, <1>5, <1>6 DEF Accounts

\* A group of a whole day has all its requests selected, and they are those of
\* the whole days.
LEMMA WholeSelected ==
  ASSUME NEW d, d.rows \in Rows, NEW r \in Rollups, NEW f, Bounds(f), f.conv = Nil,
         NEW k, NEW i \in Members(d.rows, r, k)
  PROVE  /\ k \in WholeKeys(d, r, f) => i \in Selected(d, f)
         /\ i \in Selected(d, f) => (WholeDay(f, d.rows[i].ts) <=> k \in WholeKeys(d, r, f))
         /\ k \in WholeKeys(d, r, f) => WholeDay(f, d.rows[i].ts)
<1>. DEFINE row == d.rows[i]
<1>1. i \in Stored(d.rows) /\ row \in Row /\ row.ts \in Nat /\ KeyOf(r, row) = k
  BY FactsAssumption DEF Members, Stored, Rows, Row
<1>. HIDE DEF row
<1>2. InConversation(f, row)
  BY ReaderAssumption DEF InConversation, Sentinels
<1>3. k.day = Day(row.ts) /\ (InDims(f, KeyOf("usage_daily", row)) <=> InDims(f, k))
  BY <1>1, KeyHas
<1>4. Selects(f, row) <=> /\ f.from # Nil => row.ts >= f.from
                          /\ row.ts < f.to
                          /\ InDims(f, k)
  BY <1>2, <1>3 DEF Selects
<1>5. /\ WholeDay(f, row.ts) <=> WholeDay(f, k.day)
      /\ WholeDay(f, row.ts) => row.ts < f.to /\ (f.from # Nil => row.ts >= f.from)
  BY <1>1, <1>3, WholeTimes
<1>6. k \in Keys(d.rows, r)
  BY <1>1 DEF Keys, row
<1>. QED BY <1>1, <1>4, <1>5, <1>6 DEF Selected, WholeKeys, row

\* ... and so do those that are joined.
LEMMA JoinedAccounts ==
  ASSUME NEW e, NEW d, d.rows \in Rows, NEW r \in Rollups, d.tables[r] = Aggregate(e, d.rows, r),
         NEW f, Bounds(f)
  PROVE  Accounts(Joined(e, d, r, f), Selected(d, f), e, d, r)
<1>. DEFINE M == Selected(d, f)
            P == Partial(d, f)
            W == WholeKeys(d, r, f)
            one(k) == RolledFact(d.tables[r][k], k)
<1>1. M \in SUBSET Stored(d.rows) /\ P \in SUBSET M
  BY DEF Selected, Partial
<1>2. CASE f.conv # Nil
  BY <1>1, <1>2, RawAccounts DEF Joined
<1>3. CASE f.conv = Nil
  <2>1. Accounts(FactsOf(e, d, r, P, FALSE), P, e, d, r)
    BY <1>1, RawAccounts
  <2>2. ASSUME NEW k \in W
        PROVE  /\ RowsOf(d, r, one(k)) = Members(d.rows, r, k)
               /\ Members(d.rows, r, k) \in SUBSET M
               /\ SpeaksFor(one(k), Members(d.rows, r, k), e, d, r)
    <3>. DEFINE g == d.tables[r][k]
                N == Members(d.rows, r, k)
    <3>1. k \in Keys(d.rows, r) /\ N # {}
      BY KeysAre DEF WholeKeys
    <3>2. g = GroupOf(e, d.rows, r, k)
      BY <3>1 DEF Aggregate, Keys
    <3>3. Stands(g, N, e, r, d.rows, {})
      BY <3>1, <3>2, GroupStands
    <3>4. N \in SUBSET M
      BY <1>3, WholeSelected
    <3>5. RowsOf(d, r, one(k)) = N
      BY DEF RowsOf, RolledFact
    <3>6. /\ one(k).key = k /\ one(k).bucket = k.day /\ one(k).requests = g.requests
          /\ one(k).sums = g.sums /\ one(k).first = g.first /\ one(k).last = g.last
      BY DEF RolledFact
    <3>7. \A i \in N : KeyOf(r, d.rows[i]) = k
      BY DEF Members
    <3>. HIDE DEF g, N, one
    <3>8. g.requests = Cardinality(N) /\ g.sums = Tally(N, FactsIn(e, d.rows))
      BY <3>3 DEF Stands, Counted
    <3>9. HasSpan(r) => /\ \A i \in N : g.first <= d.rows[i].ts /\ d.rows[i].ts <= g.last
                        /\ \E i \in N : g.first = d.rows[i].ts
                        /\ \E i \in N : g.last = d.rows[i].ts
      BY <3>3 DEF Stands, Spans
    <3>10. SpeaksFor(one(k), N, e, d, r)
      BY <3>1, <3>6, <3>7, <3>8, <3>9 DEF SpeaksFor
    <3>. QED BY <3>4, <3>5, <3>10 DEF N
  <2>3. \A k \in W, i \in P : i \notin Members(d.rows, r, k)
    BY <1>3, WholeSelected DEF Partial
  <2>4. \A k, l : k # l => Members(d.rows, r, k) \cap Members(d.rows, r, l) = {}
    BY DEF Members
  <2>5. ASSUME NEW i \in M, i \notin P
        PROVE  \E k \in W : i \in Members(d.rows, r, k)
    <3>1. i \in Members(d.rows, r, KeyOf(r, d.rows[i])) /\ WholeDay(f, d.rows[i].ts)
      BY <1>1, <2>5 DEF Members, Partial
    <3>. QED BY <1>3, <3>1, WholeSelected
  <2>. DEFINE raw == FactsOf(e, d, r, P, FALSE)
              rolled == {one(k) : k \in W}
  <2>6. Joined(e, d, r, f) = raw \cup rolled
    BY <1>3 DEF Joined, Rolled
  <2>. HIDE DEF M, P, W, one, raw
  <2>7. ASSUME NEW x \in raw \cup rolled
        PROVE  RowsOf(d, r, x) \in SUBSET M /\ SpeaksFor(x, RowsOf(d, r, x), e, d, r)
    BY <1>1, <2>1, <2>2 DEF Accounts, raw
  <2>8. ASSUME NEW x \in raw \cup rolled, NEW y \in raw \cup rolled, x # y
        PROVE  RowsOf(d, r, x) \cap RowsOf(d, r, y) = {}
    <3>1. \A z \in raw : RowsOf(d, r, z) \in SUBSET P
      BY <2>1 DEF Accounts, raw
    <3>2. CASE x \in raw /\ y \in raw
      BY <2>1, <2>8, <3>2 DEF Accounts, raw
    <3>3. ASSUME NEW v \in raw, NEW w \in rolled
          PROVE  RowsOf(d, r, v) \cap RowsOf(d, r, w) = {}
      <4>1. PICK k \in W : w = one(k)
        OBVIOUS
      <4>2. RowsOf(d, r, w) = Members(d.rows, r, k)
        BY <2>2, <4>1
      <4>. QED BY <2>3, <3>1, <4>2
    <3>4. CASE x \in rolled /\ y \in rolled
      <4>1. PICK k \in W, l \in W : x = one(k) /\ y = one(l)
        BY <3>4
      <4>2. k # l
        BY <2>8, <4>1
      <4>. QED BY <2>2, <2>4, <4>1, <4>2
    <3>. QED BY <3>2, <3>3, <3>4
  <2>9. ASSUME NEW i \in M
        PROVE  \E x \in raw \cup rolled : i \in RowsOf(d, r, x)
    <3>1. CASE i \in P
      BY <2>1, <3>1 DEF Accounts, raw
    <3>2. CASE i \notin P
      <4>1. PICK k \in W : i \in Members(d.rows, r, k)
        BY <2>5, <3>2
      <4>. QED BY <2>2, <4>1
    <3>. QED BY <3>1, <3>2
  <2>. HIDE DEF rolled
  <2>10. Accounts(raw \cup rolled, M, e, d, r)
    BY <2>7, <2>8, <2>9 DEF Accounts
  <2>. QED BY <2>6, <2>10 DEF M
<1>. QED BY <1>2, <1>3

-----------------------------------------------------------------------------
(* What facts that account for M say of it.                                *)

Total(N, e, d) == [requests |-> Cardinality(N), sums |-> Tally(N, FactsIn(e, d.rows))]
With(d, r, M, K) == {i \in M : KeyOf(r, d.rows[i]) \in K}

SpokenFor(facts, d, r) == UNION {RowsOf(d, r, x) : x \in facts}

PartIs(facts, M, e, d, r) ==
  /\ IsFiniteSet(facts) /\ SpokenFor(facts, d, r) \in SUBSET M
  /\ Totals(facts) = Total(SpokenFor(facts, d, r), e, d)

\* Some of them total what the requests do that they speak for.
LEMMA PartTotals ==
  ASSUME NEW e, NEW d, NEW r, NEW M \in SUBSET Ids, NEW all, Accounts(all, M, e, d, r), NEW facts \in SUBSET all
  PROVE  PartIs(facts, M, e, d, r)
<1>. DEFINE fact == FactsIn(e, d.rows)
            part == [x \in facts |-> RowsOf(d, r, x)]
            N == SpokenFor(facts, d, r)
<1>1. IsFiniteSet(Ids) /\ IsFiniteSet(SUBSET Ids)
  BY FactsAssumption, FS_SUBSET
<1>2. part \in [facts -> SUBSET Ids] /\ Apart(facts, part)
  BY DEF Accounts, Apart
<1>3. \A x \in facts : part[x] # {} /\ x.requests = Cardinality(part[x]) /\ x.sums = Tally(part[x], fact)
  BY DEF Accounts, SpeaksFor
<1>4. IsFiniteSet(facts)
  <2>. HIDE DEF part
  <2>1. part \in Injection(facts, SUBSET Ids)
    BY <1>2, <1>3 DEF Injection, IsInjective, Apart
  <2>. QED BY <1>1, <2>1, FS_Injection
<1>5. Covered(facts, part) = N /\ N \in SUBSET M
  BY DEF Covered, SpokenFor, Accounts
<1>. HIDE DEF part, N, fact
<1>6. SumOf(facts, LAMBDA y : y.requests) = Cardinality(N)
  <2>. DEFINE m == [y \in facts |-> y.requests]
  <2>1. \A x \in facts : m[x] = Cardinality(part[x])
    BY <1>3
  <2>. HIDE DEF m
  <2>2. PICK g : SumsUp(g, facts, m) /\ g[facts] = Cardinality(N)
    BY <1>1, <1>2, <1>5, <2>1, SumOfParts
  <2>. QED BY <1>4, <2>2, RequestsSum DEF m
<1>7. ASSUME NEW v
      PROVE  SumOf(facts, LAMBDA y : Multiplicity(y.sums, v)) = Cardinality(Of(N, fact, v))
  <2>. DEFINE m == [y \in facts |-> Multiplicity(y.sums, v)]
              sub == [x \in facts |-> Of(part[x], fact, v)]
  <2>1. \A x \in facts : m[x] = Cardinality(sub[x])
    <3>. SUFFICES ASSUME NEW x \in facts
                  PROVE  Multiplicity(x.sums, v) = Cardinality(Of(part[x], fact, v))
      OBVIOUS
    <3>1. IsFiniteSet(part[x])
      BY <1>1, <1>2, FS_Subset
    <3>. QED BY <1>3, <3>1, Occurrences
  <2>2. sub \in [facts -> SUBSET Ids] /\ Apart(facts, sub)
    BY <1>2 DEF Of, Apart
  <2>3. Of(Covered(facts, part), fact, v) = Covered(facts, sub)
    <3>1. \A x \in facts : sub[x] = {i \in part[x] : fact[i] = v}
      BY DEF Of
    <3>. HIDE DEF sub, m
    <3>2. ASSUME NEW i PROVE (i \in Covered(facts, part) /\ fact[i] = v) <=> i \in Covered(facts, sub)
      BY <3>1 DEF Covered
    <3>. QED BY <3>2 DEF Of
  <2>. HIDE DEF m, sub
  <2>4. PICK g : SumsUp(g, facts, m) /\ g[facts] = Cardinality(Covered(facts, sub))
    BY <1>1, <2>1, <2>2, SumOfParts
  <2>. QED BY <1>4, <1>5, <2>3, <2>4, MultiplicitiesSum DEF m
<1>8. UNION {DOMAIN y.sums : y \in facts} = {fact[i] : i \in N}
  <2>1. \A y \in facts : DOMAIN y.sums = {fact[i] : i \in part[y]}
    BY <1>3 DEF Tally
  <2>. QED BY <1>5, <2>1 DEF Covered
<1>9. [x \in UNION {DOMAIN y.sums : y \in facts} |-> SumOf(facts, LAMBDA y : Multiplicity(y.sums, x))]
        = Tally(N, fact)
  BY <1>7, <1>8 DEF Tally
<1>10. Totals(facts) =
        [requests |-> SumOf(facts, LAMBDA y : y.requests),
         sums |-> [x \in UNION {DOMAIN y.sums : y \in facts} |-> SumOf(facts, LAMBDA y : Multiplicity(y.sums, x))]]
  BY DEF Totals
<1>. QED BY <1>4, <1>5, <1>6, <1>9, <1>10 DEF PartIs, Total, N, fact

\* Those with some of the keys total what the requests with these keys do.
LEMMA AccountedTotals ==
  ASSUME NEW e, NEW d, NEW r, NEW M \in SUBSET Ids, NEW all, Accounts(all, M, e, d, r), NEW K,
         NEW facts, facts = {x \in all : x.key \in K}
  PROVE  Totals(facts) = Total(With(d, r, M, K), e, d)
<1>1. ASSUME NEW x \in facts, NEW i \in RowsOf(d, r, x) PROVE i \in With(d, r, M, K)
  BY DEF Accounts, SpeaksFor, With
<1>2. ASSUME NEW i \in With(d, r, M, K) PROVE \E x \in facts : i \in RowsOf(d, r, x)
  <2>1. i \in M /\ KeyOf(r, d.rows[i]) \in K
    BY DEF With
  <2>2. PICK x \in all : i \in RowsOf(d, r, x)
    BY <2>1 DEF Accounts
  <2>3. x.key = KeyOf(r, d.rows[i])
    BY <2>2 DEF Accounts, SpeaksFor
  <2>. QED BY <2>1, <2>2, <2>3
<1>3. SpokenFor(facts, d, r) = With(d, r, M, K)
  <2>1. \A i : i \in SpokenFor(facts, d, r) <=> \E x \in facts : i \in RowsOf(d, r, x)
    BY DEF SpokenFor
  <2>. QED BY <1>1, <1>2, <2>1
<1>4. ASSUME NEW some \in SUBSET all
      PROVE  Totals(some) = Total(SpokenFor(some, d, r), e, d)
  <2>1. PartIs(some, M, e, d, r)
    BY PartTotals, Zenon
  <2>. QED BY <2>1 DEF PartIs
<1>5. facts \in SUBSET all
  OBVIOUS
<1>. QED BY <1>3, <1>4, <1>5

\* Their keys are those of the requests.
LEMMA AccountedKeys ==
  ASSUME NEW e, NEW d, NEW r, NEW M, NEW all, Accounts(all, M, e, d, r), NEW k
  PROVE  (\E x \in all : x.key = k) <=> (\E i \in M : KeyOf(r, d.rows[i]) = k)
<1>1. ASSUME NEW x \in all PROVE \E i \in M : KeyOf(r, d.rows[i]) = x.key
  BY DEF Accounts, SpeaksFor
<1>2. ASSUME NEW i \in M PROVE \E x \in all : x.key = KeyOf(r, d.rows[i])
  <2>1. PICK x \in all : i \in RowsOf(d, r, x)
    BY DEF Accounts
  <2>2. SpeaksFor(x, RowsOf(d, r, x), e, d, r)
    BY DEF Accounts
  <2>. QED BY <2>1, <2>2 DEF SpeaksFor
<1>. QED BY <1>1, <1>2

\* The sums by day of every group.
Daily(facts) == \A x \in facts : x.bucket = x.key.day
SumsOf(e, d, r, M) ==
  [k \in {KeyOf(r, d.rows[i]) : i \in M} |-> [day \in {k.day} |-> Total(With(d, r, M, {k}), e, d)]]

LEMMA AccountedSums ==
  ASSUME NEW e, NEW d, NEW r, NEW M \in SUBSET Ids, NEW all, Accounts(all, M, e, d, r), Daily(all)
  PROVE  ByKey(all, LAMBDA x : x.key) = SumsOf(e, d, r, M)
<1>1. {x.key : x \in all} = {KeyOf(r, d.rows[i]) : i \in M}
  <2>1. \A k : (\E x \in all : x.key = k) <=> (\E i \in M : KeyOf(r, d.rows[i]) = k)
    BY AccountedKeys
  <2>. QED BY <2>1
<1>2. ASSUME NEW k \in {x.key : x \in all}
      PROVE  ByDay({x \in all : x.key = k}) = [day \in {k.day} |-> Total(With(d, r, M, {k}), e, d)]
  <2>. DEFINE facts == {x \in all : x.key = k}
  <2>1. facts # {} /\ \A x \in facts : x.bucket = k.day
    BY DEF Daily
  <2>2. facts = {x \in all : x.key \in {k}}
    OBVIOUS
  <2>. HIDE DEF facts
  <2>3. Totals(facts) = Total(With(d, r, M, {k}), e, d)
    BY <2>2, AccountedTotals
  <2>4. {x.bucket : x \in facts} = {k.day} /\ {x \in facts : x.bucket = k.day} = facts
    BY <2>1
  <2>5. ByDay(facts) = [day \in {k.day} |-> Totals(facts)]
    BY <2>4 DEF ByDay
  <2>6. ByDay(facts) = [day \in {k.day} |-> Total(With(d, r, M, {k}), e, d)]
    BY <2>3, <2>5
  <2>. QED BY <2>6 DEF facts
<1>3. ByKey(all, LAMBDA x : x.key) = [k \in {x.key : x \in all} |-> ByDay({x \in all : x.key = k})]
  BY DEF ByKey
<1>. QED BY <1>1, <1>2, <1>3 DEF SumsOf

\* Those of one session begin and end when its requests do.
InSession(d, M, c) == {i \in M : KeyOf("conversation_daily", d.rows[i]).conversation = c}
TimesAt(d, M)      == {d.rows[i].ts : i \in M}
Within(facts, c)   == {x \in facts : x.key.conversation = c}
Firsts(facts)      == {x.first : x \in facts}
Lasts(facts)       == {x.last : x \in facts}

LEMMA AccountedEnds ==
  ASSUME NEW e, NEW d, d.rows \in Rows, NEW r, r = "conversation_daily",
         NEW M \in SUBSET Stored(d.rows), NEW all, Accounts(all, M, e, d, r), NEW c
  PROVE  /\ Least(Firsts(Within(all, c))) = Least(TimesAt(d, InSession(d, M, c)))
         /\ Greatest(Lasts(Within(all, c))) = Greatest(TimesAt(d, InSession(d, M, c)))
<1>. DEFINE N == InSession(d, M, c)
            at == [i \in N |-> d.rows[i].ts]
            times == {at[i] : i \in N}
            facts == {x \in all : x.key.conversation = c}
            firsts == {x.first : x \in facts}
            lasts == {x.last : x \in facts}
<1>1. IsFiniteSet(N) /\ at \in [N -> Nat]
  <2>1. \A i \in N : d.rows[i].ts \in Nat
    BY FactsAssumption DEF InSession, Stored, Rows, Row
  <2>2. N \subseteq Ids
    BY DEF InSession, Stored
  <2>. QED BY <2>1, <2>2, FactsAssumption, FS_Subset
<1>2. ASSUME NEW x \in facts
      PROVE  /\ RowsOf(d, r, x) \in SUBSET N
             /\ \A i \in RowsOf(d, r, x) : x.first <= d.rows[i].ts /\ d.rows[i].ts <= x.last
             /\ \E i \in RowsOf(d, r, x) : x.first = d.rows[i].ts
             /\ \E i \in RowsOf(d, r, x) : x.last = d.rows[i].ts
  <2>1. RowsOf(d, r, x) \in SUBSET M /\ SpeaksFor(x, RowsOf(d, r, x), e, d, r)
    BY DEF Accounts
  <2>2. HasSpan(r)
    BY DEF HasSpan
  <2>. QED BY <2>1, <2>2 DEF SpeaksFor, InSession
<1>3. ASSUME NEW i \in N
      PROVE  \E x \in facts : i \in RowsOf(d, r, x)
  <2>1. i \in M /\ KeyOf(r, d.rows[i]).conversation = c
    BY DEF InSession
  <2>2. PICK x \in all : i \in RowsOf(d, r, x)
    BY <2>1 DEF Accounts
  <2>3. x.key = KeyOf(r, d.rows[i])
    BY <2>2 DEF Accounts, SpeaksFor
  <2>. QED BY <2>1, <2>2, <2>3
<1>4. TimesAt(d, N) = times /\ \A i \in N : at[i] = d.rows[i].ts
  BY DEF TimesAt
<1>. HIDE DEF N, at
<1>5. firsts \in SUBSET times /\ \A t \in times : \E u \in firsts : u <= t
  <2>1. \A x \in facts : \E i \in N : x.first = at[i]
    BY <1>2, <1>4
  <2>2. \A i \in N : \E x \in facts : x.first <= at[i]
    BY <1>2, <1>3, <1>4
  <2>. QED BY <2>1, <2>2
<1>6. lasts \in SUBSET times /\ \A t \in times : \E u \in lasts : u >= t
  <2>1. \A x \in facts : \E i \in N : x.last = at[i]
    BY <1>2, <1>4
  <2>2. \A i \in N : \E x \in facts : x.last >= at[i]
    <3>. SUFFICES ASSUME NEW i \in N PROVE \E x \in facts : x.last >= at[i]
      OBVIOUS
    <3>1. PICK x \in facts : i \in RowsOf(d, r, x)
      BY <1>3
    <3>2. at[i] <= x.last /\ at[i] \in Nat /\ x.last \in Nat
      BY <1>1, <1>2, <1>4, <2>1, <3>1
    <3>. QED BY <3>2
  <2>. QED BY <2>1, <2>2
<1>7. Firsts(Within(all, c)) = firsts /\ Lasts(Within(all, c)) = lasts
  BY DEF Firsts, Lasts, Within
<1>. HIDE DEF firsts, lasts, times
<1>8. Least(firsts) = Least(times) /\ Greatest(lasts) = Greatest(times)
  BY <1>1, <1>5, <1>6, SameEnds DEF times
<1>. QED BY <1>4, <1>7, <1>8 DEF N

\* The first and last times of every session.
SpanOf(facts) ==
  [c \in {x.key.conversation : x \in facts} |->
     <<Least(Firsts(Within(facts, c))), Greatest(Lasts(Within(facts, c)))>>]
SpansOf(d, M) ==
  [c \in {KeyOf("conversation_daily", d.rows[i]).conversation : i \in M} |->
     <<Least(TimesAt(d, InSession(d, M, c))), Greatest(TimesAt(d, InSession(d, M, c)))>>]

LEMMA AccountedSpans ==
  ASSUME NEW e, NEW d, d.rows \in Rows, NEW r, r = "conversation_daily",
         NEW M \in SUBSET Stored(d.rows), NEW all, Accounts(all, M, e, d, r)
  PROVE  SpanOf(all) = SpansOf(d, M)
<1>1. {x.key.conversation : x \in all} = {KeyOf(r, d.rows[i]).conversation : i \in M}
  <2>1. \A k : (\E x \in all : x.key = k) <=> (\E i \in M : KeyOf(r, d.rows[i]) = k)
    BY AccountedKeys
  <2>. QED BY <2>1
<1>2. \A c : /\ Least(Firsts(Within(all, c))) = Least(TimesAt(d, InSession(d, M, c)))
            /\ Greatest(Lasts(Within(all, c))) = Greatest(TimesAt(d, InSession(d, M, c)))
  BY AccountedEnds
<1>. QED BY <1>1, <1>2 DEF SpanOf, SpansOf

-----------------------------------------------------------------------------
(* The queries, in a database whose tables are its aggregates.             *)

\* The facts of a query, from the tables and from the requests alone.
LEMMA QueriesAccount ==
  ASSUME NEW e, NEW d, d.rows \in Rows, NEW r \in Rollups, d.tables[r] = Aggregate(e, d.rows, r),
         NEW f, Bounds(f), NEW hourly \in BOOLEAN
  PROVE  /\ Accounts(QueryFacts(e, d, r, f, hourly), Selected(d, f), e, d, r)
         /\ Accounts(RawFacts(e, d, r, Selected(d, f), FALSE), Selected(d, f), e, d, r)
<1>1. DOMAIN d.tables[r] = Keys(d.rows, r)
  BY DEF Aggregate, Keys
<1>2. Selected(d, f) \in SUBSET Stored(d.rows)
  BY DEF Selected
<1>3. QueryFacts(e, d, r, f, FALSE) = Joined(e, d, r, f)
  BY <1>1, QueryFactsAre
<1>4. Accounts(Joined(e, d, r, f), Selected(d, f), e, d, r)
  BY JoinedAccounts
<1>5. Accounts(FactsOf(e, d, r, Selected(d, f), FALSE), Selected(d, f), e, d, r)
  BY <1>2, RawAccounts
<1>6. RawFacts(e, d, r, Selected(d, f), FALSE) = FactsOf(e, d, r, Selected(d, f), FALSE)
  BY RawFactsAre
<1>7. Accounts(QueryFacts(e, d, r, f, TRUE), Selected(d, f), e, d, r)
  <2>1. QueryFacts(e, d, r, f, TRUE) = RawFacts(e, d, r, Selected(d, f), TRUE)
    BY DEF QueryFacts
  <2>. QED BY <1>2, <2>1, RawFactsAre, RawAccounts
<1>. QED BY <1>3, <1>4, <1>5, <1>6, <1>7

\* Those by the day fall on the day of their key.
LEMMA QueriesDaily ==
  ASSUME NEW e, NEW d, NEW r \in Rollups, NEW f, NEW M
  PROVE  Daily(QueryFacts(e, d, r, f, FALSE)) /\ Daily(RawFacts(e, d, r, M, FALSE))
<1>1. ASSUME NEW S PROVE Daily(RawFacts(e, d, r, S, FALSE))
  <2>1. \A i : KeyOf(r, d.rows[i]).day = Day(d.rows[i].ts)
    BY KeyHas
  <2>2. RawFacts(e, d, r, S, FALSE) = FactsOf(e, d, r, S, FALSE)
    BY RawFactsAre
  <2>3. \A i : RawFact(e, d, r, i, FALSE).bucket = RawFact(e, d, r, i, FALSE).key.day
    BY <2>1 DEF RawFact
  <2>. QED BY <2>2, <2>3 DEF FactsOf, Daily
<1>2. Daily(RolledFacts(d, r, f))
  BY DEF RolledFacts, Daily
<1>3. \E S, R : QueryFacts(e, d, r, f, FALSE) = RawFacts(e, d, r, S, FALSE) \cup R /\ R \in {RolledFacts(d, r, f), {}}
  BY DEF QueryFacts
<1>. QED BY <1>1, <1>2, <1>3 DEF Daily

\* The rows of a summary, of a breakdown, and of the sessions.
Grouped(M, key(_), e, d) == [k \in {key(i) : i \in M} |-> Total({i \in M : key(i) = k}, e, d)]

SummaryIs(e, d, f) == Summary(e, d, f) = Total(Selected(d, f), e, d)
BreakdownIs(e, d, f) ==
  \A column :
    Breakdown(e, d, f, column) =
      Grouped(Selected(d, f), LAMBDA i : GroupKey(column, KeyOf("usage_daily", d.rows[i])), e, d)

InConv(d, f, c) == {i \in Selected(d, f) : Conversation(d.rows[i]) = c}
SessionsAre(e, d, f) ==
  Sessions(e, d, f) =
    {[conversation |-> c, total |-> Total(InConv(d, f, c), e, d),
      first |-> Least(TimesAt(d, InConv(d, f, c))), last |-> Greatest(TimesAt(d, InConv(d, f, c)))]
       : c \in {Conversation(d.rows[i]) : i \in Selected(d, f)}}

Sound(e, d) == d.rows \in Rows /\ \A r \in Rollups : d.tables[r] = Aggregate(e, d.rows, r)

LEMMA SummaryCounts ==
  ASSUME NEW e, NEW d, Sound(e, d), NEW f, Bounds(f)
  PROVE  SummaryIs(e, d, f)
<1>. DEFINE all == QueryFacts(e, d, "usage_daily", f, FALSE)
            M == Selected(d, f)
            K == {KeyOf("usage_daily", d.rows[i]) : i \in M}
<1>1. Accounts(all, M, e, d, "usage_daily")
  BY QueriesAccount DEF Sound, Rollups
<1>2. M \in SUBSET Ids
  BY DEF Selected, Stored
<1>. HIDE DEF all, M
<1>3. \A k : (\E x \in all : x.key = k) <=> (\E i \in M : KeyOf("usage_daily", d.rows[i]) = k)
  BY <1>1, AccountedKeys
<1>4. all = {x \in all : x.key \in K}
  BY <1>3
<1>5. With(d, "usage_daily", M, K) = M
  BY DEF With
<1>. HIDE DEF K
<1>6. Totals(all) = Total(M, e, d)
  BY <1>1, <1>2, <1>4, <1>5, AccountedTotals
<1>. QED BY <1>6 DEF SummaryIs, Summary, all, M

LEMMA BreakdownCounts ==
  ASSUME NEW e, NEW d, Sound(e, d), NEW f, Bounds(f)
  PROVE  BreakdownIs(e, d, f)
<1>. DEFINE all == QueryFacts(e, d, "usage_daily", f, FALSE)
            M == Selected(d, f)
            keyOf(i) == KeyOf("usage_daily", d.rows[i])
<1>1. Accounts(all, M, e, d, "usage_daily")
  BY QueriesAccount DEF Sound, Rollups
<1>2. M \in SUBSET Ids
  BY DEF Selected, Stored
<1>. HIDE DEF all, M
<1>3. \A k : (\E x \in all : x.key = k) <=> (\E i \in M : keyOf(i) = k)
  BY <1>1, AccountedKeys
<1>4. ASSUME NEW column
      PROVE  ByGroupKey(all, column) = Grouped(M, LAMBDA i : GroupKey(column, keyOf(i)), e, d)
  <2>1. {GroupKey(column, x.key) : x \in all} = {GroupKey(column, keyOf(i)) : i \in M}
    BY <1>3
  <2>2. ASSUME NEW k
        PROVE  Totals({x \in all : GroupKey(column, x.key) = k}) = Total({i \in M : GroupKey(column, keyOf(i)) = k}, e, d)
    <3>. DEFINE K == {q \in {keyOf(i) : i \in M} : GroupKey(column, q) = k}
                facts == {x \in all : GroupKey(column, x.key) = k}
    <3>1. facts = {x \in all : x.key \in K}
      BY <1>3
    <3>2. With(d, "usage_daily", M, K) = {i \in M : GroupKey(column, keyOf(i)) = k}
      BY DEF With
    <3>. HIDE DEF K, facts
    <3>3. Totals(facts) = Total(With(d, "usage_daily", M, K), e, d)
      BY <1>1, <1>2, <3>1, AccountedTotals
    <3>. QED BY <3>2, <3>3 DEF facts
  <2>. QED BY <2>1, <2>2 DEF ByGroupKey, Grouped
<1>. QED BY <1>4 DEF BreakdownIs, Breakdown, all, M

LEMMA SessionsCount ==
  ASSUME NEW e, NEW d, Sound(e, d), NEW f, Bounds(f)
  PROVE  SessionsAre(e, d, f)
<1>. DEFINE r == "conversation_daily"
            all == QueryFacts(e, d, r, f, FALSE)
            M == Selected(d, f)
<1>1. Accounts(all, M, e, d, r)
  BY QueriesAccount DEF Sound, Rollups
<1>2. M \in SUBSET Ids /\ M \in SUBSET Stored(d.rows) /\ d.rows \in Rows
  BY DEF Selected, Stored, Sound
<1>3. \A i : KeyOf(r, d.rows[i]).conversation = Conversation(d.rows[i])
  BY DEF KeyOf
<1>4. \A c : InSession(d, M, c) = InConv(d, f, c)
  BY <1>3 DEF InSession, InConv
<1>. HIDE DEF all, M, r
<1>5. \A k : (\E x \in all : x.key = k) <=> (\E i \in M : KeyOf(r, d.rows[i]) = k)
  BY <1>1, AccountedKeys
<1>6. {x.key.conversation : x \in all} = {Conversation(d.rows[i]) : i \in M}
  BY <1>3, <1>5
<1>. DEFINE card(c) ==
              [conversation |-> c, total |-> Total(InConv(d, f, c), e, d),
               first |-> Least(TimesAt(d, InConv(d, f, c))), last |-> Greatest(TimesAt(d, InConv(d, f, c)))]
<1>7. ASSUME NEW c
      PROVE  Card(c, {x \in all : x.key.conversation = c}) = card(c)
  <2>. DEFINE K == {q \in {KeyOf(r, d.rows[i]) : i \in M} : q.conversation = c}
  <2>1. Within(all, c) = {x \in all : x.key \in K}
    BY <1>5 DEF Within
  <2>2. With(d, r, M, K) = InConv(d, f, c)
    BY <1>3 DEF With, InConv, M
  <2>. HIDE DEF K
  <2>3. Totals(Within(all, c)) = Total(InConv(d, f, c), e, d)
    BY <1>1, <1>2, <2>1, <2>2, AccountedTotals
  <2>4. /\ Least(Firsts(Within(all, c))) = Least(TimesAt(d, InConv(d, f, c)))
        /\ Greatest(Lasts(Within(all, c))) = Greatest(TimesAt(d, InConv(d, f, c)))
    BY <1>1, <1>2, <1>4, AccountedEnds DEF r
  <2>5. Card(c, Within(all, c)) =
          [conversation |-> c, total |-> Totals(Within(all, c)),
           first |-> Least(Firsts(Within(all, c))), last |-> Greatest(Lasts(Within(all, c)))]
    BY DEF Card, Firsts, Lasts
  <2>. QED BY <2>3, <2>4, <2>5 DEF Within
<1>8. PICK C : C = {x.key.conversation : x \in all}
  OBVIOUS
<1>9. CardsOf(all) = {card(c) : c \in {Conversation(d.rows[i]) : i \in M}}
  <2>. HIDE DEF card
  <2>1. CardsOf(all) = {Card(c, {x \in all : x.key.conversation = c}) : c \in C}
    BY <1>8 DEF CardsOf
  <2>2. CardsOf(all) = {card(c) : c \in C}
    BY <1>7, <2>1
  <2>3. C = {Conversation(d.rows[i]) : i \in M}
    BY <1>6, <1>8
  <2>. QED BY <2>2, <2>3
<1>10. Sessions(e, d, f) = CardsOf(all)
  BY DEF Sessions, all, r
<1>. QED BY <1>9, <1>10 DEF SessionsAre, M

\* The tables of a reader's database are its aggregates.
LEMMA ReadersSeeSound == Spec => [](mode = "serving" => Sound(release, before))
<1>1. IInv => (mode = "serving" => Sound(release, before))
  <2>. SUFFICES ASSUME IInv, mode = "serving" PROVE Sound(release, before)
    OBVIOUS
  <2>1. triggers = release /\ triggers # 0
    BY RollupAssumption DEF IInv, Trusted
  <2>. QED BY <2>1 DEF IInv, Standing, ShapeOK, Sound
<1>. QED BY <1>1, Invariance, PTL

\* In every database that the writes can leave, and for every range and filter:
\* the summary, every row of a breakdown and every session's card count exactly
\* the requests that the filter selects and that have its key, and a card's
\* first and last times are theirs (factsSQL, Summary, breakdown, Conversations).
THEOREM QueriesAreExact ==
  Spec => [](mode = "serving" =>
    \A f : Bounds(f) => /\ SummaryIs(release, before, f)
                        /\ BreakdownIs(release, before, f)
                        /\ SessionsAre(release, before, f))
<1>1. (mode = "serving" => Sound(release, before)) =>
        (mode = "serving" =>
           \A f : Bounds(f) => /\ SummaryIs(release, before, f)
                               /\ BreakdownIs(release, before, f)
                               /\ SessionsAre(release, before, f))
  BY SummaryCounts, BreakdownCounts, SessionsCount
<1>. QED BY <1>1, ReadersSeeSound, PTL

-----------------------------------------------------------------------------
(* Readers.                                                                *)

\* The pages' filters are bounded.
LEMMA MonthBegan == StartOfMonth(Now) \in Nat
<1>. DEFINE begun == {m \in MonthStarts : m <= Day(Now)}
            at == [m \in begun |-> m]
<1>1. DayLength \in Nat /\ DayLength > 0 /\ Now \in Nat
  BY FactsAssumption, ReaderAssumption
<1>2. 0 <= Day(Now) /\ Day(Now) \in Int
  <2>1. DayLength * 0 < DayLength * (Now \div DayLength) + DayLength
    BY <1>1, DaysAre
  <2>2. 0 <= Now \div DayLength /\ Now \div DayLength \in Int
    BY <1>1, <2>1, DaysAre, Multiples
  <2>3. 0 <= DayLength * (Now \div DayLength) /\ DayLength * (Now \div DayLength) \in Int
    BY <1>1, <2>2
  <2>. QED BY <1>1, <2>3, DaysAre
<1>3. IsFiniteSet(begun) /\ begun # {} /\ begun \in SUBSET Nat /\ at \in [begun -> Nat]
  BY <1>2, ReaderAssumption, FS_Subset
<1>4. PICK m \in begun : \A n \in begun : m >= n
  <2>1. PICK j \in begun : \A k \in begun : at[j] >= at[k]
    <3>. HIDE DEF at
    <3>. QED BY <1>3, ExtremesExist
  <2>. QED BY <2>1
<1>. HIDE DEF begun
<1>5. Greatest(begun) = m
  BY <1>3, <1>4, GreatestIs
<1>. QED BY <1>3, <1>4, <1>5 DEF StartOfMonth, begun

LEMMA FiltersAreBounded ==
  ASSUME NEW f \in Filters
  PROVE  Bounds(f)
<1>1. PICK u \in Uis : f = Normalized(ParseFilter(u, Now), Now)
  BY DEF Filters, Answered
<1>2. u.range \in Ranges /\ {u.from, u.to} \subseteq Int \cup {Nil} /\ Now \in Int
  BY ReaderAssumption
<1>3. RangeStart(u.range, Now) \in Int \cup {Nil}
  <2>1. DayLength \in Int /\ Day(Now) \in Int /\ StartOfMonth(Now) \in Int
    BY <1>2, FactsAssumption, DaysAre, MonthBegan
  <2>2. Now - 7 * DayLength \in Int /\ Now - 30 * DayLength \in Int
    BY <1>2, <2>1
  <2>. QED BY <1>2, <2>1, <2>2 DEF Ranges, RangeStart
<1>. DEFINE g == ParseFilter(u, Now)
<1>4. g.from \in Int \cup {Nil} /\ g.to = u.to /\ DOMAIN g = DOMAIN Dims(u, Nil, Nil)
  BY <1>2, <1>3 DEF ParseFilter, Dims
<1>5. f.from = g.from /\ f.to = Coalesce(g.to, Now)
  BY <1>1 DEF ParseFilter, Dims, Normalized
<1>. HIDE DEF g
<1>. QED BY <1>2, <1>4, <1>5 DEF Bounds, Coalesce

\* A reader changes nothing.
LEMMA ReadersOnly == ReaderSpec => Spec
<1>1. ReaderInit => Init
  BY DEF ReaderInit
<1>2. [ReaderNext]_<<vars, reader>> => [Next]_vars
  BY DEF ReaderNext, Meanwhile, FirstPage, NextPage, reader
<1>. QED BY <1>1, <1>2, PTL DEF ReaderSpec, Spec

\* In every database that the writes can leave, and for every page: joining
\* the whole days of a rollup to the requests of the partial days gives each
\* group the sums by day, and each session the first and last times, of the
\* requests that the filter selects (factsSQL).
THEOREM RangesAreExact == ReaderSpec => []RangeSplitIsExact
<1>1. (mode = "serving" => Sound(release, before)) => RangeSplitIsExact
  <2>. SUFFICES ASSUME Sound(release, before), NEW f \in Filters
                PROVE  /\ \A r \in Rollups :
                            ByKey(QueryFacts(release, before, r, f, FALSE), LAMBDA x : x.key)
                              = ByKey(Direct(f, r, Selected(before, f)), LAMBDA x : x.key)
                       /\ SpanOf(QueryFacts(release, before, "conversation_daily", f, FALSE))
                            = SpanOf(Direct(f, "conversation_daily", Selected(before, f)))
    BY DEF RangeSplitIsExact, Quiet, SpanOf, Firsts, Lasts, Within
  <2>. DEFINE M == Selected(before, f)
  <2>1. Bounds(f) /\ before.rows \in Rows /\ M \in SUBSET Ids /\ M \in SUBSET Stored(before.rows)
    BY FiltersAreBounded DEF Selected, Stored, Sound
  <2>2. ASSUME NEW r \in Rollups
        PROVE  /\ Accounts(QueryFacts(release, before, r, f, FALSE), M, release, before, r)
               /\ Accounts(Direct(f, r, M), M, release, before, r)
               /\ Daily(QueryFacts(release, before, r, f, FALSE)) /\ Daily(Direct(f, r, M))
    BY <2>1, QueriesAccount, QueriesDaily DEF Sound, Direct
  <2>. HIDE DEF M
  <2>3. ASSUME NEW r \in Rollups
        PROVE  ByKey(QueryFacts(release, before, r, f, FALSE), LAMBDA x : x.key)
                 = ByKey(Direct(f, r, M), LAMBDA x : x.key)
    <3>1. ByKey(QueryFacts(release, before, r, f, FALSE), LAMBDA x : x.key) = SumsOf(release, before, r, M)
      BY <2>1, <2>2, AccountedSums
    <3>2. ByKey(Direct(f, r, M), LAMBDA x : x.key) = SumsOf(release, before, r, M)
      BY <2>1, <2>2, AccountedSums
    <3>. QED BY <3>1, <3>2
  <2>4. SpanOf(QueryFacts(release, before, "conversation_daily", f, FALSE))
          = SpanOf(Direct(f, "conversation_daily", M))
    <3>1. PICK r \in Rollups : r = "conversation_daily"
      BY DEF Rollups
    <3>2. PICK joined, direct : /\ joined = QueryFacts(release, before, r, f, FALSE)
                               /\ direct = Direct(f, r, M)
      OBVIOUS
    <3>3. Accounts(joined, M, release, before, r) /\ Accounts(direct, M, release, before, r)
      BY <2>2, <3>2
    <3>4. SpanOf(joined) = SpansOf(before, M) /\ SpanOf(direct) = SpansOf(before, M)
      BY <2>1, <3>1, <3>3, AccountedSpans
    <3>. QED BY <3>1, <3>2, <3>4
  <2>. QED BY <2>3, <2>4 DEF M
<1>. QED BY <1>1, ReadersSeeSound, ReadersOnly, PTL

-----------------------------------------------------------------------------
(* The cards.                                                              *)

\* A card's link selects, of its range, the requests in the conversation.
LEMMA LinkIs ==
  ASSUME NEW u \in Uis, u.from = Nil, u.to = Nil, u.conv = Nil, NEW c
  PROVE  /\ WithoutConversationURL(ConversationURL(u, c)) = u
         /\ Normalized(ParseFilter(ConversationURL(u, c), Now), Now)
              = [Normalized(ParseFilter(u, Now), Now) EXCEPT !.conv = ConversationFilterForKey(c)]
         /\ Normalized(ParseFilter(u, Now), Now).conv = Nil
<1>. DEFINE v == ConversationURL(u, c)
            fields == {"range", "from", "to", "source", "model", "token", "group", "ungrouped", "conv"}
<1>1. DOMAIN NoUi = fields
  BY DEF NoUi
<1>2. u = [x \in fields |-> u[x]]
  BY <1>1, ReaderAssumption
<1>3. /\ v = [x \in fields |-> v[x]]
      /\ v.range = u.range /\ v.from = Nil /\ v.to = Nil /\ v.source = u.source /\ v.model = u.model
      /\ v.token = u.token /\ v.group = u.group /\ v.ungrouped = u.ungrouped
      /\ v.conv = ConversationFilterForKey(c)
  BY <1>1 DEF ConversationURL, NoUi
<1>. HIDE DEF v
<1>4. WithoutConversationURL(v) = u
  <2>1. WithoutConversationURL(v) = [x \in fields |-> IF x = "conv" THEN Nil ELSE v[x]]
    BY <1>3 DEF WithoutConversationURL
  <2>2. \A x \in fields : u[x] = IF x = "conv" THEN Nil ELSE v[x]
    BY <1>3
  <2>. QED BY <1>2, <2>1, <2>2
<1>5. ParseFilter(v, Now) = [ParseFilter(u, Now) EXCEPT !.conv = ConversationFilterForKey(c)]
  BY <1>3 DEF ParseFilter, Dims
<1>6. ParseFilter(u, Now).conv = Nil /\ Normalized(ParseFilter(u, Now), Now).conv = Nil
  BY DEF ParseFilter, Dims, Normalized
<1>7. Normalized([ParseFilter(u, Now) EXCEPT !.conv = ConversationFilterForKey(c)], Now)
        = [Normalized(ParseFilter(u, Now), Now) EXCEPT !.conv = ConversationFilterForKey(c)]
  BY DEF Normalized, ParseFilter, Dims
<1>. QED BY <1>4, <1>5, <1>6, <1>7 DEF v

\* The day's keys and the sentinels.
LEMMA DayKeysAre ==
  ASSUME NEW row \in Row
  PROVE  /\ IsAutocomplete(row) => /\ IsKeyed(Conversation(row), "autocomplete")
                                   /\ ConversationFilterForKey(Conversation(row)) = Sentinel("autocomplete")
         /\ IsTitle(row) /\ ~IsAutocomplete(row) =>
              /\ IsKeyed(Conversation(row), "titleprogress")
              /\ ConversationFilterForKey(Conversation(row)) = Sentinel("titleprogress")
         /\ ~IsHelper(row) /\ row.conv = Nil =>
              /\ IsKeyed(Conversation(row), "other")
              /\ ConversationFilterForKey(Conversation(row)) = Sentinel("none")
         /\ ~IsHelper(row) /\ row.conv # Nil => Conversation(row) = row.conv
<1>. DEFINE c == Conversation(row)
            kinds == {"autocomplete", "titleprogress", "other"}
<1>1. row.ts \in Times
  BY DEF Row
<1>2. \A j, k \in kinds : \A s, t : Keyed(j, s) = Keyed(k, t) => j = k
  BY DEF Keyed
<1>3. ASSUME NEW k \in kinds, c = Keyed(k, Day(row.ts))
      PROVE  /\ IsKeyed(c, k)
             /\ ConversationFilterForKey(c) = Sentinel(IF k = "other" THEN "none" ELSE k)
  <2>1. \A j \in kinds : IsKeyed(c, j) <=> j = k
    BY <1>1, <1>2, <1>3 DEF IsKeyed
  <2>. HIDE DEF c
  <2>. QED BY <2>1 DEF ConversationFilterForKey
<1>4. /\ IsAutocomplete(row) => c = Keyed("autocomplete", Day(row.ts))
      /\ IsTitle(row) /\ ~IsAutocomplete(row) => c = Keyed("titleprogress", Day(row.ts))
      /\ ~IsHelper(row) /\ row.conv = Nil => c = Keyed("other", Day(row.ts))
      /\ ~IsHelper(row) /\ row.conv # Nil => c = row.conv
  <2>1. IsAutocomplete(row) => ~IsTitle(row)
    BY FactsAssumption DEF IsAutocomplete, IsTitle
  <2>. QED BY <2>1 DEF Conversation, IsHelper
<1>5. "autocomplete" \in kinds /\ "titleprogress" \in kinds /\ "other" \in kinds
  OBVIOUS
<1>. HIDE DEF c, kinds
<1>6. /\ IsAutocomplete(row) => IsKeyed(c, "autocomplete") /\ ConversationFilterForKey(c) = Sentinel("autocomplete")
      /\ IsTitle(row) /\ ~IsAutocomplete(row) =>
           IsKeyed(c, "titleprogress") /\ ConversationFilterForKey(c) = Sentinel("titleprogress")
      /\ ~IsHelper(row) /\ row.conv = Nil => IsKeyed(c, "other") /\ ConversationFilterForKey(c) = Sentinel("none")
  BY <1>3, <1>4, <1>5
<1>. QED BY <1>4, <1>6 DEF c

\* The filter of an id that is not reserved is the id.
LEMMA UnkeyedFilter ==
  ASSUME NEW c, ~Reserved(c)
  PROVE  ConversationFilterForKey(c) = c
<1>1. \A kind \in {"autocomplete", "titleprogress", "other"} : ~IsKeyed(c, kind)
  BY DEF Reserved, LooksKeyed, IsKeyed
<1>. QED BY <1>1 DEF ConversationFilterForKey

\* The link of a request's card selects the request, unless the request's own
\* id is the reserved one; and no others, if the id is not reserved.
LEMMA LinkFinds ==
  ASSUME NEW row \in Row, NEW g, g.conv = ConversationFilterForKey(Conversation(row)),
         ~Reserved(Conversation(row)) \/ row.conv # Conversation(row)
  PROVE  InConversation(g, row)
<1>1. CASE IsHelper(row)
  <2>1. Sentinel("none") # Sentinel("autocomplete") /\ Sentinel("none") # Sentinel("titleprogress")
        /\ Sentinel("autocomplete") # Sentinel("titleprogress")
    BY DEF Sentinel
  <2>. QED BY <1>1, <2>1, DayKeysAre, ReaderAssumption, FactsAssumption
       DEF InConversation, IsHelper, IsTitle, IsAutocomplete, Sentinels
<1>2. CASE ~IsHelper(row) /\ row.conv = Nil
  <2>1. g.conv = Sentinel("none")
    BY <1>2, DayKeysAre
  <2>2. g.conv # Nil /\ g.conv \notin {Sentinel("autocomplete"), Sentinel("titleprogress")}
    BY <2>1, ReaderAssumption DEF Sentinel, Sentinels
  <2>. QED BY <1>2, <2>1, <2>2 DEF InConversation
<1>3. CASE ~IsHelper(row) /\ row.conv # Nil
  <2>1. Conversation(row) = row.conv /\ ~Reserved(row.conv)
    BY <1>3, DayKeysAre
  <2>2. g.conv = row.conv
    BY <2>1, UnkeyedFilter
  <2>. QED BY <1>3, <2>1, <2>2 DEF InConversation, Reserved, Sentinels
<1>. QED BY <1>1, <1>2, <1>3

LEMMA LinkKeepsOut ==
  ASSUME NEW row \in Row, NEW c, c # Nil, ~Reserved(c), NEW g, g.conv = ConversationFilterForKey(c),
         InConversation(g, row)
  PROVE  Conversation(row) = c
<1>1. g.conv = c /\ c \notin Sentinels
  BY UnkeyedFilter DEF Reserved
<1>2. row.conv = c /\ ~IsHelper(row)
  BY <1>1 DEF InConversation, Sentinels
<1>. QED BY <1>2, DayKeysAre

\* No conversation is missing its id.
LEMMA OwnIdIsSet ==
  ASSUME NEW row \in Row, ~Reserved(Conversation(row))
  PROVE  Conversation(row) # Nil
<1>1. \A kind \in {"autocomplete", "titleprogress", "other"} : ~IsKeyed(Conversation(row), kind)
  BY DEF Reserved, LooksKeyed, IsKeyed
<1>. QED BY <1>1, DayKeysAre DEF IsHelper

\* A card counts the requests of its conversation, and the last of them is one.
LEMMA CardIsOf ==
  ASSUME NEW e, NEW d, Sound(e, d), NEW f, Bounds(f), NEW card \in Sessions(e, d, f)
  PROVE  LET counted == {i \in Selected(d, f) : Conversation(d.rows[i]) = card.conversation}
         IN  /\ counted # {}
             /\ card.total.requests = Cardinality(counted)
             /\ Latest(d, f, card) # {} /\ Latest(d, f, card) \subseteq counted
<1>. DEFINE counted == {i \in Selected(d, f) : Conversation(d.rows[i]) = card.conversation}
<1>1. PICK c \in {Conversation(d.rows[i]) : i \in Selected(d, f)} :
        card = [conversation |-> c, total |-> Total(InConv(d, f, c), e, d),
                first |-> Least(TimesAt(d, InConv(d, f, c))), last |-> Greatest(TimesAt(d, InConv(d, f, c)))]
  BY SessionsCount DEF SessionsAre
<1>2. counted = InConv(d, f, c) /\ counted # {}
  BY <1>1 DEF InConv
<1>3. card.total.requests = Cardinality(counted)
  BY <1>1, <1>2 DEF Total
<1>4. card.last = Greatest(TimesAt(d, counted))
  BY <1>1, <1>2
<1>5. counted \subseteq Stored(d.rows) /\ d.rows \in Rows
  BY DEF Selected, Sound
<1>6. PICK i \in counted : card.last = d.rows[i].ts
  <2>. DEFINE at == [i \in counted |-> d.rows[i].ts]
              times == TimesAt(d, counted)
  <2>1. IsFiniteSet(counted) /\ \A i \in counted : d.rows[i].ts \in Nat
    <3>1. IsFiniteSet(counted)
      BY <1>5, FactsAssumption, FS_Subset DEF Stored
    <3>. QED BY <1>5, <3>1, FactsAssumption DEF Rows, Row, Stored
  <2>2. at \in [counted -> Nat] /\ \A i \in counted : at[i] = d.rows[i].ts
    BY <2>1
  <2>. HIDE DEF counted, at
  <2>3. PICK j \in counted : \A k \in counted : at[j] >= at[k]
    BY <1>2, <2>1, <2>2, ExtremesExist
  <2>4. at[j] \in times /\ times \in SUBSET Nat /\ \A t \in times : at[j] >= t
    BY <2>1, <2>2, <2>3 DEF TimesAt
  <2>5. Greatest(times) = at[j]
    <3>. HIDE DEF times
    <3>. QED BY <2>4, GreatestIs
  <2>. QED BY <1>4, <2>2, <2>5
<1>7. Latest(d, f, card) = {j \in counted : d.rows[j].ts = card.last}
  BY DEF Latest
<1>. QED BY <1>2, <1>3, <1>6, <1>7

\* The requests that a card's link selects.
LEMMA CardLinks ==
  ASSUME NEW d, d.rows \in Rows, NEW f, f.conv = Nil, NEW c, NEW g, g = [f EXCEPT !.conv = ConversationFilterForKey(c)],
         "conv" \in DOMAIN f
  PROVE  LET counted == {i \in Selected(d, f) : Conversation(d.rows[i]) = c}
             linked  == Selected(d, g)
         IN  /\ {i \in counted : ~Reserved(c) \/ d.rows[i].conv # c} \subseteq linked
             /\ counted # {} /\ ~Reserved(c) => linked \subseteq counted
<1>1. \A i \in Stored(d.rows) : d.rows[i] \in Row
  BY DEF Rows, Stored
<1>2. g.conv = ConversationFilterForKey(c)
  OBVIOUS
<1>3. \A row : Selects(g, row) <=> Selects(f, row) /\ InConversation(g, row)
  <2>1. /\ g.from = f.from /\ g.to = f.to /\ g.source = f.source /\ g.model = f.model
        /\ g.token = f.token /\ g.group = f.group /\ g.ungrouped = f.ungrouped
    OBVIOUS
  <2>2. \A row : InConversation(f, row)
    BY ReaderAssumption DEF InConversation, Sentinels
  <2>3. \A key : InDims(g, key) <=> InDims(f, key)
    BY <2>1 DEF InDims
  <2>. QED BY <2>1, <2>2, <2>3 DEF Selects
<1>4. \A i \in Ids : i \in Selected(d, g) <=> i \in Selected(d, f) /\ InConversation(g, d.rows[i])
  BY <1>3 DEF Selected
<1>5. Selected(d, f) \subseteq Stored(d.rows) /\ Selected(d, g) \subseteq Stored(d.rows) /\ Stored(d.rows) \subseteq Ids
  BY DEF Selected, Stored
<1>6. ASSUME NEW i \in Selected(d, f), Conversation(d.rows[i]) = c, ~Reserved(c) \/ d.rows[i].conv # c
      PROVE  i \in Selected(d, g)
  BY <1>1, <1>2, <1>4, <1>5, <1>6, LinkFinds
<1>7. ASSUME NEW j \in Selected(d, f), Conversation(d.rows[j]) = c, ~Reserved(c), NEW i \in Selected(d, g)
      PROVE  i \in Selected(d, f) /\ Conversation(d.rows[i]) = c
  <2>1. c # Nil
    BY <1>1, <1>5, <1>7, OwnIdIsSet
  <2>. QED BY <1>1, <1>2, <1>4, <1>5, <1>7, <2>1, LinkKeepsOut
<1>. QED BY <1>6, <1>7

\* In every database that the writes can leave, and for every range of the
\* pages: a session's card counts its requests, takes its source and model from
\* one of them, and its link selects them and, for a session of its own, no
\* others (Conversations, ConversationFilterForKey, conversationURL).
THEOREM CardsLeadToTheirRequests == ReaderSpec => []CardsOpen
<1>1. (mode = "serving" => Sound(release, before)) => CardsOpen
  <2>. SUFFICES ASSUME Sound(release, before), NEW u \in Answered, u.from = Nil, u.to = Nil, u.conv = Nil,
                       NEW card \in Sessions(release, before, Normalized(ParseFilter(u, Now), Now))
                PROVE  LET f       == Normalized(ParseFilter(u, Now), Now)
                           counted == {i \in Selected(before, f) : Conversation(before.rows[i]) = card.conversation}
                           linked  == Selected(before, Normalized(ParseFilter(ConversationURL(u, card.conversation), Now), Now))
                           own     == ~Reserved(card.conversation)
                       IN  /\ card.total.requests = Cardinality(counted)
                           /\ Latest(before, f, card) # {} /\ Latest(before, f, card) \subseteq counted
                           /\ {i \in counted : own \/ before.rows[i].conv # card.conversation} \subseteq linked
                           /\ own => linked \subseteq counted
                           /\ WithoutConversationURL(ConversationURL(u, card.conversation)) = u
    BY DEF CardsOpen, Quiet
  <2>1. PICK f : f = Normalized(ParseFilter(u, Now), Now)
    OBVIOUS
  <2>2. PICK g : g = Normalized(ParseFilter(ConversationURL(u, card.conversation), Now), Now)
    OBVIOUS
  <2>3. u \in Uis /\ Bounds(f)
    BY <2>1, FiltersAreBounded DEF Answered, Filters
  <2>4. /\ WithoutConversationURL(ConversationURL(u, card.conversation)) = u
        /\ g = [f EXCEPT !.conv = ConversationFilterForKey(card.conversation)] /\ f.conv = Nil
    BY <2>1, <2>2, <2>3, LinkIs
  <2>5. "conv" \in DOMAIN f
    BY <2>1 DEF Normalized, ParseFilter, Dims
  <2>6. before.rows \in Rows
    BY DEF Sound
  <2>7. card \in Sessions(release, before, f)
    BY <2>1
  <2>. QED BY <2>1, <2>2, <2>3, <2>4, <2>5, <2>6, <2>7, CardIsOf, CardLinks
<1>. QED BY <1>1, ReadersSeeSound, ReadersOnly, PTL

-----------------------------------------------------------------------------
(* The totals of a page.                                                   *)

\* What TotalBreakdown adds up.
RequestsIn(rows, S)        == MapThenSumSet(LAMBDA k : rows[k].requests, S)
OccurrencesIn(rows, x, S) == MapThenSumSet(LAMBDA k : Multiplicity(rows[k].sums, x), S)

LEMMA RowRequestsSum ==
  ASSUME NEW rows, NEW S, IsFiniteSet(S), NEW g, SumsUp(g, S, [k \in S |-> rows[k].requests])
  PROVE  RequestsIn(rows, S) = g[S]
<1>. DEFINE m == [k \in S |-> rows[k].requests]
            Rec(h) == h = [s \in SUBSET S |->
                        IF s = {} THEN 0
                        ELSE rows[CHOOSE x \in s : TRUE].requests + h[s \ {CHOOSE x \in s : TRUE}]]
            fold == CHOOSE h : Rec(h)
<1>1. RequestsIn(rows, S) = fold[S]
  BY DEF RequestsIn, MapThenSumSet, MapThenFoldSet
<1>2. \A s \in SUBSET S : s # {} => m[CHOOSE x \in s : TRUE] = rows[CHOOSE x \in s : TRUE].requests
  OBVIOUS
<1>3. \A h : SumsUp(h, S, m) <=> Rec(h)
  BY <1>2 DEF SumsUp
<1>4. SumsUp(fold, S, m)
  <2>1. SumsUp(g, S, m)
    OBVIOUS
  <2>. HIDE DEF Rec, m
  <2>2. Rec(g)
    BY <1>3, <2>1
  <2>3. Rec(fold)
    BY <2>2, Zenon
  <2>. QED BY <1>3, <2>3
<1>. HIDE DEF fold
<1>. QED BY <1>1, <1>4, OneSum

LEMMA RowMultiplicitiesSum ==
  ASSUME NEW rows, NEW x, NEW S, IsFiniteSet(S), NEW g,
         SumsUp(g, S, [k \in S |-> Multiplicity(rows[k].sums, x)])
  PROVE  OccurrencesIn(rows, x, S) = g[S]
<1>. DEFINE m == [k \in S |-> Multiplicity(rows[k].sums, x)]
            Rec(h) == h = [s \in SUBSET S |->
                        IF s = {} THEN 0
                        ELSE Multiplicity(rows[CHOOSE z \in s : TRUE].sums, x) + h[s \ {CHOOSE z \in s : TRUE}]]
            fold == CHOOSE h : Rec(h)
<1>1. OccurrencesIn(rows, x, S) = fold[S]
  BY DEF OccurrencesIn, MapThenSumSet, MapThenFoldSet
<1>2. \A s \in SUBSET S : s # {} =>
        m[CHOOSE z \in s : TRUE] = Multiplicity(rows[CHOOSE z \in s : TRUE].sums, x)
  OBVIOUS
<1>3. \A h : SumsUp(h, S, m) <=> Rec(h)
  BY <1>2 DEF SumsUp
<1>4. SumsUp(fold, S, m)
  <2>1. SumsUp(g, S, m)
    OBVIOUS
  <2>. HIDE DEF Rec, m
  <2>2. Rec(g)
    BY <1>3, <2>1
  <2>3. Rec(fold)
    BY <2>2, Zenon
  <2>. QED BY <1>3, <2>3
<1>. HIDE DEF fold
<1>. QED BY <1>1, <1>4, OneSum

\* The rows of the requests of M, grouped by a key.
GroupsBy(rows, key, M, e, d) ==
  /\ DOMAIN rows = {key[i] : i \in M}
  /\ \A k \in DOMAIN rows : rows[k] = Total({i \in M : key[i] = k}, e, d)

\* However requests are grouped, the groups' totals add up to theirs.
LEMMA GroupsAddUp ==
  ASSUME NEW e, NEW d, NEW M \in SUBSET Ids, NEW key, NEW rows, GroupsBy(rows, key, M, e, d)
  PROVE  TotalBreakdown(rows) = Total(M, e, d)
<1>. DEFINE S == DOMAIN rows
            fact == FactsIn(e, d.rows)
            part == [k \in S |-> {i \in M : key[i] = k}]
<1>1. IsFiniteSet(M) /\ IsFiniteSet(SUBSET M)
  BY FactsAssumption, FS_Subset, FS_SUBSET
<1>2. S = {key[i] : i \in M}
  BY DEF GroupsBy
<1>3. part \in [S -> SUBSET M] /\ Apart(S, part) /\ Covered(S, part) = M /\ \A k \in S : part[k] # {}
  <2>1. \A k \in S : part[k] = {i \in M : key[i] = k}
    OBVIOUS
  <2>2. part \in [S -> SUBSET M] /\ Apart(S, part)
    BY DEF Apart
  <2>3. ASSUME NEW i \in M PROVE i \in part[key[i]] /\ key[i] \in S
    BY <1>2, <2>1
  <2>. HIDE DEF part, S
  <2>. QED BY <1>2, <2>1, <2>2, <2>3 DEF Covered
<1>4. \A k \in S : rows[k].requests = Cardinality(part[k]) /\ rows[k].sums = Tally(part[k], fact)
  <2>. SUFFICES ASSUME NEW k \in S
                PROVE  rows[k].requests = Cardinality(part[k]) /\ rows[k].sums = Tally(part[k], fact)
    OBVIOUS
  <2>1. rows[k] = Total(part[k], e, d)
    BY DEF GroupsBy
  <2>. HIDE DEF part, S
  <2>. QED BY <2>1 DEF Total
<1>. HIDE DEF S, part, fact
<1>5. IsFiniteSet(S) /\ \A k \in S : IsFiniteSet(part[k])
  <2>1. part \in Injection(S, SUBSET M)
    BY <1>3 DEF Injection, IsInjective, Apart
  <2>. QED BY <1>1, <1>3, <2>1, FS_Injection, FS_Subset
<1>6. RequestsIn(rows, S) = Cardinality(M)
  <2>. DEFINE m == [k \in S |-> rows[k].requests]
  <2>1. \A k \in S : m[k] = Cardinality(part[k])
    BY <1>4
  <2>. HIDE DEF m
  <2>2. PICK g : SumsUp(g, S, m) /\ g[S] = Cardinality(M)
    BY <1>1, <1>3, <2>1, SumOfParts
  <2>. QED BY <1>5, <2>2, RowRequestsSum DEF m
<1>7. ASSUME NEW v
      PROVE  OccurrencesIn(rows, v, S) = Cardinality(Of(M, fact, v))
  <2>1. ASSUME NEW k \in S PROVE Multiplicity(rows[k].sums, v) = Cardinality(Of(part[k], fact, v))
    BY <1>4, <1>5, Occurrences
  <2>. DEFINE m == [k \in S |-> Multiplicity(rows[k].sums, v)]
              sub == [k \in S |-> Of(part[k], fact, v)]
  <2>2. \A k \in S : m[k] = Cardinality(sub[k])
    BY <2>1
  <2>3. sub \in [S -> SUBSET M] /\ Apart(S, sub)
    BY <1>3 DEF Of, Apart
  <2>4. Of(M, fact, v) = Covered(S, sub)
    <3>1. \A k \in S : sub[k] = {i \in part[k] : fact[i] = v}
      BY DEF Of
    <3>. HIDE DEF sub, m
    <3>2. ASSUME NEW i PROVE (i \in Covered(S, part) /\ fact[i] = v) <=> i \in Covered(S, sub)
      BY <3>1 DEF Covered
    <3>. QED BY <1>3, <3>2 DEF Of
  <2>. HIDE DEF m, sub
  <2>5. PICK g : SumsUp(g, S, m) /\ g[S] = Cardinality(Covered(S, sub))
    BY <1>1, <2>2, <2>3, SumOfParts
  <2>. QED BY <1>5, <2>4, <2>5, RowMultiplicitiesSum DEF m
<1>8. UNION {DOMAIN rows[k].sums : k \in S} = {fact[i] : i \in M}
  <2>1. ASSUME NEW k \in S PROVE DOMAIN rows[k].sums = {fact[i] : i \in part[k]}
    BY <1>4 DEF Tally
  <2>2. ASSUME NEW x PROVE (\E k \in S : x \in DOMAIN rows[k].sums) <=> (\E i \in M : x = fact[i])
    BY <1>3, <2>1 DEF Covered
  <2>. QED BY <2>2
<1>9. [x \in UNION {DOMAIN rows[k].sums : k \in S} |-> OccurrencesIn(rows, x, S)] = Tally(M, fact)
  BY <1>7, <1>8 DEF Tally
<1>10. TotalBreakdown(rows) =
        [requests |-> RequestsIn(rows, S),
         sums |-> [x \in UNION {DOMAIN rows[k].sums : k \in S} |-> OccurrencesIn(rows, x, S)]]
  BY DEF TotalBreakdown, RequestsIn, OccurrencesIn, S
<1>. QED BY <1>6, <1>9, <1>10 DEF Total, fact

\* The breakdowns, and the cards.
LEMMA RowsTotal ==
  ASSUME Sound(release, before), NEW f, Bounds(f)
  PROVE  RowsAddUp(f)
<1>. DEFINE M == Selected(before, f)
<1>1. M \in SUBSET Ids /\ \A i \in M : before.rows[i] \in Row
  BY DEF Selected, Stored, Sound, Rows
<1>2. Summary(release, before, f) = Total(M, release, before)
  BY SummaryCounts DEF SummaryIs
<1>. DEFINE keyOf(column, i) == GroupKey(column, KeyOf("usage_daily", before.rows[i]))
<1>3. BreakdownIs(release, before, f)
  BY BreakdownCounts
<1>4. \A column : Breakdown(release, before, f, column) =
                     [k \in {keyOf(column, i) : i \in M} |->
                        Total({i \in M : keyOf(column, i) = k}, release, before)]
  BY <1>3 DEF BreakdownIs, Grouped
<1>. HIDE DEF M
<1>5. ASSUME NEW column
      PROVE  TotalBreakdown(Breakdown(release, before, f, column)) = Total(M, release, before)
  <2>. DEFINE key == [i \in Ids |-> keyOf(column, i)]
              rows == Breakdown(release, before, f, column)
  <2>1. \A i \in M : key[i] = keyOf(column, i)
    BY <1>1
  <2>. HIDE DEF key, keyOf
  <2>2. DOMAIN rows = {keyOf(column, i) : i \in M}
    BY <1>4
  <2>3. {keyOf(column, i) : i \in M} = {key[i] : i \in M}
    BY <2>1
  <2>4. ASSUME NEW k \in DOMAIN rows PROVE rows[k] = Total({i \in M : key[i] = k}, release, before)
    <3>1. rows[k] = Total({i \in M : keyOf(column, i) = k}, release, before)
      BY <1>4, <2>2
    <3>2. {i \in M : keyOf(column, i) = k} = {i \in M : key[i] = k}
      BY <2>1
    <3>. QED BY <3>1, <3>2
  <2>5. GroupsBy(rows, key, M, release, before)
    BY <2>2, <2>3, <2>4 DEF GroupsBy
  <2>. QED BY <1>1, <2>5, GroupsAddUp
<1>6. DOMAIN Breakdown(release, before, f, "source") = Distinct(before, f, "source")
  <2>1. DOMAIN Breakdown(release, before, f, "source") = {keyOf("source", i) : i \in M}
    BY <1>4
  <2>2. \A i : keyOf("source", i) = before.rows[i].source
    BY DEF GroupKey, KeyOf
  <2>3. \A i \in M : before.rows[i].source # Nil
    BY <1>1, FactsAssumption DEF Row
  <2>. HIDE DEF keyOf
  <2>. QED BY <2>1, <2>2, <2>3 DEF Distinct, M
<1>. QED BY <1>2, <1>5, <1>6 DEF RowsAddUp

\* The periods begin at a time, and all of them end now.
LEMMA PeriodsAre ==
  ASSUME NEW p \in Periods, NEW rolling \in BOOLEAN
  PROVE  PeriodStart(p, Now, rolling) \in Int \cup {Nil}
<1>1. DayLength \in Int /\ Now \in Int /\ Day(Now) \in Int /\ StartOfMonth(Now) \in Int
  BY FactsAssumption, ReaderAssumption, DaysAre, MonthBegan
<1>2. Now - 7 * DayLength \in Int /\ Now - 30 * DayLength \in Int
  BY <1>1
<1>3. StartOfWeek(Now) \in Int
  <2>1. Day(Now) \div DayLength \in Int
    BY <1>1, FactsAssumption
  <2>2. Weekday(Day(Now)) \in Int
    BY <2>1 DEF Weekday
  <2>3. (Weekday(Day(Now)) + 6) % 7 \in Int
    BY <2>2
  <2>. QED BY <1>1, <2>3 DEF StartOfWeek
<1>. QED BY <1>1, <1>2, <1>3 DEF Periods, PeriodStart

\* The cards count what their periods have.
LEMMA CardsTotal ==
  ASSUME Sound(release, before), NEW f \in Filters
  PROVE  CardsCount(f)
<1>. DEFINE rows == Selected(before, [f EXCEPT !.from = Nil, !.to = Now])
<1>1. DOMAIN f = {"from", "to", "source", "model", "token", "group", "ungrouped", "conv"}
  BY DEF Filters, Normalized, ParseFilter, Dims
<1>2. ASSUME NEW since \in Int \cup {Nil}, NEW g, g = Normalized(Dims(f, since, Nil), Now)
      PROVE  /\ Bounds(g)
             /\ Selected(before, g) = {i \in rows : since # Nil => before.rows[i].ts >= since}
  <2>. DEFINE h == [f EXCEPT !.from = Nil, !.to = Now]
  <2>1. /\ g.from = since /\ g.to = Now /\ g.source = f.source /\ g.model = f.model /\ g.token = f.token
        /\ g.group = f.group /\ g.ungrouped = f.ungrouped /\ g.conv = f.conv
    BY <1>2 DEF Normalized, Dims, Coalesce
  <2>2. /\ h.from = Nil /\ h.to = Now /\ h.source = f.source /\ h.model = f.model /\ h.token = f.token
        /\ h.group = f.group /\ h.ungrouped = f.ungrouped /\ h.conv = f.conv
    BY <1>1
  <2>3. Bounds(g)
    BY <2>1, ReaderAssumption DEF Bounds
  <2>. HIDE DEF h
  <2>4. \A row : InConversation(g, row) <=> InConversation(h, row)
    BY <2>1, <2>2 DEF InConversation
  <2>5. \A key : InDims(g, key) <=> InDims(h, key)
    BY <2>1, <2>2 DEF InDims
  <2>6. \A row : Selects(g, row) <=> Selects(h, row) /\ (since # Nil => row.ts >= since)
    BY <2>1, <2>2, <2>4, <2>5 DEF Selects
  <2>. QED BY <2>3, <2>6 DEF Selected, h
<1>3. ASSUME NEW p \in Periods, NEW rolling \in BOOLEAN, NEW since, since = PeriodStart(p, Now, rolling)
      PROVE  Cards(release, before, f, Now, rolling)[p].total.requests
               = Cardinality({i \in rows : since # Nil => before.rows[i].ts >= since})
  <2>1. PICK g : g = Normalized(Dims(f, since, Nil), Now)
    OBVIOUS
  <2>2. Bounds(g) /\ Selected(before, g) = {i \in rows : since # Nil => before.rows[i].ts >= since}
    BY <1>2, <1>3, <2>1, PeriodsAre
  <2>3. Cards(release, before, f, Now, rolling)[p].total = Summary(release, before, g)
    BY <1>3, <2>1 DEF Cards
  <2>4. Summary(release, before, g) = Total(Selected(before, g), release, before)
    BY <2>2, SummaryCounts DEF SummaryIs
  <2>. QED BY <2>2, <2>3, <2>4 DEF Total
<1>4. ASSUME NEW rolling \in BOOLEAN, NEW i \in rows
      PROVE  Cards(release, before, f, Now, rolling)["all"].since <= before.rows[i].ts
  <2>1. PICK g : g = Normalized(Dims(f, Nil, Nil), Now)
    OBVIOUS
  <2>2. Cards(release, before, f, Now, rolling)["all"].since = Earliest(before, g)
    BY <2>1 DEF Cards, Periods
  <2>3. Selected(before, g) = rows
    BY <1>2, <2>1
  <2>4. [g EXCEPT !.from = Nil] = g
    <3>1. g = [x \in DOMAIN g |-> g[x]] /\ g.from = Nil
      BY <2>1 DEF Normalized, Dims
    <3>. QED BY <3>1
  <2>5. rows \subseteq Stored(before.rows) /\ \A j \in rows : before.rows[j].ts \in Nat
    BY FactsAssumption DEF Selected, Sound, Stored, Rows, Row
  <2>. DEFINE times == {before.rows[j].ts : j \in rows}
              at == [j \in rows |-> before.rows[j].ts]
  <2>6. Earliest(before, g) = Least(times)
    BY <2>3, <2>4 DEF Earliest
  <2>7. IsFiniteSet(rows)
    <3>. HIDE DEF rows
    <3>. QED BY <2>5, FactsAssumption, FS_Subset DEF Stored
  <2>8. at \in [rows -> Nat] /\ \A j \in rows : at[j] = before.rows[j].ts
    BY <2>5
  <2>. HIDE DEF rows, at
  <2>9. PICK j \in rows : \A k \in rows : at[j] <= at[k]
    BY <2>7, <2>8, ExtremesExist
  <2>10. at[j] \in times /\ times \in SUBSET Nat /\ \A t \in times : at[j] <= t
    BY <2>5, <2>8, <2>9
  <2>11. Least(times) = at[j] /\ before.rows[i].ts \in times
    <3>1. before.rows[i].ts \in times
      OBVIOUS
    <3>. HIDE DEF times
    <3>. QED BY <2>10, <3>1, LeastIs
  <2>. QED BY <2>2, <2>6, <2>10, <2>11
<1>. QED BY <1>3, <1>4 DEF CardsCount

-----------------------------------------------------------------------------
(* Lists in order.                                                         *)

\* What is ahead of each entry, in a strict order of finitely many.
Strict(ahead) ==
  /\ IsFiniteSet(DOMAIN ahead)
  /\ \A a \in DOMAIN ahead : ahead[a] \in SUBSET DOMAIN ahead /\ a \notin ahead[a]
  /\ \A a, b \in DOMAIN ahead : a \in ahead[b] => ahead[a] \in SUBSET ahead[b]
  /\ \A a, b \in DOMAIN ahead : a # b => a \in ahead[b] \/ b \in ahead[a]

Place(ahead, a) == Cardinality(ahead[a]) + 1

\* Every entry has its place on the list, and every place its entry.
LEMMA SortedIs ==
  ASSUME NEW ahead, Strict(ahead), NEW N, N = Cardinality(DOMAIN ahead)
  PROVE  /\ N \in Nat /\ Sorted(ahead) \in [1..N -> DOMAIN ahead]
         /\ \A a \in DOMAIN ahead : Place(ahead, a) \in 1..N /\ Sorted(ahead)[Place(ahead, a)] = a
         /\ \A n \in 1..N : Place(ahead, Sorted(ahead)[n]) = n
<1>. DEFINE D == DOMAIN ahead
            place == [a \in D |-> Place(ahead, a)]
<1>1. IsFiniteSet(D) /\ N \in Nat
  BY FS_CardinalityType DEF Strict
<1>2. ASSUME NEW a \in D
      PROVE  /\ IsFiniteSet(ahead[a]) /\ Cardinality(ahead[a]) \in Nat /\ Cardinality(ahead[a]) < N
  <2>1. ahead[a] \in SUBSET D /\ ahead[a] # D
    BY DEF Strict
  <2>2. /\ IsFiniteSet(ahead[a]) /\ Cardinality(ahead[a]) <= N
        /\ Cardinality(D) = Cardinality(ahead[a]) => D = ahead[a]
    BY <1>1, <2>1, FS_Subset
  <2>3. Cardinality(ahead[a]) \in Nat
    BY <2>2, FS_CardinalityType
  <2>. QED BY <1>1, <2>1, <2>2, <2>3
<1>3. ASSUME NEW a \in D, NEW b \in D, a \in ahead[b]
      PROVE  Cardinality(ahead[a]) < Cardinality(ahead[b])
  <2>1. ahead[a] \in SUBSET ahead[b] /\ ahead[a] # ahead[b]
    BY <1>3 DEF Strict
  <2>2. /\ Cardinality(ahead[a]) <= Cardinality(ahead[b])
        /\ Cardinality(ahead[b]) = Cardinality(ahead[a]) => ahead[b] = ahead[a]
    BY <1>2, <2>1, FS_Subset
  <2>. QED BY <1>2, <2>1, <2>2
<1>4. ASSUME NEW a \in D, NEW b \in D, Cardinality(ahead[a]) = Cardinality(ahead[b])
      PROVE  a = b
  <2>. SUFFICES ASSUME a # b PROVE FALSE
    OBVIOUS
  <2>1. a \in ahead[b] \/ b \in ahead[a]
    BY DEF Strict
  <2>. QED BY <1>2, <1>3, <1>4, <2>1
<1>5. place \in Injection(D, 1..N)
  <2>1. \A a \in D : place[a] \in 1..N
    BY <1>1, <1>2 DEF Place
  <2>2. \A a, b \in D : place[a] = place[b] => a = b
    BY <1>2, <1>4 DEF Place
  <2>. HIDE DEF place
  <2>. QED BY <2>1, <2>2 DEF place, Injection, IsInjective
<1>6. place \in Surjection(D, 1..N)
  <2>1. IsFiniteSet(1..N) /\ Cardinality(1..N) = N
    BY <1>1, FS_Interval
  <2>. QED BY <1>5, <2>1, FS_Injection
<1>7. \A n \in 1..N : \E a \in D : Place(ahead, a) = n
  BY <1>6 DEF Surjection, place
<1>8. Sorted(ahead) = [n \in 1..N |-> CHOOSE x \in D : Cardinality(ahead[x]) = n - 1]
  BY DEF Sorted
<1>9. ASSUME NEW n \in 1..N
      PROVE  Sorted(ahead)[n] \in D /\ Cardinality(ahead[Sorted(ahead)[n]]) = n - 1
  <2>1. \E a \in D : Cardinality(ahead[a]) = n - 1
    <3>1. PICK a \in D : Place(ahead, a) = n
      BY <1>7
    <3>. QED BY <1>2, <3>1 DEF Place
  <2>2. PICK x : x = CHOOSE a \in D : Cardinality(ahead[a]) = n - 1
    OBVIOUS
  <2>3. x \in D /\ Cardinality(ahead[x]) = n - 1
    BY <2>1, <2>2, Zenon
  <2>. QED BY <1>8, <2>2, <2>3
<1>. HIDE DEF place
<1>10. Sorted(ahead) \in [1..N -> D]
  BY <1>8, <1>9
<1>11. ASSUME NEW a \in D
       PROVE  Place(ahead, a) \in 1..N /\ Sorted(ahead)[Place(ahead, a)] = a
  <2>1. Place(ahead, a) \in 1..N
    BY <1>1, <1>2 DEF Place
  <2>2. Cardinality(ahead[Sorted(ahead)[Place(ahead, a)]]) = Cardinality(ahead[a])
    BY <1>2, <1>9, <2>1 DEF Place
  <2>. QED BY <1>4, <1>9, <2>1, <2>2
<1>12. \A n \in 1..N : Place(ahead, Sorted(ahead)[n]) = n
  BY <1>9 DEF Place
<1>. QED BY <1>1, <1>10, <1>11, <1>12

\* A page has what its places hold.
Holding(page, seq, N, limit, offset) ==
  /\ Len(page) \in Nat /\ DOMAIN page = 1..Len(page)
  /\ Len(page) = IF offset >= N THEN 0 ELSE IF offset + limit < N THEN limit ELSE N - offset
  /\ \A n \in 1..Len(page) : offset + n \in 1..N /\ page[n] = seq[offset + n]

LEMMA PageIs ==
  ASSUME NEW N \in Nat, NEW S, NEW seq \in [1..N -> S], NEW limit \in Nat \ {0}, NEW offset \in Nat
  PROVE  Page(seq, limit, offset) \in Seq(S) /\ Holding(Page(seq, limit, offset), seq, N, limit, offset)
<1>. DEFINE page == Page(seq, limit, offset)
<1>. DEFINE last == IF offset + limit < N THEN offset + limit ELSE N
<1>1. seq \in Seq(S) /\ Len(seq) = N
  <2>1. seq \in Seq(S)
    BY SeqDef
  <2>2. Len(seq) \in Nat /\ DOMAIN seq = 1..Len(seq)
    BY <2>1, LenProperties
  <2>3. 1..Len(seq) = 1..N
    BY <2>2
  <2>. QED BY <2>1, <2>2, <2>3
<1>2. page = SubSeq(seq, offset + 1, last)
  BY <1>1 DEF Page
<1>. HIDE DEF page
<1>3. last \in Nat /\ last <= N /\ \A i \in (offset + 1)..last : seq[i] \in S
  OBVIOUS
<1>4. /\ page \in Seq(S)
      /\ Len(page) = IF offset + 1 <= last THEN last - (offset + 1) + 1 ELSE 0
      /\ \A i \in 1..last - (offset + 1) + 1 : page[i] = seq[offset + 1 + i - 1]
  <2>. HIDE DEF last
  <2>. QED BY <1>2, <1>3, SubSeqProperties
<1>5. Len(page) \in Nat /\ DOMAIN page = 1..Len(page)
  BY <1>4, LenProperties
<1>6. Len(page) = IF offset >= N THEN 0 ELSE IF offset + limit < N THEN limit ELSE N - offset
  BY <1>4
<1>7. ASSUME NEW n \in 1..Len(page)
      PROVE  offset + n \in 1..N /\ page[n] = seq[offset + n]
  <2>1. offset + n <= last /\ n \in 1..last - (offset + 1) + 1
    BY <1>3, <1>4
  <2>. HIDE DEF last
  <2>2. page[n] = seq[offset + 1 + n - 1] /\ offset + 1 + n - 1 = offset + n
    BY <1>4, <2>1
  <2>. QED BY <1>3, <2>1, <2>2
<1>. QED BY <1>4, <1>5, <1>6, <1>7 DEF page, Holding

\* Entries with times that are numbers, and ranks that tell them apart.
Timed(time, rank) ==
  /\ IsFiniteSet(DOMAIN time)
  /\ \A a \in DOMAIN time : time[a] \in Int /\ rank[a] \in Int
  /\ \A a, b \in DOMAIN time : rank[a] = rank[b] => a = b

AheadOf(time, rank) == [a \in DOMAIN time |-> Ahead(time, rank, "desc", a)]

\* Newest first.
LEMMA AheadIs ==
  ASSUME NEW time, NEW rank, NEW a \in DOMAIN time, NEW b \in DOMAIN time
  PROVE  b \in AheadOf(time, rank)[a] <=> time[b] > time[a] \/ (time[b] = time[a] /\ rank[b] < rank[a])
BY DEF AheadOf, Ahead

LEMMA TimedIsStrict ==
  ASSUME NEW time, NEW rank, Timed(time, rank)
  PROVE  Strict(AheadOf(time, rank))
<1>. DEFINE ahead == AheadOf(time, rank)
            D == DOMAIN time
<1>1. DOMAIN ahead = D /\ \A a \in D : ahead[a] \in SUBSET D
  BY DEF AheadOf, Ahead
<1>2. \A a \in D : time[a] \in Int /\ rank[a] \in Int
  BY DEF Timed
<1>3. \A a, b \in D : b \in ahead[a] <=> time[b] > time[a] \/ (time[b] = time[a] /\ rank[b] < rank[a])
  BY AheadIs
<1>. HIDE DEF ahead
<1>4. \A a \in D : a \notin ahead[a]
  BY <1>2, <1>3
<1>5. ASSUME NEW a \in D, NEW b \in D, a \in ahead[b], NEW c \in ahead[a]
      PROVE  c \in ahead[b]
  <2>1. c \in D
    BY <1>1
  <2>. QED BY <1>2, <1>3, <1>5, <2>1
<1>6. ASSUME NEW a \in D, NEW b \in D, a # b
      PROVE  a \in ahead[b] \/ b \in ahead[a]
  <2>1. rank[a] # rank[b]
    BY <1>6 DEF Timed
  <2>. QED BY <1>2, <1>3, <2>1
<1>7. \A a, b \in D : a \in ahead[b] => ahead[a] \in SUBSET ahead[b]
  BY <1>5
<1>8. IsFiniteSet(D)
  BY DEF Timed
<1>9. Strict(ahead)
  BY <1>1, <1>4, <1>6, <1>7, <1>8 DEF Strict
<1>. QED BY <1>9 DEF ahead

Behind(time, rank, a) == Cardinality(AheadOf(time, rank)[a])

\* A page shows what its offset has come to, and the last one all the rest.
LEMMA PageShows ==
  ASSUME NEW time, NEW rank, Timed(time, rank), NEW offset \in Nat,
         NEW page, page = Page(InOrder(time, rank, "desc"), PageLimit, offset),
         NEW a \in DOMAIN time, Behind(time, rank, a) >= offset
  PROVE  /\ Behind(time, rank, a) \in Nat /\ Len(page) \in Nat /\ page # <<>>
         /\ Behind(time, rank, a) < offset + PageLimit => \E n \in DOMAIN page : page[n] = a
         /\ Len(page) # PageLimit => \E n \in DOMAIN page : page[n] = a
         /\ offset + Len(page) >= Cardinality(DOMAIN time) => \E n \in DOMAIN page : page[n] = a
<1>. DEFINE ahead == AheadOf(time, rank)
            D == DOMAIN time
            N == Cardinality(D)
            place == Place(ahead, a)
            seq == Sorted(ahead)
<1>1. PageLimit \in Nat \ {0}
  BY ReaderAssumption
<1>2. page = Page(seq, PageLimit, offset)
  BY DEF InOrder, AheadOf
<1>3. DOMAIN ahead = D /\ Strict(ahead)
  BY TimedIsStrict DEF AheadOf
<1>4. Behind(time, rank, a) \in Nat
  <2>1. IsFiniteSet(ahead[a])
    BY <1>3, FS_Subset DEF Strict
  <2>. QED BY <2>1, FS_CardinalityType DEF Behind
<1>5. place = Behind(time, rank, a) + 1
  BY DEF Place, Behind
<1>. HIDE DEF ahead, N, place, seq
<1>6. N \in Nat /\ seq \in [1..N -> D] /\ place \in 1..N /\ seq[place] = a
  BY <1>3, SortedIs DEF seq, place, N
<1>7. /\ DOMAIN page = 1..Len(page) /\ Len(page) \in Nat
      /\ Len(page) = IF offset >= N THEN 0 ELSE IF offset + PageLimit < N THEN PageLimit ELSE N - offset
      /\ \A n \in 1..Len(page) : page[n] = seq[offset + n]
  <2>1. PICK S : S = D
    OBVIOUS
  <2>2. N \in Nat /\ seq \in [1..N -> S] /\ PageLimit \in Nat \ {0} /\ offset \in Nat
    BY <1>1, <1>6, <2>1
  <2>3. Holding(page, seq, N, PageLimit, offset)
    BY <1>2, <2>2, PageIs, Zenon
  <2>. QED BY <2>3 DEF Holding
<1>8. ASSUME place <= offset + Len(page)
      PROVE  \E n \in DOMAIN page : page[n] = a
  <2>1. place - offset \in 1..Len(page) /\ offset + (place - offset) = place
    BY <1>4, <1>5, <1>6, <1>7, <1>8
  <2>2. page[place - offset] = a
    BY <1>6, <1>7, <2>1
  <2>. QED BY <1>7, <2>1, <2>2
<1>9. Behind(time, rank, a) < offset + PageLimit => place <= offset + Len(page)
  BY <1>1, <1>4, <1>5, <1>6, <1>7
<1>10. Len(page) # PageLimit => place <= offset + Len(page)
  BY <1>1, <1>4, <1>5, <1>6, <1>7
<1>11. offset + Len(page) >= N => place <= offset + Len(page)
  BY <1>6, <1>7
<1>12. page # <<>>
  <2>1. Len(page) >= 1
    BY <1>1, <1>4, <1>5, <1>6, <1>7
  <2>2. Len(<<>>) = 0
    BY EmptySeq
  <2>. HIDE DEF place
  <2>. QED BY <1>7, <2>1, <2>2
<1>. QED BY <1>4, <1>7, <1>8, <1>9, <1>10, <1>11, <1>12 DEF N

\* Two lists with the same entries under other names.
LEMMA SameOrder ==
  ASSUME NEW time, NEW rank, Timed(time, rank),
         NEW D, NEW at \in [D -> Int], NEW by \in [D -> Int], NEW name \in [D -> DOMAIN time],
         \A x, y \in D : name[x] = name[y] => x = y,
         \A a \in DOMAIN time : \E x \in D : name[x] = a,
         \A x \in D : at[x] = time[name[x]] /\ by[x] = rank[name[x]]
  PROVE  /\ Timed(at, by) /\ Cardinality(D) = Cardinality(DOMAIN time)
         /\ \A x \in D : Behind(at, by, x) = Behind(time, rank, name[x])
<1>1. name \in Injection(D, DOMAIN time) /\ name \in Surjection(D, DOMAIN time)
  BY DEF Injection, IsInjective, Surjection
<1>2. IsFiniteSet(D) /\ Cardinality(D) = Cardinality(DOMAIN time)
  BY <1>1, FS_Injection DEF Timed
<1>3. Timed(at, by)
  BY <1>2 DEF Timed
<1>4. ASSUME NEW x \in D
      PROVE  Behind(at, by, x) = Behind(time, rank, name[x])
  <2>. DEFINE S == AheadOf(at, by)[x]
              T == AheadOf(time, rank)[name[x]]
              h == [y \in S |-> name[y]]
  <2>1. S \in SUBSET D /\ T \in SUBSET DOMAIN time
    BY DEF AheadOf, Ahead
  <2>2. \A y \in D : y \in S <=> name[y] \in T
    <3>1. \A y \in D : y \in S <=> at[y] > at[x] \/ (at[y] = at[x] /\ by[y] < by[x])
      BY AheadIs
    <3>2. \A b \in DOMAIN time :
            b \in T <=> time[b] > time[name[x]] \/ (time[b] = time[name[x]] /\ rank[b] < rank[name[x]])
      BY AheadIs
    <3>. HIDE DEF S, T
    <3>. QED BY <3>1, <3>2
  <2>. HIDE DEF S, T
  <2>3. h \in Bijection(S, T)
    <3>1. h \in [S -> T]
      BY <2>1, <2>2
    <3>2. \A y, z \in S : h[y] = h[z] => y = z
      BY <2>1
    <3>3. \A b \in T : \E y \in S : h[y] = b
      BY <2>1, <2>2
    <3>. HIDE DEF h
    <3>. QED BY <3>1, <3>2, <3>3 DEF Bijection, Injection, IsInjective, Surjection
  <2>4. IsFiniteSet(S)
    BY <1>2, <2>1, FS_Subset
  <2>5. Cardinality(T) = Cardinality(S)
    <3>1. ExistsBijection(S, T)
      BY <2>3 DEF ExistsBijection
    <3>. QED BY <2>4, <3>1, FS_Bijection
  <2>. QED BY <2>5 DEF Behind, S, T
<1>. QED BY <1>2, <1>3, <1>4

-----------------------------------------------------------------------------
(* What the views list.                                                    *)

\* When each session of some facts was last active.
Activity(facts) ==
  [c \in {x.key.conversation : x \in facts} |-> Greatest(Lasts(Within(facts, c)))]

\* There is one card for each session, and it knows when.
LEMMA CardsAre ==
  ASSUME NEW facts, NEW cards, cards = CardsOf(facts)
  PROVE  /\ TimesOf(cards) = Activity(facts)
         /\ \A s \in cards : s.conversation \in DOMAIN Activity(facts) /\ s.last = Activity(facts)[s.conversation]
         /\ \A s, t \in cards : s.conversation = t.conversation => s = t
         /\ \A c \in DOMAIN Activity(facts) : \E s \in cards : s.conversation = c
<1>. DEFINE C == {x.key.conversation : x \in facts}
            card == [c \in C |-> Card(c, Within(facts, c))]
            act == Activity(facts)
<1>1. cards = {card[c] : c \in C}
  BY DEF CardsOf, Within
<1>2. \A c \in C : card[c].conversation = c /\ card[c].last = act[c]
  BY DEF Card, Lasts, Activity
<1>3. DOMAIN act = C
  BY DEF Activity
<1>. HIDE DEF C, card, act
<1>4. \A s \in cards : s.conversation \in C /\ s.last = act[s.conversation] /\ s = card[s.conversation]
  BY <1>1, <1>2
<1>5. \A c \in C : \E s \in cards : s.conversation = c
  BY <1>1, <1>2
<1>6. \A s, t \in cards : s.conversation = t.conversation => s = t
  BY <1>4
<1>7. TimesOf(cards) = act
  <2>1. {s.conversation : s \in cards} = C
    BY <1>4, <1>5
  <2>2. ASSUME NEW c \in C
        PROVE  (CHOOSE s \in cards : s.conversation = c).last = act[c]
    <3>1. PICK t : t = CHOOSE s \in cards : s.conversation = c
      OBVIOUS
    <3>2. t \in cards /\ t.conversation = c
      BY <1>5, <3>1, Zenon
    <3>. QED BY <1>4, <3>1, <3>2
  <2>3. TimesOf(cards) = [c \in C |-> act[c]]
    BY <2>1, <2>2 DEF TimesOf
  <2>. QED BY <1>3, <2>3 DEF act, Activity
<1>. QED BY <1>3, <1>4, <1>5, <1>6, <1>7 DEF act

SessionFacts(e, d) == QueryFacts(e, d, "conversation_daily", NoFilter, FALSE)

\* The release does not matter to it.
LEMMA SameActivity ==
  ASSUME NEW e, NEW h, NEW d
  PROVE  Activity(SessionFacts(e, d)) = Activity(SessionFacts(h, d))
<1>. DEFINE r == "conversation_daily"
            rolled == NoFilter.conv = Nil
            S == {i \in Selected(d, NoFilter) :
                    ~(rolled /\ WholeFrom(NoFilter) <= d.rows[i].ts /\ d.rows[i].ts < WholeTo(NoFilter))}
            R == IF rolled THEN RolledFacts(d, r, NoFilter) ELSE {}
            one(g, i) == RawFact(g, d, r, i, FALSE)
            ones(g) == {one(g, i) : i \in S}
            all(g) == ones(g) \cup R
<1>1. \A g : SessionFacts(g, d) = all(g)
  <2>1. \A g : SessionFacts(g, d) = RawFacts(g, d, r, S, FALSE) \cup R
    BY DEF SessionFacts, QueryFacts
  <2>2. \A g : RawFacts(g, d, r, S, FALSE) = ones(g)
    BY RawFactsAre DEF FactsOf
  <2>. HIDE DEF S, R, r, ones
  <2>. QED BY <2>1, <2>2
<1>. HIDE DEF S, R, r
<1>2. \A g, i : one(g, i).key = KeyOf(r, d.rows[i]) /\ one(g, i).last = d.rows[i].ts
  BY DEF RawFact
<1>. HIDE DEF one
<1>3. \A g : {x.key.conversation : x \in all(g)}
               = {KeyOf(r, d.rows[i]).conversation : i \in S} \cup {x.key.conversation : x \in R}
  BY <1>2
<1>4. \A g, c : Lasts(Within(all(g), c))
                  = {d.rows[i].ts : i \in {j \in S : KeyOf(r, d.rows[j]).conversation = c}} \cup Lasts(Within(R, c))
  <2>. SUFFICES ASSUME NEW g, NEW c
                PROVE  Lasts(Within(all(g), c))
                         = {d.rows[i].ts : i \in {j \in S : KeyOf(r, d.rows[j]).conversation = c}} \cup Lasts(Within(R, c))
    OBVIOUS
  <2>. DEFINE J == {j \in S : KeyOf(r, d.rows[j]).conversation = c}
  <2>1. Within(all(g), c) = Within(ones(g), c) \cup Within(R, c)
    BY DEF Within
  <2>2. Within(ones(g), c) = {one(g, i) : i \in J}
    BY <1>2 DEF Within
  <2>3. Lasts(Within(all(g), c)) = Lasts(Within(ones(g), c)) \cup Lasts(Within(R, c))
    BY <2>1 DEF Lasts
  <2>. HIDE DEF J, ones
  <2>4. Lasts(Within(ones(g), c)) = {d.rows[i].ts : i \in J}
    BY <1>2, <2>2 DEF Lasts
  <2>. USE DEF J
  <2>. QED BY <2>3, <2>4
<1>. HIDE DEF all
<1>5. \A g : Activity(SessionFacts(g, d)) = Activity(all(g))
  BY <1>1
<1>6. Activity(all(e)) = Activity(all(h))
  BY <1>3, <1>4 DEF Activity
<1>. QED BY <1>5, <1>6

\* A database that a transaction left.
Whole(d) == ShapeOK(d) /\ Aggregated(d)

\* Also where no trigger stands the session table is some release's, or
\* empty, and its facts account for requests.
LEMMA SomeAccount ==
  ASSUME NEW d, Whole(d)
  PROVE  \E e : \E M \in SUBSET Stored(d.rows) : Accounts(SessionFacts(e, d), M, e, d, "conversation_daily")
<1>. DEFINE r == "conversation_daily"
            f == NoFilter
<1>1. d.rows \in Rows /\ r \in Rollups
  BY DEF Whole, ShapeOK, Rollups
<1>2. Bounds(f)
  <2>1. f.from = Nil /\ f.to = Coalesce(Nil, Now)
    BY DEF NoFilter, Normalized, Dims
  <2>. QED BY <2>1, ReaderAssumption DEF Bounds, Coalesce
<1>3. CASE DOMAIN d.tables[r] = {}
  <2>. DEFINE M == {i \in Selected(d, f) : ~(f.conv = Nil /\ WholeFrom(f) <= d.rows[i].ts /\ d.rows[i].ts < WholeTo(f))}
  <2>1. M \in SUBSET Stored(d.rows)
    BY DEF Selected
  <2>2. RolledFacts(d, r, f) = {}
    BY <1>3 DEF RolledFacts
  <2>3. PICK e : e = 0
    OBVIOUS
  <2>4. SessionFacts(e, d) = RawFacts(e, d, r, M, FALSE)
    BY <2>2 DEF SessionFacts, QueryFacts
  <2>. HIDE DEF M, r
  <2>5. Accounts(SessionFacts(e, d), M, e, d, r)
    BY <1>1, <2>1, <2>4, RawFactsAre, RawAccounts
  <2>. QED BY <2>1, <2>5 DEF r
<1>4. CASE DOMAIN d.tables[r] # {}
  <2>1. PICK e : d.tables[r] = Aggregate(e, d.rows, r)
    BY <1>1, <1>4 DEF Whole, Aggregated
  <2>2. Accounts(SessionFacts(e, d), Selected(d, f), e, d, r)
    BY <1>1, <1>2, <2>1, QueriesAccount DEF SessionFacts
  <2>3. Selected(d, f) \in SUBSET Stored(d.rows)
    BY DEF Selected
  <2>. QED BY <2>2, <2>3
<1>. QED BY <1>3, <1>4

LEMMA KeyOfConversation ==
  ASSUME NEW row \in Row
  PROVE  Conversation(row) \in ConversationKeys
<1>1. row.ts \in Times /\ row.conv \in ConversationIds \cup {Nil}
  BY DEF Row
<1>2. Conversation(row) \in {Keyed("autocomplete", Day(row.ts)), Keyed("titleprogress", Day(row.ts)),
                             Keyed("other", Day(row.ts))} \cup ConversationIds
  <2>1. CASE IsAutocomplete(row)
    BY <2>1 DEF Conversation
  <2>2. CASE ~IsAutocomplete(row) /\ IsTitle(row)
    BY <2>2 DEF Conversation
  <2>3. CASE ~IsHelper(row)
    BY <1>1, <2>3 DEF Conversation, IsHelper
  <2>. QED BY <2>1, <2>2, <2>3 DEF IsHelper
<1>. QED BY <1>1, <1>2 DEF ConversationKeys

RankOf(view, time) == [c \in DOMAIN time |-> IF view = "sessions" THEN StringRank(c) ELSE c]

\* The entries of a view have times, and the keys to tell them apart.
LEMMA ActivityTimed ==
  ASSUME NEW e, NEW d, Whole(d), NEW time, time = Activity(SessionFacts(e, d))
  PROVE  Timed(time, RankOf("sessions", time))
<1>. DEFINE r == "conversation_daily"
<1>1. PICK h : \E M \in SUBSET Stored(d.rows) : Accounts(SessionFacts(h, d), M, h, d, r)
  BY SomeAccount
<1>2. PICK M \in SUBSET Stored(d.rows) : Accounts(SessionFacts(h, d), M, h, d, r)
  BY <1>1
<1>3. PICK all : all = SessionFacts(h, d)
  OBVIOUS
<1>4. time = Activity(all) /\ Accounts(all, M, h, d, r)
  BY <1>2, <1>3, SameActivity
<1>5. d.rows \in Rows /\ IsFiniteSet(M)
  <2>1. M \in SUBSET Ids
    BY DEF Stored
  <2>. QED BY <2>1, FactsAssumption, FS_Subset DEF Whole, ShapeOK
<1>6. \A i \in M : d.rows[i] \in Row /\ d.rows[i].ts \in Nat
  BY <1>5, FactsAssumption DEF Stored, Rows, Row
<1>7. \A i : KeyOf(r, d.rows[i]).conversation = Conversation(d.rows[i])
  BY DEF KeyOf
<1>. HIDE DEF r
<1>8. \A k : (\E x \in all : x.key = k) <=> (\E i \in M : KeyOf(r, d.rows[i]) = k)
  BY <1>4, AccountedKeys
<1>. DEFINE C == {Conversation(d.rows[i]) : i \in M}
<1>9. {x.key.conversation : x \in all} = C
  BY <1>7, <1>8
<1>10. DOMAIN time = C /\ \A c \in C : time[c] = Greatest(Lasts(Within(all, c)))
  BY <1>4, <1>9 DEF Activity
<1>11. IsFiniteSet(C)
  <2>. DEFINE of == [i \in M |-> Conversation(d.rows[i])]
  <2>1. of \in Surjection(M, C)
    BY DEF Surjection
  <2>. HIDE DEF of, C
  <2>. QED BY <1>5, <2>1, FS_Surjection
<1>12. ASSUME NEW c \in C
       PROVE  time[c] \in Int
  <2>. DEFINE N == InSession(d, M, c)
              times == {d.rows[i].ts : i \in N}
  <2>1. time[c] = Greatest(TimesAt(d, N))
    <3>1. Greatest(Lasts(Within(all, c))) = Greatest(TimesAt(d, N))
      BY <1>4, <1>5, AccountedEnds DEF r
    <3>. QED BY <1>10, <3>1
  <2>2. N # {} /\ N \in SUBSET M /\ IsFiniteSet(N)
    <3>1. N # {} /\ N \in SUBSET M
      BY <1>7 DEF InSession, r
    <3>. QED BY <1>5, <3>1, FS_Subset
  <2>3. \A i \in N : d.rows[i].ts \in Nat
    BY <1>6, <2>2
  <2>. HIDE DEF N
  <2>4. Greatest(times) \in times
    <3>1. PICK rows, set : rows = d.rows /\ set = times
      OBVIOUS
    <3>2. set = {rows[i].ts : i \in N} /\ \A i \in N : rows[i].ts \in Nat
      BY <2>3, <3>1
    <3>3. Greatest(set) \in set
      BY <2>2, <3>2, ExtremeTimes
    <3>. QED BY <3>1, <3>3
  <2>5. TimesAt(d, N) = times
    BY DEF TimesAt
  <2>. QED BY <2>1, <2>3, <2>4, <2>5
<1>13. C \in SUBSET ConversationKeys
  BY <1>6, KeyOfConversation
<1>. HIDE DEF C
<1>14. \A a, b \in C : StringRank(a) \in Int /\ (StringRank(a) = StringRank(b) => a = b)
  BY <1>13, ReaderAssumption
<1>15. \A c \in C : RankOf("sessions", time)[c] = StringRank(c)
  BY <1>10 DEF RankOf
<1>. QED BY <1>10, <1>11, <1>12, <1>14, <1>15 DEF Timed

ListOf(e, view, d) ==
  IF view = "sessions" THEN Activity(SessionFacts(e, d)) ELSE [i \in Selected(d, NoFilter) |-> d.rows[i].ts]

LEMMA SessionTimes ==
  ASSUME NEW e, NEW d
  PROVE  TimesOf(Sessions(e, d, NoFilter)) = Activity(SessionFacts(e, d))
<1>1. PICK facts : facts = SessionFacts(e, d)
  OBVIOUS
<1>2. Sessions(e, d, NoFilter) = CardsOf(facts)
  BY <1>1 DEF Sessions, SessionFacts
<1>. QED BY <1>1, <1>2, CardsAre

LEMMA ListIs ==
  ASSUME NEW view, NEW d
  PROVE  LastActive(view, d) = ListOf(release, view, d)
BY SessionTimes DEF LastActive, ListOf

LEMMA ListTimed ==
  ASSUME NEW e, NEW view \in Views, NEW d, Whole(d), NEW time, time = ListOf(e, view, d)
  PROVE  Timed(time, RankOf(view, time))
<1>1. CASE view = "sessions"
  BY <1>1, ActivityTimed DEF ListOf
<1>2. CASE view # "sessions"
  <2>. DEFINE S == Selected(d, NoFilter)
  <2>1. S \in SUBSET Ids /\ S \in SUBSET Stored(d.rows) /\ d.rows \in Rows
    BY DEF Selected, Stored, Whole, ShapeOK
  <2>2. IsFiniteSet(S)
    BY <2>1, FactsAssumption, FS_Subset
  <2>3. \A i \in S : d.rows[i].ts \in Int /\ i \in Int
    BY <2>1, FactsAssumption, ReaderAssumption DEF Stored, Rows, Row
  <2>4. time = [i \in S |-> d.rows[i].ts]
    BY <1>2 DEF ListOf
  <2>. HIDE DEF S
  <2>5. DOMAIN time = S /\ \A i \in S : time[i] = d.rows[i].ts /\ RankOf(view, time)[i] = i
    BY <1>2, <2>4 DEF RankOf
  <2>. QED BY <2>2, <2>3, <2>5 DEF Timed
<1>. QED BY <1>1, <1>2

\* How many entries of a list are ahead of one of them.
Spot(view, time, c) == Behind(time, RankOf(view, time), c)

Shows(page, n, offset, c) ==
  /\ n \in Nat
  /\ n < offset + PageLimit => c \in page.items
  /\ ~page.hasNext => c \in page.items

\* A page of sessions shows the sessions whose turn it is ...
LEMMA SessionsPageShows ==
  ASSUME NEW offset \in Nat, NEW e, NEW d, Whole(d), NEW time, time = ListOf(e, "sessions", d),
         NEW c \in DOMAIN time, Spot("sessions", time, c) >= offset
  PROVE  Shows(SessionsPage(e, d, NoFilter, "desc", offset), Spot("sessions", time, c), offset, c)
<1>. DEFINE rank == RankOf("sessions", time)
            cards == CardsOf(SessionFacts(e, d))
            at == [s \in cards |-> s.last]
            by == [s \in cards |-> StringRank(s.conversation)]
            name == [s \in cards |-> s.conversation]
            rows == Page(InOrder(at, by, "desc"), PageLimit, offset)
            shown == SessionsPage(e, d, NoFilter, "desc", offset)
            n == Spot("sessions", time, c)
<1>1. /\ shown.items = {rows[k].conversation : k \in DOMAIN rows}
      /\ shown.hasNext = (offset + Len(rows) < IF rows = <<>> THEN 0 ELSE Cardinality(cards))
  BY DEF SessionsPage, Conversations, PageOfCards, WithTotal, Sessions, SessionFacts
<1>2. Timed(time, rank)
  <2>1. "sessions" \in Views
    BY DEF Views
  <2>. QED BY <2>1, ListTimed
<1>3. time = Activity(SessionFacts(e, d)) /\ \A a \in DOMAIN time : rank[a] = StringRank(a)
  BY DEF ListOf, RankOf
<1>. HIDE DEF cards, rank
<1>4. /\ \A s \in cards : s.conversation \in DOMAIN time /\ s.last = time[s.conversation]
      /\ \A s, t \in cards : s.conversation = t.conversation => s = t
      /\ \A a \in DOMAIN time : \E s \in cards : s.conversation = a
  BY <1>3, CardsAre DEF cards
<1>5. /\ \A a \in DOMAIN time : time[a] \in Int /\ rank[a] \in Int
      /\ \A s \in cards : at[s] = time[name[s]] /\ by[s] = rank[name[s]]
  BY <1>2, <1>3, <1>4 DEF Timed
<1>6. /\ at \in [cards -> Int] /\ by \in [cards -> Int] /\ name \in [cards -> DOMAIN time]
      /\ \A s, t \in cards : name[s] = name[t] => s = t
      /\ \A a \in DOMAIN time : \E s \in cards : name[s] = a
  <2>1. \A s \in cards : at[s] \in Int /\ by[s] \in Int
    BY <1>4, <1>5
  <2>2. at \in [cards -> Int] /\ by \in [cards -> Int]
    BY <2>1
  <2>. QED BY <1>4, <2>2
<1>7. \A s \in cards : name[s] = s.conversation
  OBVIOUS
<1>8. DOMAIN at = cards
  OBVIOUS
<1>9. n = Behind(time, rank, c)
  BY DEF Spot, rank
<1>. HIDE DEF at, by, name, shown, n
<1>10. /\ Timed(at, by) /\ Cardinality(cards) = Cardinality(DOMAIN time)
       /\ \A s \in cards : Behind(at, by, s) = Behind(time, rank, name[s])
  BY <1>2, <1>5, <1>6, SameOrder
<1>11. PICK s \in cards : s.conversation = c /\ name[s] = c
  BY <1>4, <1>7
<1>12. Behind(at, by, s) = n /\ n >= offset
  BY <1>9, <1>10, <1>11 DEF n
<1>13. /\ n \in Nat /\ Len(rows) \in Nat /\ rows # <<>>
       /\ n < offset + PageLimit => \E k \in DOMAIN rows : rows[k] = s
       /\ offset + Len(rows) >= Cardinality(cards) => \E k \in DOMAIN rows : rows[k] = s
  BY <1>8, <1>10, <1>11, <1>12, PageShows
<1>14. Cardinality(cards) \in Nat
  BY <1>8, <1>10, FS_CardinalityType DEF Timed
<1>. HIDE DEF rows
<1>15. (\E k \in DOMAIN rows : rows[k] = s) => c \in shown.items
  BY <1>1, <1>11
<1>16. ~shown.hasNext => offset + Len(rows) >= Cardinality(cards)
  <2>1. (IF rows = <<>> THEN 0 ELSE Cardinality(cards)) = Cardinality(cards)
    BY <1>13
  <2>2. PICK l, N : l = Len(rows) /\ N = Cardinality(cards)
    OBVIOUS
  <2>3. offset + l < N => shown.hasNext
    BY <1>1, <2>1, <2>2, Zenon
  <2>4. l \in Nat /\ N \in Nat
    BY <1>13, <1>14, <2>2
  <2>. QED BY <2>2, <2>3, <2>4
<1>. QED BY <1>13, <1>15, <1>16 DEF Shows, shown, n

\* ... and a page of requests the requests.
LEMMA RequestsPageShows ==
  ASSUME NEW offset \in Nat, NEW e, NEW d, Whole(d), NEW time, time = ListOf(e, "requests", d),
         NEW c \in DOMAIN time, Spot("requests", time, c) >= offset
  PROVE  Shows(RequestsPage(d, NoFilter, "desc", offset), Spot("requests", time, c), offset, c)
<1>. DEFINE rank == RankOf("requests", time)
            rows == Page(InOrder(time, rank, "desc"), PageLimit, offset)
            shown == RequestsPage(d, NoFilter, "desc", offset)
            n == Spot("requests", time, c)
<1>1. Timed(time, rank)
  <2>1. "requests" \in Views
    BY DEF Views
  <2>. QED BY <2>1, ListTimed
<1>2. time = [i \in Selected(d, NoFilter) |-> d.rows[i].ts] /\ rank = [i \in Selected(d, NoFilter) |-> i]
  BY DEF ListOf, RankOf
<1>3. shown.items = ToSet(rows) /\ shown.hasNext = (Len(rows) = PageLimit)
  BY <1>2 DEF RequestsPage, RecentGenerations
<1>4. n = Behind(time, rank, c)
  BY DEF Spot
<1>. HIDE DEF n, shown, rank
<1>5. /\ n \in Nat
      /\ n < offset + PageLimit => \E k \in DOMAIN rows : rows[k] = c
      /\ Len(rows) # PageLimit => \E k \in DOMAIN rows : rows[k] = c
  BY <1>1, <1>4, PageShows DEF n
<1>. HIDE DEF rows
<1>6. (\E k \in DOMAIN rows : rows[k] = c) => c \in shown.items
  BY <1>3 DEF ToSet
<1>. QED BY <1>3, <1>5, <1>6 DEF Shows, shown, n

LEMMA ReadShows ==
  ASSUME Whole(before), NEW view \in Views, NEW offset \in Nat, NEW time, time = LastActive(view, before),
         NEW c \in DOMAIN time, Spot(view, time, c) >= offset
  PROVE  Shows(PageOf(view, offset), Spot(view, time, c), offset, c)
<1>1. time = ListOf(release, view, before)
  BY ListIs
<1>2. CASE view = "sessions"
  BY <1>1, <1>2, SessionsPageShows DEF PageOf
<1>3. CASE view = "requests"
  BY <1>1, <1>3, RequestsPageShows DEF PageOf
<1>. QED BY <1>2, <1>3 DEF Views

-----------------------------------------------------------------------------
(* A walk.                                                                 *)

\* Whoever was ahead of an entry that stayed where it was is still ahead.
LEMMA SpotsHold ==
  ASSUME NEW view, NEW then, Timed(then, RankOf(view, then)), NEW now, Timed(now, RankOf(view, now)),
         \A a \in DOMAIN then : a \in DOMAIN now /\ ~(now[a] < then[a]),
         NEW c \in DOMAIN then, now[c] = then[c]
  PROVE  Spot(view, now, c) \in Nat /\ Spot(view, then, c) \in Nat /\ Spot(view, now, c) >= Spot(view, then, c)
<1>. DEFINE S == AheadOf(then, RankOf(view, then))[c]
            T == AheadOf(now, RankOf(view, now))[c]
<1>1. S \in SUBSET DOMAIN then /\ T \in SUBSET DOMAIN now /\ c \in DOMAIN now
  BY DEF AheadOf, Ahead
<1>2. \A a \in DOMAIN then : /\ then[a] \in Int /\ now[a] \in Int
                             /\ RankOf(view, then)[a] = RankOf(view, now)[a]
                             /\ RankOf(view, now)[a] \in Int
  BY DEF RankOf, Timed
<1>3. ASSUME NEW a \in S PROVE a \in T
  <2>1. then[a] > then[c] \/ (then[a] = then[c] /\ RankOf(view, then)[a] < RankOf(view, then)[c])
    BY <1>1, AheadIs
  <2>2. now[a] > now[c] \/ (now[a] = now[c] /\ RankOf(view, now)[a] < RankOf(view, now)[c])
    <3>1. a \in DOMAIN then /\ a \in DOMAIN now /\ now[a] >= then[a]
      BY <1>1, <1>2
    <3>. QED BY <1>2, <2>1, <3>1
  <2>3. a \in DOMAIN now
    BY <1>1
  <2>. QED BY <1>1, <2>2, <2>3, AheadIs
<1>4. Spot(view, then, c) = Cardinality(S) /\ Spot(view, now, c) = Cardinality(T)
  BY DEF Spot, Behind
<1>. HIDE DEF S, T
<1>5. IsFiniteSet(T) /\ IsFiniteSet(S) /\ Cardinality(S) <= Cardinality(T)
  <2>1. IsFiniteSet(T)
    BY <1>1, FS_Subset DEF Timed
  <2>2. S \in SUBSET T
    BY <1>3
  <2>. QED BY <2>1, <2>2, FS_Subset
<1>6. Cardinality(S) \in Nat /\ Cardinality(T) \in Nat
  BY <1>5, FS_CardinalityType
<1>. QED BY <1>4, <1>5, <1>6

\* An entry that stayed was shown, or is where the next page begins or behind.
Due(view, offset, seen, set) ==
  \A c \in set : /\ c \in DOMAIN LastActive(view, before)
                 /\ c \in seen \/ Spot(view, LastActive(view, before), c) >= offset

WalkInv ==
  walk.view # Nil =>
    /\ walk.view \in Views /\ walk.offset \in Nat \cup {Nil}
    /\ ~receded => IF walk.offset = Nil THEN steady \subseteq walk.seen
                                        ELSE Due(walk.view, walk.offset, walk.seen, steady)

\* A page leaves it so.
LEMMA ReadKeeps ==
  ASSUME Whole(before), NEW view \in Views, NEW offset \in Nat, NEW seen, NEW set,
         ReadPage(view, offset, seen), UNCHANGED vars, steady' = set,
         ~receded' => Due(view, offset, seen, set)
  PROVE  WalkInv'
<1>. DEFINE page == PageOf(view, offset)
            time == LastActive(view, before)
<1>1. walk' = [view |-> view, seen |-> seen \cup page.items,
               offset |-> IF page.hasNext THEN NextOffset(offset) ELSE Nil]
  BY DEF ReadPage, ReadOn
<1>2. NextOffset(offset) = offset + PageLimit /\ NextOffset(offset) \in Nat /\ NextOffset(offset) # Nil
  BY ReaderAssumption DEF NextOffset
<1>3. LastActive(view, before)' = time
  BY DEF vars, program, LastActive
<1>4. ASSUME NEW c \in set, ~receded', c \notin walk'.seen
      PROVE  /\ page.hasNext
             /\ c \in DOMAIN time /\ Spot(view, time, c) >= offset + PageLimit
  <2>1. c \in DOMAIN time /\ Spot(view, time, c) >= offset
    BY <1>1, <1>4 DEF Due
  <2>2. PICK t : t = time
    OBVIOUS
  <2>3. Shows(page, Spot(view, t, c), offset, c)
    BY <2>1, <2>2, ReadShows
  <2>4. c \notin page.items
    BY <1>1, <1>4
  <2>. QED BY <2>1, <2>2, <2>3, <2>4, ReaderAssumption DEF Shows
<1>. HIDE DEF page, time
<1>5. CASE page.hasNext
  <2>1. walk'.view = view /\ walk'.offset = offset + PageLimit /\ walk'.offset \in Nat /\ walk'.offset # Nil
    BY <1>1, <1>2, <1>5
  <2>2. ASSUME ~receded' PROVE Due(walk.view, walk.offset, walk.seen, steady)'
    <3>1. ASSUME NEW c \in set
          PROVE  /\ c \in DOMAIN time
                 /\ c \in walk'.seen \/ Spot(view, time, c) >= walk'.offset
      <4>1. c \in DOMAIN time
        BY <2>2 DEF Due, time
      <4>. QED BY <1>4, <2>1, <2>2, <4>1
    <3>2. LastActive(walk.view, before)' = time
      BY <1>3, <2>1
    <3>. QED BY <2>1, <3>1, <3>2 DEF Due
  <2>. QED BY <2>1, <2>2 DEF WalkInv
<1>6. CASE ~page.hasNext
  <2>1. walk'.view = view /\ walk'.offset = Nil
    BY <1>1, <1>6
  <2>2. ~receded' => steady' \subseteq walk'.seen
    BY <1>4, <1>6
  <2>. QED BY <2>1, <2>2 DEF WalkInv
<1>. QED BY <1>5, <1>6

\* A first page begins at the newest ...
LEMMA FirstPageKeeps ==
  ASSUME Whole(before), NEW view \in Views, FirstPage(view)
  PROVE  WalkInv'
<1>. DEFINE time == LastActive(view, before)
<1>1. ReadPage(view, 0, {}) /\ UNCHANGED vars /\ steady' = DOMAIN time
  BY DEF FirstPage
<1>2. \A c \in DOMAIN time : Spot(view, time, c) >= 0
  <2>1. Timed(time, RankOf(view, time))
    BY ListIs, ListTimed
  <2>. HIDE DEF time
  <2>2. ASSUME NEW c \in DOMAIN time PROVE Spot(view, time, c) \in Nat
    <3>1. AheadOf(time, RankOf(view, time))[c] \in SUBSET DOMAIN time
      BY DEF AheadOf, Ahead
    <3>2. IsFiniteSet(AheadOf(time, RankOf(view, time))[c])
      BY <2>1, <3>1, FS_Subset DEF Timed
    <3>. QED BY <3>2, FS_CardinalityType DEF Spot, Behind
  <2>. QED BY <2>2
<1>3. Due(view, 0, {}, DOMAIN time)
  BY <1>2 DEF Due
<1>. HIDE DEF time
<1>4. 0 \in Nat
  OBVIOUS
<1>. QED BY <1>1, <1>3, <1>4, ReadKeeps

\* ... the next page where the last one ended ...
LEMMA NextPageKeeps ==
  ASSUME Whole(before), WalkInv, NextPage
  PROVE  WalkInv'
<1>1. /\ walk.view \in Views /\ walk.offset \in Nat
      /\ ~receded => Due(walk.view, walk.offset, walk.seen, steady)
  BY DEF WalkInv, NextPage
<1>2. /\ ReadPage(walk.view, walk.offset, walk.seen) /\ UNCHANGED vars
      /\ steady' = steady /\ receded' = receded
  BY DEF NextPage
<1>. QED BY <1>1, <1>2, ReadKeeps

\* ... and between them nobody who was ahead of an entry falls behind it.
LEMMA MeanwhileKeeps ==
  ASSUME Whole(before), Whole(before)', WalkInv, Meanwhile
  PROVE  WalkInv'
<1>1. walk' = walk
  BY DEF Meanwhile
<1>2. CASE walk.view = Nil
  BY <1>1, <1>2 DEF WalkInv
<1>3. CASE walk.view # Nil /\ walk.offset = Nil
  <2>1. steady' = steady /\ receded' = receded
    BY <1>3 DEF Meanwhile
  <2>. QED BY <1>1, <1>3, <2>1 DEF WalkInv
<1>4. CASE walk.view # Nil /\ walk.offset # Nil
  <2>. DEFINE view == walk.view
              then == LastActive(view, before)
              now == LastActive(view, before')
  <2>1. view \in Views /\ walk.offset \in Nat /\ (~receded => Due(view, walk.offset, walk.seen, steady))
    BY <1>4 DEF WalkInv
  <2>2. LastActive(walk.view, before)' = now
    <3>1. LastActive(walk.view, before)' = ListOf(release', view, before')
      BY <1>1, SessionTimes DEF LastActive, ListOf
    <3>2. now = ListOf(release, view, before')
      BY ListIs
    <3>3. ListOf(release', view, before') = ListOf(release, view, before')
      BY SameActivity DEF ListOf
    <3>. QED BY <3>1, <3>2, <3>3
  <2>3. ASSUME ~receded'
        PROVE  /\ ~receded
               /\ \A c \in steady' : /\ c \in steady /\ c \in DOMAIN now
                                     /\ Spot(view, then, c) >= walk.offset => Spot(view, now, c) >= walk.offset
    <3>1. CASE before' = before
      <4>1. steady' = steady /\ receded' = receded /\ now = then
        BY <3>1 DEF Meanwhile
      <4>. QED BY <2>1, <2>3, <4>1 DEF Due
    <3>2. CASE before' # before
      <4>1. Watch(then, now)
        BY <1>4, <3>2 DEF Meanwhile
      <4>2. Timed(then, RankOf(view, then)) /\ Timed(now, RankOf(view, now))
        BY <2>1, ListIs, ListTimed
      <4>. HIDE DEF then, now, view
      <4>3. /\ ~receded
            /\ steady' = {c \in steady : c \in DOMAIN now /\ now[c] = then[c]}
            /\ \A a \in DOMAIN then : a \in DOMAIN now /\ ~(now[a] < then[a])
        BY <2>3, <4>1 DEF Watch
      <4>4. \A c \in steady : c \in DOMAIN then
        BY <2>1, <4>3 DEF Due, then
      <4>5. ASSUME NEW c \in steady', Spot(view, then, c) >= walk.offset
            PROVE  Spot(view, now, c) >= walk.offset
        <5>1. c \in DOMAIN then /\ now[c] = then[c]
          BY <4>3, <4>4
        <5>2. Spot(view, now, c) \in Nat /\ Spot(view, then, c) \in Nat /\ Spot(view, now, c) >= Spot(view, then, c)
          BY <4>2, <4>3, <5>1, SpotsHold
        <5>. QED BY <2>1, <4>5, <5>2
      <4>. QED BY <4>3, <4>5
    <3>. QED BY <3>1, <3>2
  <2>4. ASSUME ~receded' PROVE Due(walk.view, walk.offset, walk.seen, steady)'
    <3>1. ASSUME NEW c \in steady'
          PROVE  /\ c \in DOMAIN now
                 /\ c \in walk.seen \/ Spot(view, now, c) >= walk.offset
      BY <2>1, <2>3, <2>4 DEF Due
    <3>. HIDE DEF now
    <3>. QED BY <1>1, <2>2, <3>1 DEF Due
  <2>. QED BY <1>1, <1>4, <2>1, <2>4 DEF WalkInv
<1>. QED BY <1>2, <1>3, <1>4

\* Whatever the number of entries, the length of a page and the writes between
\* the pages, in both views: a reader who follows the pager to the end has been
\* shown every entry that did not move, unless one fell back in the order
\* (sessionsData, Conversations, RecentGenerations).
THEOREM PagerSkipsNone == ReaderSpec => []WalkSkipsNone
<1>. DEFINE Good == Aggregated(data) /\ Aggregated(before)
<1>1. Init => Good
  BY DEF Init, NoTables, Aggregated
<1>2. IInv /\ IInv' /\ Good /\ [Next]_vars => Good'
  BY StaysAggregated
<1>3. IInv /\ Good => Whole(before)
  BY DEF IInv, Whole
<1>4. ReaderInit => WalkInv
  BY DEF ReaderInit, NoWalk, WalkInv
<1>5. Whole(before) /\ Whole(before)' /\ WalkInv /\ [ReaderNext]_<<vars, reader>> => WalkInv'
  <2>. SUFFICES ASSUME Whole(before), Whole(before)', WalkInv, [ReaderNext]_<<vars, reader>>
                PROVE  WalkInv'
    OBVIOUS
  <2>1. CASE Meanwhile
    BY <2>1, MeanwhileKeeps
  <2>2. CASE \E view \in Views : FirstPage(view)
    BY <2>2, FirstPageKeeps
  <2>3. CASE NextPage
    BY <2>3, NextPageKeeps
  <2>4. CASE UNCHANGED <<vars, reader>>
    <3>1. /\ walk' = walk /\ steady' = steady /\ receded' = receded
          /\ LastActive(walk.view, before)' = LastActive(walk.view, before)
      BY <2>4 DEF vars, reader, program, LastActive
    <3>. QED BY <3>1 DEF WalkInv, Due
  <2>. QED BY <2>1, <2>2, <2>3, <2>4 DEF ReaderNext
<1>6. WalkInv => WalkSkipsNone
  BY DEF WalkInv, WalkSkipsNone
<1>7. ReaderSpec => [](IInv /\ Good)
  <2>1. ReaderInit => Init
    BY DEF ReaderInit
  <2>2. [ReaderNext]_<<vars, reader>> => [Next]_vars
    BY DEF ReaderNext, Meanwhile, FirstPage, NextPage, reader
  <2>. HIDE DEF Good
  <2>. QED BY <1>1, <1>2, <2>1, <2>2, Invariance, ReadersOnly, PTL DEF ReaderSpec
<1>. HIDE DEF Good
<1>. QED BY <1>3, <1>4, <1>5, <1>6, <1>7, PTL DEF ReaderSpec

-----------------------------------------------------------------------------
(* Points of a chart.                                                      *)

\* The numbers up to n are n.
LEMMA CountTo ==
  ASSUME NEW n \in Nat
  PROVE  IsFiniteSet(1..n) /\ Cardinality(1..n) = n
<1>1. 1 \in Int /\ n \in Int /\ (IF 1 > n THEN 0 ELSE n - 1 + 1) = n
  OBVIOUS
<1>. QED BY <1>1, FS_Interval

\* Sets that do not overlap add up.
LEMMA ApartAddUp ==
  ASSUME NEW A, NEW B, IsFiniteSet(A), IsFiniteSet(B), A \cap B = {}
  PROVE  /\ IsFiniteSet(A \cup B) /\ Cardinality(A \cup B) = Cardinality(A) + Cardinality(B)
         /\ Cardinality(A) \in Nat /\ Cardinality(B) \in Nat
<1>1. /\ IsFiniteSet(A \cup B)
      /\ Cardinality(A \cup B) = Cardinality(A) + Cardinality(B) - Cardinality(A \cap B)
  BY FS_Union
<1>2. Cardinality(A \cap B) = 0
  BY FS_EmptySet
<1>3. Cardinality(A) \in Nat /\ Cardinality(B) \in Nat
  BY FS_CardinalityType
<1>. QED BY <1>1, <1>2, <1>3

\* Totals of requests that do not overlap add up to the total of them all.
LEMMA AddedTotals ==
  ASSUME NEW e, NEW d, NEW A, NEW B, IsFiniteSet(A), IsFiniteSet(B), A \cap B = {}
  PROVE  Added(Total(A, e, d), Total(B, e, d)) = Total(A \cup B, e, d)
<1>. DEFINE fact == FactsIn(e, d.rows)
            N == A \cup B
            a == Tally(A, fact)
            b == Tally(B, fact)
            sums == [x \in DOMAIN a \cup DOMAIN b |-> Multiplicity(a, x) + Multiplicity(b, x)]
<1>1. IsFiniteSet(N)
  BY FS_Union
<1>2. Cardinality(N) = Cardinality(A) + Cardinality(B)
  BY ApartAddUp
<1>3. ASSUME NEW x
      PROVE  Cardinality(Of(N, fact, x)) = Cardinality(Of(A, fact, x)) + Cardinality(Of(B, fact, x))
  <2>1. Of(N, fact, x) = Of(A, fact, x) \cup Of(B, fact, x) /\ Of(A, fact, x) \cap Of(B, fact, x) = {}
    BY DEF Of
  <2>2. IsFiniteSet(Of(A, fact, x)) /\ IsFiniteSet(Of(B, fact, x))
    BY Occurrences
  <2>. QED BY <2>1, <2>2, ApartAddUp
<1>4. ASSUME NEW x
      PROVE  /\ x \in DOMAIN a \cup DOMAIN b <=> Cardinality(Of(N, fact, x)) # 0
             /\ Multiplicity(a, x) + Multiplicity(b, x) = Cardinality(Of(N, fact, x))
  <2>1. /\ Cardinality(Of(A, fact, x)) \in Nat /\ Cardinality(Of(B, fact, x)) \in Nat
        /\ x \in DOMAIN a <=> Cardinality(Of(A, fact, x)) # 0
        /\ x \in DOMAIN b <=> Cardinality(Of(B, fact, x)) # 0
        /\ Multiplicity(a, x) = Cardinality(Of(A, fact, x))
        /\ Multiplicity(b, x) = Cardinality(Of(B, fact, x))
    BY Occurrences
  <2>. QED BY <1>3, <2>1
<1>5. sums = Tally(N, fact)
  <2>. DEFINE D == DOMAIN a \cup DOMAIN b
  <2>1. sums = [x \in D |-> sums[x]] /\ \A x \in D : sums[x] = Multiplicity(a, x) + Multiplicity(b, x)
    OBVIOUS
  <2>. HIDE DEF sums, a, b, N, fact
  <2>2. \A x : x \in D <=> Cardinality(Of(N, fact, x)) # 0
    BY <1>4
  <2>3. \A x \in D : sums[x] = Cardinality(Of(N, fact, x))
    BY <1>4, <2>1
  <2>. HIDE DEF D
  <2>. QED BY <1>1, <2>1, <2>2, <2>3, TallyIs
<1>6. Added(Total(A, e, d), Total(B, e, d)) = [requests |-> Cardinality(A) + Cardinality(B), sums |-> sums]
  BY DEF Added, Total
<1>. QED BY <1>2, <1>5, <1>6 DEF Total

LEMMA NothingTotals ==
  ASSUME NEW e, NEW d
  PROVE  Total({}, e, d) = NoTotals
<1>1. Tally({}, FactsIn(e, d.rows)) = [x \in {} |-> 0]
  BY DEF Tally
<1>. QED BY <1>1, FS_EmptySet DEF Total, NoTotals

\* A fold over the subsets of a set is known by its steps.
StepsAlike(g, h, S, pick) ==
  /\ g[{}] = h[{}]
  /\ \A s \in (SUBSET S) \ {{}} : pick[s] \in s /\ (g[s \ {pick[s]}] = h[s \ {pick[s]}] => g[s] = h[s])

\* Two folds that take the same steps agree.
LEMMA OneFold ==
  ASSUME NEW S, IsFiniteSet(S), NEW pick, NEW g, NEW h, StepsAlike(g, h, S, pick)
  PROVE  g[S] = h[S]
<1>0. ASSUME NEW s \in SUBSET S, s # {}, g[s] # h[s]
      PROVE  pick[s] \in s /\ g[s \ {pick[s]}] # h[s \ {pick[s]}]
  BY <1>0 DEF StepsAlike
<1>. DEFINE Differ == {s \in SUBSET S : g[s] # h[s]}
<1>1. IsWellFoundedOn(StrictSubsetOrdering(S), FiniteSubsetsOf(S))
  BY FS_StrictSubsetOrderingWellFounded
<1>2. Differ \subseteq FiniteSubsetsOf(S)
  BY FS_Subset DEF FiniteSubsetsOf
<1>3. ASSUME Differ # {} PROVE FALSE
  <2>1. PICK s \in Differ : \A t \in Differ : ~ (<<t, s>> \in StrictSubsetOrdering(S))
    <3>. HIDE DEF Differ
    <3>. QED BY <1>1, <1>2, <1>3, WFMin
  <2>2. s # {} /\ s \in SUBSET S /\ g[s] # h[s]
    BY DEF StepsAlike
  <2>3. pick[s] \in s /\ g[s \ {pick[s]}] # h[s \ {pick[s]}]
    BY <1>0, <2>2
  <2>4. s \ {pick[s]} \in Differ /\ s \ {pick[s]} # s
    BY <2>2, <2>3
  <2>5. <<s \ {pick[s]}, s>> \in StrictSubsetOrdering(S)
    BY <2>4 DEF StrictSubsetOrdering
  <2>. QED BY <2>1, <2>4, <2>5
<1>. QED BY <1>3

\* The members of a finite set of integers, from the least on.
Rising(seq, S) ==
  /\ Cardinality(S) \in Nat /\ seq \in [1..Cardinality(S) -> S]
  /\ \A m, n \in 1..Cardinality(S) : m < n <=> seq[m] < seq[n]
  /\ \A a \in S : \E n \in 1..Cardinality(S) : seq[n] = a

Below(S, a) == {b \in S : b < a}

LEMMA Between ==
  ASSUME NEW a \in Int, NEW b \in Int, NEW c \in Int, c < a, a < b
  PROVE  c < b
OBVIOUS

\* A finite set of numbers in order.
LEMMA OrderedIs ==
  ASSUME NEW S \in SUBSET Int, IsFiniteSet(S)
  PROVE  /\ Rising(Ordered(S), S)
         /\ \A a \in S : /\ Cardinality(Below(S, a)) + 1 \in 1..Cardinality(S)
                         /\ Ordered(S)[Cardinality(Below(S, a)) + 1] = a
         /\ \A n \in 1..Cardinality(S) : Cardinality(Below(S, Ordered(S)[n])) + 1 = n
<1>. DEFINE ahead == [a \in S |-> Below(S, a)]
            N == Cardinality(S)
<1>1. Ordered(S) = Sorted(ahead)
  BY DEF Ordered, Below
<1>2. /\ DOMAIN ahead = S /\ \A a \in S : ahead[a] = Below(S, a)
      /\ \A a \in S : \A c : c \in ahead[a] <=> c \in S /\ c < a
  BY DEF Below
<1>0. \A a \in S : a \in Int
  OBVIOUS
<1>3. Strict(ahead)
  <2>1. ASSUME NEW a \in S, NEW b \in S
        PROVE  /\ ahead[a] \in SUBSET S /\ a \notin ahead[a]
               /\ a \in ahead[b] => ahead[a] \in SUBSET ahead[b]
               /\ a # b => a \in ahead[b] \/ b \in ahead[a]
    <3>. HIDE DEF ahead
    <3>1. ahead[a] \in SUBSET S /\ a \notin ahead[a]
      BY <1>0, <1>2
    <3>2. ASSUME a \in ahead[b], NEW c \in ahead[a] PROVE c \in ahead[b]
      <4>1. a < b /\ c \in S /\ c < a
        BY <1>2, <3>2
      <4>2. c < b
        BY <1>0, <4>1, Between
      <4>. QED BY <1>2, <4>1, <4>2
    <3>3. a # b => a < b \/ b < a
      BY <1>0
    <3>. QED BY <1>2, <3>1, <3>2, <3>3
  <2>. HIDE DEF ahead
  <2>. QED BY <1>2, <2>1 DEF Strict
<1>. HIDE DEF ahead
<1>. DEFINE seq == Sorted(ahead)
<1>4. /\ N \in Nat /\ seq \in [1..N -> S]
      /\ \A a \in S : Place(ahead, a) \in 1..N /\ seq[Place(ahead, a)] = a
      /\ \A n \in 1..N : Place(ahead, seq[n]) = n
  BY <1>2, <1>3, SortedIs
<1>5. ASSUME NEW a \in S, NEW b \in S, a < b
      PROVE  Place(ahead, a) < Place(ahead, b)
  <2>1. ahead[a] \in SUBSET ahead[b] /\ a \in ahead[b] /\ a \notin ahead[a]
    <3>1. ASSUME NEW c \in ahead[a] PROVE c \in ahead[b]
      <4>1. c \in S /\ c < a
        BY <1>2
      <4>2. c < b
        BY <1>0, <1>5, <4>1, Between
      <4>. QED BY <1>2, <4>1, <4>2
    <3>2. a \in ahead[b]
      BY <1>2, <1>5
    <3>3. ~ (a < a)
      BY <1>0
    <3>4. a \notin ahead[a]
      BY <1>2, <3>3
    <3>. QED BY <3>1, <3>2, <3>4
  <2>2. IsFiniteSet(ahead[b])
    <3>1. ahead[b] \in SUBSET S
      BY <1>2 DEF Below
    <3>. QED BY <3>1, FS_Subset
  <2>3. Cardinality(ahead[a]) < Cardinality(ahead[b]) /\ Cardinality(ahead[a]) \in Nat
    <3>1. ahead[a] # ahead[b]
      BY <2>1
    <3>2. /\ IsFiniteSet(ahead[a]) /\ Cardinality(ahead[a]) <= Cardinality(ahead[b])
          /\ Cardinality(ahead[b]) = Cardinality(ahead[a]) => ahead[b] = ahead[a]
      BY <2>1, <2>2, FS_Subset
    <3>3. Cardinality(ahead[a]) \in Nat /\ Cardinality(ahead[b]) \in Nat
      BY <2>2, <3>2, FS_CardinalityType
    <3>. QED BY <3>1, <3>2, <3>3
  <2>4. Cardinality(ahead[b]) \in Nat
    BY <2>2, FS_CardinalityType
  <2>. QED BY <2>3, <2>4 DEF Place
<1>6. ASSUME NEW m \in 1..N, NEW n \in 1..N
      PROVE  m < n <=> seq[m] < seq[n]
  <2>1. seq[m] \in S /\ seq[n] \in S /\ Place(ahead, seq[m]) = m /\ Place(ahead, seq[n]) = n
    BY <1>4
  <2>2. seq[m] \in Int /\ seq[n] \in Int
    BY <1>0, <2>1
  <2>20. m \in Int /\ n \in Int
    BY <1>4
  <2>. HIDE DEF seq, N
  <2>3. seq[m] < seq[n] => m < n
    BY <1>5, <2>1
  <2>4. seq[n] < seq[m] => n < m
    BY <1>5, <2>1
  <2>5. seq[m] = seq[n] => m = n
    BY <2>1
  <2>. QED BY <2>2, <2>20, <2>3, <2>4, <2>5
<1>7. \A a \in S : Place(ahead, a) = Cardinality(Below(S, a)) + 1
  BY <1>2 DEF Place
<1>8. Rising(seq, S)
  <2>. HIDE DEF seq
  <2>1. \A a \in S : \E n \in 1..N : seq[n] = a
    BY <1>4
  <2>. QED BY <1>4, <1>6, <2>1 DEF Rising
<1>9. /\ \A a \in S : Cardinality(Below(S, a)) + 1 \in 1..N /\ seq[Cardinality(Below(S, a)) + 1] = a
      /\ \A n \in 1..N : Cardinality(Below(S, seq[n])) + 1 = n
  <2>. HIDE DEF seq
  <2>. QED BY <1>4, <1>7
<1>. QED BY <1>1, <1>8, <1>9

\* The greatest of a finite set of numbers.
LEMMA MaxIs ==
  ASSUME NEW K \in Nat, NEW s \in SUBSET (1..K), s # {}
  PROVE  Max(s) \in s /\ \A n \in s : n <= Max(s)
<1>. DEFINE at == [n \in s |-> n]
<1>1. IsFiniteSet(s)
  <2>1. IsFiniteSet(1..K)
    BY FS_Interval
  <2>. QED BY <2>1, FS_Subset
<1>2. PICK m \in s : \A n \in s : m >= n
  <2>1. at \in [s -> Nat] /\ \A n \in s : at[n] = n
    OBVIOUS
  <2>. HIDE DEF at
  <2>2. PICK j \in s : \A k \in s : at[j] >= at[k]
    BY <1>1, <2>1, ExtremesExist
  <2>. QED BY <2>1, <2>2
<1>3. Max(s) \in s /\ \A n \in s : Max(s) >= n
  BY <1>2, Zenon DEF Max
<1>. QED BY <1>3

\* What the points of a chart add up to.
SeriesSum(points) == FoldLeft(LAMBDA a, p : Added(a, p.total), NoTotals, points)

\* Points that share out the requests N add up to the total of N.
LEMMA FoldedTotals ==
  ASSUME NEW e, NEW d, NEW N, IsFiniteSet(N), NEW K \in Nat, NEW points, DOMAIN points = 1..K,
         NEW part \in [1..K -> SUBSET N], Apart(1..K, part), Covered(1..K, part) = N,
         \A n \in 1..K : points[n].total = Total(part[n], e, d)
  PROVE  SeriesSum(points) = Total(N, e, d)
<1>. DEFINE S == 1..K
            pick == [s \in SUBSET S |-> Max(s)]
            all(s) == UNION {part[n] : n \in s}
            g == [s \in SUBSET S |-> Total(all(s), e, d)]
            Rec(h) == h = [s \in SUBSET S |->
                             IF s = {} THEN NoTotals ELSE Added(h[s \ {Max(s)}], points[Max(s)].total)]
            fold == CHOOSE h : Rec(h)
<1>1. SeriesSum(points) = fold[S]
  BY DEF SeriesSum, FoldLeft, MapThenFoldSet
<1>2. \A s \in SUBSET S : s # {} => Max(s) \in s
  BY MaxIs
<1>3. ASSUME NEW s \in SUBSET S, NEW n \in s
      PROVE  Added(Total(all(s \ {n}), e, d), Total(part[n], e, d)) = Total(all(s), e, d)
  <2>1. all(s) = all(s \ {n}) \cup part[n] /\ all(s \ {n}) \cap part[n] = {}
    <3>1. \A m \in s \ {n} : part[m] \cap part[n] = {}
      BY DEF Apart
    <3>. QED BY <3>1
  <2>2. all(s \ {n}) \subseteq N /\ part[n] \subseteq N
    OBVIOUS
  <2>. HIDE DEF all
  <2>3. IsFiniteSet(all(s \ {n})) /\ IsFiniteSet(part[n])
    BY <2>2, FS_Subset
  <2>4. PICK A, B : A = all(s \ {n}) /\ B = part[n]
    OBVIOUS
  <2>6. IsFiniteSet(A) /\ IsFiniteSet(B) /\ A \cap B = {}
    BY <2>1, <2>3, <2>4
  <2>5. Added(Total(A, e, d), Total(B, e, d)) = Total(A \cup B, e, d)
    BY <2>6, AddedTotals
  <2>. QED BY <2>1, <2>4, <2>5
<1>4. all({}) = {} /\ all(S) = N
  BY DEF Covered
<1>5. Rec(g)
  <2>. HIDE DEF all, S
  <2>1. \A s \in SUBSET S : g[s] = Total(all(s), e, d)
    OBVIOUS
  <2>2. ASSUME NEW s \in SUBSET S
        PROVE  Total(all(s), e, d) = IF s = {} THEN NoTotals ELSE Added(g[s \ {Max(s)}], points[Max(s)].total)
    <3>1. CASE s = {}
      BY <1>4, <3>1, NothingTotals
    <3>2. CASE s # {}
      <4>1. PICK n \in s : n = Max(s)
        BY <1>2, <3>2
      <4>2. n \in S /\ s \ {n} \in SUBSET S
        BY <4>1
      <4>3. points[n].total = Total(part[n], e, d)
        BY <4>2 DEF S
      <4>. QED BY <1>3, <2>1, <3>2, <4>1, <4>2, <4>3
    <3>. QED BY <3>1, <3>2
  <2>. QED BY <2>2
<1>. HIDE DEF Rec, S, all
<1>6. Rec(fold)
  BY <1>5, Zenon
<1>. HIDE DEF fold
<1>7. ASSUME NEW h, Rec(h), NEW s \in SUBSET S
      PROVE  h[s] = IF s = {} THEN NoTotals ELSE Added(h[s \ {Max(s)}], points[Max(s)].total)
  BY <1>7, Zenon DEF Rec
<1>8. g[S] = Total(N, e, d)
  BY <1>4
<1>. HIDE DEF g
<1>9. fold[S] = g[S]
  <2>1. IsFiniteSet(S)
    BY FS_Interval DEF S
  <2>2. \A s \in SUBSET S : s # {} => pick[s] \in s /\ pick[s] = Max(s)
    BY <1>2
  <2>3. {} \in SUBSET S
    OBVIOUS
  <2>. HIDE DEF pick
  <2>4. fold[{}] = g[{}]
    BY <1>5, <1>6, <1>7, <2>3
  <2>5. ASSUME NEW s \in SUBSET S, s # {} /\ fold[s \ {pick[s]}] = g[s \ {pick[s]}] PROVE fold[s] = g[s]
    <3>1. pick[s] = Max(s)
      BY <2>2, <2>5
    <3>2. /\ fold[s] = Added(fold[s \ {Max(s)}], points[Max(s)].total)
          /\ g[s] = Added(g[s \ {Max(s)}], points[Max(s)].total)
      BY <1>5, <1>6, <1>7, <2>5
    <3>. QED BY <2>5, <3>1, <3>2
  <2>6. \A s \in SUBSET S : s # {} => pick[s] \in s
    BY <2>2
  <2>7. ASSUME NEW s \in (SUBSET S) \ {{}}
        PROVE  pick[s] \in s /\ (fold[s \ {pick[s]}] = g[s \ {pick[s]}] => fold[s] = g[s])
    <3>1. s \in SUBSET S /\ s # {}
      OBVIOUS
    <3>. QED BY <2>5, <2>6, <3>1, Zenon
  <2>8. StepsAlike(fold, g, S, pick)
    BY <2>4, <2>7, Zenon DEF StepsAlike
  <2>. QED BY <2>1, <2>8, OneFold
<1>. QED BY <1>1, <1>8, <1>9, Zenon

\* The points of the requests N, which at puts on the axis.
Starts(N, at)     == {at[i] : i \in N}
OnPoint(N, at, s) == {i \in N : at[i] = s}
PointOf(N, at, s, e, d) == [start |-> s, total |-> Total(OnPoint(N, at, s), e, d)]
Points(N, at, e, d) ==
  [n \in 1..Cardinality(Starts(N, at)) |-> PointOf(N, at, Ordered(Starts(N, at))[n], e, d)]

\* The starts of a chart's points, in order.
LEMMA StartsAre ==
  ASSUME NEW N, IsFiniteSet(N), NEW at, \A i \in N : at[i] \in Int
  PROVE  Starts(N, at) \in SUBSET Int /\ IsFiniteSet(Starts(N, at)) /\ Rising(Ordered(Starts(N, at)), Starts(N, at))
<1>1. Starts(N, at) \in SUBSET Int
  BY DEF Starts
<1>2. IsFiniteSet(Starts(N, at))
  <2>. DEFINE f == [i \in N |-> at[i]]
  <2>1. f \in Surjection(N, Starts(N, at))
    BY DEF Surjection, Starts
  <2>. HIDE DEF f
  <2>. QED BY <2>1, FS_Surjection
<1>3. PICK S : S = Starts(N, at)
  OBVIOUS
<1>4. Rising(Ordered(S), S)
  BY <1>1, <1>2, <1>3, OrderedIs
<1>. QED BY <1>1, <1>2, <1>3, <1>4

\* They come in order and add up to the total.
LEMMA PointsAddUp ==
  ASSUME NEW e, NEW d, NEW N, IsFiniteSet(N), NEW at, \A i \in N : at[i] \in Int,
         NEW points, points = Points(N, at, e, d)
  PROVE  /\ SeriesSum(points) = Total(N, e, d)
         /\ \A m, n \in DOMAIN points : m < n => points[m].start < points[n].start
<1>. DEFINE S == Starts(N, at)
            K == Cardinality(S)
            seq == Ordered(S)
            part == [n \in 1..K |-> OnPoint(N, at, seq[n])]
<1>1. S \in SUBSET Int /\ IsFiniteSet(S) /\ Rising(seq, S) /\ \A i \in N : at[i] \in S
  BY StartsAre DEF Starts
<1>2. DOMAIN points = 1..K /\ \A n \in 1..K : points[n] = PointOf(N, at, seq[n], e, d)
  BY DEF Points
<1>3. /\ K \in Nat /\ seq \in [1..K -> S]
      /\ \A m, n \in 1..K : m < n <=> seq[m] < seq[n]
      /\ \A a \in S : \E n \in 1..K : seq[n] = a
  <2>. HIDE DEF S, seq
  <2>. QED BY <1>1 DEF Rising
<1>4. part \in [1..K -> SUBSET N]
  BY DEF OnPoint
<1>5. \A n \in 1..K : points[n].total = Total(part[n], e, d)
  BY <1>2 DEF PointOf
<1>6. ASSUME NEW m \in 1..K, NEW n \in 1..K, m # n PROVE part[m] \cap part[n] = {}
  <2>. HIDE DEF S, seq, K
  <2>1. seq[m] # seq[n]
    <3>0. \A a \in S : a \in Int
      BY <1>1
    <3>1. m \in Int /\ n \in Int /\ seq[m] \in Int /\ seq[n] \in Int
      BY <1>3, <3>0
    <3>2. seq[m] < seq[n] \/ seq[n] < seq[m]
      BY <1>3, <1>6, <3>1
    <3>. QED BY <3>1, <3>2
  <2>. QED BY <2>1 DEF OnPoint
<1>7. UNION {part[n] : n \in 1..K} = N
  <2>. HIDE DEF S, seq, K
  <2>1. ASSUME NEW i \in N PROVE \E n \in 1..K : i \in part[n]
    <3>1. PICK n \in 1..K : seq[n] = at[i]
      BY <1>1, <1>3
    <3>. QED BY <3>1 DEF OnPoint
  <2>. QED BY <1>4, <2>1
<1>. HIDE DEF S, seq, part, K
<1>8. Apart(1..K, part) /\ Covered(1..K, part) = N
  BY <1>6, <1>7 DEF Apart, Covered
<1>9. SeriesSum(points) = Total(N, e, d)
  <2>1. DOMAIN points = 1..K /\ K \in Nat
    BY <1>2, <1>3
  <2>. QED BY <1>4, <1>5, <1>8, <2>1, FoldedTotals
<1>10. ASSUME NEW m \in 1..K, NEW n \in 1..K, m < n PROVE points[m].start < points[n].start
  BY <1>2, <1>3, <1>10 DEF PointOf
<1>. QED BY <1>2, <1>9, <1>10, Zenon

\* A start after all the others comes last.
LEMMA OrderedGrows ==
  ASSUME NEW S \in SUBSET Int, IsFiniteSet(S), NEW b \in Int, \A a \in S : a < b
  PROVE  /\ Cardinality(S) \in Nat /\ Cardinality(S \cup {b}) = Cardinality(S) + 1
         /\ Ordered(S \cup {b})[Cardinality(S) + 1] = b
         /\ \A n \in 1..Cardinality(S) : Ordered(S \cup {b})[n] = Ordered(S)[n]
<1>. DEFINE T == S \cup {b}
<1>0. \A a \in S : a \in Int
  OBVIOUS
<1>1. T \in SUBSET Int /\ IsFiniteSet(T) /\ b \notin S
  BY <1>0, FS_AddElement
<1>2. Cardinality(S) \in Nat /\ Cardinality(T) = Cardinality(S) + 1
  BY <1>1, FS_CardinalityType, FS_AddElement
<1>3. Below(T, b) = S
  <2>1. ~ (b < b)
    OBVIOUS
  <2>. QED BY <2>1 DEF Below
<1>4. ASSUME NEW a \in S PROVE Below(T, a) = Below(S, a)
  <2>1. ~ (b < a)
    BY <1>0
  <2>. QED BY <2>1 DEF Below
<1>5. b \in T /\ \A a \in S : a \in T
  OBVIOUS
<1>. HIDE DEF T
<1>6. \A a \in T : Ordered(T)[Cardinality(Below(T, a)) + 1] = a
  BY <1>1, OrderedIs
<1>7. Ordered(T)[Cardinality(S) + 1] = b
  BY <1>3, <1>5, <1>6
<1>8. ASSUME NEW n \in 1..Cardinality(S) PROVE Ordered(T)[n] = Ordered(S)[n]
  <2>1. PICK a : a = Ordered(S)[n]
    OBVIOUS
  <2>2. a \in S /\ Cardinality(Below(S, a)) + 1 = n
    BY <2>1, OrderedIs DEF Rising
  <2>. QED BY <1>4, <1>5, <1>6, <2>1, <2>2
<1>. QED BY <1>2, <1>7, <1>8 DEF T

LEMMA Appended ==
  ASSUME NEW V, NEW s \in Seq(V), NEW p \in V
  PROVE  Append(s, p) = [n \in 1..(Len(s) + 1) |-> IF n = Len(s) + 1 THEN p ELSE s[n]]
<1>. DEFINE t == Append(s, p)
<1>1. Len(s) \in Nat /\ t \in Seq(V) /\ Len(t) = Len(s) + 1
  OBVIOUS
<1>2. ASSUME NEW n \in 1..(Len(s) + 1) PROVE t[n] = IF n = Len(s) + 1 THEN p ELSE s[n]
  OBVIOUS
<1>. HIDE DEF t
<1>3. t = [n \in 1..Len(t) |-> t[n]]
  BY <1>1
<1>4. t = [n \in 1..(Len(s) + 1) |-> t[n]]
  BY <1>1, <1>3
<1>5. t = [n \in 1..(Len(s) + 1) |-> IF n = Len(s) + 1 THEN p ELSE s[n]]
  BY <1>2, <1>4
<1>. QED BY <1>5 DEF t

\* The requests of one more day join the last point, or begin the next one.
LEMMA PointsGrow ==
  ASSUME NEW e, NEW d, NEW N, IsFiniteSet(N), NEW D, IsFiniteSet(D), D # {}, N \cap D = {},
         NEW by, NEW b \in Int, \A i \in N : by[i] \in Int /\ by[i] <= b, \A i \in D : by[i] = b,
         NEW bucket, NEW day, BucketStart(day.start, bucket) = b, day.total = Total(D, e, d)
  PROVE  MergeDay(Points(N, by, e, d), day, bucket) = Points(N \cup D, by, e, d)
<1>. DEFINE S == Starts(N, by)
            K == Cardinality(S)
            seq == Ordered(S)
            old == Points(N, by, e, d)
            new == Points(N \cup D, by, e, d)
<1>1. S \in SUBSET Int /\ IsFiniteSet(S) /\ Rising(seq, S)
  BY StartsAre
<1>2. \A a \in S : a \in Int /\ a <= b
  BY DEF Starts
<1>3. Starts(N \cup D, by) = S \cup {b}
  BY DEF Starts
<1>4. /\ K \in Nat /\ seq \in [1..K -> S]
      /\ \A m, n \in 1..K : m < n <=> seq[m] < seq[n]
      /\ \A a \in S : \E n \in 1..K : seq[n] = a
  <2>. HIDE DEF S, seq
  <2>. QED BY <1>1 DEF Rising
<1>5. old = [n \in 1..K |-> PointOf(N, by, seq[n], e, d)]
  BY DEF Points
<1>6. /\ \A s : s # b => OnPoint(N \cup D, by, s) = OnPoint(N, by, s)
      /\ OnPoint(N \cup D, by, b) = OnPoint(N, by, b) \cup D
  BY DEF OnPoint
<1>7. Added(Total(OnPoint(N, by, b), e, d), day.total) = Total(OnPoint(N \cup D, by, b), e, d)
  <2>1. PICK A : A = OnPoint(N, by, b)
    OBVIOUS
  <2>2. IsFiniteSet(A) /\ A \cap D = {}
    BY <2>1, FS_Subset DEF OnPoint
  <2>3. Added(Total(A, e, d), Total(D, e, d)) = Total(A \cup D, e, d)
    BY <2>2, AddedTotals
  <2>. QED BY <1>6, <2>1, <2>3
<1>8. old \in Seq({PointOf(N, by, s, e, d) : s \in S}) /\ Len(old) = K /\ DOMAIN old = 1..K
  <2>. HIDE DEF S, seq, old
  <2>. QED BY <1>4, <1>5
<1>9. b \notin S => OnPoint(N, by, b) = {}
  BY DEF Starts, OnPoint
<1>10. CASE b \in S
  <2>1. Starts(N \cup D, by) = S
    BY <1>3, <1>10
  <2>2. new = [n \in 1..K |-> PointOf(N \cup D, by, seq[n], e, d)]
    BY <2>1 DEF Points
  <2>. HIDE DEF S, seq, old, new
  <2>3. PICK k \in 1..K : seq[k] = b
    BY <1>4, <1>10
  <2>4. ASSUME NEW n \in 1..K PROVE n <= k
    <3>1. seq[n] \in Int /\ seq[n] <= b
      BY <1>2, <1>4
    <3>2. ~ (seq[k] < seq[n])
      BY <2>3, <3>1
    <3>3. ~ (k < n)
      BY <1>4, <3>2
    <3>. QED BY <1>4, <3>3
  <2>5. k = K
    <3>1. K \in 1..K
      BY <1>4, <2>3
    <3>2. K <= k
      BY <2>4, <3>1
    <3>. QED BY <1>4, <3>2
  <2>6. ASSUME NEW n \in 1..K, n # K PROVE seq[n] # b
    <3>1. n < K /\ K \in 1..K
      BY <1>4, <2>6
    <3>2. seq[n] < seq[K] /\ seq[n] \in Int
      BY <1>2, <1>4, <3>1
    <3>. QED BY <2>3, <2>5, <3>2
  <2>7. old # <<>> /\ Last(old).start = b
    <3>1. K \in 1..K
      BY <2>3, <2>5
    <3>2. old[K] = PointOf(N, by, b, e, d)
      BY <1>5, <2>3, <2>5, <3>1
    <3>3. old # <<>>
      BY <1>8, <3>1
    <3>. QED BY <1>8, <3>2, <3>3 DEF Last, PointOf
  <2>8. MergeDay(old, day, bucket) = [old EXCEPT ![K].total = Added(@, day.total)]
    BY <1>8, <2>7 DEF MergeDay
  <2>9. ASSUME NEW n \in 1..K
        PROVE  [old EXCEPT ![K].total = Added(@, day.total)][n] = new[n]
    <3>1. CASE n = K
      <4>1. old[n] = [start |-> b, total |-> Total(OnPoint(N, by, b), e, d)]
        BY <1>5, <2>3, <2>5, <3>1 DEF PointOf
      <4>2. new[n] = [start |-> b, total |-> Total(OnPoint(N \cup D, by, b), e, d)]
        BY <2>2, <2>3, <2>5, <3>1 DEF PointOf
      <4>3. [old EXCEPT ![K].total = Added(@, day.total)][n]
              = [start |-> b, total |-> Added(Total(OnPoint(N, by, b), e, d), day.total)]
        BY <1>8, <3>1, <4>1
      <4>. QED BY <1>7, <4>2, <4>3
    <3>2. CASE n # K
      <4>1. seq[n] # b
        BY <2>6, <3>2
      <4>2. old[n] = new[n]
        BY <1>5, <1>6, <2>2, <4>1 DEF PointOf
      <4>. QED BY <1>8, <3>2, <4>2
    <3>. QED BY <3>1, <3>2
  <2>10. [old EXCEPT ![K].total = Added(@, day.total)] = new
    <3>. DEFINE changed == [old EXCEPT ![K].total = Added(@, day.total)]
    <3>1. changed = [n \in 1..K |-> changed[n]]
      BY <1>8
    <3>. HIDE DEF changed
    <3>. QED BY <2>2, <2>9, <3>1 DEF changed
  <2>. QED BY <2>8, <2>10 DEF old, new
<1>11. CASE b \notin S
  <2>1. \A a \in S : a < b
    BY <1>2, <1>11
  <2>. DEFINE T == S \cup {b}
  <2>2. /\ Cardinality(T) = K + 1 /\ Ordered(T)[K + 1] = b
        /\ \A n \in 1..K : Ordered(T)[n] = seq[n]
    <3>. HIDE DEF S
    <3>. QED BY <1>1, <2>1, OrderedGrows
  <2>3. new = [n \in 1..(K + 1) |-> PointOf(N \cup D, by, Ordered(T)[n], e, d)]
    BY <1>3, <2>2 DEF Points
  <2>. DEFINE point == [start |-> b, total |-> day.total]
  <2>. HIDE DEF S, seq, old, new, T
  <2>4. MergeDay(old, day, bucket) = Append(old, point)
    <3>1. old = <<>> \/ Last(old).start # b
      <4>1. CASE K = 0
        BY <1>8, <4>1
      <4>2. CASE K # 0
        <5>1. K \in 1..K
          BY <1>4, <4>2
        <5>2. seq[K] \in S
          BY <1>4, <5>1
        <5>3. old[K].start = seq[K]
          BY <1>5, <5>1 DEF PointOf
        <5>. QED BY <1>8, <1>11, <5>2, <5>3 DEF Last
      <4>. QED BY <4>1, <4>2
    <3>. QED BY <3>1 DEF MergeDay
  <2>5. PointOf(N \cup D, by, b, e, d) = point
    <3>1. OnPoint(N \cup D, by, b) = D
      BY <1>6, <1>9, <1>11
    <3>. QED BY <3>1 DEF PointOf
  <2>6. ASSUME NEW n \in 1..K PROVE PointOf(N \cup D, by, seq[n], e, d) = old[n]
    <3>1. seq[n] # b
      BY <1>4, <1>11
    <3>. QED BY <1>5, <1>6, <3>1 DEF PointOf
  <2>. HIDE DEF point
  <2>7. Append(old, point) = [n \in 1..(K + 1) |-> IF n = K + 1 THEN point ELSE old[n]]
    <3>. DEFINE V == {PointOf(N, by, s, e, d) : s \in S} \cup {point}
    <3>1. old \in Seq(V) /\ point \in V
      <4>1. \A n \in 1..K : old[n] \in V
        BY <1>8
      <4>. HIDE DEF V
      <4>2. old = [n \in 1..K |-> old[n]]
        BY <1>8
      <4>3. old \in [1..K -> V]
        BY <4>1, <4>2
      <4>. QED BY <1>4, <4>3 DEF V
    <3>. HIDE DEF V
    <3>. QED BY <1>8, <3>1, Appended
  <2>8. ASSUME NEW n \in 1..(K + 1)
        PROVE  PointOf(N \cup D, by, Ordered(T)[n], e, d) = IF n = K + 1 THEN point ELSE old[n]
    <3>1. CASE n = K + 1
      BY <2>2, <2>5, <3>1
    <3>2. CASE n # K + 1
      <4>1. n \in 1..K
        BY <1>4, <3>2
      <4>. QED BY <2>2, <2>6, <3>2, <4>1
    <3>. QED BY <3>1, <3>2
  <2>9. Append(old, point) = new
    BY <2>3, <2>7, <2>8
  <2>. QED BY <2>4, <2>9 DEF old, new
<1>. QED BY <1>10, <1>11

\* Merging days whose buckets come in the same order leaves the points of the
\* buckets.
LEMMA MergedDays ==
  ASSUME NEW e, NEW d, NEW N, IsFiniteSet(N), NEW at, \A i \in N : at[i] \in Int,
         NEW bucket, bucket \notin {"hour", "day"},
         NEW by, \A i \in N : by[i] \in Int /\ by[i] = BucketStart(at[i], bucket),
         \A i, j \in N : at[i] <= at[j] => by[i] <= by[j]
  PROVE  MergeDays(Points(N, at, e, d), bucket) = Points(N, by, e, d)
<1>. DEFINE A == Starts(N, at)
            K == Cardinality(A)
            seq == Ordered(A)
            days == Points(N, at, e, d)
            S == 1..K
            part == [n \in S |-> OnPoint(N, at, seq[n])]
            all(s) == UNION {part[n] : n \in s}
            pick == [s \in SUBSET S |-> Max(s)]
            g == [s \in SUBSET S |-> Points(all(s), by, e, d)]
            Rec(h) == h = [s \in SUBSET S |->
                             IF s = {} THEN <<>> ELSE MergeDay(h[s \ {Max(s)}], days[Max(s)], bucket)]
            fold == CHOOSE h : Rec(h)
<1>1. A \in SUBSET Int /\ IsFiniteSet(A) /\ Rising(seq, A) /\ \A i \in N : at[i] \in A
  BY StartsAre DEF Starts
<1>2. DOMAIN days = S /\ \A n \in S : days[n] = PointOf(N, at, seq[n], e, d)
  BY DEF Points
<1>3. MergeDays(days, bucket) = fold[S]
  <2>1. MergeDays(days, bucket) = FoldLeft(LAMBDA points, day : MergeDay(points, day, bucket), <<>>, days)
    BY Zenon DEF MergeDays
  <2>2. FoldLeft(LAMBDA points, day : MergeDay(points, day, bucket), <<>>, days) = fold[S]
    <3>. HIDE DEF days
    <3>. QED BY <1>2 DEF FoldLeft, MapThenFoldSet
  <2>. QED BY <2>1, <2>2, Zenon
<1>4. /\ K \in Nat /\ seq \in [S -> A]
      /\ \A m, n \in S : m < n <=> seq[m] < seq[n]
      /\ \A a \in A : \E n \in S : seq[n] = a
  <2>. HIDE DEF A, seq
  <2>. QED BY <1>1 DEF Rising
<1>5. IsFiniteSet(S) /\ \A s \in (SUBSET S) \ {{}} : Max(s) \in s /\ \A n \in s : n <= Max(s)
  <2>1. K \in Nat
    BY <1>4
  <2>. HIDE DEF K
  <2>2. IsFiniteSet(1..K)
    BY <2>1, FS_Interval
  <2>3. ASSUME NEW s \in (SUBSET (1..K)) \ {{}} PROVE Max(s) \in s /\ \A n \in s : n <= Max(s)
    BY <2>1, MaxIs
  <2>. QED BY <2>2, <2>3
<1>6. \A n \in S : part[n] \in SUBSET N /\ part[n] # {} /\ \A i \in N : i \in part[n] <=> at[i] = seq[n]
  <2>. HIDE DEF seq
  <2>1. \A n \in S : \E i \in N : at[i] = seq[n]
    BY <1>4 DEF Starts
  <2>. QED BY <2>1 DEF OnPoint
<1>7. UNION {part[n] : n \in S} = N
  <2>. HIDE DEF A, seq, S, part
  <2>1. ASSUME NEW i \in N PROVE \E n \in S : i \in part[n]
    <3>1. PICK n \in S : seq[n] = at[i]
      BY <1>1, <1>4
    <3>. QED BY <1>6, <3>1
  <2>. QED BY <1>6, <2>1
<1>8. \A n \in S : n \in Int /\ seq[n] \in Int
  <2>1. \A a \in A : a \in Int
    BY <1>1
  <2>. HIDE DEF A, seq
  <2>. QED BY <1>4, <2>1
<1>. HIDE DEF A, seq, S, part, K, days
<1>9. ASSUME NEW s \in SUBSET S, NEW n \in s, \A m \in s : m <= n
      PROVE  MergeDay(Points(all(s \ {n}), by, e, d), days[n], bucket) = Points(all(s), by, e, d)
  <2>1. ASSUME NEW m \in s \ {n} PROVE m \in S /\ seq[m] < seq[n] /\ part[m] \cap part[n] = {}
    <3>1. m < n /\ m \in S /\ n \in S
      BY <1>8, <1>9
    <3>2. seq[m] < seq[n] /\ seq[m] # seq[n]
      BY <1>4, <1>8, <3>1
    <3>. QED BY <1>6, <3>1, <3>2
  <2>2. PICK rest, D : rest = all(s \ {n}) /\ D = part[n]
    OBVIOUS
  <2>3. all(s) = rest \cup D /\ rest \cap D = {}
    BY <2>1, <2>2
  <2>4. rest \in SUBSET N /\ D \in SUBSET N /\ D # {} /\ n \in S
    BY <1>6, <2>2
  <2>5. \A i \in rest : at[i] < seq[n] /\ at[i] \in Int
    <3>. SUFFICES ASSUME NEW i \in rest PROVE at[i] < seq[n] /\ at[i] \in Int
      OBVIOUS
    <3>1. PICK m \in s \ {n} : i \in part[m]
      BY <2>2
    <3>. QED BY <1>6, <2>1, <2>4, <3>1
  <2>6. \A i \in D : at[i] = seq[n]
    BY <1>6, <2>2, <2>4
  <2>7. days[n].start = seq[n] /\ days[n].total = Total(D, e, d)
    <3>1. PICK X : X = OnPoint(N, at, seq[n])
      OBVIOUS
    <3>2. X = D
      BY <1>6, <2>2, <2>4, <3>1 DEF OnPoint
    <3>3. days[n] = [start |-> seq[n], total |-> Total(X, e, d)]
      BY <1>2, <2>4, <3>1 DEF PointOf
    <3>. QED BY <3>2, <3>3
  <2>8. PICK b : b = BucketStart(seq[n], bucket)
    OBVIOUS
  <2>9. \A i \in D : by[i] = b
    BY <2>4, <2>6, <2>8
  <2>10. b \in Int
    <3>1. PICK i \in D : TRUE
      BY <2>4
    <3>. QED BY <2>4, <2>9, <3>1
  <2>11. \A i \in rest : by[i] \in Int /\ by[i] <= b
    <3>. SUFFICES ASSUME NEW i \in rest PROVE by[i] \in Int /\ by[i] <= b
      OBVIOUS
    <3>1. PICK j \in D : TRUE
      BY <2>4
    <3>2. at[i] <= at[j]
      BY <1>8, <2>4, <2>5, <2>6, <3>1
    <3>3. i \in N /\ j \in N
      BY <2>4, <3>1
    <3>. QED BY <2>9, <3>1, <3>2, <3>3
  <2>12. BucketStart(days[n].start, bucket) = b
    BY <2>7, <2>8
  <2>13. IsFiniteSet(rest) /\ IsFiniteSet(D)
    BY <2>4, FS_Subset
  <2>14. MergeDay(Points(rest, by, e, d), days[n], bucket) = Points(rest \cup D, by, e, d)
    BY <2>3, <2>4, <2>7, <2>9, <2>10, <2>11, <2>12, <2>13, PointsGrow
  <2>. QED BY <2>2, <2>3, <2>14
<1>10. all({}) = {} /\ all(S) = N
  BY <1>7
<1>11. Points({}, by, e, d) = <<>>
  <2>1. Starts({}, by) = {} /\ Cardinality({}) = 0
    BY FS_EmptySet DEF Starts
  <2>2. Points({}, by, e, d) = [n \in 1..0 |-> PointOf({}, by, Ordered({})[n], e, d)]
    BY <2>1 DEF Points
  <2>. QED BY <2>2
<1>12. Rec(g)
  <2>1. \A s \in SUBSET S : g[s] = Points(all(s), by, e, d)
    OBVIOUS
  <2>. HIDE DEF all
  <2>2. ASSUME NEW s \in SUBSET S
        PROVE  Points(all(s), by, e, d)
                 = IF s = {} THEN <<>> ELSE MergeDay(g[s \ {Max(s)}], days[Max(s)], bucket)
    <3>1. CASE s = {}
      BY <1>10, <1>11, <3>1
    <3>2. CASE s # {}
      <4>1. PICK n \in s : n = Max(s) /\ \A m \in s : m <= n
        BY <1>5, <3>2
      <4>2. s \ {n} \in SUBSET S
        BY <4>1
      <4>3. MergeDay(Points(all(s \ {n}), by, e, d), days[n], bucket) = Points(all(s), by, e, d)
        BY <1>9, <4>1
      <4>. QED BY <2>1, <3>2, <4>1, <4>2, <4>3
    <3>. QED BY <3>1, <3>2
  <2>. QED BY <2>2
<1>. HIDE DEF Rec, all
<1>13. Rec(fold)
  BY <1>12, Zenon
<1>. HIDE DEF fold
<1>14. ASSUME NEW h, Rec(h), NEW s \in SUBSET S
      PROVE  h[s] = IF s = {} THEN <<>> ELSE MergeDay(h[s \ {Max(s)}], days[Max(s)], bucket)
  BY <1>14, Zenon DEF Rec
<1>15. g[S] = Points(N, by, e, d)
  BY <1>10
<1>. HIDE DEF g
<1>16. StepsAlike(fold, g, S, pick)
  <2>1. \A s \in SUBSET S : s # {} => pick[s] \in s /\ pick[s] = Max(s)
    BY <1>5
  <2>2. {} \in SUBSET S
    OBVIOUS
  <2>. HIDE DEF pick
  <2>3. fold[{}] = g[{}]
    BY <1>12, <1>13, <1>14, <2>2
  <2>4. ASSUME NEW s \in (SUBSET S) \ {{}}
        PROVE  pick[s] \in s /\ (fold[s \ {pick[s]}] = g[s \ {pick[s]}] => fold[s] = g[s])
    <3>1. s \in SUBSET S /\ s # {}
      OBVIOUS
    <3>2. pick[s] \in s /\ pick[s] = Max(s)
      BY <2>1, <3>1
    <3>3. /\ fold[s] = MergeDay(fold[s \ {Max(s)}], days[Max(s)], bucket)
          /\ g[s] = MergeDay(g[s \ {Max(s)}], days[Max(s)], bucket)
      BY <1>12, <1>13, <1>14, <3>1
    <3>. QED BY <3>2, <3>3
  <2>. QED BY <2>3, <2>4, Zenon DEF StepsAlike
<1>17. fold[S] = g[S]
  BY <1>5, <1>16, OneFold
<1>. QED BY <1>3, <1>15, <1>17 DEF days

\* Facts of a bucket are those of the requests it has.
Bucketed(all, at, d, r) == \A x \in all : \A i \in RowsOf(d, r, x) : x.bucket = at[i]

\* What SQL groups by the bucket are points.
LEMMA BucketRowsAre ==
  ASSUME NEW e, NEW d, NEW r, NEW M \in SUBSET Ids, NEW all, Accounts(all, M, e, d, r),
         NEW at, Bucketed(all, at, d, r)
  PROVE  BucketRows(all) = Points(M, at, e, d)
<1>. DEFINE S == Starts(M, at)
<1>1. {x.bucket : x \in all} = S
  <2>1. ASSUME NEW x \in all PROVE x.bucket \in S
    <3>1. PICK i \in RowsOf(d, r, x) : i \in M
      BY DEF Accounts, SpeaksFor
    <3>. QED BY <3>1 DEF Bucketed, Starts
  <2>2. ASSUME NEW i \in M PROVE \E x \in all : x.bucket = at[i]
    <3>1. PICK x \in all : i \in RowsOf(d, r, x)
      BY DEF Accounts
    <3>. QED BY <3>1 DEF Bucketed
  <2>. QED BY <2>1, <2>2 DEF Starts
<1>2. ASSUME NEW s
      PROVE  Totals({x \in all : x.bucket = s}) = Total(OnPoint(M, at, s), e, d)
  <2>. DEFINE some == {x \in all : x.bucket = s}
  <2>1. some \in SUBSET all
    OBVIOUS
  <2>2. SpokenFor(some, d, r) = OnPoint(M, at, s)
    <3>1. ASSUME NEW i \in OnPoint(M, at, s) PROVE i \in SpokenFor(some, d, r)
      <4>1. PICK x \in all : i \in RowsOf(d, r, x)
        BY DEF Accounts, OnPoint
      <4>2. x \in some
        BY <4>1 DEF Bucketed, OnPoint
      <4>. QED BY <4>1, <4>2 DEF SpokenFor
    <3>2. ASSUME NEW x \in some, NEW i \in RowsOf(d, r, x) PROVE i \in OnPoint(M, at, s)
      BY DEF Accounts, Bucketed, OnPoint
    <3>. HIDE DEF some
    <3>. QED BY <3>1, <3>2 DEF SpokenFor
  <2>. HIDE DEF some
  <2>3. PartIs(some, M, e, d, r)
    BY <2>1, PartTotals, Zenon
  <2>. QED BY <2>2, <2>3 DEF PartIs, some
<1>3. DOMAIN Ordered(S) = 1..Cardinality(S)
  BY DEF Ordered, Sorted
<1>4. BucketRows(all) = [n \in DOMAIN Ordered(S) |->
                           [start |-> Ordered(S)[n], total |-> Totals({x \in all : x.bucket = Ordered(S)[n]})]]
  <2>. HIDE DEF S
  <2>. QED BY <1>1, Zenon DEF BucketRows
<1>5. ASSUME NEW s
      PROVE  [start |-> s, total |-> Totals({x \in all : x.bucket = s})] = PointOf(M, at, s, e, d)
  BY <1>2 DEF PointOf
<1>. HIDE DEF S
<1>6. BucketRows(all) = [n \in 1..Cardinality(S) |-> PointOf(M, at, Ordered(S)[n], e, d)]
  BY <1>3, <1>4, <1>5
<1>. QED BY <1>6 DEF Points, S

\* Where a request is on the axis of the facts.
AxisOf(d, M, hourly) == [i \in M |-> IF hourly THEN Hour(d.rows[i].ts) ELSE Day(d.rows[i].ts)]

LEMMA QueriesBucketed ==
  ASSUME NEW e, NEW d, NEW r \in Rollups, NEW f, NEW hourly \in BOOLEAN,
         NEW M, M = Selected(d, f), Accounts(QueryFacts(e, d, r, f, hourly), M, e, d, r)
  PROVE  Bucketed(QueryFacts(e, d, r, f, hourly), AxisOf(d, M, hourly), d, r)
<1>1. CASE hourly
  <2>1. QueryFacts(e, d, r, f, TRUE) = RawFacts(e, d, r, M, TRUE)
    BY DEF QueryFacts
  <2>2. RawFacts(e, d, r, M, TRUE) = FactsOf(e, d, r, M, TRUE)
    BY RawFactsAre
  <2>3. ASSUME NEW i \in M
        PROVE  /\ RowsOf(d, r, RawFact(e, d, r, i, TRUE)) = {i}
               /\ RawFact(e, d, r, i, TRUE).bucket = Hour(d.rows[i].ts)
    BY DEF RowsOf, RawFact
  <2>4. \A i \in M : AxisOf(d, M, TRUE)[i] = Hour(d.rows[i].ts)
    BY DEF AxisOf
  <2>5. Bucketed(FactsOf(e, d, r, M, TRUE), AxisOf(d, M, TRUE), d, r)
    <3>1. ASSUME NEW x \in FactsOf(e, d, r, M, TRUE), NEW i \in RowsOf(d, r, x)
          PROVE  x.bucket = AxisOf(d, M, TRUE)[i]
      <4>1. PICK j \in M : x = RawFact(e, d, r, j, TRUE)
        BY DEF FactsOf
      <4>2. i = j
        BY <2>3, <4>1
      <4>. QED BY <2>3, <2>4, <4>1, <4>2
    <3>. QED BY <3>1 DEF Bucketed
  <2>. QED BY <1>1, <2>1, <2>2, <2>5
<1>2. CASE ~hourly
  <2>1. PICK all : all = QueryFacts(e, d, r, f, FALSE)
    OBVIOUS
  <2>2. Daily(all) /\ Accounts(all, M, e, d, r)
    BY <1>2, <2>1, QueriesDaily
  <2>3. ASSUME NEW x \in all, NEW i \in RowsOf(d, r, x) PROVE x.bucket = AxisOf(d, M, FALSE)[i]
    <3>1. i \in M /\ KeyOf(r, d.rows[i]) = x.key
      BY <2>2 DEF Accounts, SpeaksFor
    <3>2. KeyOf(r, d.rows[i]).day = Day(d.rows[i].ts)
      BY KeyHas
    <3>3. x.bucket = x.key.day
      BY <2>2 DEF Daily
    <3>. QED BY <3>1, <3>2, <3>3 DEF AxisOf
  <2>. QED BY <1>2, <2>1, <2>3 DEF Bucketed
<1>. QED BY <1>1, <1>2

\* Storage's buckets come in the order of their days.
LEMMA BegunIs ==
  ASSUME NEW day \in Nat
  PROVE  LET begun == {m \in MonthStarts : m <= day}
         IN  Greatest(begun) \in begun /\ \A m \in begun : m <= Greatest(begun)
<1>. DEFINE begun == {m \in MonthStarts : m <= day}
            at == [m \in begun |-> m]
<1>1. IsFiniteSet(begun) /\ begun # {} /\ begun \in SUBSET Nat /\ at \in [begun -> Nat]
  BY ReaderAssumption, FS_Subset
<1>2. PICK m \in begun : \A n \in begun : m >= n
  <2>1. PICK j \in begun : \A k \in begun : at[j] >= at[k]
    <3>. HIDE DEF at
    <3>. QED BY <1>1, ExtremesExist
  <2>. QED BY <2>1
<1>. HIDE DEF begun
<1>3. Greatest(begun) = m
  BY <1>1, <1>2, GreatestIs
<1>. QED BY <1>1, <1>2, <1>3 DEF begun

LEMMA DayTimes ==
  ASSUME NEW a \in Int, NEW b \in Int, a <= b
  PROVE  DayLength * a \in Int /\ DayLength * b \in Int /\ DayLength * a <= DayLength * b
<1>1. DayLength \in Nat
  BY FactsAssumption
<1>. QED BY <1>1

\* The first day of a week, by its number.
LEMMA WeekStarts ==
  ASSUME NEW q \in Int
  PROVE  BucketStart(DayLength * q, "week") = DayLength * (q - ((q + 3) % 7))
<1>1. DayLength \in Nat /\ DayLength > 0 /\ (DayLength * q) \div DayLength = q
  BY FactsAssumption
<1>2. Weekday(DayLength * q) = (4 + q) % 7
  BY <1>1 DEF Weekday
<1>3. (((4 + q) % 7) + 6) % 7 = (q + 3) % 7 /\ (q + 3) % 7 \in 0..6
  OBVIOUS
<1>4. BucketStart(DayLength * q, "week") = DayLength * q - ((q + 3) % 7) * DayLength
  BY <1>2, <1>3 DEF BucketStart
<1>5. \A w \in Int : DayLength * q - w * DayLength = DayLength * (q - w)
  BY <1>1
<1>. QED BY <1>3, <1>4, <1>5

\* Later days fall into no earlier week or month.
LEMMA BucketsRise ==
  ASSUME NEW t \in Nat, NEW u \in Nat, NEW bucket, bucket \in {"week", "month"}
  PROVE  /\ Day(t) \in Nat /\ BucketStart(Day(t), bucket) \in Int
         /\ Day(t) <= Day(u) => BucketStart(Day(t), bucket) <= BucketStart(Day(u), bucket)
<1>. DEFINE q == t \div DayLength
            p == u \div DayLength
<1>1. /\ q \in Int /\ Day(t) = DayLength * q /\ Day(t) \in Nat
      /\ p \in Int /\ Day(u) = DayLength * p /\ Day(u) \in Nat
  <2>1. ASSUME NEW w \in Nat PROVE w \div DayLength \in Nat /\ Day(w) = DayLength * (w \div DayLength) /\ Day(w) \in Nat
    <3>1. DayLength \in Nat /\ DayLength > 0
      BY FactsAssumption
    <3>2. w \div DayLength \in Nat
      BY <3>1
    <3>3. DayLength * (w \div DayLength) \in Nat
      BY <3>1, <3>2
    <3>. QED BY <3>2, <3>3, DaysAre
  <2>. QED BY <2>1
<1>. HIDE DEF q, p
<1>2. CASE bucket = "month"
  <2>. DEFINE begun(day) == {m \in MonthStarts : m <= day}
  <2>1. /\ BucketStart(Day(t), bucket) = Greatest(begun(Day(t)))
        /\ BucketStart(Day(u), bucket) = Greatest(begun(Day(u)))
    BY <1>2 DEF BucketStart
  <2>2. ASSUME NEW day \in Nat
        PROVE  Greatest(begun(day)) \in begun(day) /\ \A m \in begun(day) : m <= Greatest(begun(day))
    BY BegunIs
  <2>0. \A m \in MonthStarts : m \in Int
    BY ReaderAssumption
  <2>3. Greatest(begun(Day(t))) \in Int
    <3>1. Greatest(begun(Day(t))) \in MonthStarts
      BY <1>1, <2>2
    <3>. QED BY <2>0, <3>1
  <2>4. ASSUME Day(t) <= Day(u) PROVE Greatest(begun(Day(t))) <= Greatest(begun(Day(u)))
    <3>1. \A m \in begun(Day(t)) : m \in begun(Day(u))
      BY <1>1, <2>0, <2>4
    <3>. HIDE DEF begun
    <3>. QED BY <1>1, <2>2, <3>1
  <2>. QED BY <1>1, <2>1, <2>3, <2>4
<1>3. CASE bucket = "week"
  <2>1. /\ BucketStart(Day(t), bucket) = DayLength * (q - ((q + 3) % 7))
        /\ BucketStart(Day(u), bucket) = DayLength * (p - ((p + 3) % 7))
    BY <1>1, <1>3, WeekStarts
  <2>2. q - ((q + 3) % 7) \in Int /\ p - ((p + 3) % 7) \in Int
    BY <1>1
  <2>3. q <= p => q - ((q + 3) % 7) <= p - ((p + 3) % 7)
    BY <1>1
  <2>4. Day(t) <= Day(u) => q <= p
    <3>1. ASSUME DayLength * q <= DayLength * p PROVE DayLength * q < DayLength * p + DayLength
      <4>1. DayLength \in Nat /\ DayLength > 0 /\ DayLength * q \in Int /\ DayLength * p \in Int
        BY <1>1, FactsAssumption
      <4>. QED BY <3>1, <4>1
    <3>. QED BY <1>1, <3>1, Multiples
  <2>. QED BY <1>1, <2>1, <2>2, <2>3, <2>4, DayTimes
<1>. QED BY <1>2, <1>3

\* Where a request is on a chart.
ChartAxis(d, M, bucket) ==
  IF bucket \in {"hour", "day"} THEN AxisOf(d, M, bucket = "hour")
  ELSE [i \in M |-> BucketStart(Day(d.rows[i].ts), bucket)]

TimeseriesIs(e, d, f, bucket) ==
  /\ Timeseries(e, d, f, bucket) = Points(Selected(d, f), ChartAxis(d, Selected(d, f), bucket), e, d)
  /\ IsFiniteSet(Selected(d, f))
  /\ \A i \in Selected(d, f) : ChartAxis(d, Selected(d, f), bucket)[i] \in Int

\* The points of a chart, from the requests alone.
LEMMA SeriesCounts ==
  ASSUME NEW e, NEW d, Sound(e, d), NEW f, Bounds(f), NEW bucket \in Buckets
  PROVE  TimeseriesIs(e, d, f, bucket)
<1>1. PICK r \in Rollups : r = "usage_daily"
  BY DEF Rollups
<1>2. PICK hourly \in BOOLEAN : hourly <=> bucket = "hour"
  OBVIOUS
<1>3. PICK M : M = Selected(d, f)
  OBVIOUS
<1>4. /\ M \in SUBSET Ids /\ IsFiniteSet(M) /\ M \in SUBSET Stored(d.rows)
      /\ \A i \in M : d.rows[i].ts \in Nat
  <2>1. M \in SUBSET Stored(d.rows)
    BY <1>3 DEF Selected
  <2>2. M \in SUBSET Ids
    BY <2>1 DEF Stored
  <2>3. \A i \in M : d.rows[i].ts \in Nat
    BY <2>1, FactsAssumption DEF Sound, Stored, Rows, Row
  <2>. QED BY <2>1, <2>2, <2>3, FactsAssumption, FS_Subset
<1>5. PICK all : all = QueryFacts(e, d, r, f, hourly)
  OBVIOUS
<1>6. d.rows \in Rows /\ d.tables[r] = Aggregate(e, d.rows, r)
  BY DEF Sound
<1>7. Accounts(all, M, e, d, r)
  BY <1>3, <1>5, <1>6, QueriesAccount
<1>8. PICK at : at = AxisOf(d, M, hourly)
  OBVIOUS
<1>9. Bucketed(all, at, d, r)
  BY <1>3, <1>5, <1>7, <1>8, QueriesBucketed
<1>10. BucketRows(all) = Points(M, at, e, d)
  BY <1>4, <1>7, <1>9, BucketRowsAre
<1>11. Timeseries(e, d, f, bucket) = MergeDays(Points(M, at, e, d), bucket)
  BY <1>1, <1>2, <1>5, <1>10 DEF Timeseries
<1>12. \A i \in M : at[i] \in Int
  <2>1. ASSUME NEW t \in Nat PROVE Hour(t) \in Int /\ Day(t) \in Int
    <3>1. HourLength \in Nat /\ HourLength > 0 /\ DayLength \in Nat /\ DayLength > 0
      BY FactsAssumption, ReaderAssumption
    <3>. QED BY <3>1 DEF Hour, Day
  <2>. QED BY <1>4, <1>8, <2>1 DEF AxisOf
<1>13. CASE bucket \in {"hour", "day"}
  <2>1. ChartAxis(d, M, bucket) = at
    BY <1>2, <1>8, <1>13 DEF ChartAxis, AxisOf
  <2>2. MergeDays(Points(M, at, e, d), bucket) = Points(M, at, e, d)
    BY <1>13 DEF MergeDays
  <2>. QED BY <1>3, <1>4, <1>11, <1>12, <2>1, <2>2 DEF TimeseriesIs
<1>14. CASE bucket \in {"week", "month"}
  <2>1. PICK by : by = ChartAxis(d, M, bucket)
    OBVIOUS
  <2>2. \A i \in M : at[i] = Day(d.rows[i].ts) /\ by[i] = BucketStart(at[i], bucket)
    BY <1>2, <1>8, <1>14, <2>1 DEF ChartAxis, AxisOf
  <2>3. ASSUME NEW i \in M, NEW j \in M
        PROVE  by[i] \in Int /\ (at[i] <= at[j] => by[i] <= by[j])
    BY <1>4, <1>14, <2>2, BucketsRise
  <2>4. bucket \notin {"hour", "day"}
    BY <1>14
  <2>5. MergeDays(Points(M, at, e, d), bucket) = Points(M, by, e, d)
    BY <1>4, <1>12, <2>2, <2>3, <2>4, MergedDays
  <2>. QED BY <1>3, <1>4, <1>11, <2>1, <2>3, <2>5 DEF TimeseriesIs
<1>. QED BY <1>13, <1>14 DEF Buckets

\* In every database that the writes can leave, and for every filter of a page:
\* the points of every chart, by the hour, day, week or month, come in order
\* and add up to the summary (mergeDays).
LEMMA ChartsAddUp ==
  ASSUME Sound(release, before), NEW f, Bounds(f)
  PROVE  SeriesAddUp(f)
<1>1. PICK N : N = Selected(before, f)
  OBVIOUS
<1>2. Summary(release, before, f) = Total(N, release, before)
  BY <1>1, SummaryCounts DEF SummaryIs
<1>3. ASSUME NEW bucket \in Buckets, NEW points, points = Timeseries(release, before, f, bucket)
      PROVE  /\ SeriesSum(points) = Summary(release, before, f)
             /\ \A m, n \in DOMAIN points : m < n => points[m].start < points[n].start
  <2>1. PICK at : at = ChartAxis(before, N, bucket)
    OBVIOUS
  <2>2. points = Points(N, at, release, before) /\ IsFiniteSet(N) /\ \A i \in N : at[i] \in Int
    BY <1>1, <1>3, <2>1, SeriesCounts DEF TimeseriesIs
  <2>. QED BY <1>2, <2>2, PointsAddUp
<1>4. \A bucket \in Buckets :
        /\ SeriesSum(Timeseries(release, before, f, bucket)) = Summary(release, before, f)
        /\ \A m, n \in DOMAIN Timeseries(release, before, f, bucket) :
             m < n => Timeseries(release, before, f, bucket)[m].start < Timeseries(release, before, f, bucket)[n].start
  BY <1>3
<1>. QED BY <1>4, Zenon DEF SeriesAddUp, SeriesSum

-----------------------------------------------------------------------------
(* Measures: what a fact counts for is counted in units, so that sums of   *)
(* measures are sums of parts.                                             *)

\* The sum of a function is the fold that adds its values up.
LEMMA SumIs ==
  ASSUME NEW m, IsFiniteSet(DOMAIN m), NEW g, SumsUp(g, DOMAIN m, m)
  PROVE  SumFunction(m) = g[DOMAIN m]
<1>. DEFINE Rec(h) == h = [s \in SUBSET DOMAIN m |->
                        IF s = {} THEN 0
                        ELSE m[CHOOSE x \in s : TRUE] + h[s \ {CHOOSE x \in s : TRUE}]]
            fold == CHOOSE h : Rec(h)
<1>1. SumFunction(m) = fold[DOMAIN m]
  BY DEF SumFunction, SumFunctionOnSet, FoldFunctionOnSet, MapThenFoldSet
<1>3. \A h : SumsUp(h, DOMAIN m, m) <=> Rec(h)
  BY DEF SumsUp
<1>4. SumsUp(fold, DOMAIN m, m)
  <2>. HIDE DEF Rec
  <2>2. Rec(g)
    BY <1>3
  <2>3. Rec(fold)
    BY <2>2, Zenon
  <2>. QED BY <1>3, <2>3
<1>. HIDE DEF fold
<1>. QED BY <1>1, <1>4, OneSum

Units(N, u) == UNION {{i} \X (1..u[i]) : i \in N}

\* What requests measure, as a finite set of units.
LEMMA UnitsAre ==
  ASSUME NEW N, IsFiniteSet(N), NEW u, \A i \in N : u[i] \in Nat
  PROVE  /\ IsFiniteSet(Units(N, u)) /\ Cardinality(Units(N, u)) \in Nat
         /\ \A x : x \in Units(N, u) <=> \E i \in N : \E k \in 1..u[i] : x = <<i, k>>
<1>. DEFINE of == [i \in N |-> {i} \X (1..u[i])]
            all == {of[i] : i \in N}
<1>1. Units(N, u) = UNION all
  BY DEF Units
<1>2. IsFiniteSet(all)
  <2>1. of \in Surjection(N, all)
    BY DEF Surjection
  <2>. HIDE DEF of, all
  <2>. QED BY <2>1, FS_Surjection
<1>3. ASSUME NEW i \in N PROVE IsFiniteSet(of[i])
  <2>3. PICK n \in Nat : n = u[i]
    OBVIOUS
  <2>4. IsFiniteSet(1..n)
    BY FS_Interval
  <2>1. IsFiniteSet({i}) /\ IsFiniteSet(1..u[i])
    BY <2>3, <2>4, FS_Singleton
  <2>2. IsFiniteSet({i} \X (1..u[i]))
    BY <2>1, FS_Product
  <2>. QED BY <2>2
<1>4. \A x : x \in Units(N, u) <=> \E i \in N : \E k \in 1..u[i] : x = <<i, k>>
  BY DEF Units
<1>. HIDE DEF of
<1>5. \A T \in all : IsFiniteSet(T)
  BY <1>3
<1>. HIDE DEF all
<1>6. IsFiniteSet(Units(N, u))
  BY <1>1, <1>2, <1>5, FS_UNION
<1>. QED BY <1>4, <1>6, FS_CardinalityType

\* The parts that requests are shared out to have their units.
LEMMA SharedUnits ==
  ASSUME NEW N, IsFiniteSet(N), NEW u, \A i \in N : u[i] \in Nat,
         NEW m, IsFiniteSet(DOMAIN m), NEW part \in [DOMAIN m -> SUBSET N],
         Apart(DOMAIN m, part), Covered(DOMAIN m, part) = N,
         \A x \in DOMAIN m : m[x] = Cardinality(Units(part[x], u))
  PROVE  SumFunction(m) = Cardinality(Units(N, u))
<1>. DEFINE S == DOMAIN m
            sub == [x \in S |-> Units(part[x], u)]
<1>1. ASSUME NEW x \in S
      PROVE  \A y : y \in sub[x] <=> \E i \in part[x] : \E k \in 1..u[i] : y = <<i, k>>
  BY DEF Units
<1>2. \A y : y \in Units(N, u) <=> \E i \in N : \E k \in 1..u[i] : y = <<i, k>>
  BY UnitsAre
<1>. HIDE DEF sub
<1>3. sub \in [S -> SUBSET Units(N, u)]
  <2>1. ASSUME NEW x \in S, NEW y \in sub[x] PROVE y \in Units(N, u)
    BY <1>1, <1>2
  <2>. QED BY <2>1 DEF sub
<1>4. Apart(S, sub)
  <2>1. ASSUME NEW x \in S, NEW z \in S, x # z, NEW y \in sub[x], y \in sub[z] PROVE FALSE
    <3>1. PICK i \in part[x] : \E k \in 1..u[i] : y = <<i, k>>
      BY <1>1
    <3>2. PICK j \in part[z] : \E k \in 1..u[j] : y = <<j, k>>
      BY <1>1, <2>1
    <3>3. i = j
      BY <3>1, <3>2
    <3>. QED BY <2>1, <3>1, <3>2, <3>3 DEF Apart
  <2>. QED BY <2>1 DEF Apart
<1>5. Covered(S, sub) = Units(N, u)
  <2>1. ASSUME NEW y \in Units(N, u) PROVE \E x \in S : y \in sub[x]
    <3>1. PICK i \in N : \E k \in 1..u[i] : y = <<i, k>>
      BY <1>2
    <3>2. PICK x \in S : i \in part[x]
      BY DEF Covered
    <3>. QED BY <1>1, <3>1, <3>2
  <2>. QED BY <1>3, <2>1 DEF Covered
<1>6. \A x \in S : m[x] = Cardinality(sub[x])
  BY DEF sub
<1>7. IsFiniteSet(Units(N, u))
  BY UnitsAre
<1>. HIDE DEF S
<1>8. PICK g : SumsUp(g, S, m) /\ g[S] = Cardinality(Units(N, u))
  BY <1>3, <1>4, <1>5, <1>6, <1>7, SumOfParts
<1>. QED BY <1>8, SumIs DEF S

\* What the total of N measures, if each of its facts counts for u.
LEMMA MeasureIs ==
  ASSUME NEW e, NEW d, NEW N, IsFiniteSet(N), NEW u, NEW weight,
         \A i \in N : u[i] \in Nat /\ weight[FactsIn(e, d.rows)[i]] = u[i]
  PROVE  Measure(Total(N, e, d), weight) = Cardinality(Units(N, u)) /\ Cardinality(Units(N, u)) \in Nat
<1>. DEFINE fact == FactsIn(e, d.rows)
            S == {fact[i] : i \in N}
            part == [x \in S |-> Of(N, fact, x)]
            m == [x \in S |-> Tally(N, fact)[x] * weight[x]]
<1>1. IsFiniteSet(S)
  <2>. DEFINE f == [i \in N |-> fact[i]]
  <2>1. f \in Surjection(N, S)
    BY DEF Surjection
  <2>. HIDE DEF f, S
  <2>. QED BY <2>1, FS_Surjection
<1>2. DOMAIN Tally(N, fact) = S /\ \A x \in S : Tally(N, fact)[x] = Cardinality(part[x])
  BY DEF Tally
<1>3. Measure(Total(N, e, d), weight) = SumFunction(m)
  BY <1>2 DEF Measure, Total
<1>4. part \in [S -> SUBSET N] /\ Apart(S, part) /\ Covered(S, part) = N
  <2>1. \A x \in S : \A i : i \in part[x] <=> i \in N /\ fact[i] = x
    BY DEF Of
  <2>2. part \in [S -> SUBSET N]
    BY DEF Of
  <2>. HIDE DEF part
  <2>3. Apart(S, part)
    BY <2>1 DEF Apart
  <2>4. ASSUME NEW i \in N PROVE \E x \in S : i \in part[x]
    BY <2>1
  <2>. HIDE DEF S
  <2>5. Covered(S, part) = N
    BY <2>2, <2>4 DEF Covered
  <2>. QED BY <2>2, <2>3, <2>5
<1>5. ASSUME NEW x \in S PROVE m[x] = Cardinality(Units(part[x], u))
  <2>1. PICK n \in Nat : n = weight[x] /\ \A i \in part[x] : u[i] = n
    BY DEF Of
  <2>2. Units(part[x], u) = part[x] \X (1..n)
    <3>1. part[x] \in SUBSET N
      BY <1>4
    <3>2. ASSUME NEW y PROVE y \in Units(part[x], u) <=> y \in part[x] \X (1..n)
      <4>. HIDE DEF part
      <4>1. y \in Units(part[x], u) <=> \E i \in part[x] : \E k \in 1..u[i] : y = <<i, k>>
        BY DEF Units
      <4>2. y \in part[x] \X (1..n) <=> \E i \in part[x] : \E k \in 1..n : y = <<i, k>>
        OBVIOUS
      <4>3. \A i \in part[x] : u[i] = n
        BY <2>1
      <4>. QED BY <4>1, <4>2, <4>3, Zenon
    <3>. QED BY <3>2
  <2>3. IsFiniteSet(part[x]) /\ IsFiniteSet(1..n) /\ Cardinality(1..n) = n
    <3>1. IsFiniteSet(part[x])
      BY <1>4, FS_Subset
    <3>0. n \in Nat
      OBVIOUS
    <3>2. IsFiniteSet(1..n) /\ Cardinality(1..n) = n
      BY <3>0, CountTo, Zenon
    <3>. QED BY <3>1, <3>2
  <2>4. PICK P, I : P = part[x] /\ I = 1..n
    OBVIOUS
  <2>5. IsFiniteSet(P) /\ IsFiniteSet(I) /\ Cardinality(I) = n
    BY <2>3, <2>4
  <2>6. Cardinality(P \X I) = Cardinality(P) * Cardinality(I)
    BY <2>5, FS_Product
  <2>7. m[x] = Cardinality(part[x]) * n
    BY <1>2, <2>1
  <2>. QED BY <2>2, <2>4, <2>5, <2>6, <2>7
<1>. HIDE DEF S, part
<1>6. DOMAIN m = S
  OBVIOUS
<1>. HIDE DEF m, fact
<1>7. SumFunction(m) = Cardinality(Units(N, u))
  BY <1>1, <1>4, <1>5, <1>6, SharedUnits
<1>. QED BY <1>3, <1>7, UnitsAre

\* The counts of a request are natural numbers.
Natural(x) ==
  /\ x.input \in Nat /\ x.output \in Nat /\ x.cache_read \in Nat
  /\ x.cache_creation \in Nat /\ x.reasoning \in Nat /\ x.cost \in Nat

\* No count or cost of a request is negative.
LEMMA FactsAreNatural ==
  ASSUME NEW e, NEW row \in Row
  PROVE  Natural(Facts(e, row)) /\ TokensOf(Facts(e, row)) \in Nat
<1>1. ASSUME NEW c \in Columns PROVE Coalesce(row.tok[c], 0) \in Nat
  <2>1. row.tok[c] \in Counts \cup {Nil} /\ \A n \in Counts : n \in Nat
    BY FactsAssumption DEF Row
  <2>. QED BY <2>1 DEF Coalesce
<1>2. Coalesce(row.cost, 0) \in Nat
  <2>1. row.cost \in Prices \cup {Nil} /\ \A n \in Prices : n \in Nat
    BY FigureAssumption DEF Row
  <2>. QED BY <2>1 DEF Coalesce
<1>3. UncachedInput(row) \in Nat /\ OutputOnly(row) \in Nat
  BY <1>1 DEF UncachedInput, OutputOnly, Positive, Columns
<1>4. Natural(Facts(e, row))
  BY <1>1, <1>2, <1>3 DEF Facts, Natural, Columns
<1>. QED BY <1>4 DEF Natural, TokensOf

\* How many tokens a request has.
TokensAt(e, d) == [i \in Ids |-> TokensOf(FactsIn(e, d.rows)[i])]

\* The tokens of requests are their units.
LEMMA TokensAre ==
  ASSUME NEW e, NEW d, d.rows \in Rows, NEW N \in SUBSET Stored(d.rows)
  PROVE  /\ TotalTokens(Total(N, e, d)) = Cardinality(Units(N, TokensAt(e, d)))
         /\ TotalTokens(Total(N, e, d)) \in Nat /\ \A i \in N : TokensAt(e, d)[i] \in Nat
<1>. DEFINE fact == FactsIn(e, d.rows)
            sums == Total(N, e, d).sums
            weight == [x \in DOMAIN sums |-> TokensOf(x)]
            u == TokensAt(e, d)
<1>1. IsFiniteSet(N) /\ N \in SUBSET Ids
  BY FactsAssumption, FS_Subset DEF Stored
<1>2. \A i \in N : fact[i] \in DOMAIN sums
  BY DEF Total, Tally
<1>3. ASSUME NEW i \in N PROVE u[i] \in Nat /\ u[i] = TokensOf(fact[i])
  <2>1. i \in Ids /\ d.rows[i] \in Row
    BY DEF Stored, Rows
  <2>2. fact[i] = Facts(e, d.rows[i])
    BY <2>1 DEF FactsIn
  <2>. QED BY <2>1, <2>2, FactsAreNatural DEF TokensAt
<1>. HIDE DEF fact, sums, u
<1>4. \A i \in N : u[i] \in Nat /\ weight[fact[i]] = u[i]
  BY <1>2, <1>3
<1>5. TotalTokens(Total(N, e, d)) = Measure(Total(N, e, d), weight)
  BY DEF TotalTokens, sums
<1>. HIDE DEF weight
<1>6. Measure(Total(N, e, d), weight) = Cardinality(Units(N, u)) /\ Cardinality(Units(N, u)) \in Nat
  BY <1>1, <1>4, MeasureIs DEF fact
<1>. QED BY <1>3, <1>5, <1>6 DEF u

-----------------------------------------------------------------------------
(* The leaderboard.                                                        *)

Named(all)    == {x \in all : x.key.model # ""}
NamedBy(all, m) == {x \in Named(all) : Bare(x.key.model) = m}
NamesOf(all)  == {Bare(x.key.model) : x \in Named(all)}

\* The models ahead of each in the order of the leaderboard.
Outranking(ranked) == [m \in DOMAIN ranked |-> {n \in DOMAIN ranked : Outranks(ranked, "tokens", n, m)}]

\* The leaderboard's first has the most tokens.
LEMMA LeaderIs ==
  ASSUME NEW ranked, IsFiniteSet(DOMAIN ranked),
         \A m \in DOMAIN ranked : ranked[m].tokens \in Int /\ StringRank(m) \in Int,
         \A m, n \in DOMAIN ranked : StringRank(m) = StringRank(n) => m = n
  PROVE  \A m \in DOMAIN ranked : ranked[m].tokens <= TopThree(ranked, "tokens")[1].rank.tokens
<1>. DEFINE D == DOMAIN ranked
            ahead == Outranking(ranked)
            t == [m \in D |-> ranked[m].tokens]
            s == [m \in D |-> StringRank(m)]
            N == Cardinality(D)
            order == Sorted(ahead)
<1>1. DOMAIN ahead = D /\ \A m \in D : t[m] \in Int /\ s[m] \in Int /\ t[m] = ranked[m].tokens
  BY DEF Outranking
<1>2. \A m, n \in D : s[m] = s[n] => m = n
  OBVIOUS
<1>3. \A m \in D : \A n : n \in ahead[m] <=> n \in D /\ (t[n] > t[m] \/ (t[n] = t[m] /\ s[n] < s[m]))
  <2>1. ASSUME NEW m \in D, NEW n \in D
        PROVE  Outranks(ranked, "tokens", n, m) <=> t[n] > t[m] \/ (t[n] = t[m] /\ s[n] < s[m])
    <3>1. Outranks(ranked, "tokens", n, m) <=>
            \/ ranked[n].tokens > ranked[m].tokens
            \/ ranked[n].tokens = ranked[m].tokens /\ ranked[n].tokens > ranked[m].tokens
            \/ ranked[n].tokens = ranked[m].tokens /\ ranked[n].tokens = ranked[m].tokens /\ StringRank(n) < StringRank(m)
      BY DEF Outranks
    <3>. QED BY <3>1
  <2>. QED BY <2>1 DEF Outranking
<1>. HIDE DEF ahead, t, s, D
<1>4. Strict(ahead)
  <2>1. ASSUME NEW a \in D, NEW b \in D
        PROVE  /\ ahead[a] \in SUBSET D /\ a \notin ahead[a]
               /\ a \in ahead[b] => ahead[a] \in SUBSET ahead[b]
               /\ a # b => a \in ahead[b] \/ b \in ahead[a]
    <3>1. ahead[a] \in SUBSET D /\ a \notin ahead[a]
      BY <1>1, <1>3
    <3>2. ASSUME a \in ahead[b], NEW c \in ahead[a] PROVE c \in ahead[b]
      <4>1. c \in D
        BY <1>3
      <4>. QED BY <1>1, <1>3, <3>2, <4>1
    <3>3. a # b => a \in ahead[b] \/ b \in ahead[a]
      <4>1. s[a] = s[b] => a = b
        BY <1>2
      <4>. QED BY <1>1, <1>3, <4>1
    <3>. QED BY <3>1, <3>2, <3>3
  <2>. QED BY <1>1, <2>1 DEF Strict, D
<1>5. /\ N \in Nat /\ order \in [1..N -> D]
      /\ \A a \in D : Place(ahead, a) \in 1..N
      /\ \A n \in 1..N : Place(ahead, order[n]) = n
  BY <1>1, <1>4, SortedIs
<1>6. ASSUME NEW m \in D
      PROVE  1 \in 1..N /\ order[1] \in D /\ t[m] <= t[order[1]]
  <2>1. 1 \in 1..N
    <3>1. Place(ahead, m) \in 1..N
      BY <1>5
    <3>. QED BY <1>5, <3>1
  <2>2. PICK top \in D : top = order[1] /\ Place(ahead, top) = 1
    BY <1>5, <2>1
  <2>3. ahead[top] = {}
    <3>1. IsFiniteSet(ahead[top]) /\ Cardinality(ahead[top]) \in Nat
      BY <1>1, <1>4, FS_Subset, FS_CardinalityType DEF Strict
    <3>. QED BY <2>2, <3>1, FS_EmptySet DEF Place
  <2>. QED BY <1>1, <1>3, <2>1, <2>2, <2>3
<1>7. TopThree(ranked, "tokens")
        = [n \in DOMAIN order \cap 1..3 |-> [model |-> order[n], rank |-> ranked[order[n]]]]
  BY DEF TopThree, Outranking, ahead
<1>. HIDE DEF order
<1>8. ASSUME NEW m \in D
      PROVE  ranked[m].tokens <= TopThree(ranked, "tokens")[1].rank.tokens
  <2>1. 1 \in DOMAIN order \cap 1..3
    BY <1>5, <1>6
  <2>2. TopThree(ranked, "tokens")[1].rank = ranked[order[1]]
    BY <1>7, <2>1
  <2>. QED BY <1>1, <1>6, <2>2
<1>. QED BY <1>8 DEF D

\* The leaderboard has the tokens of the model breakdown.
LEMMA RankingIs ==
  ASSUME Sound(release, before), NEW f, Bounds(f)
  PROVE  RankingAgrees(f)
<1>1. PICK r \in Rollups : r = "usage_daily"
  BY DEF Rollups
<1>2. PICK all : all = QueryFacts(release, before, r, f, FALSE)
  OBVIOUS
<1>3. PICK M : M = Selected(before, f)
  OBVIOUS
<1>4. before.rows \in Rows /\ before.tables[r] = Aggregate(release, before.rows, r)
  BY DEF Sound
<1>5. Accounts(all, M, release, before, r)
  BY <1>2, <1>3, <1>4, QueriesAccount
<1>6. M \in SUBSET Stored(before.rows) /\ M \in SUBSET Ids
  BY <1>3 DEF Selected, Stored
<1>7. PICK ranked : ranked = Ranked(release, before, f, "tokens")
  OBVIOUS
<1>8. PICK names : names = NamesOf(all)
  OBVIOUS
<1>9. ranked = RankedOf(Named(all))
  <2>1. {x \in all : x.key.model # "" /\ ("tokens" = "days" => ~x.key.helper)} = Named(all)
    BY DEF Named
  <2>. QED BY <1>1, <1>2, <1>7, <2>1 DEF Ranked
<1>10. DOMAIN ranked = names /\ \A m \in names : ranked[m].tokens = TotalTokens(Totals(NamedBy(all, m)))
  BY <1>8, <1>9 DEF RankedOf, Rank, NamesOf, NamedBy
<1>11. ASSUME NEW m PROVE TotalTokens(Totals(NamedBy(all, m))) \in Nat
  <2>1. NamedBy(all, m) \in SUBSET all
    BY DEF NamedBy, Named
  <2>2. PartIs(NamedBy(all, m), M, release, before, r)
    BY <1>5, <1>6, <2>1, PartTotals, Zenon
  <2>3. PICK N : N = SpokenFor(NamedBy(all, m), before, r)
    OBVIOUS
  <2>4. N \in SUBSET Stored(before.rows) /\ Totals(NamedBy(all, m)) = Total(N, release, before)
    BY <1>6, <2>2, <2>3 DEF PartIs
  <2>. QED BY <1>4, <2>4, TokensAre
<1>12. IsFiniteSet(names)
  <2>1. IsFiniteSet(Named(all))
    <3>1. Named(all) \in SUBSET all
      BY DEF Named
    <3>2. PartIs(Named(all), M, release, before, r)
      BY <1>5, <1>6, <3>1, PartTotals, Zenon
    <3>. QED BY <3>2 DEF PartIs
  <2>. DEFINE g == [x \in Named(all) |-> Bare(x.key.model)]
  <2>2. g \in Surjection(Named(all), names)
    BY <1>8 DEF Surjection, NamesOf
  <2>. HIDE DEF g
  <2>. QED BY <2>1, <2>2, FS_Surjection
<1>13. ASSUME NEW m
       PROVE  m \in names <=> \E i \in M : before.rows[i].model # Nil /\ m = Bare(before.rows[i].model)
  <2>1. ASSUME NEW i \in M
        PROVE  /\ KeyOf(r, before.rows[i]).model # "" <=> before.rows[i].model # Nil
               /\ before.rows[i].model # Nil => KeyOf(r, before.rows[i]).model = before.rows[i].model
    <3>1. before.rows[i].model \in Models \cup {Nil}
      BY <1>4, <1>6 DEF Stored, Rows, Row
    <3>2. KeyOf(r, before.rows[i]).model = Coalesce(before.rows[i].model, "")
      BY <1>1 DEF KeyOf
    <3>. QED BY <3>1, <3>2, FigureAssumption DEF Coalesce
  <2>2. \A k : (\E x \in all : x.key = k) <=> (\E i \in M : KeyOf(r, before.rows[i]) = k)
    BY <1>5, AccountedKeys
  <2>3. m \in names <=> \E x \in all : x.key.model # "" /\ m = Bare(x.key.model)
    BY <1>8 DEF NamesOf, Named
  <2>4. (\E x \in all : x.key.model # "" /\ m = Bare(x.key.model)) <=>
          \E i \in M : KeyOf(r, before.rows[i]).model # "" /\ m = Bare(KeyOf(r, before.rows[i]).model)
    BY <2>2
  <2>. QED BY <2>1, <2>3, <2>4
<1>14. \A m \in names : \E model \in Models : m = Bare(model)
  <2>1. \A i \in M : before.rows[i].model \in Models \cup {Nil}
    BY <1>4, <1>6 DEF Stored, Rows, Row
  <2>. QED BY <1>13, <2>1
<1>15. ASSUME NEW m \in names
       PROVE  ranked[m].tokens <= TopModels(release, before, f, "tokens")[1].rank.tokens
  <2>1. ASSUME NEW k \in names PROVE ranked[k].tokens \in Int /\ StringRank(k) \in Int
    <3>1. ranked[k].tokens \in Nat
      BY <1>10, <1>11
    <3>2. PICK model \in Models : k = Bare(model)
      BY <1>14
    <3>3. StringRank(Bare(model)) \in Int
      BY FigureAssumption, Zenon
    <3>4. StringRank(k) \in Int
      BY <3>2, <3>3
    <3>. QED BY <3>1, <3>4
  <2>2. \A k, n \in names : StringRank(k) = StringRank(n) => k = n
    BY <1>14, FigureAssumption
  <2>3. ranked[m].tokens <= TopThree(ranked, "tokens")[1].rank.tokens
    BY <1>10, <1>12, <2>1, <2>2, LeaderIs
  <2>. QED BY <1>7, <2>3 DEF TopModels
<1>16. PICK byModel : byModel = Breakdown(release, before, f, "model")
  OBVIOUS
<1>17. ASSUME NEW m \in names, m # Bare("") PROVE ranked[m].tokens = TotalTokens(byModel[m])
  <2>1. \A x : GroupKey("model", x.key) = Bare(x.key.model)
    BY DEF GroupKey
  <2>2. {x \in all : GroupKey("model", x.key) = m} = NamedBy(all, m)
    BY <1>17, <2>1 DEF NamedBy, Named
  <2>3. m \in {GroupKey("model", x.key) : x \in all}
    BY <1>8, <2>1 DEF NamesOf, Named
  <2>4. byModel[m] = Totals({x \in all : GroupKey("model", x.key) = m})
    BY <1>1, <1>2, <1>16, <2>3 DEF Breakdown, ByGroupKey
  <2>. QED BY <1>10, <2>2, <2>4
<1>18. names = {Bare(m) : m \in Distinct(before, f, "model")}
  <2>1. Distinct(before, f, "model") = {before.rows[i].model : i \in M} \ {Nil}
    BY <1>3 DEF Distinct
  <2>. QED BY <1>13, <2>1
<1>. QED BY <1>7, <1>10, <1>15, <1>16, <1>17, <1>18 DEF RankingAgrees

-----------------------------------------------------------------------------
(* The heatmap.                                                            *)

HeatmapDays == {HeatmapStart(Now) + n * DayLength : n \in 0..(7 * HeatmapWeeks - 1)}

\* Its range is made of whole weeks, and today is one of their days.
RangeFrom(a) ==
  /\ HeatmapStart(Now) = DayLength * a /\ HeatmapEnd(Now) = DayLength * (a + 7 * HeatmapWeeks)
  /\ a <= Now \div DayLength /\ Now \div DayLength < a + 7 * HeatmapWeeks

LEMMA HeatmapUnits ==
  /\ DayLength \in Nat /\ DayLength > 0 /\ HeatmapWeeks \in Nat /\ HeatmapWeeks > 0 /\ Now \in Nat
<1>1. DayLength \in Nat /\ DayLength > 0
  BY FactsAssumption
<1>2. HeatmapWeeks \in Nat \ {0}
  BY FigureAssumption, Zenon
<1>3. Now \in Nat
  BY ReaderAssumption
<1>. QED BY <1>1, <1>2, <1>3

\* The heatmap's range is of whole days, one of them today.
LEMMA HeatmapRange == \E a \in Int : RangeFrom(a)
<1>. DEFINE q == Now \div DayLength
            b == q - (HeatmapWeeks - 1) * 7
            w == (4 + b) % 7
            a == b - w
<1>1. /\ DayLength \in Nat /\ DayLength > 0 /\ HeatmapWeeks \in Nat /\ HeatmapWeeks > 0 /\ Now \in Nat
  BY HeatmapUnits
<1>2. q \in Int /\ Day(Now) = DayLength * q
  BY <1>1, DaysAre
<1>. HIDE DEF q
<1>3. b \in Int /\ w \in 0..6 /\ a \in Int
  BY <1>1, <1>2
<1>4. \A x, y \in Int : /\ DayLength * x - y * DayLength = DayLength * (x - y)
                        /\ DayLength * x + y * DayLength = DayLength * (x + y)
                        /\ (DayLength * x) \div DayLength = x
  BY <1>1
<1>5. Day(Now) - (HeatmapWeeks - 1) * 7 * DayLength = DayLength * b
  <2>1. (HeatmapWeeks - 1) * 7 \in Int
    BY <1>1
  <2>. QED BY <1>2, <1>4, <2>1
<1>6. Weekday(DayLength * b) = w
  BY <1>3, <1>4 DEF Weekday
<1>. HIDE DEF b, w
<1>7. HeatmapStart(Now) = DayLength * a
  <2>1. HeatmapStart(Now) = DayLength * b - w * DayLength
    BY <1>5, <1>6 DEF HeatmapStart
  <2>. QED BY <1>3, <1>4, <2>1
<1>8. HeatmapEnd(Now) = DayLength * (a + 7 * HeatmapWeeks)
  <2>1. HeatmapWeeks * 7 \in Int /\ HeatmapWeeks * 7 = 7 * HeatmapWeeks
    BY <1>1
  <2>2. HeatmapEnd(Now) = DayLength * a + (HeatmapWeeks * 7) * DayLength
    BY <1>7 DEF HeatmapEnd
  <2>. QED BY <1>3, <1>4, <2>1, <2>2
<1>9. a <= q /\ q < a + 7 * HeatmapWeeks
  BY <1>1, <1>2, <1>3 DEF b
<1>. QED BY <1>3, <1>7, <1>8, <1>9 DEF RangeFrom, q

\* Its cells are those of the days in its range, of which today is one.
LEMMA HeatmapDaysAre ==
  ASSUME NEW a \in Int, RangeFrom(a)
  PROVE  /\ IsFiniteSet(HeatmapDays) /\ Day(Now) \in HeatmapDays
         /\ \A t \in Nat : HeatmapStart(Now) <= t /\ t < HeatmapEnd(Now) => Day(t) \in HeatmapDays
<1>1. DayLength \in Nat /\ DayLength > 0 /\ HeatmapWeeks \in Nat /\ HeatmapWeeks > 0 /\ Now \in Nat
  BY HeatmapUnits
<1>. DEFINE I == 0..(7 * HeatmapWeeks - 1)
            day == [n \in I |-> HeatmapStart(Now) + n * DayLength]
<1>2. IsFiniteSet(HeatmapDays)
  <2>1. IsFiniteSet(I)
    <3>1. 7 * HeatmapWeeks - 1 \in Int
      BY <1>1
    <3>. QED BY <3>1, FS_Interval
  <2>2. day \in Surjection(I, HeatmapDays)
    <3>. HIDE DEF I
    <3>. QED BY DEF Surjection, HeatmapDays, I
  <2>. HIDE DEF day, I
  <2>. QED BY <2>1, <2>2, FS_Surjection
<1>3. ASSUME NEW t \in Nat, NEW p \in Int, Day(t) = DayLength * p, a <= p, p < a + 7 * HeatmapWeeks
      PROVE  Day(t) \in HeatmapDays
  <2>1. p - a \in 0..(7 * HeatmapWeeks - 1)
    BY <1>1, <1>3
  <2>2. HeatmapStart(Now) + (p - a) * DayLength = DayLength * p
    <3>1. \A x, y \in Int : DayLength * x + y * DayLength = DayLength * (x + y)
      BY <1>1
    <3>2. p - a \in Int /\ a + (p - a) = p
      BY <1>1
    <3>. QED BY <3>1, <3>2 DEF RangeFrom
  <2>. QED BY <1>3, <2>1, <2>2 DEF HeatmapDays
<1>4. Day(Now) \in HeatmapDays
  <2>1. Now \div DayLength \in Int /\ Day(Now) = DayLength * (Now \div DayLength)
    BY <1>1, DaysAre
  <2>. QED BY <1>1, <1>3, <2>1 DEF RangeFrom
<1>5. ASSUME NEW t \in Nat, HeatmapStart(Now) <= t, t < HeatmapEnd(Now)
      PROVE  Day(t) \in HeatmapDays
  <2>. DEFINE p == t \div DayLength
              z == a + 7 * HeatmapWeeks
  <2>1. p \in Int /\ Day(t) = DayLength * p /\ z \in Int
    BY <1>1, DaysAre
  <2>2. DayLength * a <= Day(t) /\ Day(t) < DayLength * z
    BY <1>5, <2>1, SameSide DEF RangeFrom
  <2>. HIDE DEF p, z
  <2>3. DayLength * a < DayLength * p + DayLength
    <3>1. DayLength * a \in Int /\ DayLength * p \in Int
      BY <1>1, <2>1
    <3>. QED BY <1>1, <2>1, <2>2, <3>1
  <2>4. a <= p
    BY <2>1, <2>3, Multiples
  <2>5. p < z
    <3>. SUFFICES ASSUME z <= p PROVE FALSE
      BY <2>1
    <3>1. DayLength * z <= DayLength * p
      BY <2>1, DayTimes
    <3>2. DayLength * z \in Int /\ DayLength * p \in Int
      BY <1>1, <2>1
    <3>. QED BY <2>1, <2>2, <3>1, <3>2
  <2>. QED BY <1>3, <2>1, <2>4, <2>5 DEF z
<1>. QED BY <1>2, <1>4, <1>5

\* The points whose start is a day have the tokens of its requests.
LEMMA DayTokens ==
  ASSUME NEW e, NEW d, d.rows \in Rows, NEW N \in SUBSET Stored(d.rows), NEW at, \A i \in N : at[i] \in Int,
         NEW points, points = ToSet(Points(N, at, e, d)), NEW day, NEW p, p = {q \in points : q.start = day}
  PROVE  (IF p = {} THEN 0 ELSE TotalTokens((CHOOSE q \in p : TRUE).total))
           = Cardinality(Units(OnPoint(N, at, day), TokensAt(e, d)))
<1>. DEFINE S == Starts(N, at)
            K == Cardinality(S)
            seq == Ordered(S)
<1>1. IsFiniteSet(N)
  BY FactsAssumption, FS_Subset DEF Stored
<1>2. Rising(seq, S)
  BY <1>1, StartsAre
<1>3. K \in Nat /\ seq \in [1..K -> S] /\ \A a \in S : \E n \in 1..K : seq[n] = a
  <2>. HIDE DEF S, seq
  <2>. QED BY <1>2 DEF Rising
<1>4. points = {PointOf(N, at, seq[n], e, d) : n \in 1..K}
  BY DEF ToSet, Points
<1>. HIDE DEF S, seq, K
<1>5. \A q : q \in p <=> q \in points /\ q.start = day
  OBVIOUS
<1>6. \A q : q \in points <=> \E n \in 1..K : q = PointOf(N, at, seq[n], e, d)
  BY <1>4
<1>7. \A s : PointOf(N, at, s, e, d).start = s /\ PointOf(N, at, s, e, d).total = Total(OnPoint(N, at, s), e, d)
  BY DEF PointOf
<1>8. CASE p = {}
  <2>1. day \notin S
    <3>. SUFFICES ASSUME day \in S PROVE FALSE
      OBVIOUS
    <3>1. PICK n \in 1..K : seq[n] = day
      BY <1>3
    <3>2. PointOf(N, at, day, e, d) \in p
      BY <1>5, <1>6, <1>7, <3>1
    <3>. QED BY <1>8, <3>2
  <2>2. OnPoint(N, at, day) = {}
    BY <2>1 DEF OnPoint, Starts, S
  <2>3. Units({}, TokensAt(e, d)) = {}
    BY DEF Units
  <2>. QED BY <1>8, <2>2, <2>3, FS_EmptySet
<1>9. CASE p # {}
  <2>1. PICK q : q = CHOOSE x \in p : TRUE
    OBVIOUS
  <2>2. q \in p
    BY <1>9, <2>1, Zenon
  <2>3. q.total = Total(OnPoint(N, at, day), e, d)
    BY <1>5, <1>6, <1>7, <2>2
  <2>4. PICK X : X = OnPoint(N, at, day)
    OBVIOUS
  <2>5. X \in SUBSET Stored(d.rows)
    BY <2>4 DEF OnPoint
  <2>6. TotalTokens(Total(X, e, d)) = Cardinality(Units(X, TokensAt(e, d)))
    BY <2>5, TokensAre
  <2>. QED BY <1>9, <2>1, <2>3, <2>4, <2>6
<1>. QED BY <1>8, <1>9

\* Its cells have the tokens of its range.
LEMMA HeatmapIs ==
  ASSUME Sound(release, before), NEW f, Bounds(f)
  PROVE  HeatmapCovers(f)
<1>. DEFINE days == HeatmapDays
            h == Dims(f, HeatmapStart(Now), HeatmapEnd(Now))
            cells == Heatmap(release, before, f, Now)
            u == TokensAt(release, before)
<1>1. PICK a \in Int : RangeFrom(a)
  BY HeatmapRange
<1>2. Bounds(h) /\ h.from = HeatmapStart(Now) /\ h.to = HeatmapEnd(Now) /\ h.from # Nil
  <2>1. DayLength \in Int /\ a + 7 * HeatmapWeeks \in Int /\ HeatmapWeeks \in Int
    BY HeatmapUnits
  <2>2. HeatmapStart(Now) \in Int /\ HeatmapEnd(Now) \in Int
    BY <1>1, <2>1 DEF RangeFrom
  <2>3. Nil \notin Int
    BY ReaderAssumption
  <2>4. h.from = HeatmapStart(Now) /\ h.to = HeatmapEnd(Now)
    BY DEF Dims
  <2>. QED BY <2>2, <2>3, <2>4 DEF Bounds
<1>3. PICK N : N = Selected(before, h)
  OBVIOUS
<1>4. PICK at : at = ChartAxis(before, N, "day")
  OBVIOUS
<1>5. /\ Timeseries(release, before, h, "day") = Points(N, at, release, before)
      /\ IsFiniteSet(N) /\ \A i \in N : at[i] \in Int
  <2>1. "day" \in Buckets
    BY DEF Buckets
  <2>. HIDE DEF h
  <2>. QED BY <1>2, <1>3, <1>4, <2>1, SeriesCounts DEF TimeseriesIs
<1>6. before.rows \in Rows /\ N \in SUBSET Stored(before.rows)
  BY <1>3 DEF Sound, Selected
<1>7. \A i \in N : u[i] \in Nat
  BY <1>6, TokensAre
<1>8. ASSUME NEW i \in N PROVE at[i] \in days
  <2>1. before.rows[i].ts \in Nat
    BY <1>6, FactsAssumption DEF Stored, Rows, Row
  <2>2. HeatmapStart(Now) <= before.rows[i].ts /\ before.rows[i].ts < HeatmapEnd(Now)
    <3>1. Selects(h, before.rows[i])
      BY <1>3 DEF Selected
    <3>. HIDE DEF h
    <3>2. h.from <= before.rows[i].ts /\ before.rows[i].ts < h.to
      <4>1. before.rows[i].ts >= h.from /\ before.rows[i].ts < h.to
        BY <1>2, <3>1 DEF Selects
      <4>. QED BY <1>2, <2>1, <4>1 DEF Bounds
    <3>. QED BY <1>2, <3>2
  <2>3. at[i] = Day(before.rows[i].ts)
    BY <1>4 DEF ChartAxis, AxisOf
  <2>. QED BY <1>1, <2>1, <2>2, <2>3, HeatmapDaysAre
<1>9. IsFiniteSet(days) /\ Day(Now) \in days
  BY <1>1, HeatmapDaysAre
<1>10. DOMAIN cells = days
  BY DEF Heatmap, HeatmapDays
<1>11. ASSUME NEW day \in days
       PROVE  cells[day].tokens = Cardinality(Units(OnPoint(N, at, day), u))
  <2>1. PICK points : points = ToSet(Points(N, at, release, before))
    OBVIOUS
  <2>2. PICK p : p = {q \in points : q.start = day}
    OBVIOUS
  <2>. DEFINE shown == {q \in ToSet(Timeseries(release, before, h, "day")) : q.start = day}
  <2>3. cells[day].tokens = IF shown = {} THEN 0 ELSE TotalTokens((CHOOSE q \in shown : TRUE).total)
    BY DEF Heatmap, HeatmapDays
  <2>4. shown = p
    BY <1>5, <2>1, <2>2
  <2>. HIDE DEF shown
  <2>5. cells[day].tokens = IF p = {} THEN 0 ELSE TotalTokens((CHOOSE q \in p : TRUE).total)
    BY <2>3, <2>4
  <2>. QED BY <1>5, <1>6, <2>1, <2>2, <2>5, DayTokens
<1>. DEFINE part == [day \in days |-> OnPoint(N, at, day)]
            m == [day \in DOMAIN cells |-> cells[day].tokens]
<1>. HIDE DEF days, h, cells, u
<1>12. part \in [days -> SUBSET N] /\ Apart(days, part) /\ Covered(days, part) = N
  BY <1>8 DEF OnPoint, Apart, Covered
<1>13. DOMAIN m = days /\ \A day \in days : m[day] = Cardinality(Units(part[day], u))
  BY <1>10, <1>11
<1>14. SumFunction(m) = Cardinality(Units(N, u))
  <2>. HIDE DEF m, part
  <2>. QED BY <1>5, <1>7, <1>9, <1>12, <1>13, SharedUnits
<1>15. TotalTokens(Summary(release, before, h)) = Cardinality(Units(N, u))
  <2>1. Summary(release, before, h) = Total(N, release, before)
    BY <1>2, <1>3, SummaryCounts DEF SummaryIs
  <2>. QED BY <1>6, <2>1, TokensAre DEF u
<1>. QED BY <1>9, <1>10, <1>14, <1>15 DEF HeatmapCovers, cells, h

-----------------------------------------------------------------------------
(* The API's list, read page by page.                                      *)

\* What a client gets that goes on behind each page, until one is empty.
ReadsOn(list, page) ==
  list = [offset \in Nat |-> IF page[offset] = <<>> THEN <<>> ELSE page[offset] \o list[offset + Len(page[offset])]]

Rest(whole, N, offset) == [n \in 1..(IF offset >= N THEN 0 ELSE N - offset) |-> whole[offset + n]]

Continues(page, whole, N, offset) ==
  /\ page # <<>> /\ offset + Len(page) \in Nat /\ offset < offset + Len(page)
  /\ page \o Rest(whole, N, offset + Len(page)) = Rest(whole, N, offset)

\* Intervals from 1 that are the same end at the same number.
LEMMA SameEnd ==
  ASSUME NEW j \in Nat, NEW k \in Nat, 1..j = 1..k
  PROVE  j = k
<1>1. j > k => j \in 1..j /\ j \notin 1..k
  OBVIOUS
<1>2. k > j => k \in 1..k /\ k \notin 1..j
  OBVIOUS
<1>. QED BY <1>1, <1>2

\* Behind a page comes the rest of the list.
LEMMA PageThenRest ==
  ASSUME NEW N \in Nat, NEW S, NEW whole \in [1..N -> S], NEW limit \in Nat \ {0}, NEW offset \in Nat, offset < N,
         NEW page \in Seq(S), Holding(page, whole, N, limit, offset)
  PROVE  Continues(page, whole, N, offset)
<1>. DEFINE l == Len(page)
            next == Rest(whole, N, offset + l)
            rest == Rest(whole, N, offset)
<1>1. /\ l \in Nat /\ DOMAIN page = 1..l /\ l = IF offset + limit < N THEN limit ELSE N - offset
      /\ \A n \in 1..l : page[n] = whole[offset + n] /\ offset + n \in 1..N
  BY DEF Holding
<1>2. l >= 1 /\ offset + l <= N /\ l # Len(<<>>)
  BY <1>1, EmptySeq
<1>. DEFINE k == N - (offset + l)
<1>3. k \in Nat /\ N - offset = l + k
  BY <1>1, <1>2
<1>4. next = [n \in 1..k |-> whole[offset + l + n]] /\ rest = [n \in 1..(l + k) |-> whole[offset + n]]
  <2>1. 1..(IF offset + l >= N THEN 0 ELSE N - (offset + l)) = 1..k
    BY <1>1, <1>2
  <2>2. 1..(IF offset >= N THEN 0 ELSE N - offset) = 1..(l + k)
    BY <1>3
  <2>. HIDE DEF l, k
  <2>. QED BY <2>1, <2>2 DEF Rest
<1>. HIDE DEF k, l, next, rest
<1>5. page \in Seq(S) /\ Len(page) = l
  BY DEF l
<1>6. next \in Seq(S) /\ Len(next) = k
  <2>1. \A n \in 1..k : offset + l + n \in 1..N
    BY <1>1, <1>3
  <2>2. next \in [1..k -> S]
    BY <1>4, <2>1
  <2>3. next \in Seq(S)
    BY <1>3, <2>2, SeqDef
  <2>4. Len(next) \in Nat /\ DOMAIN next = 1..Len(next)
    BY <2>3, LenProperties
  <2>5. 1..Len(next) = 1..k
    BY <2>2, <2>4
  <2>6. PICK j \in Nat : j = Len(next)
    BY <2>4
  <2>7. 1..j = 1..k /\ j \in Nat /\ k \in Nat
    BY <1>3, <2>5, <2>6
  <2>8. j = k
    BY <2>7, SameEnd
  <2>. QED BY <2>3, <2>6, <2>8
<1>7. /\ page \o next \in Seq(S) /\ Len(page \o next) = l + k
      /\ \A n \in 1..(l + k) : (page \o next)[n] = IF n <= l THEN page[n] ELSE next[n - l]
  BY <1>5, <1>6, ConcatProperties
<1>8. page \o next = [n \in 1..(l + k) |-> (page \o next)[n]]
  BY <1>7, LenProperties
<1>9. ASSUME NEW n \in 1..(l + k)
      PROVE  (page \o next)[n] = whole[offset + n]
  <2>1. CASE n <= l
    <3>1. n \in 1..l
      BY <1>1, <1>3, <2>1
    <3>. QED BY <1>1, <1>7, <2>1, <3>1
  <2>2. CASE n > l
    <3>1. n - l \in 1..k /\ offset + l + (n - l) = offset + n
      BY <1>1, <1>3, <2>2
    <3>2. (page \o next)[n] = next[n - l]
      BY <1>1, <1>3, <1>7, <2>2
    <3>. QED BY <1>4, <3>1, <3>2
  <2>3. l + k \in Int /\ l \in Int
    BY <1>1, <1>3
  <2>4. n <= l \/ n > l
    BY <2>3
  <2>. QED BY <2>1, <2>2, <2>4
<1>10. page \o next = rest
  BY <1>4, <1>8, <1>9
<1>11. page # <<>>
  BY <1>2 DEF l
<1>. QED BY <1>1, <1>2, <1>10, <1>11 DEF l, next, rest, Continues

ReadsWhole(page, whole) ==
  (\E list : ReadsOn(list, page)) /\ \A list : ReadsOn(list, page) => list[0] = whole

\* A client is given the whole list, whatever the limit.
LEMMA WholeIsRead ==
  ASSUME NEW N \in Nat, NEW S, NEW whole \in [1..N -> S], NEW limit \in Nat \ {0}, NEW page,
         \A offset \in Nat : page[offset] \in Seq(S) /\ Holding(page[offset], whole, N, limit, offset)
  PROVE  ReadsWhole(page, whole)
<1>. DEFINE rest == [offset \in Nat |-> Rest(whole, N, offset)]
<1>1. ASSUME NEW offset \in Nat, offset >= N
      PROVE  page[offset] = <<>> /\ Rest(whole, N, offset) = <<>>
  <2>1. Len(page[offset]) = 0 /\ DOMAIN page[offset] = 1..Len(page[offset])
    BY <1>1 DEF Holding
  <2>2. page[offset] = <<>>
    BY <2>1, EmptySeq
  <2>3. 1..(IF offset >= N THEN 0 ELSE N - offset) = {}
    BY <1>1
  <2>4. Rest(whole, N, offset) = [n \in {} |-> whole[offset + n]]
    BY <2>3 DEF Rest
  <2>5. Rest(whole, N, offset) = <<>>
    BY <2>4
  <2>. QED BY <2>2, <2>5
<1>2. ASSUME NEW offset \in Nat, offset < N
      PROVE  Continues(page[offset], whole, N, offset)
  <2>1. page[offset] \in Seq(S) /\ Holding(page[offset], whole, N, limit, offset)
    OBVIOUS
  <2>. QED BY <1>2, <2>1, PageThenRest, Zenon
<1>3. ReadsOn(rest, page)
  <2>1. ASSUME NEW offset \in Nat
        PROVE  rest[offset] = IF page[offset] = <<>> THEN <<>> ELSE page[offset] \o rest[offset + Len(page[offset])]
    <3>1. CASE offset >= N
      BY <1>1, <3>1
    <3>2. CASE offset < N
      <4>1. PICK next \in Nat : next = offset + Len(page[offset])
        BY <1>2, <3>2 DEF Continues
      <4>2. page[offset] # <<>> /\ page[offset] \o Rest(whole, N, next) = Rest(whole, N, offset)
        BY <1>2, <3>2, <4>1 DEF Continues
      <4>. QED BY <4>1, <4>2
    <3>3. offset >= N \/ offset < N
      OBVIOUS
    <3>. QED BY <3>1, <3>2, <3>3
  <2>2. rest = [offset \in Nat |-> rest[offset]]
    OBVIOUS
  <2>. HIDE DEF rest
  <2>. QED BY <2>1, <2>2 DEF ReadsOn
<1>4. ASSUME NEW list, ReadsOn(list, page), NEW offset \in Nat
      PROVE  list[offset] = Rest(whole, N, offset)
  <2>. DEFINE wrong == {o \in 0..N : list[o] # Rest(whole, N, o)}
              id == [o \in wrong |-> o]
  <2>0. \A o \in Nat : list[o] = IF page[o] = <<>> THEN <<>> ELSE page[o] \o list[o + Len(page[o])]
    BY <1>4 DEF ReadsOn
  <2>1. \A o \in Nat : o >= N => list[o] = Rest(whole, N, o)
    BY <1>1, <2>0
  <2>2. wrong = {}
    <3>. SUFFICES ASSUME wrong # {} PROVE FALSE
      OBVIOUS
    <3>0. IsFiniteSet(0..N)
      BY FS_Interval
    <3>1. IsFiniteSet(wrong) /\ id \in [wrong -> Nat]
      BY <3>0, FS_Subset
    <3>2. PICK o \in wrong : \A p \in wrong : id[o] >= id[p]
      <4>. HIDE DEF wrong, id
      <4>. QED BY <3>1, ExtremesExist
    <3>3. o \in Nat /\ o < N
      BY <2>1
    <3>4. PICK p \in Nat : p = o + Len(page[o])
      BY <1>2, <3>3 DEF Continues
    <3>5. o < p /\ page[o] # <<>> /\ page[o] \o Rest(whole, N, p) = Rest(whole, N, o)
      BY <1>2, <3>3, <3>4 DEF Continues
    <3>6. list[p] = Rest(whole, N, p)
      <4>1. CASE p >= N
        BY <2>1, <4>1
      <4>2. CASE p < N
        <5>1. \A x \in wrong : x <= o
          BY <3>2, <3>3
        <5>2. p \notin wrong
          BY <3>3, <3>5, <5>1
        <5>. QED BY <4>2, <5>2
      <4>. QED BY <4>1, <4>2
    <3>7. list[o] = Rest(whole, N, o)
      BY <2>0, <3>3, <3>4, <3>5, <3>6
    <3>. QED BY <3>7
  <2>. QED BY <2>1, <2>2
<1>5. Rest(whole, N, 0) = whole
  <2>1. 1..(IF 0 >= N THEN 0 ELSE N - 0) = 1..N /\ \A n \in 1..N : 0 + n = n
    OBVIOUS
  <2>2. Rest(whole, N, 0) = [n \in 1..N |-> whole[0 + n]]
    BY <2>1 DEF Rest
  <2>3. Rest(whole, N, 0) = [n \in 1..N |-> whole[n]]
    BY <2>1, <2>2
  <2>. QED BY <2>3
<1>6. \A list : ReadsOn(list, page) => list[0] = whole
  BY <1>4, <1>5
<1>. QED BY <1>3, <1>6, Zenon DEF ReadsWhole

-----------------------------------------------------------------------------
(* The list in either order.                                               *)

AheadBy(time, rank, order) == [a \in DOMAIN time |-> Ahead(time, rank, order, a)]

\* Newest or oldest first, no two requests share a place.
LEMMA OrdersAreStrict ==
  ASSUME NEW time, NEW rank, Timed(time, rank), NEW order
  PROVE  Strict(AheadBy(time, rank, order))
<1>1. CASE order = "desc"
  BY <1>1, TimedIsStrict DEF AheadOf, AheadBy
<1>2. CASE order # "desc"
  <2>1. PICK back : back = [a \in DOMAIN time |-> 0 - time[a]]
    OBVIOUS
  <2>2. DOMAIN back = DOMAIN time /\ \A a \in DOMAIN time : time[a] \in Int /\ back[a] = 0 - time[a]
    BY <2>1 DEF Timed
  <2>3. \A a \in DOMAIN time : back[a] \in Int
    BY <2>2
  <2>4. Timed(back, rank)
    BY <2>2, <2>3 DEF Timed
  <2>5. \A a, b \in DOMAIN time : (time[b] < time[a] <=> back[b] > back[a]) /\ (time[b] = time[a] <=> back[b] = back[a])
    BY <2>2
  <2>6. ASSUME NEW a \in DOMAIN time
        PROVE  Ahead(time, rank, order, a) = Ahead(back, rank, "desc", a)
    BY <1>2, <2>2, <2>5 DEF Ahead
  <2>7. AheadBy(time, rank, order) = AheadOf(back, rank)
    BY <2>2, <2>6 DEF AheadBy, AheadOf
  <2>. QED BY <2>4, <2>7, TimedIsStrict
<1>. QED BY <1>1, <1>2

\* A list that has each member of N in one place.
Lists(seq, N) ==
  /\ IsFiniteSet(N) /\ Cardinality(N) \in Nat /\ seq \in [1..Cardinality(N) -> N]
  /\ \A m, n \in 1..Cardinality(N) : seq[m] = seq[n] => m = n
  /\ \A i \in N : \E n \in 1..Cardinality(N) : seq[n] = i

RequestsInOrder(d, N, order) == InOrder([i \in N |-> d.rows[i].ts], [i \in N |-> i], order)

\* The requests in either order are a list of them.
LEMMA RequestsListed ==
  ASSUME NEW d, d.rows \in Rows, NEW N \in SUBSET Stored(d.rows), NEW order
  PROVE  Lists(RequestsInOrder(d, N, order), N)
<1>. DEFINE time == [i \in N |-> d.rows[i].ts]
            rank == [i \in N |-> i]
            ahead == AheadBy(time, rank, order)
            K == Cardinality(N)
            seq == Sorted(ahead)
<1>1. IsFiniteSet(N) /\ N \in SUBSET Ids
  BY FactsAssumption, FS_Subset DEF Stored
<1>2. Timed(time, rank)
  <2>1. \A i \in N : d.rows[i].ts \in Int
    <3>1. \A i \in N : d.rows[i] \in Row
      BY DEF Stored, Rows
    <3>2. \A i \in N : d.rows[i].ts \in Times
      BY <3>1 DEF Row
    <3>3. \A t \in Times : t \in Int
      BY FactsAssumption
    <3>. QED BY <3>2, <3>3
  <2>2. \A i \in N : i \in Int
    BY <1>1, ReaderAssumption
  <2>. QED BY <1>1, <2>1, <2>2 DEF Timed
<1>3. DOMAIN time = N /\ DOMAIN ahead = N
  BY DEF AheadBy
<1>4. RequestsInOrder(d, N, order) = seq
  BY DEF RequestsInOrder, InOrder, AheadBy
<1>. HIDE DEF time, rank
<1>5. Strict(ahead)
  BY <1>2, OrdersAreStrict
<1>. HIDE DEF ahead, seq, K
<1>6. /\ K \in Nat /\ seq \in [1..K -> N]
      /\ \A i \in N : Place(ahead, i) \in 1..K /\ seq[Place(ahead, i)] = i
      /\ \A n \in 1..K : Place(ahead, seq[n]) = n
  <2>1. K = Cardinality(DOMAIN ahead)
    BY <1>3 DEF K
  <2>. QED BY <1>3, <1>5, <2>1, SortedIs DEF seq
<1>. QED BY <1>1, <1>4, <1>6 DEF Lists, K

\* As many places as there are members.
LEMMA PlacesAre ==
  ASSUME NEW N, NEW seq, Lists(seq, N), NEW A \in SUBSET N
  PROVE  Cardinality({n \in 1..Cardinality(N) : seq[n] \in A}) = Cardinality(A)
<1>. DEFINE places == {n \in 1..Cardinality(N) : seq[n] \in A}
            at == [n \in places |-> seq[n]]
<1>1. at \in Injection(places, A) /\ at \in Surjection(places, A)
  <2>1. \A n \in places : at[n] \in A
    OBVIOUS
  <2>2. \A m, n \in places : at[m] = at[n] => m = n
    BY DEF Lists
  <2>3. \A i \in A : \E n \in places : at[n] = i
    <3>1. ASSUME NEW i \in A PROVE \E n \in places : at[n] = i
      <4>1. PICK n \in 1..Cardinality(N) : seq[n] = i
        BY DEF Lists
      <4>. QED BY <4>1
    <3>. QED BY <3>1
  <2>4. at = [n \in places |-> at[n]]
    OBVIOUS
  <2>. HIDE DEF at, places
  <2>5. at \in [places -> A]
    BY <2>1, <2>4
  <2>. QED BY <2>2, <2>3, <2>5 DEF Injection, IsInjective, Surjection
<1>2. IsFiniteSet(A)
  BY FS_Subset DEF Lists
<1>3. IsFiniteSet(places)
  <2>1. IsFiniteSet(1..Cardinality(N))
    <3>1. Cardinality(N) \in Nat
      BY DEF Lists
    <3>. QED BY <3>1, FS_Interval
  <2>. QED BY <2>1, FS_Subset
<1>. HIDE DEF at, places
<1>4. Cardinality(places) = Cardinality(A)
  BY <1>1, <1>2, <1>3, FS_Injection
<1>. QED BY <1>4 DEF places

\* The JSON of each request on a list, and how an offset and a limit read it.
Shown(d, seq) == [n \in DOMAIN seq |-> GenerationJSON(seq[n], d.rows[seq[n]])]

\* A page of the JSON is a page of the list in JSON.
LEMMA ShownPage ==
  ASSUME NEW d, NEW S, NEW N \in Nat, NEW seq \in [1..N -> S], NEW limit \in Nat \ {0}, NEW offset \in Nat,
         NEW T, \A i \in S : GenerationJSON(i, d.rows[i]) \in T
  PROVE  /\ Shown(d, Page(seq, limit, offset)) \in Seq(T)
         /\ Holding(Shown(d, Page(seq, limit, offset)), Shown(d, seq), N, limit, offset)
<1>. DEFINE page == Page(seq, limit, offset)
            shown == Shown(d, page)
            whole == Shown(d, seq)
<1>1. page \in Seq(S) /\ Holding(page, seq, N, limit, offset)
  BY PageIs
<1>2. PICK l \in Nat : l = Len(page)
  BY <1>1 DEF Holding
<1>3. /\ DOMAIN page = 1..l
      /\ l = IF offset >= N THEN 0 ELSE IF offset + limit < N THEN limit ELSE N - offset
      /\ \A n \in 1..l : offset + n \in 1..N /\ page[n] = seq[offset + n]
  BY <1>1, <1>2 DEF Holding
<1>. HIDE DEF page
<1>4. DOMAIN shown = 1..l /\ \A n \in 1..l : shown[n] = GenerationJSON(page[n], d.rows[page[n]])
  BY <1>3 DEF Shown
<1>5. \A n \in 1..N : whole[n] = GenerationJSON(seq[n], d.rows[seq[n]])
  BY DEF Shown
<1>6. shown = [n \in 1..l |-> shown[n]]
  BY <1>3 DEF Shown
<1>. HIDE DEF shown, whole
<1>7. \A n \in 1..l : shown[n] \in T
  BY <1>3, <1>4
<1>8. shown \in Seq(T)
  <2>1. shown \in [1..l -> T]
    BY <1>6, <1>7
  <2>. QED BY <2>1, SeqDef
<1>9. Len(shown) = l
  <2>1. PICK k \in Nat : k = Len(shown) /\ DOMAIN shown = 1..k
    BY <1>8, LenProperties
  <2>2. 1..k = 1..l
    BY <1>4, <2>1
  <2>3. k = l
    BY <2>2, SameEnd
  <2>. QED BY <2>1, <2>3
<1>10. \A n \in 1..l : shown[n] = whole[offset + n]
  BY <1>3, <1>4, <1>5
<1>11. Holding(shown, whole, N, limit, offset)
  BY <1>3, <1>4, <1>9, <1>10 DEF Holding
<1>. QED BY <1>8, <1>11 DEF shown, whole, page

\* Page by page, the API reads a filter's requests under that filter.
Reads(q, f, order, limit) ==
  /\ q.order = order /\ ~Refused(q) /\ ~Failed(q, Now)
  /\ \A offset : LET p == [q EXCEPT !.offset = offset]
                 IN  Normalized(FilterParam(p), Now) = f /\ p.order = order /\ Limit(p) = limit /\ p.offset = offset
  /\ Normalized(FilterParam(q), Now) = f /\ q.offset = 0

\* The list that a client reads, from the beginning to its end.
LEMMA ListIsRead ==
  ASSUME NEW d, d.rows \in Rows, NEW q, NEW f, NEW order, NEW limit \in Nat \ {0}, Reads(q, f, order, limit)
  PROVE  GenerationsFrom(d, q, Now) = Shown(d, RequestsInOrder(d, Selected(d, f), order))
<1>. DEFINE M == Selected(d, f)
            seq == RequestsInOrder(d, M, order)
            N == Cardinality(M)
            whole == Shown(d, seq)
            T == {GenerationJSON(i, d.rows[i]) : i \in M}
            page == [offset \in Nat |-> Shown(d, Page(seq, limit, offset))]
<1>1. Lists(seq, M)
  BY RequestsListed DEF Selected
<1>. HIDE DEF M, seq
<1>2. N \in Nat /\ seq \in [1..N -> M]
  BY <1>1 DEF Lists
<1>. HIDE DEF N
<1>3. whole \in [1..N -> T]
  BY <1>2 DEF Shown
<1>4. ASSUME NEW offset \in Nat
      PROVE  page[offset] \in Seq(T) /\ Holding(page[offset], whole, N, limit, offset)
  <2>1. \A i \in M : GenerationJSON(i, d.rows[i]) \in T
    OBVIOUS
  <2>. HIDE DEF T
  <2>2. /\ Shown(d, Page(seq, limit, offset)) \in Seq(T)
        /\ Holding(Shown(d, Page(seq, limit, offset)), Shown(d, seq), N, limit, offset)
    BY <1>2, <2>1, ShownPage
  <2>. QED BY <2>2
<1>5. ASSUME NEW offset \in Nat
      PROVE  GetGenerations(d, [q EXCEPT !.offset = offset], Now) = page[offset]
  <2>1. RecentGenerations(d, f, order, limit, offset) = Page(seq, limit, offset)
    BY DEF RecentGenerations, RequestsInOrder, seq, M
  <2>2. GetGenerations(d, [q EXCEPT !.offset = offset], Now) = Shown(d, RecentGenerations(d, f, order, limit, offset))
    <3>1. PICK p : p = [q EXCEPT !.offset = offset]
      OBVIOUS
    <3>2. Normalized(FilterParam(p), Now) = f /\ p.order = order /\ Limit(p) = limit /\ p.offset = offset
      BY <3>1 DEF Reads
    <3>3. GetGenerations(d, p, Now) = Shown(d, RecentGenerations(d, f, order, limit, offset))
      BY <3>2, Zenon DEF GetGenerations, Shown
    <3>. QED BY <3>1, <3>3
  <2>. QED BY <2>1, <2>2
<1>. HIDE DEF whole, T, page
<1>6. (\E list : ReadsOn(list, page)) /\ \A list : ReadsOn(list, page) => list[0] = whole
  <2>1. \A offset \in Nat : page[offset] \in Seq(T) /\ Holding(page[offset], whole, N, limit, offset)
    BY <1>4
  <2>2. ReadsWhole(page, whole)
    BY <1>2, <1>3, <2>1, WholeIsRead, Zenon
  <2>. QED BY <2>2, Zenon DEF ReadsWhole
<1>. DEFINE got(offset) == GetGenerations(d, [q EXCEPT !.offset = offset], Now)
            Follows(list) == list = [offset \in Nat |-> IF got(offset) = <<>> THEN <<>> ELSE got(offset) \o list[offset + Len(got(offset))]]
            read == CHOOSE list : Follows(list)
<1>7. GenerationsFrom(d, q, Now) = read[0]
  <2>1. GenerationsFrom(d, q, Now) = read[q.offset]
    BY DEF GenerationsFrom
  <2>. QED BY <2>1, Zenon DEF Reads
<1>8. ASSUME NEW list PROVE Follows(list) <=> ReadsOn(list, page)
  <2>1. \A offset \in Nat : got(offset) = page[offset]
    BY <1>5
  <2>. HIDE DEF got
  <2>. QED BY <2>1 DEF ReadsOn
<1>9. Follows(read)
  <2>. HIDE DEF Follows
  <2>1. \E list : Follows(list)
    BY <1>6, <1>8
  <2>. QED BY <2>1, Zenon
<1>. HIDE DEF Follows, read
<1>. QED BY <1>6, <1>7, <1>8, <1>9 DEF whole, seq, M

-----------------------------------------------------------------------------
(* What the fields of the JSON add up to.                                  *)

\* Which of a fact's counts each field has.
Class ==
  [inputTokens |-> "input", outputTokens |-> "output", cacheReadTokens |-> "cache_read",
   cacheCreationTokens |-> "cache_creation", reasoningTokens |-> "reasoning"]

\* What each request counts for in a field.
FieldAt(e, d, field) == [i \in Ids |-> FactsIn(e, d.rows)[i][Class[field]]]

\* Go's token classes of a request are SQL's.
LEMMA SameClasses ==
  ASSUME NEW e, NEW d, d.rows \in Rows, NEW i \in Stored(d.rows), NEW field \in TokenFields
  PROVE  /\ Coalesce(GenerationJSON(i, d.rows[i])[field], 0) = FieldAt(e, d, field)[i]
         /\ FieldAt(e, d, field)[i] \in Nat
<1>. DEFINE row == d.rows[i]
            json == GenerationJSON(i, row)
            fact == Facts(e, row)
<1>1. i \in Ids /\ row \in Row
  BY DEF Stored, Rows
<1>2. FieldAt(e, d, field)[i] = fact[Class[field]]
  BY <1>1 DEF FieldAt, FactsIn
<1>3. Natural(fact)
  BY <1>1, FactsAreNatural
<1>4. ASSUME NEW c \in Columns
      PROVE  row.tok[c] \in Nat \cup {Nil}
  BY <1>1, FactsAssumption DEF Row
<1>5. Nil \notin Int
  BY ReaderAssumption
<1>6. /\ Nil \notin Nat /\ 0 # Nil
      /\ \A c \in Columns : Coalesce(row.tok[c], 0) \in Nat /\ (row.tok[c] # Nil => Coalesce(row.tok[c], 0) = row.tok[c])
  BY <1>4, <1>5 DEF Coalesce
<1>7. /\ Coalesce(ReportedUncached(row), 0) = UncachedInput(row)
      /\ Coalesce(NonReasoningOutput(row), 0) = OutputOnly(row)
  <2>1. PICK n, m, c, k, t : /\ n = row.tok["input"] /\ m = row.tok["output"]
                             /\ c = Coalesce(row.tok["cache_read"], 0) /\ k = Coalesce(row.tok["cache_creation"], 0)
                             /\ t = row.tok["reasoning"]
    OBVIOUS
  <2>2. /\ n \in Nat \cup {Nil} /\ m \in Nat \cup {Nil} /\ t \in Nat \cup {Nil} /\ c \in Nat /\ k \in Nat
    BY <1>4, <1>6, <2>1 DEF Columns
  <2>3. PICK inclusive \in BOOLEAN : inclusive <=> row.source \in InclusiveSources
    OBVIOUS
  <2>4. ReportedUncached(row) = IF n = Nil THEN Nil ELSE IF inclusive THEN Positive(n - (c + k)) ELSE n
    BY <2>1, <2>3 DEF ReportedUncached
  <2>5. UncachedInput(row) = IF inclusive THEN Positive(Coalesce(n, 0) - c - k) ELSE Coalesce(n, 0)
    BY <2>1, <2>3 DEF UncachedInput
  <2>6. NonReasoningOutput(row) =
          IF inclusive /\ Nil \notin {m, t} THEN Positive(m - t) ELSE m
    BY <2>1, <2>3 DEF NonReasoningOutput
  <2>7. OutputOnly(row) = IF inclusive THEN Positive(Coalesce(m, 0) - Coalesce(t, 0)) ELSE Coalesce(m, 0)
    BY <2>1, <2>3 DEF OutputOnly
  <2>8. \A x \in Int : Positive(x) \in Nat /\ Coalesce(Positive(x), 0) = Positive(x) /\ Coalesce(x, 0) = x
    BY <1>5 DEF Positive, Coalesce
  <2>. HIDE DEF row
  <2>9. Coalesce(ReportedUncached(row), 0) = UncachedInput(row)
    <3>1. CASE n = Nil
      <4>1. Coalesce(n, 0) = 0 /\ Coalesce(ReportedUncached(row), 0) = 0
        BY <2>4, <3>1 DEF Coalesce
      <4>2. Positive(0 - c - k) = 0
        BY <2>2 DEF Positive
      <4>. QED BY <2>5, <4>1, <4>2
    <3>2. CASE n \in Nat
      <4>1. n # Nil /\ Coalesce(n, 0) = n
        BY <1>6, <3>2 DEF Coalesce
      <4>2. n - (c + k) = n - c - k /\ n - (c + k) \in Int
        BY <2>2, <3>2
      <4>. QED BY <2>4, <2>5, <2>8, <4>1, <4>2
    <3>. QED BY <2>2, <3>1, <3>2
  <2>10. Coalesce(NonReasoningOutput(row), 0) = OutputOnly(row)
    <3>0. Coalesce(t, 0) \in Nat /\ (t = Nil => Coalesce(t, 0) = 0) /\ (t # Nil => Coalesce(t, 0) = t)
      BY <2>2 DEF Coalesce
    <3>1. CASE m = Nil
      <4>1. Coalesce(m, 0) = 0 /\ Coalesce(NonReasoningOutput(row), 0) = 0
        BY <2>6, <3>1 DEF Coalesce
      <4>2. Positive(0 - Coalesce(t, 0)) = 0
        BY <3>0 DEF Positive
      <4>. QED BY <2>7, <4>1, <4>2
    <3>2. CASE m \in Nat
      <4>1. m # Nil /\ Coalesce(m, 0) = m
        BY <1>6, <3>2 DEF Coalesce
      <4>2. m - Coalesce(t, 0) \in Int
        BY <3>0, <3>2
      <4>3. CASE t = Nil
        <5>1. Positive(m - 0) = m
          BY <3>2 DEF Positive
        <5>. QED BY <2>6, <2>7, <3>0, <4>1, <4>3, <5>1
      <4>4. CASE t # Nil
        BY <2>6, <2>7, <2>8, <3>0, <4>1, <4>2, <4>4
      <4>. QED BY <4>3, <4>4
    <3>. QED BY <2>2, <3>1, <3>2
  <2>. QED BY <2>9, <2>10
<1>8. /\ json.inputTokens = ReportedUncached(row) /\ json.outputTokens = NonReasoningOutput(row)
      /\ json.cacheReadTokens = row.tok["cache_read"] /\ json.cacheCreationTokens = row.tok["cache_creation"]
      /\ json.reasoningTokens = row.tok["reasoning"]
  BY DEF GenerationJSON
<1>9. /\ fact.input = UncachedInput(row) /\ fact.output = OutputOnly(row)
      /\ fact.cache_read = Coalesce(row.tok["cache_read"], 0)
      /\ fact.cache_creation = Coalesce(row.tok["cache_creation"], 0)
      /\ fact.reasoning = Coalesce(row.tok["reasoning"], 0)
  BY DEF Facts
<1>. HIDE DEF json, fact
<1>10. Coalesce(json[field], 0) = fact[Class[field]] /\ fact[Class[field]] \in Nat
  BY <1>3, <1>7, <1>8, <1>9 DEF TokenFields, Class, Natural
<1>. QED BY <1>2, <1>10 DEF json

\* What the total of N has in a field.
LEMMA FieldIs ==
  ASSUME NEW e, NEW d, d.rows \in Rows, NEW N \in SUBSET Stored(d.rows), NEW field \in TokenFields
  PROVE  /\ TotalsJSON(Total(N, e, d))[field] = Cardinality(Units(N, FieldAt(e, d, field)))
         /\ \A i \in N : FieldAt(e, d, field)[i] \in Nat
<1>. DEFINE u == FieldAt(e, d, field)
            sums == Total(N, e, d).sums
            weight == [x \in DOMAIN sums |-> x[Class[field]]]
<1>1. IsFiniteSet(N) /\ N \in SUBSET Ids
  BY FactsAssumption, FS_Subset DEF Stored
<1>2. \A i \in N : u[i] \in Nat
  BY SameClasses
<1>3. \A i \in N : FactsIn(e, d.rows)[i] \in DOMAIN sums
  BY DEF Total, Tally
<1>4. \A i \in N : u[i] = FactsIn(e, d.rows)[i][Class[field]]
  BY <1>1 DEF FieldAt
<1>5. TotalsJSON(Total(N, e, d))[field] = Measure(Total(N, e, d), weight)
  BY DEF TotalsJSON, TokenFields, Class
<1>. HIDE DEF u, sums
<1>6. \A i \in N : u[i] \in Nat /\ weight[FactsIn(e, d.rows)[i]] = u[i]
  BY <1>2, <1>3, <1>4
<1>. HIDE DEF weight
<1>7. Measure(Total(N, e, d), weight) = Cardinality(Units(N, u))
  BY <1>1, <1>6, MeasureIs
<1>. QED BY <1>2, <1>5, <1>7 DEF u

\* One request has as many units as it counts for.
LEMMA UnitsOfOne ==
  ASSUME NEW i, NEW u, u[i] \in Nat
  PROVE  Cardinality(Units({i}, u)) = u[i]
<1>. DEFINE n == u[i]
            to == [k \in 1..n |-> <<i, k>>]
<1>1. \A x : x \in Units({i}, u) <=> \E k \in 1..n : x = <<i, k>>
  BY DEF Units
<1>2. to \in Injection(1..n, Units({i}, u)) /\ to \in Surjection(1..n, Units({i}, u))
  <2>1. \A k \in 1..n : to[k] = <<i, k>> /\ to[k] \in Units({i}, u)
    BY <1>1
  <2>2. to \in [1..n -> Units({i}, u)]
    BY <2>1
  <2>3. \A k, l \in 1..n : to[k] = to[l] => k = l
    BY <2>1
  <2>4. \A x \in Units({i}, u) : \E k \in 1..n : to[k] = x
    BY <1>1, <2>1
  <2>. HIDE DEF to, n
  <2>. QED BY <2>2, <2>3, <2>4 DEF Injection, IsInjective, Surjection
<1>3. n \in Nat
  OBVIOUS
<1>. HIDE DEF to, n
<1>4. IsFiniteSet(1..n) /\ Cardinality(1..n) = n
  BY <1>3, FS_Interval
<1>5. IsFiniteSet(Units({i}, u)) /\ Cardinality(Units({i}, u)) <= Cardinality(1..n)
  BY <1>2, <1>4, FS_Surjection
<1>6. Cardinality(Units({i}, u)) = Cardinality(1..n)
  BY <1>2, <1>5, FS_Injection
<1>. QED BY <1>4, <1>6 DEF n

\* What the entries of a list add up to.
LEMMA ListSum ==
  ASSUME NEW N, NEW seq, Lists(seq, N), NEW u, \A i \in N : u[i] \in Nat
  PROVE  SumFunction([n \in 1..Cardinality(N) |-> u[seq[n]]]) = Cardinality(Units(N, u))
<1>. DEFINE K == Cardinality(N)
            part == [n \in 1..K |-> {seq[n]}]
<1>1. /\ IsFiniteSet(N) /\ K \in Nat /\ \A n \in 1..K : seq[n] \in N
      /\ \A n, l \in 1..K : seq[n] = seq[l] => n = l
      /\ \A i \in N : \E n \in 1..K : seq[n] = i
  BY DEF Lists
<1>. DEFINE m == [n \in 1..K |-> u[seq[n]]]
<1>5. DOMAIN m = 1..K /\ \A n \in 1..K : m[n] = u[seq[n]]
  OBVIOUS
<1>. HIDE DEF K, m
<1>2. IsFiniteSet(DOMAIN m)
  <2>1. IsFiniteSet(1..K)
    BY <1>1, FS_Interval
  <2>. QED BY <1>5, <2>1
<1>3. part \in [1..K -> SUBSET N] /\ Apart(1..K, part) /\ Covered(1..K, part) = N
  <2>1. part \in [1..K -> SUBSET N]
    BY <1>1
  <2>2. \A n \in 1..K : part[n] = {seq[n]}
    OBVIOUS
  <2>. HIDE DEF part
  <2>3. Apart(1..K, part)
    BY <1>1, <2>2 DEF Apart
  <2>4. Covered(1..K, part) = N
    <3>1. ASSUME NEW i \in N PROVE \E n \in 1..K : i \in part[n]
      BY <1>1, <2>2
    <3>. QED BY <2>1, <3>1 DEF Covered
  <2>. QED BY <2>1, <2>3, <2>4
<1>4. ASSUME NEW n \in 1..K PROVE m[n] = Cardinality(Units(part[n], u))
  <2>1. seq[n] \in N /\ m[n] = u[seq[n]]
    BY <1>1, <1>5
  <2>2. Cardinality(Units({seq[n]}, u)) = u[seq[n]]
    BY <2>1, UnitsOfOne
  <2>. QED BY <2>1, <2>2
<1>. HIDE DEF part
<1>6. /\ IsFiniteSet(N) /\ part \in [DOMAIN m -> SUBSET N] /\ Apart(DOMAIN m, part) /\ Covered(DOMAIN m, part) = N
      /\ \A n \in DOMAIN m : m[n] = Cardinality(Units(part[n], u))
  BY <1>1, <1>3, <1>4, <1>5
<1>7. SumFunction(m) = Cardinality(Units(N, u))
  BY <1>2, <1>6, SharedUnits
<1>. QED BY <1>7 DEF m, K

\* Requests that count for one or for nothing.
LEMMA OnesAre ==
  ASSUME NEW N, IsFiniteSet(N), NEW u, NEW A \in SUBSET N, \A i \in N : u[i] = IF i \in A THEN 1 ELSE 0
  PROVE  Cardinality(Units(N, u)) = Cardinality(A)
<1>. DEFINE to == [i \in A |-> <<i, 1>>]
<1>1. \A x : x \in Units(N, u) <=> \E i \in A : x = <<i, 1>>
  <2>1. \A x : x \in Units(N, u) <=> \E i \in N : \E k \in 1..u[i] : x = <<i, k>>
    BY DEF Units
  <2>2. ASSUME NEW i \in N PROVE \A k : k \in 1..u[i] <=> i \in A /\ k = 1
    <3>1. CASE i \in A
      BY <3>1
    <3>2. CASE i \notin A
      BY <3>2
    <3>. QED BY <3>1, <3>2
  <2>. QED BY <2>1, <2>2
<1>2. to \in Injection(A, Units(N, u)) /\ to \in Surjection(A, Units(N, u))
  <2>1. \A i \in A : to[i] = <<i, 1>> /\ to[i] \in Units(N, u)
    BY <1>1
  <2>2. to \in [A -> Units(N, u)]
    BY <2>1
  <2>3. \A i, j \in A : to[i] = to[j] => i = j
    BY <2>1
  <2>4. \A x \in Units(N, u) : \E i \in A : to[i] = x
    BY <1>1, <2>1
  <2>. HIDE DEF to
  <2>. QED BY <2>2, <2>3, <2>4 DEF Injection, IsInjective, Surjection
<1>. HIDE DEF to
<1>3. IsFiniteSet(A)
  BY FS_Subset
<1>4. IsFiniteSet(Units(N, u))
  BY <1>2, <1>3, FS_Surjection
<1>. QED BY <1>2, <1>4, FS_Injection

\* The requests whose cost is known, and those whose harness reported it.
PricedIn(d, N)   == {i \in N : d.rows[i].cost # Nil}
ReportedIn(d, N) == {i \in PricedIn(d, N) : d.rows[i].costSource = "harness"}
CostAt(e, d)     == [i \in Ids |-> FactsIn(e, d.rows)[i].cost]

CostsAre(e, d, N) ==
  LET json == TotalsJSON(Total(N, e, d))
  IN  /\ json.costUnknownCount = Cardinality(N \ PricedIn(d, N))
      /\ json.costReportedCount = Cardinality(ReportedIn(d, N))
      /\ json.costTotal = IF PricedIn(d, N) = {} THEN Nil ELSE Cardinality(Units(N, CostAt(e, d)))

\* What the JSON says of costs, from the requests alone.
LEMMA TotalCosts ==
  ASSUME NEW e, NEW d, d.rows \in Rows, NEW N \in SUBSET Stored(d.rows)
  PROVE  CostsAre(e, d, N) /\ \A i \in N : CostAt(e, d)[i] \in Nat
<1>. DEFINE total == Total(N, e, d)
            fact == FactsIn(e, d.rows)
            facts == DOMAIN total.sums
            A == PricedIn(d, N)
            B == ReportedIn(d, N)
            one == [x \in facts |-> IF x.known THEN 1 ELSE 0]
            two == [x \in facts |-> IF x.costSource \in {"harness"} THEN 1 ELSE 0]
            cost == [x \in facts |-> x.cost]
            u == [i \in Ids |-> IF i \in A THEN 1 ELSE 0]
            v == [i \in Ids |-> IF i \in B THEN 1 ELSE 0]
            w == CostAt(e, d)
<1>1. IsFiniteSet(N) /\ N \in SUBSET Ids /\ A \in SUBSET N /\ B \in SUBSET N
  BY FactsAssumption, FS_Subset DEF Stored, PricedIn, ReportedIn
<1>2. ASSUME NEW i \in N
      PROVE  /\ fact[i] \in facts /\ fact[i].cost \in Nat
             /\ fact[i].known <=> i \in A
             /\ fact[i].costSource = "harness" <=> i \in B
  <2>1. fact[i] = Facts(e, d.rows[i]) /\ d.rows[i] \in Row
    BY <1>1 DEF FactsIn, Stored, Rows
  <2>2. fact[i] \in facts
    BY DEF Total, Tally
  <2>3. fact[i].known <=> d.rows[i].cost # Nil
    <3>1. Facts(e, d.rows[i]).known = (d.rows[i].cost # Nil)
      BY Zenon DEF Facts
    <3>. QED BY <2>1, <3>1, Zenon
  <2>4. fact[i].costSource = IF d.rows[i].cost # Nil THEN d.rows[i].costSource ELSE "unknown"
    BY <2>1 DEF Facts
  <2>5. fact[i].cost \in Nat
    BY <2>1, FactsAreNatural DEF Natural
  <2>. HIDE DEF fact, facts
  <2>. QED BY <2>2, <2>3, <2>4, <2>5 DEF PricedIn, ReportedIn
<1>3. \A i \in N : w[i] = fact[i].cost
  BY <1>1 DEF CostAt
<1>4. /\ CostKnown(total) = Measure(total, one)
      /\ TotalsJSON(total).costReportedCount = Measure(total, two)
      /\ TotalsJSON(total).costUnknownCount = total.requests - CostKnown(total)
      /\ TotalsJSON(total).costTotal = IF CostKnown(total) > 0 THEN Measure(total, cost) ELSE Nil
  BY DEF CostKnown, TotalsJSON, CostTotal
<1>5. total.requests = Cardinality(N)
  BY DEF Total
<1>. HIDE DEF facts, fact, w
<1>6. \A i \in N : u[i] \in Nat /\ one[fact[i]] = u[i]
  BY <1>1, <1>2
<1>7. \A i \in N : v[i] \in Nat /\ two[fact[i]] = v[i]
  BY <1>1, <1>2
<1>8. \A i \in N : w[i] \in Nat /\ cost[fact[i]] = w[i]
  BY <1>1, <1>2, <1>3
<1>9. \A i \in N : (u[i] = IF i \in A THEN 1 ELSE 0) /\ (v[i] = IF i \in B THEN 1 ELSE 0)
  BY <1>1
<1>. HIDE DEF one, two, cost, u, v, A, B
<1>10. Measure(total, one) = Cardinality(Units(N, u)) /\ Measure(total, two) = Cardinality(Units(N, v))
  BY <1>1, <1>6, <1>7, MeasureIs DEF fact
<1>11. Measure(total, cost) = Cardinality(Units(N, w))
  BY <1>1, <1>8, MeasureIs DEF fact
<1>12. Cardinality(Units(N, u)) = Cardinality(A) /\ Cardinality(Units(N, v)) = Cardinality(B)
  BY <1>1, <1>9, OnesAre
<1>13. Cardinality(N) - Cardinality(A) = Cardinality(N \ A)
  <2>1. (N \ A) \cup A = N /\ (N \ A) \cap A = {} /\ IsFiniteSet(N \ A) /\ IsFiniteSet(A)
    BY <1>1, FS_Subset
  <2>2. PICK R : R = N \ A
    OBVIOUS
  <2>3. Cardinality(R \cup A) = Cardinality(R) + Cardinality(A) /\ Cardinality(R) \in Nat /\ Cardinality(A) \in Nat
    BY <2>1, <2>2, ApartAddUp
  <2>4. R \cup A = N
    BY <2>1, <2>2
  <2>5. Cardinality(N) = Cardinality(R) + Cardinality(A)
    BY <2>3, <2>4, Zenon
  <2>6. Cardinality(N) - Cardinality(A) = Cardinality(R)
    BY <2>3, <2>5
  <2>. QED BY <2>2, <2>6, Zenon
<1>14. Cardinality(A) > 0 <=> A # {}
  <2>1. IsFiniteSet(A)
    BY <1>1, FS_Subset
  <2>2. Cardinality(A) \in Nat /\ (Cardinality(A) = 0 <=> A = {})
    BY <2>1, FS_CardinalityType, FS_EmptySet
  <2>. QED BY <2>2
<1>15. \A i \in N : w[i] \in Nat
  BY <1>8
<1>16. /\ TotalsJSON(total).costUnknownCount = Cardinality(N \ A)
       /\ TotalsJSON(total).costReportedCount = Cardinality(B)
       /\ TotalsJSON(total).costTotal = IF A = {} THEN Nil ELSE Cardinality(Units(N, w))
  BY <1>4, <1>5, <1>10, <1>11, <1>12, <1>13, <1>14
<1>. QED BY <1>15, <1>16 DEF CostsAre, A, B, w

-----------------------------------------------------------------------------
(* The API over the filters of the pages.                                  *)

Fields(f) ==
  [from |-> f.from, to |-> f.to, source |-> f.source, model |-> f.model, token |-> f.token,
   group |-> f.group, ungrouped |-> f.ungrouped, conv |-> f.conv]

\* A filter of a page has a from, a to, and dimensions.
LEMMA FiltersAre ==
  ASSUME NEW f \in Filters
  PROVE  f = Fields(f) /\ Bounds(f) /\ (f.from # Nil => f.from <= f.to)
<1>1. PICK u \in Answered : f = Normalized(ParseFilter(u, Now), Now)
  BY DEF Filters
<1>2. PICK x : x = IF u.from = Nil /\ u.to = Nil THEN RangeStart(u.range, Now) ELSE u.from
  OBVIOUS
<1>3. PICK y : y = Coalesce(u.to, Now)
  OBVIOUS
<1>4. ParseFilter(u, Now) = Dims(u, x, u.to)
  BY <1>2 DEF ParseFilter
<1>5. f = Dims(u, x, y)
  BY <1>1, <1>3, <1>4 DEF Normalized, Dims
<1>6. f = Fields(f) /\ f.from = x /\ f.to = y
  BY <1>5 DEF Fields, Dims
<1>7. x # Nil => x <= y
  <2>1. Valid(Dims(u, x, u.to), Now)
    BY <1>4 DEF Answered
  <2>. QED BY <1>3, <2>1 DEF Valid, Dims
<1>. QED BY <1>6, <1>7, FiltersAreBounded

\* The API takes every filter of a page as it is.
LEMMA QueryReads ==
  ASSUME NEW f \in Filters, NEW asked \in {Nil, MaxGenerationLimit + 1}, NEW order
  PROVE  \E limit \in Nat \ {0} : Reads(QueryOf(f, asked, order), f, order, limit)
<1>. DEFINE q == QueryOf(f, asked, order)
            limit == IF asked = Nil THEN DefaultGenerationLimit ELSE MaxGenerationLimit
<1>1. f = Fields(f) /\ f.to \in Int /\ (f.from # Nil => f.from \in Int /\ f.from <= f.to)
  BY FiltersAre DEF Bounds
<1>2. Nil \notin Int
  BY ReaderAssumption
<1>3. DefaultGenerationLimit \in Nat \ {0} /\ MaxGenerationLimit \in Nat \ {0}
  BY FigureAssumption, Zenon
<1>4. limit \in Nat \ {0}
  BY <1>3
<1>5. ASSUME NEW p, FilterParam(p) = Fields(f)
      PROVE  Normalized(FilterParam(p), Now) = f /\ Valid(FilterParam(p), Now)
  <2>1. PICK t : t = f.to
    OBVIOUS
  <2>2. Coalesce(t, Now) = t
    BY <1>1, <1>2, <2>1 DEF Coalesce
  <2>3. Normalized(FilterParam(p), Now) = [f EXCEPT !.to = Coalesce(@, Now)]
    BY <1>1, <1>5 DEF Normalized
  <2>4. [f EXCEPT !.to = Coalesce(@, Now)] = f
    BY <1>1, <2>1, <2>2 DEF Fields
  <2>5. Valid(f, Now)
    BY <1>1, <2>1, <2>2 DEF Valid
  <2>. QED BY <1>1, <1>5, <2>3, <2>4, <2>5
<1>6. ASSUME NEW p, p.limit = asked
      PROVE  Limit(p) = limit
  <2>1. CASE asked = Nil
    BY <1>6, <2>1 DEF Limit
  <2>2. CASE asked # Nil
    <3>1. asked = MaxGenerationLimit + 1 /\ asked > MaxGenerationLimit
      BY <1>3, <2>2
    <3>. QED BY <1>6, <2>2, <3>1 DEF Limit
  <2>. QED BY <2>1, <2>2
<1>7. ASSUME NEW offset
      PROVE  LET p == [q EXCEPT !.offset = offset]
             IN  FilterParam(p) = Fields(f) /\ p.order = order /\ p.limit = asked /\ p.offset = offset
  BY DEF QueryOf, FilterParam, Fields
<1>8. FilterParam(q) = Fields(f) /\ q.order = order /\ q.offset = 0 /\ q.from = f.from /\ q.to = f.to
  BY DEF QueryOf, FilterParam, Fields
<1>9. ~Refused(q)
  BY <1>1, <1>8 DEF Refused
<1>10. ~Failed(q, Now) /\ Normalized(FilterParam(q), Now) = f
  BY <1>5, <1>8 DEF Failed
<1>. HIDE DEF q, limit
<1>11. ASSUME NEW offset
       PROVE  LET p == [q EXCEPT !.offset = offset]
              IN  Normalized(FilterParam(p), Now) = f /\ p.order = order /\ Limit(p) = limit /\ p.offset = offset
  BY <1>5, <1>6, <1>7
<1>12. Reads(q, f, order, limit)
  BY <1>8, <1>9, <1>10, <1>11 DEF Reads
<1>. QED BY <1>4, <1>12 DEF q

\* The list has each request once and agrees with the summary.
LEMMA ListAdds ==
  ASSUME Sound(release, before), NEW f \in Filters, NEW order, NEW limit \in Nat \ {0}, NEW q, Reads(q, f, order, limit)
  PROVE  ListAgrees(f, q)
<1>. DEFINE N == Selected(before, f)
            K == Cardinality(N)
            seq == RequestsInOrder(before, N, order)
            list == GenerationsFrom(before, q, Now)
            summary == GetSummary(release, before, q, Now)
            of(field) == SumFunction([n \in DOMAIN list |-> Coalesce(list[n][field], 0)])
            costed == {n \in DOMAIN list : list[n].cost # Nil}
            ids == {list[n].id : n \in DOMAIN list}
<1>1. before.rows \in Rows /\ N \in SUBSET Stored(before.rows)
  BY DEF Sound, Selected
<1>2. list = Shown(before, seq)
  BY <1>1, ListIsRead
<1>3. summary = TotalsJSON(Total(N, release, before))
  <2>1. Summary(release, before, f) = Total(N, release, before)
    BY FiltersAre, SummaryCounts DEF SummaryIs
  <2>2. GetSummary(release, before, q, Now) = TotalsJSON(Summary(release, before, f))
    BY Zenon DEF GetSummary, Reads
  <2>. QED BY <2>1, <2>2
<1>4. Lists(seq, N)
  BY <1>1, RequestsListed
<1>. HIDE DEF N, list, summary
<1>5. /\ seq \in [1..K -> N] /\ K \in Nat /\ \A n \in 1..K : seq[n] \in N
      /\ \A m, n \in 1..K : seq[m] = seq[n] => m = n
      /\ \A i \in N : \E n \in 1..K : seq[n] = i
  BY <1>4 DEF Lists
<1>. HIDE DEF seq, K
<1>6. DOMAIN list = 1..K /\ \A n \in 1..K : list[n] = GenerationJSON(seq[n], before.rows[seq[n]])
  BY <1>2, <1>5 DEF Shown
<1>7. ASSUME NEW n \in 1..K
      PROVE  /\ list[n].id = seq[n] /\ list[n].cost = before.rows[seq[n]].cost
             /\ list[n].costSource = before.rows[seq[n]].costSource
  <2>1. \A i, row : LET json == GenerationJSON(i, row)
                    IN  json.id = i /\ json.cost = row.cost /\ json.costSource = row.costSource
    BY DEF GenerationJSON
  <2>2. list[n] = GenerationJSON(seq[n], before.rows[seq[n]])
    BY <1>6
  <2>. QED BY <2>1, <2>2
<1>8. ids = N
  BY <1>5, <1>6, <1>7
<1>9. Len(list) = K
  <2>1. list = [n \in 1..K |-> list[n]]
    BY <1>2, <1>5, <1>6 DEF Shown
  <2>. DEFINE T == {list[n] : n \in 1..K}
  <2>2. \A n \in 1..K : list[n] \in T
    OBVIOUS
  <2>. HIDE DEF T
  <2>3. list \in [1..K -> T]
    BY <2>1, <2>2
  <2>4. list \in Seq(T)
    BY <1>5, <2>3, SeqDef
  <2>5. PICK k \in Nat : k = Len(list) /\ DOMAIN list = 1..k
    BY <2>4, LenProperties
  <2>6. 1..k = 1..K /\ K \in Nat
    BY <1>5, <1>6, <2>5
  <2>7. k = K
    BY <2>6, SameEnd
  <2>. QED BY <2>5, <2>7
<1>10. ASSUME NEW field \in TokenFields
       PROVE  of(field) = summary[field]
  <2>. DEFINE u == FieldAt(release, before, field)
  <2>1. summary[field] = Cardinality(Units(N, u)) /\ \A i \in N : u[i] \in Nat
    BY <1>1, <1>3, FieldIs
  <2>2. \A n \in 1..K : Coalesce(list[n][field], 0) = u[seq[n]]
    <3>1. ASSUME NEW n \in 1..K PROVE Coalesce(list[n][field], 0) = u[seq[n]]
      <4>1. seq[n] \in Stored(before.rows)
        BY <1>1, <1>5
      <4>. QED BY <1>1, <1>6, <4>1, SameClasses
    <3>. QED BY <3>1
  <2>. HIDE DEF u
  <2>3. [n \in DOMAIN list |-> Coalesce(list[n][field], 0)] = [n \in 1..K |-> u[seq[n]]]
    BY <1>6, <2>2
  <2>4. SumFunction([n \in 1..K |-> u[seq[n]]]) = Cardinality(Units(N, u))
    BY <1>4, <2>1, ListSum DEF K
  <2>. QED BY <2>1, <2>3, <2>4
<1>11. CostsAre(release, before, N) /\ \A i \in N : CostAt(release, before)[i] \in Nat
  BY <1>1, TotalCosts
<1>12. /\ PricedIn(before, N) \in SUBSET N /\ N \ PricedIn(before, N) \in SUBSET N
       /\ ReportedIn(before, N) \in SUBSET N
  BY DEF PricedIn, ReportedIn
<1>13. \A A \in SUBSET N : Cardinality({n \in 1..K : seq[n] \in A}) = Cardinality(A)
  BY <1>4, PlacesAre DEF K
<1>14. /\ costed = {n \in 1..K : seq[n] \in PricedIn(before, N)}
       /\ DOMAIN list \ costed = {n \in 1..K : seq[n] \in N \ PricedIn(before, N)}
       /\ {n \in costed : list[n].costSource = "harness"} = {n \in 1..K : seq[n] \in ReportedIn(before, N)}
  BY <1>5, <1>6, <1>7 DEF PricedIn, ReportedIn
<1>15. costed = {} <=> PricedIn(before, N) = {}
  BY <1>5, <1>12, <1>14
<1>16. of("cost") = Cardinality(Units(N, CostAt(release, before)))
  <2>. DEFINE w == CostAt(release, before)
  <2>1. \A n \in 1..K : Coalesce(list[n].cost, 0) = w[seq[n]]
    <3>1. ASSUME NEW i \in N PROVE Coalesce(before.rows[i].cost, 0) = w[i]
      <4>1. i \in Ids
        BY <1>1 DEF Stored
      <4>. QED BY <4>1 DEF CostAt, FactsIn, Facts
    <3>. QED BY <1>5, <1>7, <3>1
  <2>. HIDE DEF w
  <2>2. [n \in DOMAIN list |-> Coalesce(list[n].cost, 0)] = [n \in 1..K |-> w[seq[n]]]
    BY <1>6, <2>1
  <2>3. SumFunction([n \in 1..K |-> w[seq[n]]]) = Cardinality(Units(N, w))
    BY <1>4, <1>11, ListSum DEF K, w
  <2>. QED BY <2>2, <2>3 DEF w
<1>. HIDE DEF of, costed, ids
<1>17. /\ summary.costUnknownCount = Cardinality(DOMAIN list \ costed)
       /\ summary.costReportedCount = Cardinality({n \in costed : list[n].costSource = "harness"})
       /\ summary.costTotal = IF costed = {} THEN Nil ELSE of("cost")
  <2>1. /\ summary.costUnknownCount = Cardinality(N \ PricedIn(before, N))
        /\ summary.costReportedCount = Cardinality(ReportedIn(before, N))
        /\ summary.costTotal = IF PricedIn(before, N) = {} THEN Nil ELSE Cardinality(Units(N, CostAt(release, before)))
    BY <1>3, <1>11 DEF CostsAre
  <2>2. Cardinality(DOMAIN list \ costed) = Cardinality(N \ PricedIn(before, N))
    BY <1>12, <1>13, <1>14
  <2>3. Cardinality({n \in costed : list[n].costSource = "harness"}) = Cardinality(ReportedIn(before, N))
    BY <1>12, <1>13, <1>14
  <2>. QED BY <1>15, <1>16, <2>1, <2>2, <2>3
<1>18. ~Refused(q) /\ ~Failed(q, Now)
  BY DEF Reads
<1>19. ids = Selected(before, f) /\ Len(list) = Cardinality(ids)
  BY <1>8, <1>9 DEF N, K
<1>. QED BY <1>10, <1>17, <1>18, <1>19 DEF ListAgrees, list, summary, of, costed, ids

\* So do its points and its rows.
LEMMA SumsAdd ==
  ASSUME Sound(release, before), NEW f \in Filters, NEW order, NEW limit, NEW q, Reads(q, f, order, limit)
  PROVE  SumsAgree(q)
<1>. DEFINE N == Selected(before, f)
            points == GetTimeseries(release, before, q, "week", Now)
            rows(column) == BreakdownOf(release, before, q, column, Now)
            summary == GetSummary(release, before, q, Now)
<1>1. before.rows \in Rows /\ N \in SUBSET Stored(before.rows) /\ IsFiniteSet(N)
  <2>1. before.rows \in Rows /\ N \in SUBSET Stored(before.rows)
    BY DEF Sound, Selected
  <2>2. N \in SUBSET Ids
    BY <2>1 DEF Stored
  <2>. QED BY <2>1, <2>2, FactsAssumption, FS_Subset
<1>2. Bounds(f)
  BY FiltersAre
<1>3. summary = TotalsJSON(Total(N, release, before))
  <2>1. Summary(release, before, f) = Total(N, release, before)
    BY <1>2, SummaryCounts DEF SummaryIs
  <2>2. GetSummary(release, before, q, Now) = TotalsJSON(Summary(release, before, f))
    BY Zenon DEF GetSummary, Reads
  <2>. QED BY <2>1, <2>2
<1>4. PICK at : at = ChartAxis(before, N, "week")
  OBVIOUS
<1>5. Timeseries(release, before, f, "week") = Points(N, at, release, before) /\ \A i \in N : at[i] \in Int
  <2>1. "week" \in Buckets
    BY DEF Buckets
  <2>. QED BY <1>2, <1>4, <2>1, SeriesCounts DEF TimeseriesIs
<1>6. PICK S : S = Starts(N, at)
  OBVIOUS
<1>7. PICK seq : seq = Ordered(S)
  OBVIOUS
<1>8. Rising(seq, S)
  BY <1>1, <1>5, <1>6, <1>7, StartsAre
<1>9. PICK K : K = Cardinality(S)
  OBVIOUS
<1>10. /\ K \in Nat /\ \A n \in 1..K : seq[n] \in S
       /\ \A m, n \in 1..K : m < n <=> seq[m] < seq[n]
       /\ \A a \in S : \E n \in 1..K : seq[n] = a
  BY <1>8, <1>9 DEF Rising
<1>11. /\ DOMAIN points = 1..K
       /\ \A n \in 1..K : points[n].totals = TotalsJSON(Total(OnPoint(N, at, seq[n]), release, before))
  <2>1. PICK p : p = Timeseries(release, before, f, "week")
    OBVIOUS
  <2>2. points = [n \in DOMAIN p |-> [bucketStart |-> p[n].start, totals |-> TotalsJSON(p[n].total)]]
    BY <2>1, Zenon DEF GetTimeseries, Reads
  <2>3. p = [n \in 1..K |-> PointOf(N, at, seq[n], release, before)]
    BY <1>5, <1>6, <1>7, <1>9, <2>1 DEF Points
  <2>4. \A n \in 1..K : p[n].total = Total(OnPoint(N, at, seq[n]), release, before)
    BY <2>3 DEF PointOf
  <2>. HIDE DEF points
  <2>. QED BY <2>2, <2>3, <2>4
<1>. HIDE DEF points, summary
<1>12. ASSUME NEW field \in TokenFields
       PROVE  SumFunction([n \in DOMAIN points |-> points[n].totals[field]]) = summary[field]
  <2>. DEFINE u == FieldAt(release, before, field)
              part == [n \in 1..K |-> OnPoint(N, at, seq[n])]
              m == [n \in DOMAIN points |-> points[n].totals[field]]
  <2>1. \A A \in SUBSET N : TotalsJSON(Total(A, release, before))[field] = Cardinality(Units(A, u))
    <3>1. ASSUME NEW A \in SUBSET N PROVE TotalsJSON(Total(A, release, before))[field] = Cardinality(Units(A, u))
      <4>1. A \in SUBSET Stored(before.rows)
        BY <1>1
      <4>. QED BY <1>1, <4>1, FieldIs
    <3>. QED BY <3>1
  <2>2. \A i \in N : u[i] \in Nat
    BY <1>1, FieldIs
  <2>3. part \in [1..K -> SUBSET N] /\ Apart(1..K, part) /\ Covered(1..K, part) = N
    <3>1. \A n \in 1..K : \A i : i \in part[n] <=> i \in N /\ at[i] = seq[n]
      BY DEF OnPoint
    <3>2. part \in [1..K -> SUBSET N]
      BY DEF OnPoint
    <3>. HIDE DEF part
    <3>3. ASSUME NEW n \in 1..K, NEW k \in 1..K, n # k PROVE seq[n] # seq[k]
      <4>1. n < k \/ k < n
        BY <1>10, <3>3
      <4>2. seq[n] \in Int /\ seq[k] \in Int
        BY <1>5, <1>6, <1>10 DEF Starts
      <4>. QED BY <1>10, <4>1, <4>2
    <3>4. Apart(1..K, part)
      BY <3>1, <3>3 DEF Apart
    <3>5. ASSUME NEW i \in N PROVE \E n \in 1..K : i \in part[n]
      <4>1. at[i] \in S
        BY <1>6 DEF Starts
      <4>. QED BY <1>10, <3>1, <4>1
    <3>6. Covered(1..K, part) = N
      BY <3>2, <3>5 DEF Covered
    <3>. QED BY <3>2, <3>4, <3>6
  <2>4. DOMAIN m = 1..K
    BY <1>11
  <2>5. ASSUME NEW n \in 1..K PROVE m[n] = Cardinality(Units(part[n], u))
    <3>1. part[n] = OnPoint(N, at, seq[n]) /\ part[n] \in SUBSET N
      BY DEF OnPoint
    <3>. QED BY <1>11, <2>1, <3>1
  <2>. HIDE DEF u, part, m
  <2>6. IsFiniteSet(DOMAIN m)
    <3>1. IsFiniteSet(1..K)
      BY <1>10, FS_Interval
    <3>. QED BY <2>4, <3>1
  <2>7. /\ part \in [DOMAIN m -> SUBSET N] /\ Apart(DOMAIN m, part) /\ Covered(DOMAIN m, part) = N
        /\ \A n \in DOMAIN m : m[n] = Cardinality(Units(part[n], u))
    BY <2>3, <2>4, <2>5
  <2>. HIDE DEF N
  <2>8. SumFunction(m) = Cardinality(Units(N, u))
    BY <1>1, <2>2, <2>6, <2>7, SharedUnits
  <2>9. summary[field] = Cardinality(Units(N, u))
    BY <1>3, <2>1
  <2>. QED BY <2>8, <2>9 DEF m
<1>13. ASSUME NEW field \in TokenFields, NEW column \in {"model", "token"}
       PROVE  SumFunction([k \in DOMAIN rows(column) |-> rows(column)[k][field]]) = summary[field]
  <2>. DEFINE u == FieldAt(release, before, field)
              key(i) == GroupKey(column, KeyOf("usage_daily", before.rows[i]))
              keys == {key(i) : i \in N}
              part == [k \in keys |-> {i \in N : key(i) = k}]
              m == [k \in DOMAIN rows(column) |-> rows(column)[k][field]]
  <2>1. \A A \in SUBSET N : TotalsJSON(Total(A, release, before))[field] = Cardinality(Units(A, u))
    <3>1. ASSUME NEW A \in SUBSET N PROVE TotalsJSON(Total(A, release, before))[field] = Cardinality(Units(A, u))
      <4>1. A \in SUBSET Stored(before.rows)
        BY <1>1
      <4>. QED BY <1>1, <4>1, FieldIs
    <3>. QED BY <3>1
  <2>2. \A i \in N : u[i] \in Nat
    BY <1>1, FieldIs
  <2>3. PICK table : table = Breakdown(release, before, f, column)
    OBVIOUS
  <2>4. table = [k \in keys |-> Total({i \in N : key(i) = k}, release, before)]
    <3>1. BreakdownIs(release, before, f)
      BY <1>2, BreakdownCounts
    <3>2. Breakdown(release, before, f, column) = [k \in keys |-> Total({i \in N : key(i) = k}, release, before)]
      BY <3>1 DEF BreakdownIs, Grouped
    <3>. QED BY <2>3, <3>2
  <2>5. rows(column) = [k \in DOMAIN table |-> TotalsJSON(table[k])]
    BY <2>3, Zenon DEF BreakdownOf, Reads
  <2>. HIDE DEF rows, u
  <2>6. DOMAIN m = keys /\ \A k \in keys : m[k] = TotalsJSON(Total(part[k], release, before))[field]
    <3>. HIDE DEF keys, key
    <3>. QED BY <2>4, <2>5
  <2>7. part \in [keys -> SUBSET N] /\ Apart(keys, part) /\ Covered(keys, part) = N
    <3>1. \A k \in keys : \A i : i \in part[k] <=> i \in N /\ key(i) = k
      OBVIOUS
    <3>2. part \in [keys -> SUBSET N] /\ \A i \in N : key(i) \in keys
      OBVIOUS
    <3>. HIDE DEF part, keys, key
    <3>3. Apart(keys, part)
      BY <3>1 DEF Apart
    <3>4. Covered(keys, part) = N
      BY <3>1, <3>2 DEF Covered
    <3>. QED BY <3>2, <3>3, <3>4
  <2>8. IsFiniteSet(keys)
    <3>. DEFINE g == [i \in N |-> key(i)]
    <3>1. g \in Surjection(N, keys)
      BY DEF Surjection
    <3>. HIDE DEF g, keys
    <3>. QED BY <1>1, <3>1, FS_Surjection
  <2>9. \A k \in keys : m[k] = Cardinality(Units(part[k], u))
    <3>1. \A k \in keys : part[k] \in SUBSET N
      OBVIOUS
    <3>. HIDE DEF part, m, keys
    <3>. QED BY <2>1, <2>6, <3>1
  <2>. HIDE DEF part, m, keys, N
  <2>10. /\ IsFiniteSet(DOMAIN m) /\ part \in [DOMAIN m -> SUBSET N] /\ Apart(DOMAIN m, part)
         /\ Covered(DOMAIN m, part) = N /\ \A k \in DOMAIN m : m[k] = Cardinality(Units(part[k], u))
    BY <2>6, <2>7, <2>8, <2>9
  <2>11. SumFunction(m) = Cardinality(Units(N, u))
    BY <1>1, <2>2, <2>10, SharedUnits
  <2>12. summary[field] = Cardinality(Units(N, u))
    BY <1>3, <2>1
  <2>. QED BY <2>11, <2>12 DEF m
<1>. QED BY <1>12, <1>13, Zenon DEF SumsAgree, points, summary

\* The API agrees with the pages, for every filter.
LEMMA ApiAdds ==
  ASSUME Sound(release, before), NEW f \in Filters
  PROVE  ApiAgrees(f)
<1>1. ASSUME NEW asked \in {Nil, MaxGenerationLimit + 1}, NEW order \in {"asc", "desc"}
      PROVE  ListAgrees(f, QueryOf(f, asked, order)) /\ SumsAgree(QueryOf(f, asked, order))
  <2>1. PICK limit \in Nat \ {0} : Reads(QueryOf(f, asked, order), f, order, limit)
    BY QueryReads
  <2>. QED BY <2>1, ListAdds, SumsAdd
<1>. QED BY <1>1 DEF ApiAgrees

\* What a page shows adds up, for every value of the constants: in every
\* database that the writes can leave, for every filter, the points of every
\* chart, the rows of every breakdown, the leaderboard, the heatmap and the
\* cards have the requests and tokens of the summary, and so has what the API
\* returns, whatever the limit and the order (mergeDays, breakdown, TopModels,
\* heatmap, cards, getGenerations).
THEOREM PagesAgree == ReaderSpec => []PagesAddUp
<1>1. (mode = "serving" => Sound(release, before)) => PagesAddUp
  <2>. SUFFICES ASSUME Sound(release, before), NEW f \in Filters
                PROVE  /\ SeriesAddUp(f) /\ RowsAddUp(f) /\ RankingAgrees(f)
                       /\ HeatmapCovers(f) /\ CardsCount(f) /\ ApiAgrees(f)
    BY Zenon DEF PagesAddUp, Quiet
  <2>1. Bounds(f)
    BY FiltersAreBounded
  <2>. QED BY <2>1, ChartsAddUp, RowsTotal, RankingIs, HeatmapIs, CardsTotal, ApiAdds
<1>. QED BY <1>1, ReadersOnly, ReadersSeeSound, PTL

-----------------------------------------------------------------------------
(* The line of a chart's buckets.                                          *)

\* How far apart the buckets of a fixed length are.
Stride(bucket) ==
  CASE bucket = "hour" -> HourLength [] bucket = "day" -> DayLength [] bucket = "week" -> 7 * DayLength

\* u and the buckets that follow it, up to the last.
Follows(u, v, bucket) ==
  IF bucket = "month" THEN v = u \/ (u < v /\ v \in MonthStarts)
                      ELSE \E n \in Nat : v = u + n * Stride(bucket)
BucketsFrom(u, last, bucket) == {v \in u..last : Follows(u, v, bucket)}

LEMMA StridesAre ==
  ASSUME NEW bucket \in Buckets, bucket # "month"
  PROVE  /\ Stride(bucket) \in Nat \ {0}
         /\ \A u : NextChartBucket(u, bucket) = u + Stride(bucket)
<1>1. HourLength \in Nat \ {0} /\ DayLength \in Nat \ {0}
  BY FactsAssumption, ReaderAssumption
<1>2. CASE bucket = "hour"
  BY <1>1, <1>2 DEF Stride, NextChartBucket
<1>3. CASE bucket = "day"
  BY <1>1, <1>3 DEF Stride, NextChartBucket
<1>4. CASE bucket = "week"
  <2>1. 7 * DayLength \in Nat \ {0}
    BY <1>1
  <2>. QED BY <1>4, <2>1 DEF Stride, NextChartBucket
<1>. QED BY <1>2, <1>3, <1>4 DEF Buckets

\* The next month up to now begins at the least of the later ones.
LEMMA NextMonth ==
  ASSUME NEW u \in Int, u <= Now
  PROVE  LET next == NextChartBucket(u, "month")
         IN  next \in MonthStarts /\ next \in Int /\ u < next /\ \A m \in MonthStarts : u < m => next <= m
<1>. DEFINE later == {m \in MonthStarts : m > u}
            at == [m \in later |-> m]
<1>0. Now \in Nat /\ \A m \in MonthStarts : m \in Nat
  BY ReaderAssumption
<1>1. IsFiniteSet(later) /\ later # {} /\ later \in SUBSET Nat /\ at \in [later -> Nat]
  <2>1. PICK m \in MonthStarts : m > Now
    BY ChartAssumption
  <2>2. m \in later
    BY <1>0, <2>1
  <2>. QED BY <1>0, <2>2, ReaderAssumption, FS_Subset
<1>2. PICK m \in later : \A n \in later : m <= n
  <2>1. PICK j \in later : \A k \in later : at[j] <= at[k]
    <3>. HIDE DEF at, later
    <3>. QED BY <1>1, ExtremesExist
  <2>. QED BY <2>1
<1>3. Least(later) = m
  <2>. HIDE DEF later
  <2>. QED BY <1>1, <1>2, LeastIs
<1>4. NextChartBucket(u, "month") = m
  BY <1>3 DEF NextChartBucket
<1>. QED BY <1>0, <1>2, <1>4

\* A line goes on at the next bucket.
LEMMA LineGoesOn ==
  ASSUME NEW bucket \in Buckets, NEW last \in Int, last <= Now, NEW u \in Int
  PROVE  LET line == BucketsFrom(u, last, bucket)
             next == NextChartBucket(u, bucket)
             rest == BucketsFrom(next, last, bucket)
         IN  /\ line \in SUBSET Int /\ IsFiniteSet(line)
             /\ u > last => line = {}
             /\ u <= last => next \in Int /\ u < next /\ line = rest \cup {u} /\ \A v \in rest : u < v
<1>. DEFINE line == BucketsFrom(u, last, bucket)
            next == NextChartBucket(u, bucket)
            rest == BucketsFrom(next, last, bucket)
<1>1. line \in SUBSET (u..last) /\ line \in SUBSET Int
  BY DEF BucketsFrom
<1>2. IsFiniteSet(line)
  <2>1. IsFiniteSet(u..last)
    BY FS_Interval
  <2>. QED BY <1>1, <2>1, FS_Subset
<1>3. u > last => line = {}
  BY <1>1
<1>4. ASSUME u <= last, bucket = "month"
      PROVE  next \in Int /\ u < next /\ line = rest \cup {u} /\ \A v \in rest : u < v
  <2>0. u <= Now
    BY <1>4, ReaderAssumption
  <2>1. next \in MonthStarts /\ next \in Int /\ u < next /\ \A m \in MonthStarts : u < m => next <= m
    BY <1>4, <2>0, NextMonth
  <2>2. \A m \in MonthStarts : m \in Int
    BY ReaderAssumption
  <2>. HIDE DEF next
  <2>3. ASSUME NEW v PROVE v \in line <=> v \in rest \cup {u}
    BY <1>4, <2>1, <2>2 DEF BucketsFrom, Follows
  <2>4. \A v \in rest : u < v
    BY <2>1 DEF BucketsFrom
  <2>. QED BY <2>1, <2>3, <2>4
<1>5. ASSUME u <= last, bucket # "month"
      PROVE  next \in Int /\ u < next /\ line = rest \cup {u} /\ \A v \in rest : u < v
  <2>1. PICK k \in Nat \ {0} : k = Stride(bucket) /\ next = u + k
    BY <1>5, StridesAre
  <2>. HIDE DEF next
  <2>2. \A v \in rest : u < v
    BY <2>1 DEF BucketsFrom
  <2>3. \A v : v \in line <=> v \in u..last /\ \E n \in Nat : v = u + n * k
    BY <1>5, <2>1 DEF BucketsFrom, Follows
  <2>4. \A v : v \in rest <=> v \in (u + k)..last /\ \E n \in Nat : v = (u + k) + n * k
    BY <1>5, <2>1 DEF BucketsFrom, Follows
  <2>5. ASSUME NEW v \in rest PROVE v \in line
    <3>1. PICK n \in Nat : v = (u + k) + n * k
      BY <2>4
    <3>2. (u + k) + n * k = u + (n + 1) * k /\ n + 1 \in Nat
      OBVIOUS
    <3>3. v \in u..last
      BY <2>4
    <3>. QED BY <2>3, <3>1, <3>2, <3>3
  <2>6. u \in line
    <3>1. u = u + 0 * k
      OBVIOUS
    <3>. QED BY <1>5, <2>3, <3>1
  <2>7. ASSUME NEW v \in line, v # u PROVE v \in rest
    <3>1. PICK n \in Nat : v = u + n * k
      BY <2>3
    <3>2. n # 0
      BY <2>7, <3>1
    <3>3. n - 1 \in Nat /\ u + n * k = (u + k) + (n - 1) * k /\ (n - 1) * k >= 0 /\ (n - 1) * k \in Int
      BY <3>2
    <3>4. v \in (u + k)..last
      BY <2>3, <3>1, <3>3
    <3>. QED BY <2>4, <3>1, <3>3, <3>4
  <2>. HIDE DEF line, rest
  <2>8. line = rest \cup {u}
    BY <2>5, <2>6, <2>7
  <2>. QED BY <2>1, <2>2, <2>8
<1>. QED BY <1>1, <1>2, <1>3, <1>4, <1>5
LEMMA Prepended ==
  ASSUME NEW V, NEW s \in Seq(V), NEW p \in V
  PROVE  <<p>> \o s = [n \in 1..(Len(s) + 1) |-> IF n = 1 THEN p ELSE s[n - 1]]
<1>. DEFINE t == <<p>> \o s
<1>1. <<p>> \in Seq(V) /\ Len(<<p>>) = 1 /\ <<p>>[1] = p /\ Len(s) \in Nat
  OBVIOUS
<1>2. t \in Seq(V) /\ Len(t) = Len(s) + 1
  BY <1>1, ConcatProperties
<1>3. ASSUME NEW n \in 1..(Len(s) + 1) PROVE t[n] = IF n = 1 THEN p ELSE s[n - 1]
  BY <1>1, ConcatProperties
<1>. HIDE DEF t
<1>4. t = [n \in 1..(Len(s) + 1) |-> t[n]]
  BY <1>1, <1>2
<1>5. t = [n \in 1..(Len(s) + 1) |-> IF n = 1 THEN p ELSE s[n - 1]]
  BY <1>3, <1>4
<1>. QED BY <1>5 DEF t

\* A start before all the others comes first.
LEMMA OrderedLeads ==
  ASSUME NEW S \in SUBSET Int, IsFiniteSet(S), NEW b \in Int, \A a \in S : b < a
  PROVE  Ordered(S \cup {b}) = <<b>> \o Ordered(S)
<1>. DEFINE T == S \cup {b}
            N == Cardinality(S)
<1>0. \A a \in S : a \in Int
  OBVIOUS
<1>1. T \in SUBSET Int /\ IsFiniteSet(T) /\ b \notin S
  BY <1>0, FS_AddElement
<1>2. N \in Nat /\ Cardinality(T) = N + 1
  BY <1>1, FS_CardinalityType, FS_AddElement
<1>3. Cardinality(Below(T, b)) = 0
  <2>1. \A a \in T : ~ (a < b)
    BY <1>0
  <2>2. Below(T, b) = {}
    <3>. HIDE DEF T
    <3>. QED BY <2>1 DEF Below
  <2>. QED BY <2>2, FS_EmptySet
<1>4. ASSUME NEW a \in S PROVE Cardinality(Below(T, a)) = Cardinality(Below(S, a)) + 1
  <2>1. Below(T, a) = Below(S, a) \cup {b} /\ b \notin Below(S, a)
    BY <1>1 DEF Below
  <2>2. IsFiniteSet(Below(S, a))
    BY FS_Subset DEF Below
  <2>. QED BY <2>1, <2>2, FS_AddElement
<1>5. b \in T /\ \A a \in S : a \in T
  OBVIOUS
<1>. HIDE DEF T
<1>6. \A a \in T : Ordered(T)[Cardinality(Below(T, a)) + 1] = a
  BY <1>1, OrderedIs
<1>7. Ordered(T)[1] = b
  BY <1>3, <1>5, <1>6
<1>8. ASSUME NEW n \in 1..N PROVE Ordered(T)[n + 1] = Ordered(S)[n]
  <2>1. PICK a : a = Ordered(S)[n]
    OBVIOUS
  <2>2. a \in S /\ Cardinality(Below(S, a)) + 1 = n
    BY <2>1, OrderedIs DEF Rising
  <2>. QED BY <1>4, <1>5, <1>6, <2>1, <2>2
<1>9. Ordered(S) \in [1..N -> Int] /\ Ordered(T) \in [1..(N + 1) -> Int]
  <2>1. ASSUME NEW V \in SUBSET Int, IsFiniteSet(V) PROVE Ordered(V) \in [1..Cardinality(V) -> Int]
    <3>1. Ordered(V) \in [1..Cardinality(V) -> V]
      BY <2>1, OrderedIs DEF Rising
    <3>. QED BY <3>1
  <2>. QED BY <1>1, <1>2, <2>1
<1>10. ASSUME NEW s, s \in [1..N -> Int], NEW t, t \in [1..(N + 1) -> Int], t[1] = b, \A n \in 1..N : t[n + 1] = s[n]
       PROVE  t = <<b>> \o s
  <2>1. s \in Seq(Int) /\ Len(s) = N /\ t \in Seq(Int) /\ Len(t) = N + 1
    BY <1>2, <1>10
  <2>2. <<b>> \in Seq(Int) /\ Len(<<b>>) = 1 /\ <<b>>[1] = b
    OBVIOUS
  <2>3. <<b>> \o s = [n \in 1..(N + 1) |-> IF n = 1 THEN b ELSE s[n - 1]]
    BY <2>1, Prepended
  <2>4. ASSUME NEW n \in 1..(N + 1) PROVE t[n] = IF n = 1 THEN b ELSE s[n - 1]
    <3>1. n # 1 => n - 1 \in 1..N /\ t[(n - 1) + 1] = s[n - 1] /\ (n - 1) + 1 = n
      BY <1>2, <1>10
    <3>. QED BY <1>10, <3>1
  <2>. QED BY <1>10, <2>3, <2>4
<1>. QED BY <1>7, <1>8, <1>9, <1>10 DEF T

\* The buckets that the chart goes through are those, in order.
LEMMA LineIs ==
  ASSUME NEW bucket \in Buckets, NEW last \in Int, last <= Now, NEW u \in Int
  PROVE  BucketsUpTo(u, last, bucket) = Ordered(BucketsFrom(u, last, bucket))
<1>. DEFINE next(v) == NextChartBucket(v, bucket)
            Rec(h) == h = [v \in Int |-> IF v > last THEN <<>> ELSE <<v>> \o h[next(v)]]
            line == CHOOSE h : Rec(h)
            g == [v \in Int |-> Ordered(BucketsFrom(v, last, bucket))]
<1>1. BucketsUpTo(u, last, bucket) = line[u]
  BY DEF BucketsUpTo
<1>2. ASSUME NEW v \in Int, v <= last PROVE next(v) \in Int /\ v < next(v)
  BY <1>2, LineGoesOn
<1>3. ASSUME NEW v \in Int PROVE g[v] = IF v > last THEN <<>> ELSE <<v>> \o g[next(v)]
  <2>1. CASE v > last
    <3>1. BucketsFrom(v, last, bucket) = {}
      BY <2>1, LineGoesOn
    <3>2. PICK S : S = {} /\ S = BucketsFrom(v, last, bucket)
      BY <3>1
    <3>3. Ordered(S) = <<>>
      <4>1. S \in SUBSET Int /\ IsFiniteSet(S) /\ Cardinality(S) = 0
        BY <3>2, FS_EmptySet
      <4>2. Ordered(S) \in [1..0 -> S]
        BY <4>1, OrderedIs DEF Rising
      <4>3. Ordered(S) \in Seq(S) /\ Len(Ordered(S)) = 0
        BY <4>2
      <4>. QED BY <4>3, EmptySeq
    <3>. QED BY <2>1, <3>2, <3>3
  <2>2. CASE v <= last
    <3>1. PICK S : S = BucketsFrom(next(v), last, bucket)
      OBVIOUS
    <3>2. /\ S \in SUBSET Int /\ IsFiniteSet(S) /\ \A w \in S : v < w
          /\ BucketsFrom(v, last, bucket) = S \cup {v}
      BY <1>2, <2>2, <3>1, LineGoesOn
    <3>3. Ordered(S \cup {v}) = <<v>> \o Ordered(S)
      BY <3>2, OrderedLeads
    <3>4. g[v] = Ordered(S \cup {v})
      BY <3>2
    <3>5. g[next(v)] = Ordered(S)
      BY <1>2, <2>2, <3>1
    <3>6. ~ (v > last)
      BY <2>2
    <3>. HIDE DEF g, next
    <3>. QED BY <3>3, <3>4, <3>5, <3>6
  <2>. QED BY <2>1, <2>2
<1>4. Rec(g)
  <2>. HIDE DEF next
  <2>1. g = [v \in Int |-> g[v]]
    OBVIOUS
  <2>. HIDE DEF g
  <2>. QED BY <1>3, <2>1
<1>. HIDE DEF Rec, next
<1>5. Rec(line)
  BY <1>4, Zenon
<1>. HIDE DEF line
<1>6. ASSUME NEW h, Rec(h), NEW v \in Int
      PROVE  h[v] = IF v > last THEN <<>> ELSE <<v>> \o h[next(v)]
  BY <1>6, Zenon DEF Rec
<1>7. g[u] = Ordered(BucketsFrom(u, last, bucket))
  OBVIOUS
<1>. HIDE DEF g
<1>8. ASSUME line[u] # g[u] PROVE FALSE
  <2>. DEFINE differ == {v \in u..last : line[v] # g[v]}
              left == [v \in differ |-> last - v]
  <2>0. ASSUME NEW v \in Int
        PROVE  /\ line[v] = IF v > last THEN <<>> ELSE <<v>> \o line[next(v)]
               /\ g[v] = IF v > last THEN <<>> ELSE <<v>> \o g[next(v)]
    BY <1>4, <1>5, <1>6
  <2>10. ASSUME NEW v \in Int, line[v] # g[v] PROVE v <= last
    <3>1. ~ (v > last)
      BY <2>0, <2>10, Zenon
    <3>. QED BY <3>1
  <2>1. ASSUME NEW v \in Int, u <= v, line[v] # g[v] PROVE v \in differ /\ next(v) \in differ /\ v < next(v)
    <3>1. v <= last
      BY <2>1, <2>10
    <3>2. line[next(v)] # g[next(v)]
      BY <2>0, <2>1, <3>1
    <3>3. next(v) \in Int /\ v < next(v)
      BY <1>2, <3>1
    <3>4. next(v) <= last
      BY <2>10, <3>2, <3>3
    <3>. QED BY <2>1, <3>1, <3>2, <3>3, <3>4
  <2>2. u \in differ
    BY <1>8, <2>1
  <2>3. IsFiniteSet(differ)
    <3>1. IsFiniteSet(u..last)
      BY FS_Interval
    <3>. QED BY <3>1, FS_Subset
  <2>4. left \in [differ -> Nat] /\ \A v \in differ : left[v] = last - v
    OBVIOUS
  <2>5. \A v \in differ : v \in Int /\ u <= v /\ line[v] # g[v]
    OBVIOUS
  <2>. HIDE DEF differ, left
  <2>6. PICK v \in differ : \A w \in differ : left[v] <= left[w]
    BY <2>2, <2>3, <2>4, ExtremesExist
  <2>7. next(v) \in differ /\ v < next(v) /\ v \in Int /\ next(v) \in Int
    BY <2>1, <2>5
  <2>8. last - v <= last - next(v)
    BY <2>4, <2>6, <2>7
  <2>. QED BY <2>7, <2>8
<1>. QED BY <1>1, <1>7, <1>8
-----------------------------------------------------------------------------
(* The chart's buckets and storage's.                                      *)

\* Of the buckets of a chart, each follows the one before.
LEMMA NoneBetween ==
  ASSUME NEW bucket \in Buckets, NEW last \in Int, last <= Now, NEW u \in Int,
         NEW a \in BucketsFrom(u, last, bucket), NEW b \in BucketsFrom(u, last, bucket), a < b
  PROVE  LET next == NextChartBucket(a, bucket)
         IN  next \in BucketsFrom(u, last, bucket) /\ a < next /\ next <= b
<1>. DEFINE next == NextChartBucket(a, bucket)
<1>1. a \in u..last /\ b \in u..last /\ Follows(u, a, bucket) /\ Follows(u, b, bucket)
  BY DEF BucketsFrom
<1>2. CASE bucket = "month"
  <2>1. a <= Now
    BY <1>1, ReaderAssumption
  <2>2. next \in MonthStarts /\ next \in Int /\ a < next /\ \A m \in MonthStarts : a < m => next <= m
    BY <1>1, <1>2, <2>1, NextMonth
  <2>3. b \in MonthStarts
    BY <1>1, <1>2 DEF Follows
  <2>. HIDE DEF next
  <2>4. next <= b /\ next \in u..last
    BY <1>1, <2>2, <2>3
  <2>. QED BY <1>1, <1>2, <2>2, <2>4 DEF BucketsFrom, Follows, next
<1>3. CASE bucket # "month"
  <2>1. PICK k \in Nat \ {0} : k = Stride(bucket) /\ next = a + k
    BY <1>3, StridesAre
  <2>. HIDE DEF next
  <2>2. PICK i \in Nat : a = u + i * k
    BY <1>1, <1>3, <2>1 DEF Follows
  <2>3. PICK j \in Nat : b = u + j * k
    BY <1>1, <1>3, <2>1 DEF Follows
  <2>4. i + 1 <= j
    <3>1. CASE j <= i
      <4>1. j * k <= i * k /\ j * k \in Int /\ i * k \in Int
        BY <3>1
      <4>. QED BY <2>2, <2>3, <4>1
    <3>. QED BY <3>1
  <2>5. next = u + (i + 1) * k /\ (i + 1) * k <= j * k /\ (i + 1) * k \in Int /\ j * k \in Int
    BY <2>1, <2>2, <2>4
  <2>6. next <= b /\ a < next /\ next \in u..last
    BY <1>1, <2>1, <2>3, <2>5
  <2>7. Follows(u, next, bucket)
    <3>1. i + 1 \in Nat
      OBVIOUS
    <3>. QED BY <1>3, <2>1, <2>5, <3>1 DEF Follows
  <2>. QED BY <2>6, <2>7 DEF BucketsFrom, next
<1>. QED BY <1>2, <1>3

\* In order, then, they leave no bucket out.
LEMMA LineIsGapless ==
  ASSUME NEW bucket \in Buckets, NEW last \in Int, last <= Now, NEW u \in Int,
         NEW S, S = BucketsFrom(u, last, bucket), NEW n \in 2..Cardinality(S)
  PROVE  Ordered(S)[n] = NextChartBucket(Ordered(S)[n - 1], bucket)
<1>. DEFINE seq == Ordered(S)
            N == Cardinality(S)
<1>1. S \in SUBSET Int /\ IsFiniteSet(S)
  BY LineGoesOn
<1>2. Rising(seq, S)
  BY <1>1, OrderedIs
<1>. HIDE DEF seq
<1>3. /\ N \in Nat /\ seq \in [1..N -> S]
      /\ \A i, j \in 1..N : i < j <=> seq[i] < seq[j]
      /\ \A a \in S : \E i \in 1..N : seq[i] = a
  BY <1>2 DEF Rising
<1>4. n \in 1..N /\ n - 1 \in 1..N /\ n \in Int /\ n - 1 < n
  BY <1>3
<1>5. seq[n] \in S /\ seq[n - 1] \in S /\ seq[n - 1] < seq[n]
  BY <1>3, <1>4
<1>6. PICK next : next = NextChartBucket(seq[n - 1], bucket)
  OBVIOUS
<1>7. next \in S /\ seq[n - 1] < next /\ next <= seq[n]
  BY <1>5, <1>6, NoneBetween
<1>8. PICK i \in 1..N : seq[i] = next
  BY <1>3, <1>7
<1>9. n - 1 < i
  BY <1>3, <1>4, <1>7, <1>8
<1>10. ~ (n < i)
  <2>1. ~ (seq[n] < next)
    <3>1. seq[n] \in Int /\ next \in Int
      BY <1>1, <1>5, <1>7
    <3>. QED BY <1>7, <3>1
  <2>. QED BY <1>3, <1>4, <1>8, <2>1
<1>11. i = n
  BY <1>4, <1>8, <1>9, <1>10
<1>. QED BY <1>6, <1>8, <1>11 DEF seq

\* A range of fewer than c strides has at most c buckets.
LEMMA LineIsShort ==
  ASSUME NEW bucket \in Buckets, bucket # "month", NEW last \in Int, NEW u \in Int,
         NEW c \in Nat, last - u < c * Stride(bucket)
  PROVE  Cardinality(BucketsFrom(u, last, bucket)) <= c
<1>. DEFINE S == BucketsFrom(u, last, bucket)
<1>1. PICK k \in Nat \ {0} : k = Stride(bucket)
  BY StridesAre
<1>. DEFINE at == [n \in 1..c |-> u + (n - 1) * k]
            all == {at[n] : n \in 1..c}
<1>2. ASSUME NEW v \in S PROVE v \in all
  <2>1. v \in u..last /\ \E n \in Nat : v = u + n * k
    BY <1>1 DEF BucketsFrom, Follows
  <2>2. PICK n \in Nat : v = u + n * k
    BY <2>1
  <2>3. n < c
    <3>1. CASE c <= n
      <4>1. c * k <= n * k /\ c * k \in Int /\ n * k \in Int
        BY <3>1
      <4>. QED BY <1>1, <2>1, <2>2, <4>1
    <3>. QED BY <3>1
  <2>4. n + 1 \in 1..c /\ (n + 1) - 1 = n
    BY <2>3
  <2>5. at[n + 1] = v
    BY <2>2, <2>4
  <2>. HIDE DEF at
  <2>. QED BY <2>4, <2>5
<1>3. IsFiniteSet(1..c) /\ Cardinality(1..c) = c
  BY CountTo
<1>4. at \in Surjection(1..c, all)
  BY DEF Surjection
<1>. HIDE DEF at, all, S
<1>5. IsFiniteSet(all) /\ Cardinality(all) <= c /\ Cardinality(all) \in Nat
  <2>1. PICK I : I = 1..c
    OBVIOUS
  <2>2. IsFiniteSet(I) /\ at \in Surjection(I, all)
    BY <1>3, <1>4, <2>1
  <2>3. IsFiniteSet(all) /\ Cardinality(all) <= Cardinality(I)
    BY <2>2, FS_Surjection
  <2>. QED BY <1>3, <2>1, <2>3, FS_CardinalityType
<1>6. S \subseteq all
  BY <1>2
<1>7. Cardinality(S) <= Cardinality(all) /\ IsFiniteSet(S)
  BY <1>5, <1>6, FS_Subset
<1>8. Cardinality(S) \in Nat
  BY <1>7, FS_CardinalityType
<1>. QED BY <1>5, <1>7, <1>8 DEF S
\* Multiples of a stride.
LEMMA Strides ==
  ASSUME NEW k \in Nat \ {0}, NEW a \in Int, NEW b \in Int, a * k < b * k + k
  PROVE  a <= b /\ a * k <= b * k /\ b - a \in Nat /\ b * k = a * k + (b - a) * k
<1>1. a <= b
  <2>1. CASE a >= b + 1
    <3>1. a * k >= (b + 1) * k /\ (b + 1) * k = b * k + k /\ a * k \in Int /\ b * k \in Int
      BY <2>1
    <3>. QED BY <3>1
  <2>. QED BY <2>1
<1>2. a * k <= b * k
  BY <1>1
<1>3. b * k = a * k + (b - a) * k
  OBVIOUS
<1>. QED BY <1>1, <1>2, <1>3

\* Hours, days and weeks begin a whole number of strides apart.
Begins(t, bucket, w, c) ==
  /\ ChartBucketStart(t, bucket) = w * Stride(bucket) + c
  /\ w * Stride(bucket) + c <= t /\ t < w * Stride(bucket) + c + Stride(bucket)

LEMMA StrideStarts ==
  ASSUME NEW bucket \in Buckets, bucket # "month"
  PROVE  \E c \in Int : \A t \in Int : \E w \in Int : Begins(t, bucket, w, c)
<1>1. HourLength \in Nat /\ HourLength > 0 /\ DayLength \in Nat /\ DayLength > 0
  BY FactsAssumption, ReaderAssumption
<1>2. ASSUME NEW k \in Nat, k > 0, NEW t \in Int
      PROVE  \E w \in Int : /\ (t \div k) * k = w * k + 0
                            /\ w * k + 0 <= t /\ t < w * k + 0 + k
  <2>1. t \div k \in Int /\ k * (t \div k) <= t /\ t < k * (t \div k) + k
    BY <1>2
  <2>2. PICK w \in Int : w = t \div k
    BY <2>1
  <2>3. w * k = k * w
    BY <1>2
  <2>. QED BY <2>1, <2>2, <2>3
<1>3. CASE bucket = "hour"
  <2>1. Stride(bucket) = HourLength /\ \A t \in Int : ChartBucketStart(t, bucket) = (t \div HourLength) * HourLength
    BY <1>3 DEF Stride, ChartBucketStart, Hour
  <2>2. ASSUME NEW t \in Int PROVE \E w \in Int : Begins(t, bucket, w, 0)
    <3>1. PICK w \in Int : (t \div HourLength) * HourLength = w * HourLength + 0 /\ w * HourLength + 0 <= t /\ t < w * HourLength + 0 + HourLength
      BY <1>1, <1>2
    <3>. QED BY <2>1, <3>1 DEF Begins
  <2>. QED BY <2>2
<1>4. CASE bucket = "day"
  <2>1. Stride(bucket) = DayLength /\ \A t \in Int : ChartBucketStart(t, bucket) = (t \div DayLength) * DayLength
    BY <1>4 DEF Stride, ChartBucketStart, Day
  <2>2. ASSUME NEW t \in Int PROVE \E w \in Int : Begins(t, bucket, w, 0)
    <3>1. PICK w \in Int : (t \div DayLength) * DayLength = w * DayLength + 0 /\ w * DayLength + 0 <= t /\ t < w * DayLength + 0 + DayLength
      BY <1>1, <1>2
    <3>. QED BY <2>1, <3>1 DEF Begins
  <2>. QED BY <2>2
<1>5. CASE bucket = "week"
  <2>1. Stride(bucket) = 7 * DayLength
    BY <1>5 DEF Stride
  <2>2. ASSUME NEW t \in Int
        PROVE  \E w \in Int : Begins(t, bucket, w, (-3) * DayLength)
    <3>1. PICK q \in Int : Day(t) = DayLength * q /\ DayLength * q <= t /\ t < DayLength * q + DayLength
      <4>1. t \div DayLength \in Int /\ t % DayLength \in 0..(DayLength - 1)
            /\ t = DayLength * (t \div DayLength) + (t % DayLength) /\ Day(t) = DayLength * (t \div DayLength)
        BY DaysAre
      <4>2. DayLength * (t \div DayLength) \in Int
        BY <1>1, <4>1
      <4>. QED BY <1>1, <4>1, <4>2
    <3>2. ChartBucketStart(t, bucket) = BucketStart(DayLength * q, "week")
      BY <1>5, <3>1 DEF ChartBucketStart, StartOfWeek, BucketStart
    <3>3. ChartBucketStart(t, bucket) = DayLength * (q - ((q + 3) % 7))
      BY <3>2, WeekStarts
    <3>4. PICK w \in Int : q - ((q + 3) % 7) = 7 * w - 3 /\ 7 * w - 3 <= q /\ q <= 7 * w + 3
      <4>1. (q + 3) \div 7 \in Int /\ (q + 3) % 7 \in 0..6 /\ q + 3 = 7 * ((q + 3) \div 7) + ((q + 3) % 7)
        OBVIOUS
      <4>. QED BY <4>1
    <3>5. DayLength * (7 * w - 3) = w * (7 * DayLength) + (-3) * DayLength
      BY <1>1
    <3>6. DayLength * (7 * w - 3) <= DayLength * q /\ DayLength * (7 * w - 3) \in Int /\ DayLength * q \in Int
      BY <1>1, <3>4, DayTimes
    <3>7. DayLength * q <= DayLength * (7 * w + 3) /\ DayLength * (7 * w + 3) = DayLength * (7 * w - 3) + 6 * DayLength
      BY <1>1, <3>4, DayTimes
    <3>8. ChartBucketStart(t, bucket) <= t /\ t < ChartBucketStart(t, bucket) + 7 * DayLength
      BY <1>1, <3>1, <3>3, <3>4, <3>6, <3>7
    <3>9. ChartBucketStart(t, bucket) = w * (7 * DayLength) + (-3) * DayLength
      BY <3>3, <3>4, <3>5
    <3>. QED BY <2>1, <3>8, <3>9 DEF Begins
  <2>3. (-3) * DayLength \in Int
    BY <1>1
  <2>. QED BY <2>2, <2>3
<1>. QED BY <1>3, <1>4, <1>5 DEF Buckets

\* A later time is in a bucket of the line that begins at an earlier one's.
OnLine(t, u, bucket) ==
  LET a == ChartBucketStart(t, bucket)
      b == ChartBucketStart(u, bucket)
  IN  /\ a \in Int /\ b \in Int /\ a <= t /\ a <= b
      /\ ChartBucketStart(a, bucket) = a /\ Follows(a, b, bucket)
      /\ bucket # "month" => t < a + Stride(bucket)
      /\ bucket = "month" => a \in MonthStarts

LEMMA LinesMeet ==
  ASSUME NEW bucket \in Buckets, NEW t \in Nat, NEW u \in Nat, t <= u
  PROVE  OnLine(t, u, bucket)
<1>. DEFINE a == ChartBucketStart(t, bucket)
            b == ChartBucketStart(u, bucket)
<1>1. CASE bucket # "month"
  <2>1. PICK k \in Nat \ {0} : k = Stride(bucket)
    BY <1>1, StridesAre
  <2>0. PICK c \in Int : \A v \in Int : \E w \in Int : Begins(v, bucket, w, c)
    BY <1>1, StrideStarts
  <2>2. ASSUME NEW v \in Int, NEW w \in Int, Begins(v, bucket, w, c)
        PROVE  /\ ChartBucketStart(v, bucket) = w * k + c
               /\ w * k + c <= v /\ v < w * k + c + k /\ w * k \in Int
    BY <2>1, <2>2 DEF Begins
  <2>20. t \in Int /\ u \in Int
    OBVIOUS
  <2>21. PICK w \in Int : Begins(t, bucket, w, c)
    BY <2>0, <2>20
  <2>22. PICK x \in Int : Begins(u, bucket, x, c)
    BY <2>0, <2>20
  <2>3. a = w * k + c /\ w * k + c <= t /\ t < w * k + c + k
    BY <2>2, <2>20, <2>21
  <2>4. b = x * k + c /\ x * k + c <= u /\ u < x * k + c + k
    BY <2>2, <2>20, <2>22
  <2>5. w * k \in Int /\ x * k \in Int /\ a \in Int /\ b \in Int
    BY <2>3, <2>4
  <2>23. PICK y \in Int : Begins(a, bucket, y, c)
    BY <2>0, <2>5
  <2>6. ChartBucketStart(a, bucket) = y * k + c /\ y * k + c <= a /\ a < y * k + c + k
    BY <2>2, <2>5, <2>23
  <2>. HIDE DEF a, b
  <2>7. w * k < x * k + k
    BY <2>3, <2>4, <2>5
  <2>8. w * k <= x * k /\ x - w \in Nat /\ x * k = w * k + (x - w) * k
    BY <2>7, Strides
  <2>9. y * k \in Int /\ w * k < y * k + k /\ y * k < w * k + k
    BY <2>3, <2>5, <2>6
  <2>10. w * k <= y * k /\ y * k <= w * k
    BY <2>9, Strides
  <2>11. ChartBucketStart(a, bucket) = a
    BY <2>3, <2>5, <2>6, <2>9, <2>10
  <2>12. a <= b
    BY <2>3, <2>4, <2>5, <2>8
  <2>13. b = a + (x - w) * k
    BY <2>3, <2>4, <2>5, <2>8
  <2>14. Follows(a, b, bucket)
    BY <1>1, <2>1, <2>8, <2>13 DEF Follows
  <2>. QED BY <1>1, <2>1, <2>3, <2>5, <2>11, <2>12, <2>14 DEF OnLine, a, b
<1>2. CASE bucket = "month"
  <2>. DEFINE begun(day) == {m \in MonthStarts : m <= day}
  <2>0. \A m \in MonthStarts : m \in Nat /\ Day(m) = m
    BY ReaderAssumption, ChartAssumption
  <2>1. ASSUME NEW v \in Nat
        PROVE  /\ Day(v) \in Nat /\ Day(v) <= v
               /\ ChartBucketStart(v, bucket) \in MonthStarts /\ ChartBucketStart(v, bucket) <= Day(v)
               /\ \A m \in MonthStarts : m <= Day(v) => m <= ChartBucketStart(v, bucket)
    <3>1. Day(v) \in Nat
      BY BucketsRise
    <3>2. Day(v) <= v
      <4>1. DayLength * (v \div DayLength) \in Int
        BY <3>1, DaysAre
      <4>. QED BY <4>1, DaysAre, FactsAssumption
    <3>3. ChartBucketStart(v, bucket) = Greatest(begun(Day(v)))
      BY <1>2 DEF ChartBucketStart, StartOfMonth
    <3>4. Greatest(begun(Day(v))) \in begun(Day(v)) /\ \A m \in begun(Day(v)) : m <= Greatest(begun(Day(v)))
      BY <3>1, BegunIs
    <3>. QED BY <3>1, <3>2, <3>3, <3>4
  <2>2. a \in MonthStarts /\ b \in MonthStarts /\ a \in Nat /\ b \in Nat
    BY <2>0, <2>1
  <2>3. Day(t) <= Day(u)
    <3>. DEFINE q == t \div DayLength
                p == u \div DayLength
    <3>1. DayLength \in Nat /\ DayLength > 0 /\ q \in Int /\ p \in Int
      BY FactsAssumption, DaysAre
    <3>2. Day(t) = DayLength * q /\ Day(u) = DayLength * p /\ Day(t) <= t /\ u < Day(u) + DayLength
      <4>1. /\ u = DayLength * p + (u % DayLength) /\ u % DayLength \in 0..(DayLength - 1)
            /\ Day(t) = DayLength * q /\ Day(u) = DayLength * p
        BY DaysAre
      <4>2. Day(t) <= t /\ Day(u) \in Nat
        BY <2>1
      <4>. HIDE DEF q, p
      <4>. QED BY <3>1, <4>1, <4>2
    <3>. HIDE DEF q, p
    <3>3. DayLength * q < DayLength * p + DayLength
      BY <2>1, <3>1, <3>2
    <3>. QED BY <3>1, <3>2, <3>3, Multiples, DayTimes
  <2>4. a <= b /\ a <= t
    BY <2>0, <2>1, <2>2, <2>3
  <2>5. ChartBucketStart(a, bucket) = a
    <3>1. Day(a) = a /\ ChartBucketStart(a, bucket) \in Nat
      BY <2>0, <2>1, <2>2
    <3>2. ChartBucketStart(a, bucket) <= Day(a)
      BY <2>1, <2>2
    <3>3. a <= Day(a) => a <= ChartBucketStart(a, bucket)
      BY <2>1, <2>2
    <3>. HIDE DEF a
    <3>. QED BY <2>2, <3>1, <3>2, <3>3
  <2>6. Follows(a, b, bucket)
    <3>. HIDE DEF a, b
    <3>1. b = a \/ a < b
      BY <2>2, <2>4
    <3>. QED BY <1>2, <2>2, <3>1 DEF Follows
  <2>. HIDE DEF a, b
  <2>. QED BY <1>2, <2>2, <2>4, <2>5, <2>6 DEF OnLine, a, b
<1>. QED BY <1>1, <1>2
-----------------------------------------------------------------------------
(* The points of a chart filled with idle buckets.                         *)

\* K points at different places, which have the requests N between them.
Charted(points, K, N, at, e, d) ==
  /\ K \in Nat /\ DOMAIN points = 1..K /\ Len(points) = K
  /\ \A n \in 1..K : points[n].total = Total(OnPoint(N, at, points[n].start), e, d)
  /\ \A m, n \in 1..K : m # n => points[m].start # points[n].start
  /\ \A i \in N : \E n \in 1..K : points[n].start = at[i]

LEMMA LenIs ==
  ASSUME NEW K \in Nat, NEW s, s = [n \in 1..K |-> s[n]]
  PROVE  DOMAIN s = 1..K /\ Len(s) = K /\ (K # 0 => Head(s) = s[1])
<1>. DEFINE V == {s[n] : n \in 1..K}
<1>1. s \in [1..K -> V]
  <2>1. \A n \in 1..K : s[n] \in V
    OBVIOUS
  <2>. HIDE DEF V
  <2>. QED BY <2>1
<1>. HIDE DEF V
<1>. QED BY <1>1

\* A sequence with the members of S in order has each once.
LEMMA RisingOnce ==
  ASSUME NEW S \in SUBSET Int, IsFiniteSet(S)
  PROVE  /\ Cardinality(S) \in Nat
         /\ \A n \in 1..Cardinality(S) : Ordered(S)[n] \in S
         /\ \A m, n \in 1..Cardinality(S) : m # n => Ordered(S)[m] # Ordered(S)[n]
         /\ \A a \in S : \E n \in 1..Cardinality(S) : Ordered(S)[n] = a
         /\ DOMAIN Ordered(S) = 1..Cardinality(S) /\ Len(Ordered(S)) = Cardinality(S)
         /\ Ordered(S) \in Seq(S)
<1>. DEFINE seq == Ordered(S)
            K == Cardinality(S)
<1>1. Rising(seq, S)
  BY OrderedIs
<1>. HIDE DEF seq
<1>2. /\ K \in Nat /\ seq \in [1..K -> S]
      /\ \A m, n \in 1..K : m < n <=> seq[m] < seq[n]
      /\ \A a \in S : \E n \in 1..K : seq[n] = a
  BY <1>1 DEF Rising
<1>. HIDE DEF K
<1>3. ASSUME NEW m \in 1..K, NEW n \in 1..K, m # n PROVE seq[m] # seq[n]
  <2>1. m < n \/ n < m
    BY <1>2, <1>3
  <2>2. seq[m] \in Int
    BY <1>2
  <2>3. ~ (seq[m] < seq[m])
    BY <2>2
  <2>. QED BY <1>2, <2>1, <2>3
<1>4. seq \in Seq(S) /\ Len(seq) = K /\ DOMAIN seq = 1..K
  BY <1>2
<1>. QED BY <1>2, <1>3, <1>4 DEF seq, K

LEMMA PointsCharted ==
  ASSUME NEW e, NEW d, NEW N, IsFiniteSet(N), NEW at, \A i \in N : at[i] \in Int,
         NEW points, points = Points(N, at, e, d)
  PROVE  /\ Charted(points, Cardinality(Starts(N, at)), N, at, e, d)
         /\ N # {} => \E i \in N : Head(points).start = at[i] /\ \A j \in N : at[i] <= at[j]
         /\ N = {} => points = <<>>
         /\ N # {} => points # <<>>
<1>1. PICK S : S = Starts(N, at)
  OBVIOUS
<1>2. S \in SUBSET Int /\ IsFiniteSet(S) /\ Rising(Ordered(S), S)
  BY <1>1, StartsAre
<1>3. PICK K \in Nat : K = Cardinality(S)
  BY <1>2, RisingOnce
<1>4. points = [n \in 1..K |-> PointOf(N, at, Ordered(S)[n], e, d)]
  BY <1>1, <1>3 DEF Points
<1>5. DOMAIN points = 1..K /\ \A n \in 1..K : points[n] = PointOf(N, at, Ordered(S)[n], e, d)
  BY <1>4
<1>6. points = [n \in 1..K |-> points[n]]
  BY <1>4, <1>5
<1>7. Len(points) = K
  BY <1>6, LenIs
<1>8. \A n \in 1..K : points[n].start = Ordered(S)[n] /\ points[n].total = Total(OnPoint(N, at, Ordered(S)[n]), e, d)
  BY <1>5 DEF PointOf
<1>9. \A i \in N : at[i] \in S
  BY <1>1 DEF Starts
<1>10. Charted(points, K, N, at, e, d)
  <2>1. /\ \A m, n \in 1..K : m # n => Ordered(S)[m] # Ordered(S)[n]
        /\ \A a \in S : \E n \in 1..K : Ordered(S)[n] = a
    BY <1>2, <1>3, RisingOnce
  <2>2. \A m, n \in 1..K : m # n => points[m].start # points[n].start
    BY <1>8, <2>1
  <2>3. \A i \in N : \E n \in 1..K : points[n].start = at[i]
    BY <1>8, <1>9, <2>1
  <2>. QED BY <1>5, <1>7, <1>8, <2>2, <2>3 DEF Charted
<1>11. ASSUME N # {} PROVE \E i \in N : Head(points).start = at[i] /\ \A j \in N : at[i] <= at[j]
  <2>1. PICK n0 \in 1..K : TRUE
    <3>1. PICK j \in N : TRUE
      BY <1>11
    <3>. QED BY <1>10, <3>1 DEF Charted
  <2>2. 1 \in 1..K
    BY <2>1
  <2>3. Head(points) = points[1]
    BY <1>6, <2>2, LenIs
  <2>4. Ordered(S)[1] \in S
    BY <1>2, <1>3, <2>2, RisingOnce
  <2>5. PICK i \in N : at[i] = Ordered(S)[1]
    BY <1>1, <2>4 DEF Starts
  <2>6. ASSUME NEW j \in N PROVE at[i] <= at[j]
    <3>1. PICK n \in 1..K : Ordered(S)[n] = at[j]
      BY <1>2, <1>3, <1>9, RisingOnce
    <3>2. n = 1 \/ 1 < n
      OBVIOUS
    <3>3. 1 < n => Ordered(S)[1] < Ordered(S)[n]
      BY <1>2, <1>3, <2>2 DEF Rising
    <3>4. at[i] \in Int /\ at[j] \in Int
      OBVIOUS
    <3>. QED BY <2>5, <3>1, <3>2, <3>3, <3>4
  <2>. QED BY <1>8, <2>2, <2>3, <2>5, <2>6
<1>12. ASSUME N = {} PROVE points = <<>>
  <2>1. S = {}
    BY <1>1, <1>12 DEF Starts
  <2>2. K = 0
    BY <1>3, <2>1, FS_EmptySet
  <2>3. points \in Seq({}) /\ Len(points) = 0
    BY <1>6, <1>7, <2>2
  <2>. QED BY <2>3, EmptySeq
<1>13. ASSUME N # {} PROVE points # <<>>
  <2>1. PICK n \in 1..K : TRUE
    <3>1. PICK j \in N : TRUE
      BY <1>13
    <3>. QED BY <1>10, <3>1 DEF Charted
  <2>2. Len(points) # 0
    BY <1>7, <2>1
  <2>. QED BY <2>2
<1>. QED BY <1>1, <1>3, <1>10, <1>11, <1>12, <1>13

\* What is put at a bucket is the total of its requests, whether storage has a
\* point for it or not.
LEMMA PointAtIs ==
  ASSUME NEW e, NEW d, NEW N, IsFiniteSet(N), NEW at, \A i \in N : at[i] \in Int, NEW s
  PROVE  PointAt(Points(N, at, e, d), s) = PointOf(N, at, s, e, d)
<1>. DEFINE points == Points(N, at, e, d)
            p == {q \in ToSet(points) : q.start = s}
<1>1. PointAt(points, s) = IF p = {} THEN [start |-> s, total |-> NoTotals] ELSE CHOOSE q \in p : TRUE
  BY Zenon DEF PointAt
<1>2. PICK S : S = Starts(N, at)
  OBVIOUS
<1>3. S \in SUBSET Int /\ IsFiniteSet(S)
  BY <1>2, StartsAre
<1>4. PICK K \in Nat : K = Cardinality(S)
  BY <1>3, RisingOnce
<1>5. DOMAIN points = 1..K /\ \A n \in 1..K : points[n] = PointOf(N, at, Ordered(S)[n], e, d)
  BY <1>2, <1>4 DEF Points
<1>. HIDE DEF points
<1>6. \A q : q \in p <=> q.start = s /\ \E n \in 1..K : q = PointOf(N, at, Ordered(S)[n], e, d)
  BY <1>5 DEF ToSet
<1>7. \A v : PointOf(N, at, v, e, d).start = v
  BY DEF PointOf
<1>8. ASSUME s \in S PROVE PointAt(points, s) = PointOf(N, at, s, e, d)
  <2>1. PICK n \in 1..K : Ordered(S)[n] = s
    BY <1>3, <1>4, <1>8, RisingOnce
  <2>2. PointOf(N, at, s, e, d) \in p
    BY <1>6, <1>7, <2>1
  <2>3. \A q \in p : q = PointOf(N, at, s, e, d)
    BY <1>6, <1>7
  <2>. HIDE DEF p
  <2>4. (CHOOSE q \in p : TRUE) \in p
    BY <2>2
  <2>. QED BY <1>1, <2>2, <2>3, <2>4
<1>9. ASSUME s \notin S PROVE PointAt(points, s) = PointOf(N, at, s, e, d)
  <2>1. p = {}
    <3>1. \A n \in 1..K : Ordered(S)[n] \in S
      BY <1>3, <1>4, RisingOnce
    <3>. QED BY <1>6, <1>7, <1>9, <3>1
  <2>2. OnPoint(N, at, s) = {}
    BY <1>2, <1>9 DEF OnPoint, Starts
  <2>3. Total({}, e, d) = NoTotals
    BY NothingTotals
  <2>. QED BY <1>1, <2>1, <2>2, <2>3 DEF PointOf
<1>. QED BY <1>8, <1>9 DEF points

\* A line that has every place of a request shows every request.
LEMMA FilledCharted ==
  ASSUME NEW e, NEW d, NEW N, IsFiniteSet(N), NEW at, \A i \in N : at[i] \in Int,
         NEW S \in SUBSET Int, IsFiniteSet(S), \A i \in N : at[i] \in S,
         NEW points, DOMAIN points = 1..Cardinality(S), Len(points) = Cardinality(S),
         \A n \in 1..Cardinality(S) : points[n] = PointAt(Points(N, at, e, d), Ordered(S)[n])
  PROVE  /\ Charted(points, Cardinality(S), N, at, e, d)
         /\ \A n \in 1..Cardinality(S) : points[n].start = Ordered(S)[n]
<1>1. PICK K \in Nat : K = Cardinality(S)
  BY RisingOnce
<1>3. DOMAIN points = 1..K /\ \A n \in 1..K : points[n] = PointAt(Points(N, at, e, d), Ordered(S)[n])
  BY <1>1
<1>4. ASSUME NEW n \in 1..K
      PROVE  points[n].start = Ordered(S)[n] /\ points[n].total = Total(OnPoint(N, at, Ordered(S)[n]), e, d)
  <2>1. points[n] = PointOf(N, at, Ordered(S)[n], e, d)
    BY <1>3, PointAtIs
  <2>. QED BY <2>1 DEF PointOf
<1>5. Len(points) = K
  BY <1>1
<1>6. /\ \A m, n \in 1..K : m # n => Ordered(S)[m] # Ordered(S)[n]
      /\ \A a \in S : \E n \in 1..K : Ordered(S)[n] = a
  BY <1>1, RisingOnce
<1>7. \A m, n \in 1..K : m # n => points[m].start # points[n].start
  BY <1>4, <1>6
<1>8. ASSUME NEW i \in N PROVE \E n \in 1..K : points[n].start = at[i]
  <2>1. PICK a \in S : a = at[i]
    OBVIOUS
  <2>2. PICK n \in 1..K : Ordered(S)[n] = a
    BY <1>6
  <2>. QED BY <1>4, <2>1, <2>2
<1>9. \A n \in 1..K : points[n].total = Total(OnPoint(N, at, points[n].start), e, d)
  BY <1>4
<1>. QED BY <1>1, <1>3, <1>4, <1>5, <1>7, <1>8, <1>9 DEF Charted

\* The range of a page: an open end is the present, and none lies beyond it.
PageRange(g, f) ==
  /\ g.from \in Nat \cup {Nil} /\ g.to \in Int \cup {Nil} /\ (g.to # Nil => g.to <= Now)
  /\ f.from = g.from /\ f.to = Coalesce(g.to, Now)

\* At the resolution that is chosen for a range, its buckets are not too many.
LEMMA LineFits ==
  ASSUME NEW g, NEW f, PageRange(g, f), NEW bucket \in Buckets, bucket = TrendBucket(g, Now),
         NEW first \in Nat, NEW now \in Nat, first <= now, now < f.to,
         g.from # Nil => first = g.from,
         NEW S, S = BucketsFrom(ChartBucketStart(first, bucket), ChartBucketStart(now, bucket), bucket)
  PROVE  Cardinality(S) <= MaxBuckets
<1>. DEFINE start == ChartBucketStart(first, bucket)
            last == ChartBucketStart(now, bucket)
<1>1. OnLine(first, now, bucket) /\ OnLine(now, now, bucket)
  BY LinesMeet
<1>2. /\ start \in Int /\ last \in Int /\ last <= now
      /\ bucket # "month" => first < start + Stride(bucket)
      /\ bucket = "month" => start \in MonthStarts
  BY <1>1 DEF OnLine
<1>. HIDE DEF start, last
<1>3. /\ HourLength \in Nat /\ DayLength \in Nat /\ DayLength > 0 /\ MaxBuckets \in Nat /\ MaxBuckets >= 106
      /\ MaxBuckets * HourLength >= 2 * DayLength + HourLength /\ Now \in Int /\ Nil \notin Int
  BY FactsAssumption, ReaderAssumption, ChartAssumption
<1>4. f.to \in Int /\ f.to = Coalesce(g.to, Now)
  BY <1>3 DEF PageRange, Coalesce
<1>5. S = BucketsFrom(start, last, bucket)
  BY DEF start, last
<1>6. CASE bucket = "month"
  <2>1. S \subseteq MonthStarts
    BY <1>2, <1>5, <1>6 DEF BucketsFrom, Follows
  <2>2. IsFiniteSet(MonthStarts) /\ MaxBuckets >= Cardinality(MonthStarts)
    BY ReaderAssumption, ChartAssumption
  <2>3. IsFiniteSet(S) /\ Cardinality(S) <= Cardinality(MonthStarts)
    BY <2>1, <2>2, FS_Subset
  <2>4. Cardinality(S) \in Nat /\ Cardinality(MonthStarts) \in Nat
    BY <2>2, <2>3, FS_CardinalityType
  <2>. QED BY <1>3, <2>2, <2>3, <2>4
<1>7. CASE bucket # "month"
  <2>1. g.from # Nil
    BY <1>7 DEF TrendBucket
  <2>2. first = g.from
    BY <2>1
  <2>3. /\ bucket = "hour" => f.to - first <= 2 * DayLength
        /\ bucket = "day" => f.to - first <= 62 * DayLength
        /\ bucket = "week" => f.to - first <= 730 * DayLength
    BY <1>4, <1>7, <2>1, <2>2 DEF TrendBucket
  <2>4. PICK k \in Nat \ {0} : k = Stride(bucket)
    BY <1>7, StridesAre
  <2>5. last - start < (f.to - first) + k
    BY <1>2, <1>4, <1>7, <2>4
  <2>6. \E c \in Nat : c <= MaxBuckets /\ last - start < c * k
    <3>1. CASE bucket = "hour"
      <4>1. k = HourLength
        BY <2>4, <3>1 DEF Stride
      <4>2. MaxBuckets * HourLength \in Int
        BY <1>3
      <4>3. last - start < MaxBuckets * HourLength
        BY <1>2, <1>3, <1>4, <2>3, <2>5, <3>1, <4>1, <4>2
      <4>. QED BY <1>3, <4>1, <4>3
    <3>2. CASE bucket = "day"
      <4>1. k = DayLength
        BY <2>4, <3>2 DEF Stride
      <4>2. last - start < 63 * DayLength
        BY <1>2, <1>3, <1>4, <2>3, <2>5, <3>2, <4>1
      <4>. QED BY <1>3, <4>1, <4>2
    <3>3. CASE bucket = "week"
      <4>1. k = 7 * DayLength
        BY <2>4, <3>3 DEF Stride
      <4>2. last - start < 106 * (7 * DayLength)
        BY <1>2, <1>3, <1>4, <2>3, <2>5, <3>3, <4>1
      <4>. QED BY <1>3, <4>1, <4>2
    <3>. QED BY <1>7, <3>1, <3>2, <3>3 DEF Buckets
  <2>7. PICK c \in Nat : c <= MaxBuckets /\ last - start < c * k
    BY <2>6
  <2>8. Cardinality(S) <= c
    BY <1>2, <1>5, <1>7, <2>4, <2>7, LineIsShort
  <2>9. IsFiniteSet(start..last) /\ S \subseteq start..last
    BY <1>2, <1>5, FS_Interval DEF BucketsFrom
  <2>10. Cardinality(S) \in Nat
    BY <2>9, FS_Subset, FS_CardinalityType
  <2>. QED BY <1>3, <2>7, <2>8, <2>10
<1>. QED BY <1>6, <1>7

Gapless(points, bucket) == \A n \in 2..Len(points) : points[n].start = NextChartBucket(points[n - 1].start, bucket)

\* Where the requests of a range are on its chart.
LEMMA AxisIs ==
  ASSUME NEW e, NEW d, d.rows \in Rows, NEW f, NEW N, N = Selected(d, f), NEW bucket \in Buckets, NEW i \in N
  PROVE  /\ d.rows[i].ts \in Nat /\ (f.from # Nil => f.from <= d.rows[i].ts) /\ d.rows[i].ts < f.to
         /\ ChartAxis(d, N, bucket)[i] = ChartBucketStart(d.rows[i].ts, bucket)
<1>1. i \in Stored(d.rows) /\ Selects(f, d.rows[i])
  BY DEF Selected
<1>2. d.rows[i].ts \in Nat
  BY <1>1, FactsAssumption DEF Stored, Rows, Row
<1>3. (f.from # Nil => d.rows[i].ts >= f.from) /\ d.rows[i].ts < f.to
  BY <1>1 DEF Selects
<1>4. f.from # Nil => f.from <= d.rows[i].ts
  BY <1>3
<1>5. ChartAxis(d, N, bucket)[i] = ChartBucketStart(d.rows[i].ts, bucket)
  BY DEF ChartAxis, AxisOf, ChartBucketStart, BucketStart, StartOfWeek, StartOfMonth, Buckets
<1>. QED BY <1>2, <1>3, <1>4, <1>5

\* A chart shows every request once, filled with idle buckets or not; at the
\* resolution chosen for the range it leaves no bucket out.
LEMMA ChartFilled ==
  ASSUME NEW e, NEW d, Sound(e, d), NEW g, NEW f, PageRange(g, f), NEW bucket \in Buckets,
         NEW N, N = Selected(d, f), NEW at, at = ChartAxis(d, N, bucket),
         NEW points, points = FillTimeseries(Timeseries(e, d, f, bucket), g, bucket, Now)
  PROVE  /\ \E K : Charted(points, K, N, at, e, d)
         /\ bucket = TrendBucket(g, Now) => Gapless(points, bucket)
<1>0. Now \in Nat /\ Nil \notin Int
  BY ReaderAssumption
<1>1. f.to \in Int /\ f.to <= Now /\ f.from \in Nat \cup {Nil} /\ Bounds(f)
  BY <1>0 DEF PageRange, Coalesce, Bounds
<1>2. PICK old : old = Timeseries(e, d, f, bucket)
  OBVIOUS
<1>3. old = Points(N, at, e, d) /\ IsFiniteSet(N) /\ \A i \in N : at[i] \in Int
  BY <1>1, <1>2, SeriesCounts DEF TimeseriesIs
<1>4. /\ Charted(old, Cardinality(Starts(N, at)), N, at, e, d)
      /\ N # {} => \E i \in N : Head(old).start = at[i] /\ \A j \in N : at[i] <= at[j]
      /\ N = {} => old = <<>>
  BY <1>3, PointsCharted
<1>5. d.rows \in Rows
  BY DEF Sound
<1>6. \A i \in N : /\ d.rows[i].ts \in Nat /\ (f.from # Nil => f.from <= d.rows[i].ts) /\ d.rows[i].ts < f.to
                   /\ at[i] = ChartBucketStart(d.rows[i].ts, bucket)
  BY <1>5, AxisIs
<1>. DEFINE to == IF g.to = Nil \/ g.to > Now THEN Now ELSE g.to
            start == ChartBucketStart(IF g.from = Nil THEN Head(old).start ELSE g.from, bucket)
            last == ChartBucketStart(to - 1, bucket)
            line == BucketsUpTo(start, last, bucket)
<1>7. points = IF old = <<>> \/ last < start \/ Len(line) > MaxBuckets
                 THEN old ELSE [n \in DOMAIN line |-> PointAt(old, line[n])]
  BY <1>2, Zenon DEF FillTimeseries
<1>8. to = f.to
  BY <1>0 DEF PageRange, Coalesce
<1>. HIDE DEF to
<1>9. CASE N = {}
  <2>1. points = <<>>
    BY <1>4, <1>7, <1>9
  <2>2. Gapless(points, bucket)
    BY <2>1 DEF Gapless
  <2>. QED BY <1>4, <1>7, <1>9, <2>2
<1>10. CASE N # {}
  <2>1. PICK i0 \in N : Head(old).start = at[i0] /\ \A j \in N : at[i0] <= at[j]
    BY <1>4, <1>10
  <2>2. f.to - 1 \in Nat /\ \A i \in N : d.rows[i].ts <= f.to - 1
    BY <1>1, <1>6, <2>1
  <2>3. PICK now \in Nat : now = f.to - 1 /\ now < f.to /\ now <= Now
    BY <1>0, <1>1, <2>2
  <2>4. PICK first \in Nat : /\ start = ChartBucketStart(first, bucket) /\ first <= now
                             /\ (g.from # Nil => first = g.from)
                             /\ \A i \in N : Follows(start, at[i], bucket) /\ start <= at[i]
    <3>1. CASE g.from = Nil
      <4>1. PICK t0 \in Nat : t0 = d.rows[i0].ts /\ t0 <= now /\ at[i0] = ChartBucketStart(t0, bucket)
        BY <1>6, <2>2, <2>3
      <4>2. OnLine(t0, t0, bucket)
        BY LinesMeet
      <4>3. start = at[i0]
        BY <2>1, <3>1, <4>1, <4>2 DEF OnLine
      <4>. HIDE DEF start
      <4>4. ASSUME NEW i \in N PROVE Follows(start, at[i], bucket) /\ start <= at[i]
        <5>1. PICK t \in Nat : t = d.rows[i].ts /\ at[i] = ChartBucketStart(t, bucket)
          BY <1>6
        <5>2. at[i0] <= at[i] /\ at[i0] \in Int /\ at[i] \in Int
          BY <1>3, <2>1
        <5>3. CASE t0 <= t
          BY <4>1, <4>3, <5>1, <5>2, <5>3, LinesMeet DEF OnLine
        <5>4. CASE t <= t0
          <6>1. OnLine(t, t0, bucket) /\ OnLine(t, t, bucket)
            BY <5>4, LinesMeet
          <6>2. at[i] <= at[i0] /\ Follows(at[i], at[i], bucket)
            BY <4>1, <5>1, <6>1 DEF OnLine
          <6>. QED BY <4>3, <5>2, <6>2
        <5>. QED BY <5>3, <5>4
      <4>. QED BY <3>1, <4>1, <4>3, <4>4
    <3>2. CASE g.from # Nil
      <4>1. PICK t0 \in Nat : t0 = g.from /\ f.from = t0 /\ f.from # Nil
        BY <1>0, <3>2 DEF PageRange
      <4>2. start = ChartBucketStart(t0, bucket)
        BY <3>2, <4>1
      <4>. HIDE DEF start
      <4>3. t0 <= now
        BY <1>6, <2>1, <2>2, <2>3, <4>1
      <4>4. ASSUME NEW i \in N PROVE Follows(start, at[i], bucket) /\ start <= at[i]
        <5>1. PICK t \in Nat : t = d.rows[i].ts /\ at[i] = ChartBucketStart(t, bucket) /\ t0 <= t
          BY <1>6, <4>1
        <5>. QED BY <4>2, <5>1, LinesMeet DEF OnLine
      <4>. QED BY <4>1, <4>2, <4>3, <4>4
    <3>. QED BY <3>1, <3>2
  <2>5. last = ChartBucketStart(now, bucket)
    BY <1>8, <2>3
  <2>. HIDE DEF start, last
  <2>6. last \in Int /\ last <= now /\ start \in Int /\ start <= last
    BY <2>4, <2>5, LinesMeet DEF OnLine
  <2>7. PICK S : S = BucketsFrom(start, last, bucket)
    OBVIOUS
  <2>8. last <= Now
    BY <1>0, <2>3, <2>6
  <2>9. S \in SUBSET Int /\ IsFiniteSet(S)
    BY <2>6, <2>7, <2>8, LineGoesOn
  <2>10. line = Ordered(S)
    BY <2>6, <2>7, <2>8, LineIs
  <2>. HIDE DEF line
  <2>11. ASSUME NEW i \in N PROVE at[i] \in S
    <3>1. PICK t \in Nat : t = d.rows[i].ts /\ t <= now /\ at[i] = ChartBucketStart(t, bucket)
      BY <1>6, <2>2, <2>3
    <3>2. at[i] <= last
      BY <2>5, <3>1, LinesMeet DEF OnLine
    <3>3. at[i] \in Int
      BY <1>3
    <3>. QED BY <2>4, <2>6, <2>7, <3>2, <3>3 DEF BucketsFrom
  <2>12. Len(line) = Cardinality(S) /\ Cardinality(S) \in Nat
    BY <2>9, <2>10, RisingOnce
  <2>13. CASE points = [n \in DOMAIN line |-> PointAt(old, line[n])]
    <3>0. PICK K \in Nat : K = Cardinality(S)
      BY <2>12
    <3>1. /\ DOMAIN points = 1..K /\ Len(points) = K
          /\ \A n \in 1..K : points[n] = PointAt(Points(N, at, e, d), Ordered(S)[n])
      <4>1. DOMAIN line = 1..K
        BY <2>9, <2>10, <3>0, RisingOnce
      <4>2. points = [n \in 1..K |-> PointAt(old, line[n])]
        BY <2>13, <4>1
      <4>3. points = [n \in 1..K |-> points[n]]
        BY <4>2
      <4>4. Len(points) = K /\ DOMAIN points = 1..K
        BY <4>3, LenIs
      <4>. QED BY <1>3, <2>10, <4>2, <4>4
    <3>2. /\ Charted(points, Cardinality(S), N, at, e, d)
          /\ \A n \in 1..Cardinality(S) : points[n].start = Ordered(S)[n]
      <4>1. \A i \in N : at[i] \in Int /\ at[i] \in S
        BY <1>3, <2>11
      <4>2. IsFiniteSet(N) /\ S \in SUBSET Int /\ IsFiniteSet(S)
        BY <1>3, <2>9
      <4>. QED BY <3>0, <3>1, <4>1, <4>2, FilledCharted
    <3>3. Gapless(points, bucket)
      <4>1. Len(points) = Cardinality(S)
        BY <3>2 DEF Charted
      <4>2. ASSUME NEW n \in 2..Cardinality(S)
            PROVE  points[n].start = NextChartBucket(points[n - 1].start, bucket)
        <5>1. Ordered(S)[n] = NextChartBucket(Ordered(S)[n - 1], bucket)
          BY <2>6, <2>7, <2>8, LineIsGapless
        <5>2. n \in 1..Cardinality(S) /\ n - 1 \in 1..Cardinality(S)
          BY <2>12
        <5>. QED BY <3>2, <5>1, <5>2
      <4>. QED BY <4>1, <4>2 DEF Gapless
    <3>. QED BY <3>2, <3>3
  <2>14. CASE points # [n \in DOMAIN line |-> PointAt(old, line[n])]
    <3>1. points = old
      BY <1>7, <2>14
    <3>2. ASSUME bucket = TrendBucket(g, Now), N # {} PROVE FALSE
      <4>1. Cardinality(S) <= MaxBuckets
        BY <2>3, <2>4, <2>5, <2>7, <3>2, LineFits
      <4>2. old # <<>> /\ ~ (last < start) /\ ~ (Len(line) > MaxBuckets)
        <5>1. old # <<>>
          BY <1>3, <3>2, PointsCharted
        <5>2. MaxBuckets \in Nat
          BY ChartAssumption
        <5>. QED BY <2>6, <2>12, <4>1, <5>1, <5>2
      <4>. QED BY <1>7, <2>14, <4>2
    <3>. QED BY <1>4, <1>10, <3>1, <3>2
  <2>. QED BY <2>13, <2>14
<1>. QED BY <1>9, <1>10

-----------------------------------------------------------------------------
(* What a filled chart shows adds up.                                      *)

\* A line of what the requests A measure at each point.
LineOf(m, A, u, points, K, at) ==
  /\ \A i \in A : u[i] \in Nat
  /\ DOMAIN m = 1..K /\ \A n \in 1..K : m[n] = Cardinality(Units(OnPoint(A, at, points[n].start), u))

\* It adds up to what they measure.
LEMMA ChartLine ==
  ASSUME NEW e, NEW d, NEW N, IsFiniteSet(N), NEW at, NEW points, NEW K, Charted(points, K, N, at, e, d),
         NEW A \in SUBSET N, NEW u, NEW m, LineOf(m, A, u, points, K, at)
  PROVE  SumFunction(m) = Cardinality(Units(A, u))
<1>. DEFINE part == [n \in 1..K |-> OnPoint(A, at, points[n].start)]
<1>1. K \in Nat /\ IsFiniteSet(A) /\ IsFiniteSet(1..K)
  BY FS_Subset, CountTo DEF Charted
<1>2. part \in [1..K -> SUBSET A]
  BY DEF OnPoint
<1>3. Apart(1..K, part)
  <2>1. \A k, n \in 1..K : k # n => points[k].start # points[n].start
    BY DEF Charted
  <2>. QED BY <2>1 DEF Apart, OnPoint
<1>4. Covered(1..K, part) = A
  <2>1. \A i \in A : \E n \in 1..K : points[n].start = at[i]
    BY DEF Charted
  <2>. QED BY <2>1 DEF Covered, OnPoint
<1>5. DOMAIN m = 1..K /\ (\A i \in A : u[i] \in Nat) /\ \A n \in 1..K : m[n] = Cardinality(Units(part[n], u))
  BY DEF LineOf
<1>. HIDE DEF part
<1>. QED BY <1>1, <1>2, <1>3, <1>4, <1>5, SharedUnits

\* Every request is shown once.
LEMMA RequestsShown ==
  ASSUME NEW e, NEW d, NEW N, IsFiniteSet(N), NEW at, NEW points, NEW K, Charted(points, K, N, at, e, d)
  PROVE  SumFunction([n \in DOMAIN points |-> points[n].total.requests]) = Cardinality(N)
<1>. DEFINE m == [n \in DOMAIN points |-> points[n].total.requests]
            u == [i \in N |-> 1]
<1>1. DOMAIN points = 1..K /\ DOMAIN m = 1..K
  BY DEF Charted
<1>2. ASSUME NEW A \in SUBSET N PROVE Cardinality(Units(A, u)) = Cardinality(A)
  <2>1. IsFiniteSet(A) /\ \A i \in A : u[i] = IF i \in A THEN 1 ELSE 0
    BY FS_Subset
  <2>. HIDE DEF u
  <2>. QED BY <2>1, OnesAre
<1>3. ASSUME NEW n \in 1..K PROVE m[n] = Cardinality(Units(OnPoint(N, at, points[n].start), u))
  <2>1. m[n] = Cardinality(OnPoint(N, at, points[n].start))
    <3>1. m[n] = points[n].total.requests
      BY <1>1
    <3>2. points[n].total = Total(OnPoint(N, at, points[n].start), e, d)
      BY DEF Charted
    <3>. QED BY <3>1, <3>2 DEF Total
  <2>2. OnPoint(N, at, points[n].start) \in SUBSET N
    BY DEF OnPoint
  <2>. HIDE DEF m, u
  <2>. QED BY <1>2, <2>1, <2>2
<1>4. N \in SUBSET N /\ \A i \in N : u[i] \in Nat
  OBVIOUS
<1>. HIDE DEF m, u
<1>5. LineOf(m, N, u, points, K, at)
  BY <1>1, <1>3, <1>4 DEF LineOf
<1>6. SumFunction(m) = Cardinality(Units(N, u))
  BY <1>4, <1>5, ChartLine
<1>. QED BY <1>2, <1>4, <1>6 DEF m

\* Moving the facts of a query to the buckets of a chart leaves the rest of
\* them as it was.
LEMMA MovedFact ==
  ASSUME NEW e, NEW d, NEW r, NEW f, NEW hourly \in BOOLEAN, NEW x \in QueryFacts(e, d, r, f, hourly),
         NEW b, NEW y, y = [x EXCEPT !.bucket = b]
  PROVE  /\ y.bucket = b /\ y.of = x.of /\ y.key = x.key /\ y.requests = x.requests /\ y.sums = x.sums
         /\ y.first = x.first /\ y.last = x.last
<1>1. CASE \E N : x \in RawFacts(e, d, r, N, hourly)
  BY <1>1 DEF RawFacts
<1>2. CASE x \in RolledFacts(d, r, f)
  BY <1>2 DEF RolledFacts
<1>. QED BY <1>1, <1>2 DEF QueryFacts

MovedTo(all, bucket) == {[x EXCEPT !.bucket = BucketStart(@, bucket)] : x \in all}

LEMMA MovedAccount ==
  ASSUME NEW e, NEW d, NEW M, NEW r, NEW f, NEW hourly \in BOOLEAN, NEW all, all = QueryFacts(e, d, r, f, hourly),
         Accounts(all, M, e, d, r), NEW axis, Bucketed(all, axis, d, r), NEW bucket,
         NEW at, \A i \in M : at[i] = BucketStart(axis[i], bucket)
  PROVE  Accounts(MovedTo(all, bucket), M, e, d, r) /\ Bucketed(MovedTo(all, bucket), at, d, r)
<1>. DEFINE moved == MovedTo(all, bucket)
            Move(x) == [x EXCEPT !.bucket = BucketStart(@, bucket)]
<1>1. ASSUME NEW x \in all
      PROVE  /\ Move(x).bucket = BucketStart(x.bucket, bucket)
             /\ RowsOf(d, r, Move(x)) = RowsOf(d, r, x)
             /\ SpeaksFor(Move(x), RowsOf(d, r, x), e, d, r)
  <2>1. Move(x) = [x EXCEPT !.bucket = BucketStart(x.bucket, bucket)]
    OBVIOUS
  <2>. HIDE DEF Move
  <2>2. /\ Move(x).bucket = BucketStart(x.bucket, bucket) /\ Move(x).of = x.of /\ Move(x).key = x.key
        /\ Move(x).requests = x.requests /\ Move(x).sums = x.sums
        /\ Move(x).first = x.first /\ Move(x).last = x.last
    BY <2>1, MovedFact
  <2>3. RowsOf(d, r, Move(x)) = RowsOf(d, r, x)
    BY <2>2 DEF RowsOf
  <2>4. SpeaksFor(x, RowsOf(d, r, x), e, d, r)
    BY DEF Accounts
  <2>. QED BY <2>2, <2>3, <2>4 DEF SpeaksFor
<1>2. moved = {Move(x) : x \in all}
  BY DEF MovedTo
<1>. HIDE DEF Move, moved
<1>3. ASSUME NEW y \in moved
      PROVE  RowsOf(d, r, y) \in SUBSET M /\ SpeaksFor(y, RowsOf(d, r, y), e, d, r)
  <2>1. PICK x \in all : y = Move(x)
    BY <1>2
  <2>. QED BY <1>1, <2>1 DEF Accounts
<1>4. ASSUME NEW y \in moved, NEW z \in moved, y # z
      PROVE  RowsOf(d, r, y) \cap RowsOf(d, r, z) = {}
  <2>1. PICK x \in all, w \in all : y = Move(x) /\ z = Move(w)
    BY <1>2
  <2>2. x # w
    BY <1>4, <2>1
  <2>. QED BY <1>1, <2>1, <2>2 DEF Accounts
<1>5. ASSUME NEW i \in M PROVE \E y \in moved : i \in RowsOf(d, r, y)
  <2>1. PICK x \in all : i \in RowsOf(d, r, x)
    BY DEF Accounts
  <2>. QED BY <1>1, <1>2, <2>1
<1>6. ASSUME NEW y \in moved, NEW i \in RowsOf(d, r, y) PROVE y.bucket = at[i]
  <2>1. PICK x \in all : y = Move(x)
    BY <1>2
  <2>2. i \in M /\ i \in RowsOf(d, r, x)
    BY <1>1, <1>3, <2>1
  <2>3. x.bucket = axis[i]
    BY <2>2 DEF Bucketed
  <2>. QED BY <1>1, <2>1, <2>2, <2>3
<1>. QED BY <1>3, <1>4, <1>5, <1>6 DEF Accounts, Bucketed, moved

\* The requests of a harness.
FromSource(d, N, s) == {i \in N : d.rows[i].source = s}

SourcePointOf(N, at, c, s, e, d) ==
  [start |-> c, source |-> s, total |-> Total(OnPoint(FromSource(d, N, s), at, c), e, d)]

SourcePoints(N, at, e, d) == {SourcePointOf(N, at, at[i], d.rows[i].source, e, d) : i \in N}

\* The points of each harness have what its requests of the bucket add up to.
LEMMA SourcePointsAre ==
  ASSUME NEW e, NEW d, NEW M \in SUBSET Ids, NEW all, Accounts(all, M, e, d, "usage_daily"),
         NEW at, Bucketed(all, at, d, "usage_daily")
  PROVE  BySource(all) = SourcePoints(M, at, e, d)
<1>1. PICK r : r = "usage_daily"
  OBVIOUS
<1>2. \A i : KeyOf(r, d.rows[i]).source = d.rows[i].source
  BY <1>1 DEF KeyOf
<1>3. ASSUME NEW x \in all, NEW i \in RowsOf(d, r, x)
      PROVE  i \in M /\ x.bucket = at[i] /\ x.key.source = d.rows[i].source
  <2>1. i \in M /\ KeyOf(r, d.rows[i]) = x.key
    BY <1>1 DEF Accounts, SpeaksFor
  <2>2. x.bucket = at[i]
    BY <1>1 DEF Bucketed
  <2>. QED BY <1>2, <2>1, <2>2
<1>4. ASSUME NEW c, NEW s
      PROVE  Totals({x \in all : x.bucket = c /\ x.key.source = s}) = Total(OnPoint(FromSource(d, M, s), at, c), e, d)
  <2>. DEFINE some == {x \in all : x.bucket = c /\ x.key.source = s}
  <2>1. SpokenFor(some, d, r) = OnPoint(FromSource(d, M, s), at, c)
    <3>1. ASSUME NEW i \in OnPoint(FromSource(d, M, s), at, c) PROVE i \in SpokenFor(some, d, r)
      <4>1. i \in M /\ at[i] = c /\ d.rows[i].source = s
        BY DEF OnPoint, FromSource
      <4>2. PICK x \in all : i \in RowsOf(d, r, x)
        BY <1>1, <4>1 DEF Accounts
      <4>3. x \in some
        BY <1>3, <4>1, <4>2
      <4>. QED BY <4>2, <4>3 DEF SpokenFor
    <3>2. ASSUME NEW x \in some, NEW i \in RowsOf(d, r, x) PROVE i \in OnPoint(FromSource(d, M, s), at, c)
      BY <1>3 DEF OnPoint, FromSource
    <3>. HIDE DEF some
    <3>. QED BY <3>1, <3>2 DEF SpokenFor
  <2>2. some \in SUBSET all
    OBVIOUS
  <2>. HIDE DEF some
  <2>3. PartIs(some, M, e, d, r)
    BY <1>1, <2>2, PartTotals, Zenon
  <2>. QED BY <2>1, <2>3 DEF PartIs, some
<1>. DEFINE places == {<<x.bucket, x.key.source>> : x \in all}
            taken  == {<<at[i], d.rows[i].source>> : i \in M}
<1>5. places = taken
  <2>1. ASSUME NEW x \in all PROVE \E i \in M : <<x.bucket, x.key.source>> = <<at[i], d.rows[i].source>>
    <3>1. PICK i \in RowsOf(d, r, x) : i \in M
      BY <1>1 DEF Accounts, SpeaksFor
    <3>. QED BY <1>3, <3>1
  <2>2. ASSUME NEW i \in M PROVE \E x \in all : <<x.bucket, x.key.source>> = <<at[i], d.rows[i].source>>
    <3>1. PICK x \in all : i \in RowsOf(d, r, x)
      BY <1>1 DEF Accounts
    <3>. QED BY <1>3, <3>1
  <2>. QED BY <2>1, <2>2
<1>. DEFINE PointFor(p) ==
              [start |-> p[1], source |-> p[2],
               total |-> Totals({x \in all : x.bucket = p[1] /\ x.key.source = p[2]})]
<1>6. BySource(all) = {PointFor(p) : p \in places}
  BY DEF BySource
<1>7. \A i \in M : PointFor(<<at[i], d.rows[i].source>>) = SourcePointOf(M, at, at[i], d.rows[i].source, e, d)
  BY <1>4 DEF SourcePointOf
<1>. HIDE DEF PointFor, places
<1>8. {PointFor(p) : p \in taken} = {PointFor(<<at[i], d.rows[i].source>>) : i \in M}
  OBVIOUS
<1>. HIDE DEF taken
<1>. QED BY <1>5, <1>6, <1>7, <1>8 DEF SourcePoints

\* What a line adds up at a point.
TokensShown(points) == SumOf(points, LAMBDA p : TotalTokens(p.total))

LEMMA PointTokens ==
  ASSUME NEW S, IsFiniteSet(S), NEW g, SumsUp(g, S, [p \in S |-> TotalTokens(p.total)])
  PROVE  TokensShown(S) = g[S]
<1>. DEFINE m == [p \in S |-> TotalTokens(p.total)]
            Rec(h) == h = [s \in SUBSET S |->
                        IF s = {} THEN 0
                        ELSE TotalTokens((CHOOSE x \in s : TRUE).total) + h[s \ {CHOOSE x \in s : TRUE}]]
            fold == CHOOSE h : Rec(h)
<1>1. TokensShown(S) = fold[S]
  BY DEF TokensShown, SumOf, MapThenSumSet, MapThenFoldSet
<1>2. \A s \in SUBSET S : s # {} => m[CHOOSE x \in s : TRUE] = TotalTokens((CHOOSE x \in s : TRUE).total)
  OBVIOUS
<1>3. \A h : SumsUp(h, S, m) <=> Rec(h)
  BY <1>2 DEF SumsUp
<1>4. SumsUp(fold, S, m)
  <2>1. SumsUp(g, S, m)
    OBVIOUS
  <2>. HIDE DEF Rec, m
  <2>2. Rec(g)
    BY <1>3, <2>1
  <2>3. Rec(fold)
    BY <2>2, Zenon
  <2>. QED BY <1>3, <2>3
<1>. HIDE DEF fold
<1>. QED BY <1>1, <1>4, OneSum

\* It is what the harness's requests there have, which make one point or none.
LEMMA SourceTokens ==
  ASSUME NEW e, NEW d, d.rows \in Rows, NEW N \in SUBSET Stored(d.rows), IsFiniteSet(N), NEW at,
         NEW all, all = SourcePoints(N, at, e, d), NEW c, NEW s
  PROVE  TokensShown({p \in all : p.source = s /\ p.start = c})
           = Cardinality(Units(OnPoint(FromSource(d, N, s), at, c), TokensAt(e, d)))
<1>. DEFINE S == {p \in all : p.source = s /\ p.start = c}
            P == SourcePointOf(N, at, c, s, e, d)
            A == OnPoint(FromSource(d, N, s), at, c)
            T == Units(A, TokensAt(e, d))
            m == [p \in S |-> TotalTokens(p.total)]
            part == [p \in S |-> T]
<1>1. \A i : i \in A <=> i \in N /\ d.rows[i].source = s /\ at[i] = c
  BY DEF OnPoint, FromSource
<1>2. P.total = Total(A, e, d) /\ \A x, y : /\ SourcePointOf(N, at, x, y, e, d).start = x
                                            /\ SourcePointOf(N, at, x, y, e, d).source = y
  BY DEF SourcePointOf
<1>3. S = IF A = {} THEN {} ELSE {P}
  <2>1. ASSUME NEW p \in S PROVE p = P /\ A # {}
    <3>1. PICK i \in N : p = SourcePointOf(N, at, at[i], d.rows[i].source, e, d)
      BY DEF SourcePoints
    <3>2. at[i] = c /\ d.rows[i].source = s
      BY <1>2, <3>1
    <3>. QED BY <1>1, <3>1, <3>2
  <2>2. ASSUME NEW i \in A PROVE P \in S
    <3>1. P \in all
      BY <1>1 DEF SourcePoints
    <3>. QED BY <1>2, <3>1
  <2>. HIDE DEF S, P, A
  <2>. QED BY <2>1, <2>2
<1>. HIDE DEF S, P, A
<1>4. /\ IsFiniteSet(A) /\ IsFiniteSet(T)
      /\ TotalTokens(Total(A, e, d)) = Cardinality(T)
  <2>1. A \in SUBSET N
    BY <1>1
  <2>2. IsFiniteSet(A) /\ A \in SUBSET Stored(d.rows)
    BY <2>1, FS_Subset
  <2>3. \A i \in A : TokensAt(e, d)[i] \in Nat
    BY <2>2, TokensAre
  <2>. QED BY <2>2, <2>3, TokensAre, UnitsAre
<1>5. IsFiniteSet(S)
  BY <1>3, FS_EmptySet, FS_Singleton
<1>6. Covered(S, part) = T
  <2>1. A = {} => T = {}
    BY DEF Units
  <2>. HIDE DEF T
  <2>. QED BY <1>3, <2>1 DEF Covered
<1>. HIDE DEF T
<1>7. part \in [S -> SUBSET T] /\ Apart(S, part)
  BY <1>3 DEF Apart
<1>8. \A p \in S : m[p] = Cardinality(part[p])
  BY <1>2, <1>3, <1>4
<1>. HIDE DEF part, m
<1>9. PICK g : SumsUp(g, S, m) /\ g[S] = Cardinality(T)
  BY <1>4, <1>6, <1>7, <1>8, SumOfParts
<1>10. TokensShown(S) = Cardinality(T)
  BY <1>5, <1>9, PointTokens DEF m
<1>. QED BY <1>10 DEF S, T, A

LEMMA SourceSeriesIs ==
  ASSUME NEW e, NEW d, Sound(e, d), NEW f, Bounds(f), NEW bucket \in Buckets,
         NEW N, N = Selected(d, f), NEW at, at = ChartAxis(d, N, bucket)
  PROVE  TimeseriesBySource(e, d, f, bucket) = SourcePoints(N, at, e, d)
<1>1. PICK r \in Rollups : r = "usage_daily"
  BY DEF Rollups
<1>2. PICK hourly \in BOOLEAN : hourly = (bucket = "hour")
  OBVIOUS
<1>3. PICK all : all = QueryFacts(e, d, r, f, hourly)
  OBVIOUS
<1>4. PICK axis : axis = AxisOf(d, N, hourly)
  OBVIOUS
<1>5. N \in SUBSET Ids
  BY DEF Selected, Stored
<1>6. Accounts(all, N, e, d, r)
  BY <1>3, QueriesAccount DEF Sound
<1>7. Bucketed(all, axis, d, r)
  BY <1>3, <1>4, <1>6, QueriesBucketed
<1>8. \A i \in N : at[i] = BucketStart(axis[i], bucket)
  <2>1. CASE bucket \in {"hour", "day"}
    BY <1>2, <1>4, <2>1 DEF ChartAxis, AxisOf, BucketStart
  <2>2. CASE bucket \notin {"hour", "day"}
    BY <1>2, <1>4, <2>2 DEF ChartAxis, AxisOf
  <2>. QED BY <2>1, <2>2
<1>9. PICK moved : moved = MovedTo(all, bucket)
  OBVIOUS
<1>10. Accounts(moved, N, e, d, r) /\ Bucketed(moved, at, d, r)
  BY <1>3, <1>6, <1>7, <1>8, <1>9, MovedAccount
<1>11. BySource(moved) = SourcePoints(N, at, e, d)
  BY <1>1, <1>5, <1>10, SourcePointsAre
<1>12. TimeseriesBySource(e, d, f, bucket) = BySource(moved)
  BY <1>1, <1>2, <1>3, <1>9 DEF TimeseriesBySource, MovedTo
<1>. QED BY <1>11, <1>12

\* The lines of a chart add up to the tokens of the summary.
LEMMA SourcesShown ==
  ASSUME NEW e, NEW d, Sound(e, d), NEW f, Bounds(f), NEW bucket \in Buckets,
         NEW N, N = Selected(d, f), NEW at, at = ChartAxis(d, N, bucket),
         NEW points, NEW K, Charted(points, K, N, at, e, d),
         NEW lines, lines = SourceChart(TimeseriesBySource(e, d, f, bucket), points)
  PROVE  SumFunction([s \in DOMAIN lines |-> SumFunction([n \in DOMAIN points |-> lines[s][n]])])
           = TotalTokens(Total(N, e, d))
<1>. DEFINE u == TokensAt(e, d)
            m == [s \in DOMAIN lines |-> SumFunction([n \in DOMAIN points |-> lines[s][n]])]
            part == [s \in DOMAIN lines |-> FromSource(d, N, s)]
<1>1. d.rows \in Rows /\ N \in SUBSET Stored(d.rows) /\ IsFiniteSet(N)
  <2>1. N \in SUBSET Stored(d.rows)
    BY DEF Selected
  <2>2. N \in SUBSET Ids
    BY <2>1 DEF Stored
  <2>. QED BY <2>1, <2>2, FactsAssumption, FS_Subset DEF Sound
<1>2. TotalTokens(Total(N, e, d)) = Cardinality(Units(N, u)) /\ \A i \in N : u[i] \in Nat
  BY <1>1, TokensAre
<1>. HIDE DEF u
<1>3. PICK all : all = TimeseriesBySource(e, d, f, bucket) /\ all = SourcePoints(N, at, e, d)
  BY SourceSeriesIs
<1>4. {p.source : p \in all} = {d.rows[i].source : i \in N}
  <2>1. \A i \in N : SourcePointOf(N, at, at[i], d.rows[i].source, e, d).source = d.rows[i].source
    BY DEF SourcePointOf
  <2>. QED BY <1>3, <2>1 DEF SourcePoints
<1>5. DOMAIN lines = {d.rows[i].source : i \in N}
  BY <1>3, <1>4 DEF SourceChart
<1>6. ASSUME NEW s \in DOMAIN lines, NEW n \in DOMAIN points
      PROVE  lines[s][n] = Cardinality(Units(OnPoint(FromSource(d, N, s), at, points[n].start), u))
  <2>1. lines[s][n] = TokensShown({p \in all : p.source = s /\ p.start = points[n].start})
    <3>1. s \in {p.source : p \in all}
      BY <1>4, <1>5
    <3>. QED BY <1>3, <3>1 DEF SourceChart, TokensShown
  <2>. QED BY <1>1, <1>3, <2>1, SourceTokens DEF u
<1>7. ASSUME NEW s \in DOMAIN lines PROVE m[s] = Cardinality(Units(FromSource(d, N, s), u))
  <2>. DEFINE line == [n \in DOMAIN points |-> lines[s][n]]
              A == FromSource(d, N, s)
  <2>1. A \in SUBSET N /\ \A i \in A : u[i] \in Nat
    BY <1>2 DEF FromSource
  <2>2. DOMAIN points = 1..K
    BY DEF Charted
  <2>. HIDE DEF A
  <2>3. DOMAIN line = 1..K /\ \A n \in 1..K : line[n] = Cardinality(Units(OnPoint(A, at, points[n].start), u))
    BY <1>6, <2>2 DEF A
  <2>. HIDE DEF line
  <2>4. LineOf(line, A, u, points, K, at)
    BY <2>1, <2>3 DEF LineOf
  <2>5. SumFunction(line) = Cardinality(Units(A, u))
    BY <1>1, <2>1, <2>4, ChartLine
  <2>. QED BY <2>5 DEF line, A
<1>8. IsFiniteSet(DOMAIN lines)
  <2>. DEFINE from == [i \in N |-> d.rows[i].source]
  <2>1. from \in Surjection(N, DOMAIN lines)
    BY <1>5 DEF Surjection
  <2>. QED BY <1>1, <2>1, FS_Surjection
<1>9. part \in [DOMAIN lines -> SUBSET N] /\ Apart(DOMAIN lines, part) /\ Covered(DOMAIN lines, part) = N
  <2>1. \A s : \A i : i \in FromSource(d, N, s) <=> i \in N /\ d.rows[i].source = s
    BY DEF FromSource
  <2>2. part \in [DOMAIN lines -> SUBSET N]
    BY <2>1
  <2>3. \A s \in DOMAIN lines : part[s] = FromSource(d, N, s)
    OBVIOUS
  <2>. HIDE DEF part
  <2>4. Apart(DOMAIN lines, part)
    BY <2>1, <2>3 DEF Apart
  <2>5. Covered(DOMAIN lines, part) = N
    <3>1. \A s \in DOMAIN lines : part[s] \in SUBSET N
      BY <2>2
    <3>2. \A i \in N : d.rows[i].source \in DOMAIN lines /\ i \in part[d.rows[i].source]
      BY <1>5, <2>1, <2>3
    <3>. QED BY <3>1, <3>2 DEF Covered
  <2>. QED BY <2>2, <2>4, <2>5
<1>10. DOMAIN m = DOMAIN lines /\ \A s \in DOMAIN lines : m[s] = Cardinality(Units(part[s], u))
  BY <1>7
<1>. HIDE DEF m, part
<1>11. SumFunction(m) = Cardinality(Units(N, u))
  BY <1>1, <1>2, <1>8, <1>9, <1>10, SharedUnits
<1>. QED BY <1>2, <1>11 DEF m

\* The range of a page that does not reach past the present.
LEMMA PageRangeIs ==
  ASSUME NEW u \in Answered, u.to # Nil => u.to <= Now
  PROVE  PageRange(ParseFilter(u, Now), Normalized(ParseFilter(u, Now), Now))
<1>. DEFINE g == ParseFilter(u, Now)
<1>1. u \in Uis /\ u.range \in Ranges /\ u.from \in Int \cup {Nil} /\ u.to \in Int \cup {Nil}
  BY ReaderAssumption DEF Answered
<1>2. u.from \in Nat \cup {Nil}
  BY <1>1, ChartAssumption
<1>3. RangeStart(u.range, Now) \in Nat \cup {Nil}
  <2>1. DayLength \in Nat /\ DayLength > 0 /\ Now \in Nat /\ Now >= 30 * DayLength
    BY FactsAssumption, ReaderAssumption, ChartAssumption
  <2>2. Now - 7 * DayLength \in Nat /\ Now - 30 * DayLength \in Nat
    BY <2>1
  <2>3. Day(Now) \in Nat /\ StartOfMonth(Now) \in Nat
    BY <2>1, BucketsRise, MonthBegan
  <2>. QED BY <1>1, <2>2, <2>3 DEF Ranges, RangeStart
<1>4. g.from \in Nat \cup {Nil} /\ g.to = u.to
  BY <1>2, <1>3 DEF ParseFilter, Dims
<1>5. /\ Normalized(g, Now).from = g.from
      /\ Normalized(g, Now).to = Coalesce(g.to, Now)
  BY DEF ParseFilter, Dims, Normalized
<1>. HIDE DEF g
<1>6. PageRange(g, Normalized(g, Now))
  BY <1>1, <1>4, <1>5 DEF PageRange
<1>. QED BY <1>6 DEF g

\* A chart filled with idle buckets shows every request, and each harness's
\* tokens, whatever the range, the bucket and the database; at the resolution
\* of its range it leaves no bucket out (fillTimeseries, buildSourceChart).
THEOREM ChartsAreWhole == ReaderSpec => []ChartsShowAll
<1>1. (mode = "serving" => Sound(release, before)) => ChartsShowAll
  <2>. SUFFICES ASSUME Sound(release, before), NEW u \in Answered, u.to # Nil => u.to <= Now, NEW bucket \in Buckets
                PROVE
    LET trends  == Trends(release, before, u, bucket, Now)
        summary == Summary(release, before, Normalized(ParseFilter(u, Now), Now))
        line(s) == SumFunction([n \in DOMAIN trends.points |-> trends.sources[s][n]])
        gapless == \A n \in 2..Len(trends.points) :
                     trends.points[n].start = NextChartBucket(trends.points[n - 1].start, bucket)
    IN  /\ SumFunction([n \in DOMAIN trends.points |-> trends.points[n].total.requests]) = summary.requests
        /\ bucket = TrendBucket(ParseFilter(u, Now), Now) => gapless
        /\ SumFunction([s \in DOMAIN trends.sources |-> line(s)]) = TotalTokens(summary)
    BY Zenon DEF ChartsShowAll, Quiet
  <2>1. PICK g, f : g = ParseFilter(u, Now) /\ f = Normalized(ParseFilter(u, Now), Now)
    OBVIOUS
  <2>2. PageRange(g, f)
    BY <2>1, PageRangeIs
  <2>3. Bounds(f)
    <3>1. f \in Filters
      BY <2>1 DEF Filters
    <3>. QED BY <3>1, FiltersAreBounded
  <2>4. PICK points : points = FillTimeseries(Timeseries(release, before, f, bucket), g, bucket, Now)
    OBVIOUS
  <2>5. PICK lines : lines = SourceChart(TimeseriesBySource(release, before, f, bucket), points)
    OBVIOUS
  <2>6. PICK trends : trends = Trends(release, before, u, bucket, Now)
    OBVIOUS
  <2>7. trends.points = points /\ trends.sources = lines
    BY <2>1, <2>4, <2>5, <2>6 DEF Trends
  <2>8. PICK N, at : N = Selected(before, f) /\ at = ChartAxis(before, N, bucket)
    OBVIOUS
  <2>9. (\E K : Charted(points, K, N, at, release, before)) /\ (bucket = TrendBucket(g, Now) => Gapless(points, bucket))
    BY <2>2, <2>4, <2>8, ChartFilled
  <2>10. PICK K : Charted(points, K, N, at, release, before)
    BY <2>9
  <2>11. IsFiniteSet(N)
    <3>1. N \in SUBSET Ids
      BY <2>8 DEF Selected, Stored
    <3>. QED BY <3>1, FactsAssumption, FS_Subset
  <2>12. Summary(release, before, f) = Total(N, release, before)
    BY <2>3, <2>8, SummaryCounts DEF SummaryIs
  <2>13. SumFunction([n \in DOMAIN points |-> points[n].total.requests]) = Summary(release, before, f).requests
    <3>1. SumFunction([n \in DOMAIN points |-> points[n].total.requests]) = Cardinality(N)
      BY <2>10, <2>11, RequestsShown
    <3>2. Total(N, release, before).requests = Cardinality(N)
      BY DEF Total
    <3>. QED BY <2>12, <3>1, <3>2
  <2>14. SumFunction([s \in DOMAIN lines |-> SumFunction([n \in DOMAIN points |-> lines[s][n]])])
           = TotalTokens(Summary(release, before, f))
    <3>1. SumFunction([s \in DOMAIN lines |-> SumFunction([n \in DOMAIN points |-> lines[s][n]])])
            = TotalTokens(Total(N, release, before))
      BY <2>3, <2>5, <2>8, <2>10, SourcesShown
    <3>. QED BY <2>12, <3>1
  <2>. QED BY <2>1, <2>6, <2>7, <2>9, <2>13, <2>14 DEF Gapless
<1>. QED BY <1>1, ReadersOnly, ReadersSeeSound, PTL
=============================================================================
