------------------------- MODULE RecommendIndexProofs -------------------------
(***************************************************************************)
(* What an index report is, for every snapshot, every advice and every      *)
(* limit: the aggregation, the loops over statements and advice, the order. *)
(***************************************************************************)
EXTENDS RecommendIndex, DataLemmas

SampleRow == [schema : {r.schema : r \in SummaryRows}, digest : Nat,
              sql : {r.sql : r \in SummaryRows}, plan : {r.plan : r \in SummaryRows},
              execCount : Nat, execTime : Nat]

CountsOf(infos) == [i \in DOMAIN infos |-> infos[i].execCount]
TimesOf(infos) == [i \in DOMAIN infos |-> infos[i].execTime]

\* Those of the first n rows that have that key.
RowsWith(raw, n, key) == {j \in 1 .. n : Key(raw[j]) = key}

\* info stands for its group among the first n rows: it has the counts of all of them.
IsGroup(info, raw, n) ==
  LET mine == RowsWith(raw, n, Key(info))
  IN /\ mine # {}
     /\ info.execCount = SumOver(CountsOf(raw), mine)
     /\ info.execTime = SumOver(TimesOf(raw), mine)

\* One statement for each group of the first n rows.
IsAggregate(infos, raw, n) ==
  /\ infos \in Seq(SampleRow)
  /\ \A a, b \in DOMAIN infos : Key(infos[a]) = Key(infos[b]) => a = b
  /\ \A a \in DOMAIN infos : IsGroup(infos[a], raw, n)
  /\ \A j \in 1 .. n : \E a \in DOMAIN infos : Key(infos[a]) = Key(raw[j])
-----------------------------------------------------------------------------
\* The fold of aggregateAndSortSamples: one unfolding, and the function that solves it.
SampleStep(g, raw, s) ==
  IF s = {} THEN << >> ELSE AddToSample(g[s \ {Max(s)}], raw[Max(s)])
SampleTable(raw) == CHOOSE g : g = [s \in SUBSET (DOMAIN raw) |-> SampleStep(g, raw, s)]

\* The fold of the community modules, unfolded.
LEMMA FoldIsSampleTable ==
  ASSUME NEW raw
  PROVE  FoldLeft(AddToSample, << >>, raw) = SampleTable(raw)[DOMAIN raw]
  BY DEF FoldLeft, MapThenFoldSet, SampleTable, SampleStep

\* A row either starts a group or adds its counts to the one it belongs to.
LEMMA AddToSampleIs ==
  ASSUME NEW infos \in Seq(SampleRow), NEW row \in SampleRow
  PROVE  /\ (\A a \in DOMAIN infos : Key(infos[a]) # Key(row)) =>
              AddToSample(infos, row) = Append(infos, row)
         /\ (\E a \in DOMAIN infos : Key(infos[a]) = Key(row)) =>
              \E at \in DOMAIN infos :
                /\ Key(infos[at]) = Key(row)
                /\ AddToSample(infos, row) =
                     [infos EXCEPT ![at].execCount = @ + row.execCount,
                                   ![at].execTime = @ + row.execTime]
  <1> DEFINE I == {i \in 1 .. Len(infos) : SameSample(infos[i], row)}
             at == IF I # {} THEN Min(I) ELSE 0
  <1>1. AddToSample(infos, row) =
          IF at = 0 THEN Append(infos, row)
          ELSE [infos EXCEPT ![at].execCount = @ + row.execCount,
                             ![at].execTime = @ + row.execTime]
    BY DEF AddToSample, SelectInSeq
  <1>2. DOMAIN infos = 1 .. Len(infos) /\ Len(infos) \in Nat
    OBVIOUS
  <1>3. I = {a \in DOMAIN infos : Key(infos[a]) = Key(row)}
    BY <1>2 DEF SameSample
  <1>4. ASSUME I # {} PROVE Min(I) \in I
    <2>1. I \in SUBSET Nat
      BY <1>2
    <2> HIDE DEF I
    <2> QED
      BY <1>4, <2>1, MinIsLeast
  <1>5. I # {} => at \in I /\ at # 0
    <2>1. 0 \notin I
      OBVIOUS
    <2> HIDE DEF I
    <2> QED
      BY <1>4, <2>1
  <1>6. I = {} => at = 0
    OBVIOUS
  <1> HIDE DEF at, I
  <1> QED
    BY <1>1, <1>3, <1>5, <1>6

\* What AddToSample makes of a list of statements is one again.
LEMMA AddToSampleType ==
  ASSUME NEW infos \in Seq(SampleRow), NEW row \in SampleRow
  PROVE  AddToSample(infos, row) \in Seq(SampleRow)
  <1>1. CASE \A a \in DOMAIN infos : Key(infos[a]) # Key(row)
    <2>1. AddToSample(infos, row) = Append(infos, row)
      BY <1>1, AddToSampleIs
    <2> QED
      BY <2>1
  <1>2. CASE \E a \in DOMAIN infos : Key(infos[a]) = Key(row)
    <2>1. PICK at \in DOMAIN infos :
            AddToSample(infos, row) = [infos EXCEPT ![at].execCount = @ + row.execCount,
                                                   ![at].execTime = @ + row.execTime]
      BY <1>2, AddToSampleIs
    <2>2. infos[at] \in SampleRow
      OBVIOUS
    <2> DEFINE count == infos[at].execCount + row.execCount
               time == infos[at].execTime + row.execTime
               new == [infos[at] EXCEPT !.execCount = count, !.execTime = time]
    <2>3. new \in SampleRow
      <3>1. count \in Nat /\ time \in Nat
        <4>1. /\ infos[at].execCount \in Nat /\ infos[at].execTime \in Nat
              /\ row.execCount \in Nat /\ row.execTime \in Nat
          BY ONLY <2>2, row \in SampleRow DEF SampleRow
        <4> QED
          BY ONLY <4>1
      <3> HIDE DEF count, time
      <3> QED
        BY <2>2, <3>1 DEF SampleRow
    <2>4. AddToSample(infos, row) = [infos EXCEPT ![at] = new]
      BY <2>1
    <2> HIDE DEF new
    <2> QED
      BY <2>3, <2>4
  <1> QED
    BY <1>1, <1>2

\* So the fold over any snapshot has a value, row by row.
LEMMA SampleTableEquation ==
  ASSUME NEW raw \in Seq(SampleRow), NEW s \in SUBSET (DOMAIN raw)
  PROVE  SampleTable(raw)[s] = SampleStep(SampleTable(raw), raw, s)
  <1> DEFINE n == Len(raw)
             V == Seq(SampleRow)
             G == [x \in V \X (1 .. n) |-> AddToSample(x[1], raw[x[2]])]
             base == << >>
  <1>1. n \in Nat /\ DOMAIN raw = 1 .. n /\ base \in V
    OBVIOUS
  <1>2. G \in [V \X (1 .. n) -> V]
    <2> SUFFICES ASSUME NEW x \in V \X (1 .. n) PROVE AddToSample(x[1], raw[x[2]]) \in V
      OBVIOUS
    <2>1. x[1] \in Seq(SampleRow) /\ raw[x[2]] \in SampleRow
      BY <1>1
    <2> QED
      BY <2>1, AddToSampleType
  <1>3. \A v \in V, i \in 1 .. n : G[<<v, i>>] = AddToSample(v, raw[i])
    OBVIOUS
  <1> HIDE DEF n, V, G, base
  <1>4. PICK h : IsFold(h, n, V, base, G)
    BY ONLY <1>1, <1>2, FoldExists
  <1>5. ASSUME NEW u \in SUBSET (1 .. n) PROVE h[u] = SampleStep(h, raw, u)
    <2>1. CASE u = {}
      BY <1>4, <2>1 DEF SampleStep, IsFold, base
    <2>2. CASE u # {}
      <3>1. Max(u) \in 1 .. n /\ h[u \ {Max(u)}] \in V
        <4>1. Max(u) \in u
          BY <1>1, <2>2, MaxIsGreatest
        <4> QED
          BY <1>4, <4>1 DEF IsFold
      <3>2. h[u] = G[<<h[u \ {Max(u)}], Max(u)>>]
        BY <1>4, <2>2 DEF IsFold
      <3> QED
        BY <1>3, <2>2, <3>1, <3>2 DEF SampleStep
    <2> QED
      BY <2>1, <2>2
  <1>6. h = [u \in SUBSET (DOMAIN raw) |-> SampleStep(h, raw, u)]
    BY <1>1, <1>4, <1>5 DEF IsFold
  <1>7. SampleTable(raw) = [u \in SUBSET (DOMAIN raw) |-> SampleStep(SampleTable(raw), raw, u)]
    BY <1>6 DEF SampleTable
  <1> QED
    BY <1>7

\* The first n rows are folded first.
LEMMA SampleTableOfPrefix ==
  ASSUME NEW raw \in Seq(SampleRow)
  PROVE  /\ SampleTable(raw)[1 .. 0] = << >>
         /\ \A n \in 1 .. Len(raw) :
              SampleTable(raw)[1 .. n] = AddToSample(SampleTable(raw)[1 .. (n - 1)], raw[n])
  <1>0. DOMAIN raw = 1 .. Len(raw) /\ Len(raw) \in Nat
    OBVIOUS
  <1>1. SampleTable(raw)[1 .. 0] = << >>
    <2>1. 1 .. 0 = {}
      OBVIOUS
    <2>2. SampleTable(raw)[{}] = SampleStep(SampleTable(raw), raw, {})
      BY SampleTableEquation
    <2> QED
      BY <2>1, <2>2 DEF SampleStep
  <1>2. ASSUME NEW n \in 1 .. Len(raw)
        PROVE  SampleTable(raw)[1 .. n] = AddToSample(SampleTable(raw)[1 .. (n - 1)], raw[n])
    <2>1. n \in Nat \ {0} /\ 1 .. n \in SUBSET (DOMAIN raw) /\ 1 .. n # {}
      <3>1. n \in Nat \ {0} /\ n <= Len(raw)
        BY <1>0
      <3>2. 1 .. n \subseteq 1 .. Len(raw) /\ 1 \in 1 .. n
        BY ONLY <1>0, <3>1
      <3> QED
        BY <1>0, <3>1, <3>2
    <2>2. Max(1 .. n) = n /\ (1 .. n) \ {Max(1 .. n)} = 1 .. (n - 1)
      BY <2>1, MaxOfPrefix
    <2>3. SampleTable(raw)[1 .. n] = SampleStep(SampleTable(raw), raw, 1 .. n)
      BY <2>1, SampleTableEquation
    <2> QED
      BY <2>1, <2>2, <2>3 DEF SampleStep
  <1> QED
    BY <1>1, <1>2

\* One row more belongs to its own group only, of which it is the last.
LEMMA RowsWithOneMore ==
  ASSUME NEW raw, NEW n \in Nat, NEW key
  PROVE  /\ Key(raw[n + 1]) # key => RowsWith(raw, n + 1, key) = RowsWith(raw, n, key)
         /\ Key(raw[n + 1]) = key => RowsWith(raw, n + 1, key) = RowsWith(raw, n, key) \cup {n + 1}
         /\ n + 1 \notin RowsWith(raw, n, key)
         /\ RowsWith(raw, n, key) \in SUBSET (1 .. n)
  <1>1. 1 .. (n + 1) = (1 .. n) \cup {n + 1} /\ n + 1 \notin 1 .. n
    OBVIOUS
  <1> QED
    BY <1>1 DEF RowsWith

\* The counts of a list of statements are naturals.
LEMMA CountsType ==
  ASSUME NEW infos \in Seq(SampleRow)
  PROVE  /\ CountsOf(infos) \in [1 .. Len(infos) -> Nat]
         /\ TimesOf(infos) \in [1 .. Len(infos) -> Nat]
         /\ \A i \in 1 .. Len(infos) : /\ CountsOf(infos)[i] = infos[i].execCount
                                      /\ TimesOf(infos)[i] = infos[i].execTime
  <1>1. DOMAIN infos = 1 .. Len(infos)
    OBVIOUS
  <1>2. \A i \in 1 .. Len(infos) : infos[i] \in SampleRow
    OBVIOUS
  <1>3. \A i \in 1 .. Len(infos) : infos[i].execCount \in Nat /\ infos[i].execTime \in Nat
    BY ONLY <1>2 DEF SampleRow
  <1> QED
    BY ONLY <1>1, <1>3 DEF CountsOf, TimesOf

\* The counts of a group grow by those of a row that joins it.
LEMMA RowJoinsGroup ==
  ASSUME NEW raw \in Seq(SampleRow), NEW n \in Nat, n + 1 \in 1 .. Len(raw), NEW key,
         Key(raw[n + 1]) = key
  PROVE  LET mine == RowsWith(raw, n, key)
             now == RowsWith(raw, n + 1, key)
         IN /\ now # {}
            /\ SumOver(CountsOf(raw), now) = SumOver(CountsOf(raw), mine) + raw[n + 1].execCount
            /\ SumOver(TimesOf(raw), now) = SumOver(TimesOf(raw), mine) + raw[n + 1].execTime
  <1> DEFINE mine == RowsWith(raw, n, key)
             now == RowsWith(raw, n + 1, key)
  <1>1. now = mine \cup {n + 1} /\ n + 1 \notin mine /\ mine \in SUBSET (1 .. n)
    BY RowsWithOneMore
  <1>2. DOMAIN raw = 1 .. Len(raw) /\ Len(raw) \in Nat
    OBVIOUS
  <1> HIDE DEF mine, now
  <1>3. mine \in SUBSET Nat /\ now \in SUBSET Nat /\ now # {} /\ n + 1 \in now
    BY <1>1
  <1>6. IsFiniteSet(now) /\ now \ {n + 1} = mine /\ now \in SUBSET (1 .. Len(raw))
    <2>1. now \in SUBSET (1 .. Len(raw))
      BY <1>1, <1>2
    <2>2. IsFiniteSet(1 .. Len(raw))
      BY <1>2, FS_Interval
    <2> QED
      BY <1>1, <2>1, <2>2, FS_Subset
  <1>7. SumOver(CountsOf(raw), now) = SumOver(CountsOf(raw), mine) + raw[n + 1].execCount
    <2>1. CountsOf(raw) \in [1 .. Len(raw) -> Nat] /\ CountsOf(raw)[n + 1] = raw[n + 1].execCount
      BY CountsType
    <2>2. IsFiniteSet(1 .. Len(raw))
      BY <1>2, FS_Interval
    <2> DEFINE f == CountsOf(raw)
    <2>3. f \in [1 .. Len(raw) -> Nat]
      BY <2>1
    <2> HIDE DEF f
    <2>4. SumOver(f, now) = SumOver(f, now \ {n + 1}) + f[n + 1]
      BY ONLY <1>3, <1>6, <2>2, <2>3, SumOfRest
    <2> QED
      BY <1>6, <2>1, <2>4 DEF f
  <1>8. SumOver(TimesOf(raw), now) = SumOver(TimesOf(raw), mine) + raw[n + 1].execTime
    <2>1. TimesOf(raw) \in [1 .. Len(raw) -> Nat] /\ TimesOf(raw)[n + 1] = raw[n + 1].execTime
      BY CountsType
    <2>2. IsFiniteSet(1 .. Len(raw))
      BY <1>2, FS_Interval
    <2> DEFINE f == TimesOf(raw)
    <2>3. f \in [1 .. Len(raw) -> Nat]
      BY <2>1
    <2> HIDE DEF f
    <2>4. SumOver(f, now) = SumOver(f, now \ {n + 1}) + f[n + 1]
      BY ONLY <1>3, <1>6, <2>2, <2>3, SumOfRest
    <2> QED
      BY <1>6, <2>1, <2>4 DEF f
  <1> QED
    BY <1>3, <1>7, <1>8 DEF mine, now

\* A group that the next row does not belong to stays as it is.
LEMMA GroupStays ==
  ASSUME NEW raw, NEW n \in Nat, NEW info, IsGroup(info, raw, n),
         Key(raw[n + 1]) # Key(info)
  PROVE  IsGroup(info, raw, n + 1)
  <1>1. RowsWith(raw, n + 1, Key(info)) = RowsWith(raw, n, Key(info))
    BY RowsWithOneMore
  <1> QED
    BY <1>1 DEF IsGroup

\* aggregateAndSortSamples takes one row more.
LEMMA AggregateGrows ==
  ASSUME NEW raw \in Seq(SampleRow), NEW n \in Nat, n + 1 \in 1 .. Len(raw),
         NEW infos, IsAggregate(infos, raw, n)
  PROVE  IsAggregate(AddToSample(infos, raw[n + 1]), raw, n + 1)
  <1> DEFINE row == raw[n + 1]
             key == Key(row)
             new == AddToSample(infos, row)
             mine == RowsWith(raw, n, key)
             now == RowsWith(raw, n + 1, key)
  <1>1. /\ infos \in Seq(SampleRow)
        /\ \A a, b \in DOMAIN infos : Key(infos[a]) = Key(infos[b]) => a = b
        /\ \A a \in DOMAIN infos : IsGroup(infos[a], raw, n)
        /\ \A j \in 1 .. n : \E a \in DOMAIN infos : Key(infos[a]) = Key(raw[j])
    BY DEF IsAggregate
  <1>2. row \in SampleRow /\ DOMAIN infos = 1 .. Len(infos) /\ Len(infos) \in Nat
    BY <1>1
  <1>3. new \in Seq(SampleRow)
    BY <1>1, <1>2, AddToSampleType
  <1>4. /\ now # {}
        /\ SumOver(CountsOf(raw), now) = SumOver(CountsOf(raw), mine) + row.execCount
        /\ SumOver(TimesOf(raw), now) = SumOver(TimesOf(raw), mine) + row.execTime
    BY RowJoinsGroup, Zenon
  <1>5. 1 .. (n + 1) = (1 .. n) \cup {n + 1}
    OBVIOUS
  <1> HIDE DEF row, now, mine
  <1>6. CASE \A a \in DOMAIN infos : Key(infos[a]) # key
    <2>1. new = Append(infos, row)
      BY <1>1, <1>2, <1>6, AddToSampleIs
    <2> HIDE DEF new
    <2>2. /\ DOMAIN new = DOMAIN infos \cup {Len(infos) + 1} /\ Len(infos) + 1 \notin DOMAIN infos
          /\ new[Len(infos) + 1] = row
          /\ \A a \in DOMAIN infos : new[a] = infos[a]
      BY <1>1, <1>2, <2>1
    <2>3. mine = {}
      <3>1. \A j \in 1 .. n : Key(raw[j]) # key
        BY <1>1, <1>6
      <3> QED
        BY <3>1 DEF mine, RowsWith
    <2>4. IsGroup(row, raw, n + 1)
      <3>1. SumOver(CountsOf(raw), {}) = 0 /\ SumOver(TimesOf(raw), {}) = 0
        BY FS_EmptySet, SumUnfold
      <3>2. row.execCount \in Nat /\ row.execTime \in Nat
        BY <1>2 DEF SampleRow
      <3>3. row.execCount = SumOver(CountsOf(raw), now) /\ row.execTime = SumOver(TimesOf(raw), now)
        BY <1>4, <2>3, <3>1, <3>2
      <3> QED
        BY <1>4, <3>3 DEF IsGroup, row, now
    <2>5. ASSUME NEW a \in DOMAIN infos PROVE IsGroup(infos[a], raw, n + 1)
      BY <1>1, <1>6, GroupStays DEF row
    <2>6. \A a \in DOMAIN new : IsGroup(new[a], raw, n + 1)
      BY <2>2, <2>4, <2>5
    <2>7. \A a, b \in DOMAIN new : Key(new[a]) = Key(new[b]) => a = b
      BY <1>1, <1>6, <2>2
    <2>8. \A j \in 1 .. (n + 1) : \E a \in DOMAIN new : Key(new[a]) = Key(raw[j])
      BY <1>1, <1>5, <2>2 DEF row
    <2> QED
      BY <1>3, <2>6, <2>7, <2>8 DEF IsAggregate, new, row
  <1>7. CASE \E a \in DOMAIN infos : Key(infos[a]) = key
    <2>1. PICK at \in DOMAIN infos :
            /\ Key(infos[at]) = key
            /\ new = [infos EXCEPT ![at].execCount = @ + row.execCount,
                                   ![at].execTime = @ + row.execTime]
      BY <1>1, <1>2, <1>7, AddToSampleIs
    <2> DEFINE old == infos[at]
    <2>2. old \in SampleRow /\ IsGroup(old, raw, n)
      BY <1>1
    <2>3. /\ DOMAIN new = DOMAIN infos
          /\ \A a \in DOMAIN infos : a # at => new[a] = infos[a]
          /\ new[at] = [old EXCEPT !.execCount = @ + row.execCount, !.execTime = @ + row.execTime]
      BY <1>1, <2>1
    <2> HIDE DEF new
    <2> DEFINE it == new[at]
    <2>4. /\ it.schema = old.schema /\ it.digest = old.digest
          /\ it.sql = old.sql /\ it.plan = old.plan
          /\ it.execCount = old.execCount + row.execCount
          /\ it.execTime = old.execTime + row.execTime
      <3> HIDE DEF old, it
      <3>1. it = [old EXCEPT !.execCount = @ + row.execCount, !.execTime = @ + row.execTime]
        BY <2>3 DEF old, it
      <3> QED
        BY ONLY <2>2, <3>1 DEF SampleRow
    <2>5. Key(it) = key
      BY <2>1, <2>4 DEF Key
    <2>6. /\ mine # {}
          /\ old.execCount = SumOver(CountsOf(raw), mine)
          /\ old.execTime = SumOver(TimesOf(raw), mine)
      BY <2>1, <2>2 DEF IsGroup, mine
    <2>7. IsGroup(it, raw, n + 1)
      <3> HIDE DEF it, old, key
      <3>1. RowsWith(raw, n + 1, Key(it)) = now
        BY <2>5 DEF now
      <3>3. /\ it.execCount = SumOver(CountsOf(raw), now)
            /\ it.execTime = SumOver(TimesOf(raw), now)
        BY <1>4, <2>4, <2>6
      <3> QED
        BY <1>4, <3>1, <3>3 DEF IsGroup
    <2>8. ASSUME NEW a \in DOMAIN infos, a # at PROVE IsGroup(infos[a], raw, n + 1)
      <3>1. Key(infos[a]) # key
        BY <1>1, <2>1, <2>8
      <3> QED
        BY <1>1, <3>1, GroupStays DEF row
    <2>9. \A a \in DOMAIN new : Key(new[a]) = Key(infos[a])
      BY <2>1, <2>3, <2>5
    <2>10. \A a \in DOMAIN new : IsGroup(new[a], raw, n + 1)
      BY <2>3, <2>7, <2>8
    <2>11. \A a, b \in DOMAIN new : Key(new[a]) = Key(new[b]) => a = b
      BY <1>1, <2>3, <2>9
    <2>12. \A j \in 1 .. (n + 1) : \E a \in DOMAIN new : Key(new[a]) = Key(raw[j])
      <3>1. Key(raw[n + 1]) = key
        BY DEF row
      <3> HIDE DEF key
      <3> QED
        BY <1>1, <1>5, <2>1, <2>3, <2>9, <3>1
    <2> QED
      BY <1>3, <2>10, <2>11, <2>12 DEF IsAggregate, new, row
  <1> QED
    BY <1>6, <1>7

\* The fold over a snapshot is one statement per group of it.
LEMMA Aggregated ==
  ASSUME NEW raw \in Seq(SampleRow)
  PROVE  IsAggregate(FoldLeft(AddToSample, << >>, raw), raw, Len(raw))
  <1> DEFINE At(n) == SampleTable(raw)[1 .. n]
             Bad == {n \in 0 .. Len(raw) : ~IsAggregate(At(n), raw, n)}
  <1>0. Len(raw) \in Nat /\ DOMAIN raw = 1 .. Len(raw)
    OBVIOUS
  <1>1. Bad = {}
    <2> SUFFICES ASSUME Bad # {} PROVE FALSE
      OBVIOUS
    <2>1. PICK n \in Bad : \A k \in Bad : n <= k
      <3> Bad \in SUBSET Nat
        BY <1>0
      <3> HIDE DEF Bad
      <3> QED
        BY LeastNat
    <2>2. CASE n = 0
      <3>1. At(0) = << >>
        BY SampleTableOfPrefix
      <3>2. IsAggregate(<< >>, raw, 0)
        BY DEF IsAggregate
      <3> QED
        BY <2>1, <2>2, <3>1, <3>2
    <2>3. CASE n # 0
      <3> DEFINE m == n - 1
      <3>1. m \in Nat /\ n = m + 1 /\ m + 1 \in 1 .. Len(raw) /\ m \in 0 .. Len(raw)
        BY <1>0, <2>1, <2>3
      <3>2. IsAggregate(At(m), raw, m)
        BY <2>1, <3>1
      <3>3. At(n) = AddToSample(At(m), raw[n])
        BY <3>1, SampleTableOfPrefix
      <3> HIDE DEF m
      <3>4. IsAggregate(At(n), raw, n)
        BY <3>1, <3>2, <3>3, AggregateGrows
      <3> QED
        BY <2>1, <3>4
    <2> QED
      BY <2>2, <2>3
  <1>2. IsAggregate(At(Len(raw)), raw, Len(raw))
    BY <1>0, <1>1
  <1> QED
    BY <1>0, <1>2, FoldIsSampleTable
-----------------------------------------------------------------------------
\* s holds what t holds, each as often, where nothing is in t twice.
Reordered(s, t) ==
  /\ \A a \in DOMAIN s : \E b \in DOMAIN t : s[a] = t[b]
  /\ \A b \in DOMAIN t : \E a \in DOMAIN s : s[a] = t[b]
  /\ \A a, b \in DOMAIN s : s[a] = s[b] => a = b

\* No sample comes before a slower one.
SlowestFirst(s) == \A i, j \in DOMAIN s : i < j => s[j].execTime <= s[i].execTime

\* sort.SliceStable on the samples puts the slowest first.
LEMMA SortedSamples ==
  ASSUME NEW t \in Seq(SampleRow), NEW s \in SliceStable(t, Precedes)
  PROVE  (\E p : IsOrder(p, s, t)) /\ SlowestFirst(s)
  <1>1. PICK p \in Bijection(DOMAIN t, DOMAIN t) :
          /\ s = [i \in DOMAIN t |-> t[p[i]]]
          /\ \A i, j \in DOMAIN t : i < j =>
               \/ Precedes(t[p[i]], t[p[j]])
               \/ ~ Precedes(t[p[j]], t[p[i]]) /\ p[i] < p[j]
    BY DEF SliceStable
  <1>2. IsOrder(p, s, t)
    BY <1>1 DEF IsOrder, Bijection, Injection, Surjection, IsInjective
  <1>3. /\ s \in Seq(SampleRow) /\ DOMAIN s = DOMAIN t
        /\ \A i \in DOMAIN t : p[i] \in DOMAIN t /\ s[i] = t[p[i]]
    BY <1>2, OrderType
  <1>4. ASSUME NEW i \in DOMAIN s, NEW j \in DOMAIN s, i < j
        PROVE  s[j].execTime <= s[i].execTime
    <2>1. s[i] \in SampleRow /\ s[j] \in SampleRow
      BY <1>3
    <2>2. s[i].execTime \in Nat /\ s[j].execTime \in Nat
      BY ONLY <2>1 DEF SampleRow
    <2>3. Precedes(s[i], s[j]) \/ ~ Precedes(s[j], s[i])
      BY <1>1, <1>3, <1>4
    <2> DEFINE x == s[i].execTime
               y == s[j].execTime
    <2>4. x \in Nat /\ y \in Nat
      BY <2>2
    <2>5. (x > y \/ x = y) \/ ~(y > x)
      BY <2>3 DEF Precedes
    <2> HIDE DEF x, y
    <2>6. y <= x
      BY <2>4, <2>5
    <2> QED
      BY <2>6 DEF x, y
  <1> QED
    BY <1>2, <1>4 DEF SlowestFirst

\* On the results it moves them.
LEMMA SortedResults ==
  ASSUME NEW t, NEW s \in SliceStable(t, ResultPrecedes)
  PROVE  \E p : IsOrder(p, s, t)
  <1>1. PICK p \in Bijection(DOMAIN t, DOMAIN t) : s = [i \in DOMAIN t |-> t[p[i]]]
    BY DEF SliceStable
  <1>2. IsOrder(p, s, t)
    BY <1>1 DEF IsOrder, Bijection, Injection, Surjection, IsInjective
  <1> QED
    BY <1>2

\* The map of the samples, in whatever order it is ranged over.
LEMMA AnyOrderOf ==
  ASSUME NEW t \in Seq(SampleRow), \A a, b \in DOMAIN t : t[a] = t[b] => a = b,
         NEW s \in SetToSeqs(ToSet(t))
  PROVE  s \in Seq(SampleRow) /\ Reordered(s, t)
  <1> DEFINE S == ToSet(t)
             D == 1 .. Cardinality(S)
             R == {s[i] : i \in D}
  <1>1. DOMAIN t = 1 .. Len(t) /\ Len(t) \in Nat
    OBVIOUS
  <1>2. S = {t[i] : i \in 1 .. Len(t)}
    BY <1>1 DEF ToSet
  <1>3. IsFiniteSet(S) /\ Cardinality(S) \in Nat
    <2> DEFINE f == [i \in 1 .. Len(t) |-> t[i]]
               P == 1 .. Len(t)
    <2>1. IsFiniteSet(P)
      BY <1>1, FS_Interval
    <2>2. f \in [P -> S]
      BY <1>2
    <2>3. \A x, y \in P : f[x] = f[y] => x = y
      BY <1>1
    <2>4. \A z \in S : \E x \in P : f[x] = z
      BY <1>2
    <2> HIDE DEF f, P, S
    <2>5. IsFiniteSet(S)
      BY <2>1, <2>2, <2>3, <2>4, SameSize
    <2> QED
      BY <2>5, FS_CardinalityType
  <1>4. s \in [D -> S] /\ \A i, j \in D : i # j => s[i] # s[j]
    BY DEF SetToSeqs
  <1>5. S \subseteq SampleRow
    BY <1>1, <1>2
  <1> HIDE DEF S
  <1>6. s \in Seq(SampleRow) /\ DOMAIN s = D
    <2>1. s \in [D -> SampleRow]
      BY <1>4, <1>5
    <2> QED
      BY <1>3, <2>1
  <1>7. R = S
    <2>1. IsFiniteSet(D) /\ Cardinality(D) = Cardinality(S)
      <3> DEFINE n == Cardinality(S)
      <3>1. n \in Nat
        BY <1>3
      <3> HIDE DEF n
      <3>2. IsFiniteSet(1 .. n) /\ Cardinality(1 .. n) = IF 1 > n THEN 0 ELSE n - 1 + 1
        BY <3>1, FS_Interval
      <3>3. IsFiniteSet(1 .. n) /\ Cardinality(1 .. n) = n
        BY <3>1, <3>2
      <3> QED
        BY <3>3 DEF n
    <2>2. s \in [D -> R] /\ \A z \in R : \E x \in D : s[x] = z
      BY <1>4
    <2>3. R \in SUBSET S
      BY <1>4
    <2>4. \A x, y \in D : s[x] = s[y] => x = y
      BY <1>4
    <2> HIDE DEF D, R
    <2>5. Cardinality(R) = Cardinality(S)
      BY <2>1, <2>2, <2>4, SameSize
    <2> QED
      BY <1>3, <2>3, <2>5, FS_Subset
  <1>8. \A a \in DOMAIN s : \E b \in DOMAIN t : s[a] = t[b]
    BY <1>1, <1>2, <1>4, <1>6
  <1>9. \A b \in DOMAIN t : \E a \in DOMAIN s : s[a] = t[b]
    <2> SUFFICES ASSUME NEW b \in DOMAIN t PROVE \E a \in D : s[a] = t[b]
      BY <1>6
    <2>1. t[b] \in R
      BY <1>1, <1>2, <1>7
    <2> QED
      BY <2>1
  <1> QED
    BY <1>4, <1>6, <1>8, <1>9 DEF Reordered

\* A sample per group in another order is one still.
LEMMA ReorderedAggregate ==
  ASSUME NEW infos, NEW raw, NEW n, IsAggregate(infos, raw, n),
         NEW s \in Seq(SampleRow), Reordered(s, infos)
  PROVE  IsAggregate(s, raw, n)
  <1>1. ASSUME NEW a \in DOMAIN s, NEW b \in DOMAIN s, Key(s[a]) = Key(s[b]) PROVE a = b
    <2>1. PICK x \in DOMAIN infos : s[a] = infos[x]
      BY DEF Reordered
    <2>2. PICK y \in DOMAIN infos : s[b] = infos[y]
      BY DEF Reordered
    <2>3. x = y
      BY <1>1, <2>1, <2>2 DEF IsAggregate
    <2> QED
      BY <2>1, <2>2, <2>3 DEF Reordered
  <1>2. \A a \in DOMAIN s : IsGroup(s[a], raw, n)
    <2> SUFFICES ASSUME NEW a \in DOMAIN s PROVE IsGroup(s[a], raw, n)
      OBVIOUS
    <2>1. PICK x \in DOMAIN infos : s[a] = infos[x]
      BY DEF Reordered
    <2> QED
      BY <2>1 DEF IsAggregate
  <1>3. \A j \in 1 .. n : \E a \in DOMAIN s : Key(s[a]) = Key(raw[j])
    <2> SUFFICES ASSUME NEW j \in 1 .. n PROVE \E a \in DOMAIN s : Key(s[a]) = Key(raw[j])
      OBVIOUS
    <2>1. PICK b \in DOMAIN infos : Key(infos[b]) = Key(raw[j])
      BY DEF IsAggregate
    <2>2. PICK a \in DOMAIN s : s[a] = infos[b]
      BY DEF Reordered
    <2> QED
      BY <2>1, <2>2
  <1> QED
    BY <1>1, <1>2, <1>3 DEF IsAggregate

\* aggregateAndSortSamples, for every snapshot: one sample for each schema, digest, text and
\* plan that occurs, with the counts of all its rows, the slowest first.
LEMMA SamplesAre ==
  ASSUME NEW raw \in Seq(SampleRow), NEW s \in AggregateAndSortSamples(raw)
  PROVE  IsAggregate(s, raw, Len(raw)) /\ SlowestFirst(s)
  <1> DEFINE infos == FoldLeft(AddToSample, << >>, raw)
  <1>1. PICK order \in SetToSeqs(ToSet(infos)) : s \in SliceStable(order, Precedes)
    BY DEF AggregateAndSortSamples
  <1>2. IsAggregate(infos, raw, Len(raw))
    BY Aggregated
  <1> HIDE DEF infos
  <1>3. infos \in Seq(SampleRow) /\ \A a, b \in DOMAIN infos : infos[a] = infos[b] => a = b
    BY <1>2 DEF IsAggregate
  <1>4. order \in Seq(SampleRow) /\ Reordered(order, infos)
    BY <1>1, <1>3, AnyOrderOf
  <1>5. SlowestFirst(s) /\ \E p : IsOrder(p, s, order)
    BY <1>1, <1>4, SortedSamples
  <1>6. PICK p : IsOrder(p, s, order)
    BY <1>5
  <1>7. /\ s \in Seq(SampleRow) /\ DOMAIN s = DOMAIN order
        /\ \A i \in DOMAIN order : p[i] \in DOMAIN order /\ s[i] = order[p[i]]
        /\ \A j \in DOMAIN order : \E i \in DOMAIN order : p[i] = j /\ s[i] = order[j]
    BY <1>4, <1>6, OrderType
  <1>8. Reordered(s, infos)
    <2>1. ASSUME NEW a \in DOMAIN s PROVE \E b \in DOMAIN infos : s[a] = infos[b]
      <3>1. p[a] \in DOMAIN order /\ s[a] = order[p[a]]
        BY <1>7
      <3>2. PICK b \in DOMAIN infos : order[p[a]] = infos[b]
        BY <1>4, <3>1 DEF Reordered
      <3> QED
        BY <3>1, <3>2
    <2>2. ASSUME NEW b \in DOMAIN infos PROVE \E a \in DOMAIN s : s[a] = infos[b]
      <3>1. PICK j \in DOMAIN order : order[j] = infos[b]
        BY <1>4 DEF Reordered
      <3> QED
        BY <1>7, <3>1
    <2>3. ASSUME NEW a \in DOMAIN s, NEW b \in DOMAIN s, s[a] = s[b] PROVE a = b
      <3>1. /\ p[a] \in DOMAIN order /\ s[a] = order[p[a]]
            /\ p[b] \in DOMAIN order /\ s[b] = order[p[b]]
        BY <1>7
      <3>2. p[a] = p[b]
        BY <1>4, <2>3, <3>1 DEF Reordered
      <3> QED
        BY <1>6, <1>7, <3>2 DEF IsOrder
    <2> QED
      BY <2>1, <2>2, <2>3 DEF Reordered
  <1>9. IsAggregate(s, raw, Len(raw))
    BY <1>2, <1>7, <1>8, ReorderedAggregate
  <1> QED
    BY <1>5, <1>9
-----------------------------------------------------------------------------
Completed == [advice : Advices, newSQL : [sample : SampleRow, hints : SUBSET Advices]]
Result == [sample : SampleRow, recommendations : Seq(Completed)]

TypeInv ==
  /\ rows \in BoundedSeq(SummaryRows, MaxSummaryRows) /\ rows \in Seq(SampleRow)
  /\ pc \in {"collect", "sample", "explain", "advise", "render", "reported", "failed"}
  /\ samples \in Seq(SampleRow)
  /\ next \in 1 .. (Len(samples) + 1)
  /\ advices \in Seq(Advices)
  /\ tried \in Nat
  /\ completed \in Seq(Completed)
  /\ results \in Seq(Result)
  /\ report \in Seq(Result)

\* The samples are those of the snapshot, the slowest first.
SampleInv ==
  /\ IsAggregate(samples, rows, Len(rows))
  /\ SlowestFirst(samples)

\* The loops are within their lists; a full report ends the first.
PositionInv ==
  /\ pc = "collect" => next = 1 /\ results = << >>
  /\ pc \in {"explain", "advise"} => next <= Len(samples)
  /\ pc = "advise" => tried <= Len(advices) /\ Len(completed) <= tried
  /\ Len(results) <= MaxResults
  /\ pc \in {"collect", "sample", "explain", "advise"} => Len(results) < MaxResults
  /\ pc \in {"render", "reported"} => next = Len(samples) + 1 \/ Len(results) = MaxResults

IsOwn(it, sample) == ExplainedUnder(it.newSQL, sample, it.advice)

\* What is completed is for the statement the loop is at, and a result is about one that it
\* has passed.
ResultInv ==
  /\ pc = "advise" => \A j \in DOMAIN completed : IsOwn(completed[j], Current)
  /\ \A i \in DOMAIN results :
       /\ \E j \in 1 .. (next - 1) : results[i].sample = samples[j]
       /\ \A j \in DOMAIN results[i].recommendations :
            IsOwn(results[i].recommendations[j], results[i].sample)

\* The report is the results in another order.
ReportInv == pc = "reported" => report \in SliceStable(results, ResultPrecedes)

IndexInv == TypeInv /\ SampleInv /\ PositionInv /\ ResultInv /\ ReportInv
-----------------------------------------------------------------------------
\* Nothing is there yet.
LEMMA InitInv == Init => IndexInv
  <1> SUFFICES ASSUME Init PROVE IndexInv
    OBVIOUS
  <1>1. /\ rows = << >> /\ pc = "collect" /\ samples = << >> /\ next = 1 /\ advices = << >>
        /\ tried = 0 /\ completed = << >> /\ results = << >> /\ report = << >>
    BY DEF Init
  <1>2. << >> \in BoundedSeq(SummaryRows, MaxSummaryRows)
    <2>1. << >> \in [1 .. 0 -> SummaryRows] /\ 0 \in 0 .. MaxSummaryRows
      BY SummaryAssumption
    <2> QED
      BY <2>1 DEF BoundedSeq, SeqOf
  <1>3. TypeInv
    <2>1. \A S : << >> \in Seq(S)
      OBVIOUS
    <2>2. Len(samples) = 0
      BY <1>1
    <2>3. next \in 1 .. (Len(samples) + 1)
      BY <1>1, <2>2
    <2> QED
      BY ONLY <1>1, <1>2, <2>1, <2>3 DEF TypeInv
  <1>4. SampleInv
    BY <1>1 DEF SampleInv, IsAggregate, SlowestFirst
  <1>5. PositionInv
    <2>1. Len(results) = 0
      BY <1>1
    <2> QED
      BY <1>1, <2>1, LimitAssumption DEF PositionInv
  <1>6. ResultInv /\ ReportInv
    BY <1>1 DEF ResultInv, ReportInv
  <1> QED
    BY <1>3, <1>4, <1>5, <1>6 DEF IndexInv

\* The snapshot becomes the samples.
LEMMA CollectKeeps ==
  ASSUME IndexInv, CollectSamples
  PROVE  IndexInv'
  <1> USE DEF IndexInv
  <1>1. PICK snapshot \in BoundedSeq(SummaryRows, MaxSummaryRows) :
          rows' = snapshot /\ samples' \in AggregateAndSortSamples(snapshot)
    BY DEF CollectSamples
  <1>2. snapshot \in Seq(SampleRow)
    <2>1. PICK m \in 0 .. MaxSummaryRows : snapshot \in [1 .. m -> SummaryRows]
      BY <1>1 DEF BoundedSeq, SeqOf
    <2>2. m \in Nat
      BY SummaryAssumption
    <2>3. SummaryRows \subseteq SampleRow
      BY SummaryAssumption DEF SampleRow
    <2> QED
      BY <2>1, <2>2, <2>3
  <1>3. IsAggregate(samples', rows', Len(rows')) /\ SlowestFirst(samples')
    BY <1>1, <1>2, SamplesAre
  <1>4. /\ pc = "collect" /\ pc' = "sample" /\ next = 1 /\ results = << >>
        /\ UNCHANGED <<next, advices, tried, completed, results, report>>
    BY DEF CollectSamples, PositionInv, collected
  <1>5. samples' \in Seq(SampleRow) /\ Len(samples') \in Nat
    BY <1>3 DEF IsAggregate
  <1>6. TypeInv'
    <2>1. next' \in 1 .. (Len(samples') + 1)
      BY <1>4, <1>5
    <2> QED
      BY <1>1, <1>2, <1>4, <1>5, <2>1 DEF TypeInv
  <1>7. SampleInv'
    BY <1>3 DEF SampleInv
  <1>8. PositionInv'
    BY <1>4 DEF PositionInv
  <1>9. ResultInv' /\ ReportInv'
    BY <1>4 DEF ResultInv, ReportInv
  <1> QED
    BY <1>6, <1>7, <1>8, <1>9

\* Every other step that leaves what has been found: it is in the loops, goes to a place
\* that its position allows, and has completed nothing for another statement.
LEMMA MoveKeeps ==
  ASSUME IndexInv, UNCHANGED <<rows, samples, results, report>>,
         next' \in {next, next + 1}, next' \in 1 .. (Len(samples) + 1),
         pc' \in {"sample", "explain", "advise", "render", "failed"},
         pc' # "failed" => pc \in {"sample", "explain", "advise"},
         pc' \in {"explain", "advise"} => next' <= Len(samples),
         pc' = "render" => next' = Len(samples) + 1,
         advices' \in Seq(Advices), tried' \in Nat, completed' \in Seq(Completed),
         pc' = "advise" => /\ tried' <= Len(advices') /\ Len(completed') <= tried'
                           /\ \A j \in DOMAIN completed' : IsOwn(completed'[j], Current')
  PROVE  IndexInv'
  <1> USE DEF IndexInv
  <1>1. Len(samples) \in Nat /\ next \in Nat /\ next' \in Nat /\ next <= next'
    BY DEF TypeInv
  <1>2. TypeInv'
    BY DEF TypeInv
  <1>3. SampleInv'
    BY DEF SampleInv
  <1>4. PositionInv'
    BY DEF PositionInv
  <1>5. ResultInv'
    <2>1. ASSUME NEW j \in 1 .. (next - 1) PROVE j \in 1 .. (next' - 1)
      <3> DEFINE k == next'
      <3>1. k \in Nat /\ next <= k
        BY <1>1
      <3> HIDE DEF k
      <3>2. j \in 1 .. (k - 1)
        BY ONLY <1>1, <3>1, j \in 1 .. (next - 1)
      <3> QED
        BY <3>2 DEF k
    <2>2. \A i \in DOMAIN results :
            /\ \E j \in 1 .. (next' - 1) : results[i].sample = samples[j]
            /\ \A j \in DOMAIN results[i].recommendations :
                 IsOwn(results[i].recommendations[j], results[i].sample)
      BY <2>1 DEF ResultInv
    <2>3. results' = results /\ samples' = samples
      OBVIOUS
    <2>4. pc' = "advise" => \A j \in DOMAIN completed' : IsOwn(completed'[j], Current')
      OBVIOUS
    <2> QED
      BY ONLY <2>2, <2>3, <2>4 DEF ResultInv, IsOwn, ExplainedUnder
  <1>6. ReportInv'
    BY DEF ReportInv
  <1> QED
    BY <1>2, <1>3, <1>4, <1>5, <1>6

\* A statement with an advice that was explained is a result.
LEMMA AddResultKeeps ==
  ASSUME IndexInv, AddResult
  PROVE  IndexInv'
  <1> USE DEF IndexInv
  <1> DEFINE it == [sample |-> Current, recommendations |-> completed]
  <1>1. /\ pc = "advise" /\ results' = Append(results, it) /\ next' = next + 1
        /\ pc' = IF Len(results') >= MaxResults THEN "render" ELSE "sample"
        /\ UNCHANGED <<rows, samples, advices, tried, completed, report>>
    BY DEF AddResult, Full
  <1>2. /\ Len(samples) \in Nat /\ next \in Nat /\ next \in 1 .. Len(samples)
        /\ Current \in SampleRow /\ completed \in Seq(Completed)
    <2>1. Len(samples) \in Nat /\ next \in Nat /\ next \in 1 .. Len(samples)
      BY <1>1 DEF TypeInv, PositionInv
    <2> QED
      BY <2>1 DEF TypeInv, Current
  <1>3. it \in Result /\ it.sample = samples[next] /\ it.recommendations = completed
    BY <1>2 DEF Result, Current
  <1>4. \A j \in DOMAIN completed : IsOwn(completed[j], it.sample)
    BY <1>1 DEF ResultInv
  <1> HIDE DEF it
  <1>5. /\ results' \in Seq(Result) /\ Len(results') = Len(results) + 1 /\ Len(results) \in Nat
        /\ DOMAIN results' = DOMAIN results \cup {Len(results) + 1}
        /\ results'[Len(results) + 1] = it
        /\ \A i \in DOMAIN results : results'[i] = results[i]
    BY <1>1, <1>3, AppendOne DEF TypeInv
  <1>6. next' \in 1 .. (Len(samples) + 1) /\ 1 .. (next' - 1) = 1 .. next
    BY <1>1, <1>2
  <1>7. TypeInv'
    BY <1>1, <1>5, <1>6 DEF TypeInv
  <1>8. SampleInv'
    BY <1>1 DEF SampleInv
  <1>9. PositionInv'
    <2>1. Len(results) < MaxResults
      BY <1>1 DEF PositionInv
    <2>2. MaxResults \in Nat
      BY LimitAssumption
    <2>3. Len(results') <= MaxResults
      BY <1>5, <2>1, <2>2
    <2> QED
      BY <1>1, <1>5, <2>2, <2>3 DEF PositionInv
  <1>10. ResultInv'
    <2>1. ASSUME NEW i \in DOMAIN results'
          PROVE  /\ \E j \in 1 .. next : results'[i].sample = samples[j]
                 /\ \A j \in DOMAIN results'[i].recommendations :
                      IsOwn(results'[i].recommendations[j], results'[i].sample)
      <3>1. CASE i \in DOMAIN results
        <4>1. /\ \E j \in 1 .. (next - 1) : results[i].sample = samples[j]
              /\ \A j \in DOMAIN results[i].recommendations :
                   IsOwn(results[i].recommendations[j], results[i].sample)
          BY <3>1 DEF ResultInv
        <4>2. 1 .. (next - 1) \subseteq 1 .. next
          BY <1>2
        <4> QED
          BY <1>5, <3>1, <4>1, <4>2
      <3>2. CASE i = Len(results) + 1
        <4>1. results'[i] = it
          BY <1>5, <3>2
        <4>2. next \in 1 .. next
          BY <1>2
        <4> QED
          BY <1>3, <1>4, <4>1, <4>2
      <3> QED
        BY <1>5, <3>1, <3>2
    <2>2. samples' = samples /\ 1 .. (next' - 1) = 1 .. next /\ pc' # "advise"
      BY <1>1, <1>6
    <2> QED
      BY ONLY <2>1, <2>2 DEF ResultInv, IsOwn, ExplainedUnder
  <1>11. ReportInv'
    BY <1>1 DEF ReportInv
  <1> QED
    BY <1>7, <1>8, <1>9, <1>10, <1>11

\* The results are put in the order of the report.
LEMMA RenderKeeps ==
  ASSUME IndexInv, RenderRecommendIndex
  PROVE  IndexInv'
  <1> USE DEF IndexInv
  <1>1. /\ pc = "render" /\ pc' = "reported" /\ report' \in SliceStable(results, ResultPrecedes)
        /\ UNCHANGED <<rows, samples, next, advices, tried, completed, results>>
    BY DEF RenderRecommendIndex, cursor
  <1>2. TypeInv'
    <2>1. PICK p : IsOrder(p, report', results)
      BY <1>1, SortedResults
    <2>2. report' \in Seq(Result)
      BY <2>1, OrderType DEF TypeInv
    <2> QED
      BY <1>1, <2>2 DEF TypeInv
  <1>3. SampleInv'
    BY <1>1 DEF SampleInv
  <1>4. PositionInv'
    BY <1>1 DEF PositionInv
  <1>5. ResultInv'
    BY <1>1 DEF ResultInv, IsOwn, ExplainedUnder
  <1>6. ReportInv'
    <2>1. SliceStable(results, ResultPrecedes)' = SliceStable(results, ResultPrecedes)
      BY <1>1 DEF SliceStable, ResultPrecedes, Precedes
    <2> QED
      BY <1>1, <2>1 DEF ReportInv
  <1> QED
    BY <1>2, <1>3, <1>4, <1>5, <1>6

\* No step, no change.
LEMMA StutterKeeps ==
  ASSUME IndexInv, UNCHANGED vars
  PROVE  IndexInv'
  BY DEF IndexInv, vars, TypeInv, SampleInv, PositionInv, ResultInv, IsOwn, ExplainedUnder,
         Current, ReportInv

\* The hint of one advice, or none.
LEMMA OneHint ==
  ASSUME NEW sample, NEW advice
  PROVE  BuildHypoIndexSQL(sample, <<advice>>) =
           [sample |-> sample, hints |-> IF advice.complete THEN {advice} ELSE {}]
  <1>1. ToSet(<<advice>>) = {advice}
    BY DEF ToSet
  <1>2. {a \in {advice} : a.complete} = IF advice.complete THEN {advice} ELSE {}
    OBVIOUS
  <1> QED
    BY <1>1, <1>2 DEF BuildHypoIndexSQL

\* One of the advices is explained.
LEMMA AdviceKeeps ==
  ASSUME IndexInv, ExplainAdvice
  PROVE  IndexInv'
  <1> DEFINE it == [advice |-> advices[tried + 1], newSQL |-> HintedSQL]
  <1>1. /\ pc = "advise" /\ pc' = "advise" /\ tried < Len(advices) /\ tried' = tried + 1
        /\ completed' = Append(completed, it)
        /\ UNCHANGED <<rows, samples, next, advices, results, report>>
    BY DEF ExplainAdvice, cursor, collected
  <1>2. /\ TypeInv /\ PositionInv /\ ResultInv
        /\ tried \in Nat /\ advices \in Seq(Advices) /\ Len(advices) \in Nat
        /\ Len(samples) \in Nat /\ next \in 1 .. Len(samples) /\ samples \in Seq(SampleRow)
        /\ next \in 1 .. (Len(samples) + 1)
    BY <1>1 DEF IndexInv, TypeInv, PositionInv
  <1>3. advices[tried + 1] \in Advices /\ Current \in SampleRow
    BY <1>1, <1>2 DEF Current
  <1>4. /\ HintedSQL \in [sample : SampleRow, hints : SUBSET Advices]
        /\ ExplainedUnder(HintedSQL, Current, advices[tried + 1])
    <2> DEFINE advice == advices[tried + 1]
    <2>1. /\ HintedSQL.sample = Current
          /\ HintedSQL = [sample |-> Current, hints |-> IF advice.complete THEN {advice} ELSE {}]
      BY OneHint DEF HintedSQL
    <2>2. HintedSQL.hints = IF advice.complete THEN {advice} ELSE {}
      BY <2>1
    <2>3. (IF advice.complete THEN {advice} ELSE {}) \in SUBSET Advices
      BY <1>3
    <2> QED
      BY <1>3, <2>1, <2>2, <2>3 DEF ExplainedUnder
  <1>5. it \in Completed /\ IsOwn(it, Current)
    BY <1>3, <1>4 DEF Completed, IsOwn
  <1> HIDE DEF it
  <1>6. /\ completed' \in Seq(Completed) /\ Len(completed') = Len(completed) + 1
        /\ Len(completed) \in Nat
        /\ DOMAIN completed' = DOMAIN completed \cup {Len(completed) + 1}
        /\ completed'[Len(completed) + 1] = it
        /\ \A j \in DOMAIN completed : completed'[j] = completed[j]
    <2>1. completed \in Seq(Completed) /\ it \in Completed /\ completed' = Append(completed, it)
      BY <1>1, <1>2, <1>5 DEF TypeInv
    <2> QED
      BY ONLY <2>1, AppendOne
  <1>7. Current' = Current
    BY <1>1 DEF Current
  <1>8. \A j \in DOMAIN completed' : IsOwn(completed'[j], Current')
    BY <1>1, <1>2, <1>5, <1>6, <1>7 DEF ResultInv
  <1>9. Len(completed) <= tried
    BY <1>1, <1>2 DEF PositionInv
  <1>10. tried' <= Len(advices') /\ Len(completed') <= tried'
    BY <1>1, <1>2, <1>6, <1>9
  <1>11. next' <= Len(samples)
    BY <1>1, <1>2
  <1>12. tried' \in Nat
    BY <1>1, <1>2
  <1> QED
    BY <1>1, <1>2, <1>6, <1>8, <1>10, <1>11, <1>12, MoveKeeps
-----------------------------------------------------------------------------
\* The report keeps its invariant whatever the advisor returns and whatever is refused.
THEOREM IndexInvariant == Spec => []IndexInv
  <1>1. Init => IndexInv
    BY InitInv
  <1>2. ASSUME IndexInv, [Next]_vars PROVE IndexInv'
    <2>1. /\ TypeInv /\ PositionInv /\ ResultInv
          /\ Len(samples) \in Nat /\ next \in Nat /\ next \in 1 .. (Len(samples) + 1)
          /\ tried \in Nat /\ advices \in Seq(Advices) /\ completed \in Seq(Completed)
      BY <1>2 DEF IndexInv, TypeInv
    <2>2. CASE CollectSamples
      BY <1>2, <2>2, CollectKeeps
    <2>3. CASE CallFails
      <3>1. /\ pc' = "failed"
            /\ UNCHANGED <<rows, samples, next, advices, tried, completed, results, report>>
        BY <2>3 DEF CallFails, cursor, collected
      <3> QED
        BY <1>2, <2>1, <3>1, MoveKeeps
    <2>4. CASE Recommend
      <3>1. /\ pc = "sample" /\ pc' = "explain" /\ next <= Len(samples)
            /\ advices' \in BoundedSeq(Advices, MaxAdvices)
            /\ UNCHANGED <<rows, samples, next, tried, completed, results, report>>
        BY <2>4 DEF Recommend, cursor, collected
      <3>2. advices' \in Seq(Advices)
        <4>1. PICK m \in 0 .. MaxAdvices : advices' \in [1 .. m -> Advices]
          BY <3>1 DEF BoundedSeq, SeqOf
        <4>2. m \in Nat
          BY SummaryAssumption
        <4> QED
          BY <4>1, <4>2
      <3> QED
        BY <1>2, <2>1, <3>1, <3>2, MoveKeeps
    <2>5. CASE SkipStatement
      <3>1. /\ pc \in {"sample", "explain"} /\ next <= Len(samples) /\ pc' = "sample" /\ next' = next + 1
            /\ UNCHANGED <<rows, samples, advices, tried, completed, results, report>>
        BY <2>1, <2>5 DEF SkipStatement, collected, PositionInv
      <3>2. next' \in 1 .. (Len(samples) + 1)
        BY <2>1, <3>1
      <3> QED
        BY <1>2, <2>1, <3>1, <3>2, MoveKeeps
    <2>6. CASE ExplainOld
      <3>1. /\ pc = "explain" /\ pc' = "advise" /\ next <= Len(samples)
            /\ tried' = 0 /\ completed' = << >>
            /\ UNCHANGED <<rows, samples, next, advices, results, report>>
        BY <2>1, <2>6 DEF ExplainOld, ForgetCompleted, cursor, collected, PositionInv
      <3>2. /\ completed' \in Seq(Completed) /\ Len(completed') = 0 /\ DOMAIN completed' = {}
            /\ tried' \in Nat /\ Len(advices') \in Nat
        BY <2>1, <3>1
      <3>3. tried' <= Len(advices') /\ Len(completed') <= tried'
        BY <3>1, <3>2
      <3> QED
        BY <1>2, <2>1, <3>1, <3>2, <3>3, MoveKeeps
    <2>7. CASE ExplainAdvice
      BY <1>2, <2>7, AdviceKeeps
    <2>8. CASE SkipAdvice
      <3>1. /\ pc = "advise" /\ pc' = "advise" /\ tried < Len(advices) /\ tried' = tried + 1
            /\ next <= Len(samples) /\ Len(completed) <= tried
            /\ \A j \in DOMAIN completed : IsOwn(completed[j], Current)
            /\ UNCHANGED <<rows, samples, next, advices, completed, results, report>>
        BY <2>1, <2>8 DEF SkipAdvice, cursor, collected, PositionInv, ResultInv
      <3>2. tried' \in Nat /\ tried' <= Len(advices') /\ Len(completed') <= tried'
        <4>1. Len(advices) \in Nat /\ Len(completed) \in Nat
          BY <2>1
        <4> QED
          BY <2>1, <3>1, <4>1
      <3>3. \A j \in DOMAIN completed' : IsOwn(completed'[j], Current')
        BY <3>1 DEF Current
      <3> QED
        BY <1>2, <2>1, <3>1, <3>2, <3>3, MoveKeeps
    <2>9. CASE NothingCompleted
      <3>1. /\ pc = "advise" /\ next <= Len(samples) /\ pc' = "sample" /\ next' = next + 1
            /\ UNCHANGED <<rows, samples, advices, tried, completed, results, report>>
        BY <2>1, <2>9 DEF NothingCompleted, collected, PositionInv
      <3>2. next' \in 1 .. (Len(samples) + 1)
        BY <2>1, <3>1
      <3> QED
        BY <1>2, <2>1, <3>1, <3>2, MoveKeeps
    <2>10. CASE AddResult
      BY <1>2, <2>10, AddResultKeeps
    <2>11. CASE ListEnds
      <3>1. /\ pc = "sample" /\ pc' = "render" /\ next > Len(samples)
            /\ UNCHANGED <<rows, samples, next, advices, tried, completed, results, report>>
        BY <2>11 DEF ListEnds, cursor, collected
      <3>2. next' = Len(samples) + 1
        BY <2>1, <3>1
      <3> QED
        BY <1>2, <2>1, <3>1, <3>2, MoveKeeps
    <2>12. CASE RenderRecommendIndex
      BY <1>2, <2>12, RenderKeeps
    <2>13. CASE Returned \/ UNCHANGED vars
      BY <1>2, <2>13, StutterKeeps DEF Returned
    <2> QED
      BY <1>2, <2>2, <2>3, <2>4, <2>5, <2>6, <2>7, <2>8, <2>9, <2>10, <2>11, <2>12, <2>13 DEF Next
  <1> QED
    BY <1>1, <1>2, PTL DEF Spec

\* The loops stay within their lists, and the report within its limit.
THEOREM IndexTypeCorrect == Spec => []TypeOK
  <1>1. IndexInv => TypeOK
    BY DEF IndexInv, TypeInv, PositionInv, TypeOK
  <1> QED
    BY <1>1, IndexInvariant, PTL

\* What is completed is taken from the first n rows of that answer, in their order.
Picked(recommendations, answer, n) ==
  \E at \in [1 .. Len(recommendations) -> 1 .. n] :
    /\ \A j, k \in 1 .. Len(recommendations) : j < k => at[j] < at[k]
    /\ \A j \in 1 .. Len(recommendations) : recommendations[j].advice = answer[at[j]]

\* The advice at hand is what was returned for the statement the loop is at, and every
\* result has that of its own.
AnswerInv ==
  /\ pc \in {"explain", "advise"} => [sample |-> Current, advices |-> advices] \in answers
  /\ pc = "advise" => Picked(completed, advices, tried)
  /\ \A i \in DOMAIN results :
       \E answer \in answers : /\ answer.sample = results[i].sample
                               /\ TakenFrom(results[i].recommendations, answer.advices)

\* The results stay, and so does every answer.
LEMMA ResultsHaveAnswers ==
  ASSUME AnswerInv, answers \subseteq answers', UNCHANGED results
  PROVE  \A i \in DOMAIN results' :
           \E answer \in answers' : /\ answer.sample = results'[i].sample
                                    /\ TakenFrom(results'[i].recommendations, answer.advices)
  BY DEF AnswerInv

\* More rows of the answer have been gone through.
LEMMA PickedOfMore ==
  ASSUME NEW recommendations, NEW answer, NEW n \in Nat, Picked(recommendations, answer, n)
  PROVE  Picked(recommendations, answer, n + 1)
  <1>1. PICK at \in [1 .. Len(recommendations) -> 1 .. n] :
          /\ \A j, k \in 1 .. Len(recommendations) : j < k => at[j] < at[k]
          /\ \A j \in 1 .. Len(recommendations) : recommendations[j].advice = answer[at[j]]
    BY DEF Picked
  <1>2. 1 .. n \subseteq 1 .. (n + 1)
    OBVIOUS
  <1>3. at \in [1 .. Len(recommendations) -> 1 .. (n + 1)]
    BY <1>2
  <1> QED
    BY <1>1, <1>3 DEF Picked

\* The next row of the answer is completed.
LEMMA PickedNext ==
  ASSUME NEW S, NEW recommendations \in Seq(S), NEW answer, NEW n \in Nat, NEW it \in S,
         Picked(recommendations, answer, n), it.advice = answer[n + 1]
  PROVE  Picked(Append(recommendations, it), answer, n + 1)
  <1> DEFINE m == Len(recommendations)
             new == Append(recommendations, it)
  <1>1. PICK at \in [1 .. m -> 1 .. n] :
          /\ \A j, k \in 1 .. m : j < k => at[j] < at[k]
          /\ \A j \in 1 .. m : recommendations[j].advice = answer[at[j]]
    BY DEF Picked
  <1> DEFINE more == [j \in 1 .. (m + 1) |-> IF j = m + 1 THEN n + 1 ELSE at[j]]
  <1>2. /\ m \in Nat /\ Len(new) = m + 1 /\ new[m + 1] = it
        /\ \A j \in 1 .. m : new[j] = recommendations[j]
    OBVIOUS
  <1> HIDE DEF m, new
  <1>3. /\ 1 .. (m + 1) = (1 .. m) \cup {m + 1} /\ m + 1 \notin 1 .. m
        /\ 1 .. n \subseteq 1 .. (n + 1) /\ n + 1 \in 1 .. (n + 1)
        /\ \A j \in 1 .. m : at[j] \in 1 .. n
    BY <1>1, <1>2
  <1>4. /\ more[m + 1] = n + 1
        /\ \A j \in 1 .. m : more[j] = at[j]
    BY <1>3
  <1>5. more \in [1 .. (m + 1) -> 1 .. (n + 1)]
    BY <1>3
  <1> HIDE DEF more
  <1>6. ASSUME NEW j \in 1 .. (m + 1), NEW k \in 1 .. (m + 1), j < k
        PROVE  more[j] < more[k]
    <2>1. j \in 1 .. m
      BY <1>2, <1>6
    <2>2. CASE k \in 1 .. m
      BY <1>1, <1>4, <1>6, <2>1, <2>2
    <2>3. CASE k = m + 1
      <3>1. at[j] \in 1 .. n
        BY <1>3, <2>1
      <3>2. more[j] = at[j] /\ more[k] = n + 1
        BY <1>4, <2>1, <2>3
      <3> QED
        BY <3>1, <3>2
    <2> QED
      BY <1>3, <2>2, <2>3
  <1>7. \A j \in 1 .. (m + 1) : new[j].advice = answer[more[j]]
    BY <1>1, <1>2, <1>3, <1>4
  <1>8. Picked(new, answer, n + 1)
    BY <1>2, <1>5, <1>6, <1>7 DEF Picked
  <1> QED
    BY <1>8 DEF new

\* A result takes the answer of its statement along.
LEMMA ResultTakesAnswer ==
  ASSUME IndexInv, AnswerInv, AddResult
  PROVE  AnswerInv'
  <1> DEFINE it == [sample |-> Current, recommendations |-> completed]
             answer == [sample |-> Current, advices |-> advices]
  <1>1. /\ pc = "advise" /\ pc' \notin {"explain", "advise"}
        /\ tried = Len(advices) /\ results' = Append(results, it) /\ UNCHANGED answers
        /\ results \in Seq(Result)
    BY DEF AddResult, IndexInv, TypeInv
  <1>2. answer \in answers /\ answer.sample = it.sample
    BY <1>1 DEF AnswerInv
  <1>3. TakenFrom(it.recommendations, answer.advices)
    BY <1>1 DEF AnswerInv, Picked, TakenFrom
  <1>4. it \in Result
    <2>1. next \in 1 .. Len(samples) /\ samples \in Seq(SampleRow) /\ completed \in Seq(Completed)
      BY <1>1 DEF IndexInv, TypeInv, PositionInv
    <2> QED
      BY <2>1 DEF Current, Result
  <1> HIDE DEF it, answer
  <1>5. /\ DOMAIN results' = DOMAIN results \cup {Len(results) + 1}
        /\ results'[Len(results) + 1] = it
        /\ \A i \in DOMAIN results : results'[i] = results[i]
    BY <1>1, <1>4, AppendOne
  <1>6. \A i \in DOMAIN results' :
          \E a \in answers' : /\ a.sample = results'[i].sample
                              /\ TakenFrom(results'[i].recommendations, a.advices)
    BY <1>1, <1>2, <1>3, <1>5 DEF AnswerInv
  <1> QED
    BY <1>1, <1>6 DEF AnswerInv

\* The advice of a statement goes with it through every other step.
LEMMA AnswerKeeps ==
  ASSUME IndexInv, AnswerInv, [Next]_vars
  PROVE  AnswerInv'
  <1>1. /\ tried \in Nat /\ advices \in Seq(Advices) /\ Len(advices) \in Nat
        /\ completed \in Seq(Completed)
        /\ pc = "collect" => results = << >>
    BY DEF IndexInv, TypeInv, PositionInv
  <1>2. CASE /\ pc' \notin {"explain", "advise"}
             /\ UNCHANGED <<results, answers>>
    BY <1>2, ResultsHaveAnswers DEF AnswerInv
  <1>3. CASE Recommend
    <2>1. /\ pc' = "explain" /\ Current' = Current /\ answers \subseteq answers'
          /\ [sample |-> Current, advices |-> advices'] \in answers' /\ UNCHANGED results
      BY <1>3 DEF Recommend, cursor, Current
    <2> QED
      BY <2>1, ResultsHaveAnswers DEF AnswerInv
  <1>4. CASE ExplainOld
    <2>1. /\ pc = "explain" /\ pc' = "advise" /\ Current' = Current /\ tried' = 0
          /\ completed' = << >> /\ UNCHANGED <<advices, results, answers>>
      BY <1>4 DEF ExplainOld, ForgetCompleted, cursor, collected, Current
    <2>2. Picked(<< >>, advices, 0)
      <3>1. << >> \in [1 .. Len(<< >>) -> 1 .. 0] /\ 1 .. Len(<< >>) = {}
        OBVIOUS
      <3> QED
        BY <3>1 DEF Picked
    <2> QED
      BY <2>1, <2>2, ResultsHaveAnswers DEF AnswerInv
  <1>5. CASE ExplainAdvice
    <2> DEFINE it == [advice |-> advices[tried + 1], newSQL |-> HintedSQL]
    <2>1. /\ pc = "advise" /\ pc' = "advise" /\ Current' = Current /\ tried' = tried + 1
          /\ completed' = Append(completed, it) /\ UNCHANGED <<advices, results, answers>>
      BY <1>5 DEF ExplainAdvice, cursor, collected, Current
    <2>2. it.advice = advices[tried + 1]
      OBVIOUS
    <2> HIDE DEF it
    <2>3. completed \in Seq(Completed \cup {it})
      BY <1>1
    <2>4. Picked(completed', advices, tried + 1)
      BY <1>1, <2>1, <2>2, <2>3, PickedNext DEF AnswerInv
    <2> QED
      BY <2>1, <2>4, ResultsHaveAnswers DEF AnswerInv
  <1>6. CASE SkipAdvice
    <2>1. /\ pc = "advise" /\ pc' = "advise" /\ Current' = Current /\ tried' = tried + 1
          /\ UNCHANGED <<advices, completed, results, answers>>
      BY <1>6 DEF SkipAdvice, cursor, collected, Current
    <2>2. Picked(completed, advices, tried + 1)
      BY <1>1, <2>1, PickedOfMore DEF AnswerInv
    <2> QED
      BY <2>1, <2>2, ResultsHaveAnswers DEF AnswerInv
  <1>7. CASE AddResult
    BY <1>7, ResultTakesAnswer
  <1>8. CASE UNCHANGED vars
    <2>1. UNCHANGED <<pc, advices, tried, completed, results, answers>> /\ Current' = Current
      BY <1>8 DEF vars, Current
    <2> QED
      BY <2>1, ResultsHaveAnswers DEF AnswerInv
  <1> QED
    BY <1>2, <1>3, <1>4, <1>5, <1>6, <1>7, <1>8
    DEF Next, CollectSamples, CallFails, SkipStatement, NothingCompleted, ListEnds,
        RenderRecommendIndex, Returned, collected

\* The advice reported beside a statement is what RECOMMEND INDEX returned for that very
\* statement, row by row, and the plan beside each was explained for that statement under
\* that advice alone, or under none when the advice lacks a field
\* (recommend_index.go:152-219, 420-432), in spite of skipped statements and skipped advice.
THEOREM AdviceTheorem == Spec => []AdviceIsItsOwn
  <1>1. Init => AnswerInv
    BY DEF Init, AnswerInv
  <1>2. Spec => []AnswerInv
    BY <1>1, AnswerKeeps, IndexInvariant, PTL DEF Spec
  <1>3. IndexInv /\ AnswerInv => AdviceIsItsOwn
    <2> SUFFICES ASSUME IndexInv, AnswerInv, NEW i \in 1 .. Len(results)
                 PROVE  LET sample == results[i].sample
                            recommendations == results[i].recommendations
                        IN /\ \E answer \in answers : /\ answer.sample = sample
                                                      /\ TakenFrom(recommendations, answer.advices)
                           /\ \A j \in 1 .. Len(recommendations) : IsOwn(recommendations[j], sample)
      BY DEF AdviceIsItsOwn, IsOwn
    <2>1. results \in Seq(Result) /\ i \in DOMAIN results
      BY DEF IndexInv, TypeInv
    <2>2. results[i] \in Result
      BY <2>1
    <2>3. results[i].recommendations \in Seq(Completed)
      BY ONLY <2>2 DEF Result
    <2>4. DOMAIN results[i].recommendations = 1 .. Len(results[i].recommendations)
      BY <2>3
    <2> QED
      BY <2>1, <2>4 DEF IndexInv, ResultInv, AnswerInv
  <1> QED
    BY <1>2, <1>3, IndexInvariant, PTL
-----------------------------------------------------------------------------
\* The sums of the properties are sums of the lists of counts.
LEMMA ExecCountIs ==
  ASSUME rows \in Seq(SampleRow), NEW S \in SUBSET (1 .. Len(rows))
  PROVE  ExecCount(S) = SumOver(CountsOf(rows), S)
  <1> DEFINE f == CountsOf(rows)
             Step(g, s) == IF s = {} THEN 0 ELSE rows[AnyOf(s)].execCount + g[s \ {AnyOf(s)}]
             h == CHOOSE g : g = [s \in SUBSET S |-> Step(g, s)]
  <1>1. ExecCount(S) = h[S]
    BY DEF ExecCount, MapThenSumSet, MapThenFoldSet, AnyOf
  <1>2. IsFiniteSet(S)
    <2>1. Len(rows) \in Nat
      OBVIOUS
    <2>2. IsFiniteSet(1 .. Len(rows))
      BY <2>1, FS_Interval
    <2> QED
      BY <2>2, FS_Subset
  <1>3. \A g : \A s \in SUBSET S : Step(g, s) = SumStep(g, f, s)
    <2> SUFFICES ASSUME NEW s \in SUBSET S, s # {}
                 PROVE  f[AnyOf(s)] = rows[AnyOf(s)].execCount
      BY DEF SumStep
    <2>1. AnyOf(s) \in 1 .. Len(rows)
      BY AnyOfIn
    <2> QED
      BY <2>1, CountsType
  <1>4. h = [s \in SUBSET S |-> Step(h, s)]
    <2>1. PICK g : g = [s \in SUBSET S |-> SumStep(g, f, s)]
      BY <1>2, SumTableExists
    <2>2. g = [s \in SUBSET S |-> Step(g, s)]
      BY <1>3, <2>1
    <2> HIDE DEF Step
    <2> QED
      BY <2>2
  <1> HIDE DEF h
  <1>5. \A s \in SUBSET S : h[s] = SumStep(h, f, s)
    BY <1>3, <1>4
  <1> QED
    BY <1>1, <1>2, <1>5, SumSolution DEF f

\* The same of their times.
LEMMA ExecTimeIs ==
  ASSUME rows \in Seq(SampleRow), NEW S \in SUBSET (1 .. Len(rows))
  PROVE  ExecTime(S) = SumOver(TimesOf(rows), S)
  <1> DEFINE f == TimesOf(rows)
             Step(g, s) == IF s = {} THEN 0 ELSE rows[AnyOf(s)].execTime + g[s \ {AnyOf(s)}]
             h == CHOOSE g : g = [s \in SUBSET S |-> Step(g, s)]
  <1>1. ExecTime(S) = h[S]
    BY DEF ExecTime, MapThenSumSet, MapThenFoldSet, AnyOf
  <1>2. IsFiniteSet(S)
    <2>1. Len(rows) \in Nat
      OBVIOUS
    <2>2. IsFiniteSet(1 .. Len(rows))
      BY <2>1, FS_Interval
    <2> QED
      BY <2>2, FS_Subset
  <1>3. \A g : \A s \in SUBSET S : Step(g, s) = SumStep(g, f, s)
    <2> SUFFICES ASSUME NEW s \in SUBSET S, s # {}
                 PROVE  f[AnyOf(s)] = rows[AnyOf(s)].execTime
      BY DEF SumStep
    <2>1. AnyOf(s) \in 1 .. Len(rows)
      BY AnyOfIn
    <2> QED
      BY <2>1, CountsType
  <1>4. h = [s \in SUBSET S |-> Step(h, s)]
    <2>1. PICK g : g = [s \in SUBSET S |-> SumStep(g, f, s)]
      BY <1>2, SumTableExists
    <2>2. g = [s \in SUBSET S |-> Step(g, s)]
      BY <1>3, <2>1
    <2> HIDE DEF Step
    <2> QED
      BY <2>2
  <1> HIDE DEF h
  <1>5. \A s \in SUBSET S : h[s] = SumStep(h, f, s)
    BY <1>3, <1>4
  <1> QED
    BY <1>1, <1>2, <1>5, SumSolution DEF f

\* Each sample has the counts of its rows, and every plan of a statement has its sample.
LEMMA SamplesHave ==
  ASSUME IndexInv
  PROVE  /\ Len(samples) \in Nat
         /\ Keys = {Key(samples[i]) : i \in 1 .. Len(samples)}
         /\ \A i, j \in 1 .. Len(samples) : Key(samples[i]) = Key(samples[j]) => i = j
         /\ \A i \in 1 .. Len(samples) :
              /\ samples[i].execTime = ExecTime(RowsOf(Key(samples[i])))
              /\ samples[i].execCount = ExecCount(RowsOf(Key(samples[i])))
  <1>1. /\ rows \in Seq(SampleRow) /\ samples \in Seq(SampleRow) /\ Len(samples) \in Nat
        /\ DOMAIN samples = 1 .. Len(samples)
    BY DEF IndexInv, TypeInv
  <1>2. /\ \A a, b \in DOMAIN samples : Key(samples[a]) = Key(samples[b]) => a = b
        /\ \A a \in DOMAIN samples : IsGroup(samples[a], rows, Len(rows))
        /\ \A j \in 1 .. Len(rows) : \E a \in DOMAIN samples : Key(samples[a]) = Key(rows[j])
    BY DEF IndexInv, SampleInv, IsAggregate
  <1>3. \A key : RowsOf(key) = RowsWith(rows, Len(rows), key) /\ RowsOf(key) \in SUBSET (1 .. Len(rows))
    BY DEF RowsOf, RowsWith
  <1>4. ASSUME NEW i \in 1 .. Len(samples)
        PROVE  /\ samples[i].execTime = ExecTime(RowsOf(Key(samples[i])))
               /\ samples[i].execCount = ExecCount(RowsOf(Key(samples[i])))
               /\ RowsOf(Key(samples[i])) # {}
    <2> DEFINE mine == RowsOf(Key(samples[i]))
    <2>1. /\ mine # {} /\ mine \in SUBSET (1 .. Len(rows))
          /\ samples[i].execCount = SumOver(CountsOf(rows), mine)
          /\ samples[i].execTime = SumOver(TimesOf(rows), mine)
      BY <1>1, <1>2, <1>3 DEF IsGroup
    <2>2. ExecCount(mine) = SumOver(CountsOf(rows), mine) /\ ExecTime(mine) = SumOver(TimesOf(rows), mine)
      BY <1>1, <2>1, ExecCountIs, ExecTimeIs
    <2> QED
      BY <2>1, <2>2
  <1>5. Keys = {Key(samples[i]) : i \in 1 .. Len(samples)}
    <2>1. \A i \in 1 .. Len(samples) : Key(samples[i]) \in Keys
      BY <1>4 DEF RowsOf, Keys
    <2>2. \A key \in Keys : \E i \in 1 .. Len(samples) : Key(samples[i]) = key
      BY <1>1, <1>2 DEF Keys
    <2> QED
      BY <2>1, <2>2
  <1> QED
    BY <1>1, <1>2, <1>4, <1>5

\* Every row of the snapshot is counted in one sample, and every other plan of its statement
\* stays a sample of its own (recommend_index.go:228-266).
THEOREM SamplesTheorem == Spec => []SamplesAddUp
  <1>1. IndexInv => SamplesAddUp
    <2> SUFFICES ASSUME IndexInv PROVE SamplesAddUp
      OBVIOUS
    <2> DEFINE n == Len(samples)
               P == 1 .. n
               f == [i \in P |-> Key(samples[i])]
    <2>1. /\ n \in Nat
          /\ Keys = {Key(samples[i]) : i \in P}
          /\ \A i, j \in P : Key(samples[i]) = Key(samples[j]) => i = j
          /\ \A i \in P : /\ samples[i].execTime = ExecTime(RowsOf(Key(samples[i])))
                          /\ samples[i].execCount = ExecCount(RowsOf(Key(samples[i])))
      BY SamplesHave
    <2> HIDE DEF n
    <2>2. IsFiniteSet(P) /\ Cardinality(P) = n
      <3>1. IsFiniteSet(1 .. n) /\ Cardinality(1 .. n) = IF 1 > n THEN 0 ELSE n - 1 + 1
        BY <2>1, FS_Interval
      <3> QED
        BY <2>1, <3>1
    <2> HIDE DEF P
    <2>3. /\ f \in [P -> Keys]
          /\ \A x, y \in P : f[x] = f[y] => x = y
          /\ \A z \in Keys : \E x \in P : f[x] = z
      BY <2>1
    <2> HIDE DEF f
    <2>4. Cardinality(Keys) = n
      BY <2>2, <2>3, SameSize
    <2> QED
      BY <2>1, <2>4 DEF SamplesAddUp, n, P
  <1> QED
    BY <1>1, IndexInvariant, PTL

\* A statement that was never examined is not slower than any that is reported, and only a
\* full report leaves statements unexamined (README.md:79-83, recommend_index.go:220-223).
THEOREM SlowestTheorem == Spec => []ReportedAreTheSlowest
  <1>1. IndexInv => ReportedAreTheSlowest
    <2> SUFFICES ASSUME IndexInv, pc = "reported" PROVE ReportedAreTheSlowest
      BY DEF ReportedAreTheSlowest
    <2> DEFINE examined == {Key(samples[i]) : i \in 1 .. (next - 1)}
               n == Len(samples)
    <2>1. /\ samples \in Seq(SampleRow) /\ n \in Nat /\ DOMAIN samples = 1 .. n
          /\ next \in 1 .. (n + 1) /\ results \in Seq(Result)
      BY DEF IndexInv, TypeInv
    <2>2. /\ Keys = {Key(samples[i]) : i \in 1 .. n}
          /\ \A i \in 1 .. n : samples[i].execTime = ExecTime(RowsOf(Key(samples[i])))
      BY SamplesHave
    <2>3. PICK p : IsOrder(p, report, results)
      BY SortedResults DEF IndexInv, ReportInv
    <2>4. /\ Len(report) = Len(results) /\ DOMAIN results = 1 .. Len(report)
          /\ \A i \in DOMAIN results : p[i] \in DOMAIN results /\ report[i] = results[p[i]]
      BY <2>1, <2>3, OrderType
    <2> HIDE DEF n, examined
    <2>5. ASSUME NEW key \in Keys \ examined
          PROVE  \E k \in 1 .. n : key = Key(samples[k]) /\ k >= next
      <3>1. PICK k \in 1 .. n : key = Key(samples[k])
        BY <2>2
      <3>2. k \notin 1 .. (next - 1)
        BY <2>5, <3>1 DEF examined
      <3>3. k >= next
        BY <2>1, <3>2
      <3> QED
        BY <3>1, <3>3
    <2>6. ASSUME NEW i \in 1 .. Len(report), NEW key \in Keys \ examined
          PROVE  ExecTime(RowsOf(key)) <= ExecTime(RowsOf(Key(report[i].sample)))
      <3>1. PICK k \in 1 .. n : key = Key(samples[k]) /\ k >= next
        BY <2>5
      <3>2. p[i] \in DOMAIN results /\ report[i] = results[p[i]]
        BY <2>4
      <3>3. PICK j \in 1 .. (next - 1) : results[p[i]].sample = samples[j]
        BY <3>2 DEF IndexInv, ResultInv
      <3>4. j \in 1 .. n /\ j < k
        BY <2>1, <3>1
      <3>5. samples[k].execTime <= samples[j].execTime
        BY <2>1, <3>4 DEF IndexInv, SampleInv, SlowestFirst
      <3> QED
        BY <2>2, <3>1, <3>2, <3>3, <3>4, <3>5
    <2>7. ASSUME Keys \ examined # {} PROVE Len(report) = MaxResults
      <3>1. PICK key \in Keys \ examined : TRUE
        BY <2>7
      <3>2. PICK k \in 1 .. n : k >= next
        BY <2>5
      <3>3. next # n + 1
        BY <2>1, <3>2
      <3> QED
        BY <2>4, <3>3 DEF IndexInv, PositionInv, n
    <2> QED
      BY <2>6, <2>7 DEF ReportedAreTheSlowest, examined
  <1> QED
    BY <1>1, IndexInvariant, PTL
==============================================================================
