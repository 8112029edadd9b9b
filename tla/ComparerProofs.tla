----------------------------- MODULE ComparerProofs -----------------------------
(***************************************************************************)
(* What the plan code and the comparison report compute, for every plan    *)
(* text, every snapshot and every answer of EXPLAIN: first the parser and  *)
(* the comparison of two plans (PlanTree, PlanPairs), then the report that *)
(* Compare builds with them (Comparer).                                    *)
(***************************************************************************)
EXTENDS Comparer, PlanPairs, DataLemmas

TextRow == [operator : ToSet(OperatorOrder), task : ToSet(TaskOrder),
            object : ToSet(ObjectOrder), depth : Int]
Text == Seq(TextRow)
Node == {NodeOf(r) : r \in TextRow}

Below(t, i) == t[i].depth - t[1].depth
InPlace(t, i) == Below(t, i) >= 1 /\ Below(t, i) <= Below(t, i - 1) + 1

\* In a text that lists a tree, row c is a child of row q.
IsChild(t, q, c) ==
  /\ q < c
  /\ Below(t, c) = Below(t, q) + 1
  /\ \A m \in (q + 1) .. c : Below(t, m) > Below(t, q)

Started == [NoRows EXCEPT !.status = "ok"]

\* p[i] is what the loop of parsePlan has after i rows of t, up to the n-th.
IsParsing(p, t, n) ==
  /\ p = [i \in 0 .. n |-> p[i]]
  /\ p[0] = Started
  /\ \A i \in 1 .. n : p[i] = ParseRow(p[i - 1], t[i], Below(t, i))

Increasing(s) == \A j, k \in DOMAIN s : j < k => s[j] < s[k]

\* What the loop has after i rows that are in place.
StackIs(stack, t, i) ==
  /\ stack \in Seq(1 .. i)
  /\ Len(stack) = Below(t, i) + 1
  /\ stack[Len(stack)] = i
  /\ \A d \in 1 .. Len(stack) :
       /\ Below(t, stack[d]) = d - 1
       /\ \A j \in (stack[d] + 1) .. i : Below(t, j) >= d

NodesAre(nodes, t, i) ==
  /\ nodes \in Seq(Node)
  /\ Len(nodes) = i
  /\ \A j \in 1 .. i : nodes[j] = NodeOf(t[j])

ChildrenAre(children, t, i) ==
  /\ children \in Seq(Seq(1 .. i))
  /\ Len(children) = i
  /\ \A q \in 1 .. i :
       /\ Increasing(children[q])
       /\ \A k \in DOMAIN children[q] : IsChild(t, q, children[q][k])
       /\ \A c \in 1 .. i : IsChild(t, q, c) => \E k \in DOMAIN children[q] : children[q][k] = c

IsTree(parse, t, i) ==
  /\ parse = [status |-> "ok", stack |-> parse.stack, nodes |-> parse.nodes,
              children |-> parse.children]
  /\ StackIs(parse.stack, t, i)
  /\ NodesAre(parse.nodes, t, i)
  /\ ChildrenAre(parse.children, t, i)
-----------------------------------------------------------------------------
\* The loop runs to its end on every text: each prefix of the rows has an outcome.
LEMMA ParsingExists ==
  ASSUME NEW t, NEW n \in Nat
  PROVE  \E p : IsParsing(p, t, n)
  <1> DEFINE Bad == {m \in 0 .. n : ~\E p : IsParsing(p, t, m)}
  <1> SUFFICES ASSUME Bad # {} PROVE FALSE
    <2> n \in 0 .. n
      OBVIOUS
    <2> QED
      OBVIOUS
  <1>1. PICK m \in Bad : \A k \in Bad : m <= k
    <2> Bad \in SUBSET Nat
      OBVIOUS
    <2> HIDE DEF Bad
    <2> QED
      BY LeastNat
  <1>2. CASE m = 0
    <2>1. IsParsing([i \in 0 .. 0 |-> Started], t, 0)
      BY DEF IsParsing
    <2> QED
      BY <1>1, <1>2, <2>1
  <1>3. CASE m # 0
    <2>0. m - 1 \in 0 .. n
      BY <1>1, <1>3
    <2>1. PICK p : IsParsing(p, t, m - 1)
      BY <1>1, <1>3, <2>0
    <2> DEFINE h == [i \in 0 .. m |-> IF i = m THEN ParseRow(p[m - 1], t[m], Below(t, m)) ELSE p[i]]
    <2>2. IsParsing(h, t, m)
      <3>1. /\ m \in 1 .. n
            /\ p[0] = Started
            /\ \A i \in 1 .. (m - 1) : p[i] = ParseRow(p[i - 1], t[i], Below(t, i))
        <4>1. m \in 1 .. n
          BY <1>1, <1>3
        <4>2. p[0] = Started
          BY <2>1 DEF IsParsing
        <4>3. \A i \in 1 .. (m - 1) : p[i] = ParseRow(p[i - 1], t[i], Below(t, i))
          BY ONLY <2>1, Zenon DEF IsParsing
        <4> QED
          BY <4>1, <4>2, <4>3
      <3>2. h = [i \in 0 .. m |-> h[i]] /\ h[0] = Started
        BY <3>1
      <3>3. ASSUME NEW i \in 1 .. m PROVE h[i] = ParseRow(h[i - 1], t[i], Below(t, i))
        <4>1. CASE i = m
          <5>1. h[i] = ParseRow(p[m - 1], t[m], Below(t, m)) /\ h[i - 1] = p[m - 1]
            BY <3>1, <4>1
          <5> QED
            BY <4>1, <5>1
        <4>2. CASE i # m
          <5>1. i \in 1 .. (m - 1) /\ h[i] = p[i] /\ h[i - 1] = p[i - 1]
            BY <3>1, <4>2
          <5> QED
            BY <3>1, <5>1
        <4> QED
          BY <4>1, <4>2
      <3> QED
        BY <3>2, <3>3 DEF IsParsing
    <2> QED
      BY <1>1, <2>2
  <1> QED
    BY <1>2, <1>3

\* The recursive function of ParsePlan, and that it is what its equation says.
ParsingOf(t) ==
  CHOOSE p : p = [i \in 0 .. Len(t) |-> IF i = 0 THEN Started
                                        ELSE ParseRow(p[i - 1], t[i], Depths(t)[i])]

\* So ParsePlan returns what the loop has after the last row.
LEMMA ParsePlanIsLast ==
  ASSUME NEW t \in Text, t # <<>>
  PROVE  /\ Len(t) \in Nat \ {0}
         /\ ParsePlan(t) = ParsingOf(t)[Len(t)]
         /\ IsParsing(ParsingOf(t), t, Len(t))
  <1>0. Len(t) \in Nat \ {0}
    BY DEF Text
  <1>1. ParsePlan(t) = ParsingOf(t)[Len(t)]
    BY DEF ParsePlan, ParsingOf, Started
  <1>2. \A i \in 1 .. Len(t) : Depths(t)[i] = Below(t, i)
    BY DEF Depths, Below
  <1>3. PICK p : IsParsing(p, t, Len(t))
    BY <1>0, ParsingExists
  <1> DEFINE F(q) == [i \in 0 .. Len(t) |-> IF i = 0 THEN Started
                                           ELSE ParseRow(q[i - 1], t[i], Depths(t)[i])]
  <1>4. p = F(p)
    <2>1. ASSUME NEW i \in 0 .. Len(t)
          PROVE  p[i] = IF i = 0 THEN Started ELSE ParseRow(p[i - 1], t[i], Depths(t)[i])
      <3>1. CASE i = 0
        BY <1>3, <3>1 DEF IsParsing
      <3>2. CASE i # 0
        <4>1. i \in 1 .. Len(t)
          BY <3>2
        <4>2. p[i] = ParseRow(p[i - 1], t[i], Below(t, i))
          BY ONLY <1>3, <4>1, Zenon DEF IsParsing
        <4> QED
          BY <1>2, <3>2, <4>1, <4>2
      <3> QED
        BY <3>1, <3>2
    <2>2. p = [i \in 0 .. Len(t) |-> p[i]]
      BY ONLY <1>3, Zenon DEF IsParsing
    <2> QED
      BY <2>1, <2>2
  <1>5. ParsingOf(t) = F(ParsingOf(t))
    BY <1>4 DEF ParsingOf
  <1>6. IsParsing(ParsingOf(t), t, Len(t))
    <2> DEFINE q == ParsingOf(t)
    <2>1. q = F(q)
      BY <1>5
    <2> HIDE DEF q
    <2>2. q = [i \in 0 .. Len(t) |-> q[i]]
      BY <2>1
    <2>3. q[0] = Started
      BY <1>0, <2>1
    <2>4. ASSUME NEW i \in 1 .. Len(t) PROVE q[i] = ParseRow(q[i - 1], t[i], Below(t, i))
      <3>1. i \in 0 .. Len(t) /\ i # 0
        OBVIOUS
      <3>2. q[i] = ParseRow(q[i - 1], t[i], Depths(t)[i])
        BY <2>1, <3>1
      <3> QED
        BY <1>2, <3>2
    <2>5. IsParsing(q, t, Len(t))
      BY <2>2, <2>3, <2>4 DEF IsParsing
    <2> QED
      BY <2>5 DEF q
  <1> QED
    BY <1>0, <1>1, <1>6
-----------------------------------------------------------------------------
\* Depths in a text are integers, the first row's is 0.
LEMMA BelowType ==
  ASSUME NEW t \in Text
  PROVE  /\ \A i \in 1 .. Len(t) : Below(t, i) \in Int /\ NodeOf(t[i]) \in Node
         /\ t # <<>> => Below(t, 1) = 0
  <1>1. ASSUME NEW i \in 1 .. Len(t) PROVE t[i] \in TextRow /\ t[1] \in TextRow
    <2>1. \A j \in 1 .. Len(t) : t[j] \in TextRow
      BY ONLY t \in Text DEF Text
    <2>2. 1 \in 1 .. Len(t)
      BY Len(t) \in Nat DEF Text
    <2> QED
      BY <2>1, <2>2
  <1>2. \A r \in TextRow : r.depth \in Int
    BY DEF TextRow
  <1>3. ASSUME NEW i \in 1 .. Len(t) PROVE Below(t, i) \in Int /\ NodeOf(t[i]) \in Node
    <2>1. t[i].depth \in Int /\ t[1].depth \in Int
      BY <1>1, <1>2
    <2> QED
      BY <1>1, <2>1 DEF Below, Node
  <1>4. ASSUME t # <<>> PROVE Below(t, 1) = 0
    <2>1. 1 \in 1 .. Len(t)
      BY <1>4 DEF Text
    <2>2. t[1].depth \in Int
      BY <1>1, <1>2, <2>1
    <2> QED
      BY <2>2 DEF Below
  <1> QED
    BY <1>3, <1>4

\* An error, or a panic, is what the parser ends with.
LEMMA ErrorStays ==
  ASSUME NEW parse, NEW row, NEW d, parse.status # "ok"
  PROVE  ParseRow(parse, row, d) = parse
  BY DEF ParseRow

\* The first row is the tree of one node.
LEMMA FirstRow ==
  ASSUME NEW t \in Text, t # <<>>
  PROVE  IsTree(ParseRow(Started, t[1], Below(t, 1)), t, 1)
  <1>1. 1 \in 1 .. Len(t) /\ Below(t, 1) = 0 /\ NodeOf(t[1]) \in Node
    <2>1. 1 \in 1 .. Len(t)
      BY DEF Text
    <2> QED
      BY <2>1, BelowType
  <1>2. /\ Started.status = "ok" /\ Started.nodes = <<>> /\ Started.stack = <<>>
        /\ Started.children = <<>>
    BY DEF Started, NoRows
  <1> DEFINE root == [status |-> "ok", stack |-> <<1>>, nodes |-> <<NodeOf(t[1])>>,
                      children |-> << <<>> >>]
  <1>3. ParseRow(Started, t[1], 0) = root
    <2>2. ~(0 > Len(<<>>)) /\ ~(0 < 0) /\ Len(<<>>) + 1 = 1
      OBVIOUS
    <2>3. Append(Ancestors(<<>>, 0), 1) = <<1>>
      <3>1. SubSeq(<<>>, 1, 0) = <<>>
        OBVIOUS
      <3>2. Append(<<>>, 1) = <<1>>
        OBVIOUS
      <3>3. Ancestors(<<>>, 0) = <<>>
        BY <3>1 DEF Ancestors
      <3> QED
        BY ONLY <3>2, <3>3, Zenon
    <2>4. Append(<<>>, NodeOf(t[1])) = <<NodeOf(t[1])>> /\ Append(<<>>, <<>>) = << <<>> >>
      OBVIOUS
    <2> QED
      BY <1>2, <2>2, <2>3, <2>4 DEF ParseRow
  <1>4. StackIs(<<1>>, t, 1)
    BY <1>1 DEF StackIs
  <1>5. NodesAre(<<NodeOf(t[1])>>, t, 1)
    BY <1>1 DEF NodesAre
  <1>6. ChildrenAre(<< <<>> >>, t, 1)
    <2>1. << <<>> >> \in Seq(Seq(1 .. 1)) /\ Len(<< <<>> >>) = 1
      OBVIOUS
    <2>2. DOMAIN <<>> = {}
      OBVIOUS
    <2>3. ~IsChild(t, 1, 1)
      BY DEF IsChild
    <2>4. \A q \in 1 .. 1 : << <<>> >>[q] = <<>>
      OBVIOUS
    <2> QED
      BY <2>1, <2>2, <2>3, <2>4 DEF ChildrenAre, Increasing
  <1> QED
    BY <1>1, <1>3, <1>4, <1>5, <1>6 DEF IsTree

\* A row out of place ends the parse: to the left of the first row with a panic,
\* anywhere else with an error.
LEMMA RowOutOfPlace ==
  ASSUME NEW t \in Text, NEW i \in 1 .. Len(t), i + 1 <= Len(t), NEW parse, IsTree(parse, t, i),
         ~InPlace(t, i + 1)
  PROVE  LET status == ParseRow(parse, t[i + 1], Below(t, i + 1)).status
         IN /\ status # "ok"
            /\ status = "panic" <=> Below(t, i + 1) < 0
  <1> DEFINE d == Below(t, i + 1)
  <1>1. /\ d \in Int /\ Below(t, i) \in Int /\ i + 1 - 1 = i
        /\ parse.status = "ok" /\ parse.nodes # <<>>
        /\ Len(parse.stack) = Below(t, i) + 1 /\ Len(parse.stack) \in Nat
    <2>1. i + 1 \in 1 .. Len(t) /\ i + 1 - 1 = i
      OBVIOUS
    <2>2. parse.status = "ok" /\ StackIs(parse.stack, t, i) /\ NodesAre(parse.nodes, t, i)
      BY DEF IsTree
    <2>3. parse.nodes # <<>>
      BY <2>2 DEF NodesAre
    <2>4. Len(parse.stack) = Below(t, i) + 1 /\ Len(parse.stack) \in Nat
      BY <2>2 DEF StackIs
    <2> QED
      BY <2>1, <2>2, <2>3, <2>4, BelowType
  <1>2. d < 1 \/ d > Len(parse.stack)
    BY <1>1 DEF InPlace
  <1>3. parse = [status |-> parse.status, stack |-> parse.stack, nodes |-> parse.nodes,
                 children |-> parse.children]
    BY <1>1 DEF IsTree
  <1>4. \A x : [parse EXCEPT !.status = x].status = x
    BY <1>3
  <1> HIDE DEF d
  <1>5. CASE d = 0
    <2>1. ParseRow(parse, t[i + 1], d) = [parse EXCEPT !.status = "multiple roots"]
      BY <1>1, <1>5 DEF ParseRow
    <2>2. ParseRow(parse, t[i + 1], d).status = "multiple roots"
      BY <1>4, <2>1
    <2>3. ~(d < 0)
      BY <1>5
    <2> QED
      BY <2>2, <2>3 DEF d
  <1>6. CASE d > Len(parse.stack)
    <2>0. d # 0 /\ ~(d < 0)
      BY <1>1, <1>6
    <2>1. ParseRow(parse, t[i + 1], d) = [parse EXCEPT !.status = "invalid depth"]
      BY <1>1, <1>6, <2>0 DEF ParseRow
    <2> QED
      BY <1>4, <2>0, <2>1 DEF d
  <1>7. CASE d < 0
    <2>0. d # 0 /\ ~(d > Len(parse.stack))
      BY <1>1, <1>7
    <2>1. ParseRow(parse, t[i + 1], d) = [parse EXCEPT !.status = "panic"]
      BY <1>1, <1>7, <2>0 DEF ParseRow
    <2> QED
      BY <1>4, <1>7, <2>1 DEF d
  <1> QED
    BY <1>1, <1>2, <1>5, <1>6, <1>7
\* The stack after a row in place is the path to that row.
LEMMA StackGrows ==
  ASSUME NEW t \in Text, NEW i \in 1 .. Len(t), i + 1 <= Len(t), NEW stack, StackIs(stack, t, i),
         InPlace(t, i + 1)
  PROVE  LET d == Below(t, i + 1)
         IN /\ d \in 1 .. Len(stack)
            /\ Ancestors(stack, d)[d] = stack[d] /\ stack[d] \in 1 .. i
            /\ StackIs(Append(Ancestors(stack, d), i + 1), t, i + 1)
  <1> DEFINE d == Below(t, i + 1)
             up == Ancestors(stack, d)
             new == Append(up, i + 1)
  <1>1. /\ i \in Nat /\ i >= 1 /\ i + 1 \in 1 .. Len(t) /\ i + 1 - 1 = i
        /\ stack \in Seq(1 .. i) /\ Len(stack) = Below(t, i) + 1 /\ Len(stack) \in Nat
    BY DEF StackIs
  <1>2. d \in 1 .. Len(stack)
    BY <1>1, BelowType DEF InPlace
  <1>3. /\ up \in Seq(1 .. i) /\ Len(up) = d
        /\ \A k \in 1 .. d : up[k] = stack[k] /\ stack[k] \in 1 .. i
    <2> HIDE DEF d
    <2>1. Ancestors(stack, d) = SubSeq(stack, 1, d)
      BY DEF Ancestors
    <2>2. \A k \in 1 .. Len(stack) : stack[k] \in 1 .. i
      BY <1>1
    <2> QED
      BY <1>1, <1>2, <2>1, <2>2
  <1>4. \A k \in 1 .. Len(stack) : /\ Below(t, stack[k]) = k - 1
                                   /\ \A j \in (stack[k] + 1) .. i : Below(t, j) >= k
    BY DEF StackIs
  <1>5. StackIs(new, t, i + 1)
    <2> HIDE DEF d, up
    <2>1. /\ new \in Seq(1 .. (i + 1)) /\ Len(new) = d + 1 /\ new[d + 1] = i + 1
          /\ \A k \in 1 .. d : new[k] = stack[k]
      BY <1>1, <1>2, <1>3
    <2>2. ASSUME NEW k \in 1 .. (d + 1)
          PROVE  /\ Below(t, new[k]) = k - 1
                 /\ \A j \in (new[k] + 1) .. (i + 1) : Below(t, j) >= k
      <3>1. CASE k = d + 1
        BY <1>1, <1>2, <2>1, <3>1 DEF d
      <3>2. CASE k # d + 1
        <4>1. k \in 1 .. d /\ k \in 1 .. Len(stack) /\ new[k] = stack[k] /\ stack[k] \in 1 .. i
          BY <1>2, <1>3, <2>1, <3>2
        <4>2. ASSUME NEW j \in (stack[k] + 1) .. (i + 1) PROVE Below(t, j) >= k
          <5>1. CASE j = i + 1
            BY <1>2, <4>1, <5>1 DEF d
          <5>2. CASE j # i + 1
            BY <1>1, <1>4, <4>1, <5>2
          <5> QED
            BY <5>1, <5>2
        <4> QED
          BY <1>4, <4>1, <4>2
      <3> QED
        BY <3>1, <3>2
    <2> HIDE DEF new
    <2>3. Len(new) = Below(t, i + 1) + 1 /\ new[Len(new)] = i + 1
      BY <2>1 DEF d
    <2>4. \A k \in 1 .. Len(new) : /\ Below(t, new[k]) = k - 1
                                   /\ \A j \in (new[k] + 1) .. (i + 1) : Below(t, j) >= k
      BY <2>1, <2>2
    <2> QED
      BY <2>1, <2>3, <2>4 DEF StackIs
  <1> QED
    BY <1>2, <1>3, <1>5

\* A row in place is a child of the row below which it is on the stack, of no other row.
LEMMA ParentOnStack ==
  ASSUME NEW t \in Text, NEW i \in 1 .. Len(t), i + 1 <= Len(t), NEW stack, StackIs(stack, t, i),
         InPlace(t, i + 1)
  PROVE  \A q \in 1 .. i : IsChild(t, q, i + 1) <=> q = stack[Below(t, i + 1)]
  <1> DEFINE d == Below(t, i + 1)
             up == stack[d]
  <1>1. d \in 1 .. Len(stack) /\ up \in 1 .. i /\ d \in Int
    BY StackGrows
  <1>2. Below(t, up) = d - 1 /\ \A j \in (up + 1) .. i : Below(t, j) >= d
    BY <1>1 DEF StackIs
  <1>3. \A j \in 1 .. (i + 1) : Below(t, j) \in Int
    BY BelowType
  <1>4. IsChild(t, up, i + 1)
    <2>1. \A m \in (up + 1) .. (i + 1) : Below(t, m) > Below(t, up)
      <3> SUFFICES ASSUME NEW m \in (up + 1) .. (i + 1) PROVE Below(t, m) > Below(t, up)
        OBVIOUS
      <3>1. CASE m = i + 1
        BY <1>1, <1>2, <3>1
      <3>2. CASE m # i + 1
        <4>1. m \in (up + 1) .. i /\ m \in 1 .. (i + 1)
          BY <1>1, <3>2
        <4> QED
          BY <1>1, <1>2, <1>3, <4>1
      <3> QED
        BY <3>1, <3>2
    <2>2. up < i + 1 /\ Below(t, i + 1) = Below(t, up) + 1
      BY <1>1, <1>2
    <2> QED
      BY <2>1, <2>2 DEF IsChild
  <1>5. ASSUME NEW q \in 1 .. i, IsChild(t, q, i + 1), q # up PROVE FALSE
    <2>1. d = Below(t, q) + 1 /\ \A m \in (q + 1) .. (i + 1) : Below(t, m) > Below(t, q)
      BY <1>5 DEF IsChild
    <2>2. Below(t, q) \in Int
      BY <1>3
    <2> HIDE DEF d, up
    <2>3. CASE q < up
      BY <1>1, <1>2, <2>1, <2>2, <2>3
    <2>4. CASE up < q
      BY <1>1, <1>2, <2>1, <2>2, <2>4
    <2> QED
      BY <1>1, <1>5, <2>3, <2>4
  <1> QED
    BY <1>4, <1>5
\* The lists of children when row id is added as the last child of row up.
WithChild(children, up, id) == [Append(children, << >>) EXCEPT ![up] = Append(@, id)]

\* What the new row does to the lists of children: its parent's grows by one at the
\* end, its own is empty, and the others stay.
LEMMA ChildrenAppend ==
  ASSUME NEW i \in Nat \ {0}, NEW children \in Seq(Seq(1 .. i)), Len(children) = i, NEW up \in 1 .. i
  PROVE  LET new == WithChild(children, up, i + 1)
         IN /\ new \in Seq(Seq(1 .. (i + 1))) /\ Len(new) = i + 1
            /\ new[up] = Append(children[up], i + 1)
            /\ new[i + 1] = << >>
            /\ \A q \in 1 .. i : q # up => new[q] = children[q]
            /\ \A q \in 1 .. i : children[q] \in Seq(1 .. i)
  <1> DEFINE grown == Append(children, << >>)
             new == [grown EXCEPT ![up] = Append(@, i + 1)]
             S == Seq(1 .. (i + 1))
  <1>1. \A q \in 1 .. i : children[q] \in Seq(1 .. i)
    OBVIOUS
  <1>2. \A s \in Seq(1 .. i) : s \in S
    OBVIOUS
  <1>3. \A s \in S : Append(s, i + 1) \in S
    OBVIOUS
  <1>4. << >> \in S
    OBVIOUS
  <1>5. /\ Len(grown) = i + 1 /\ DOMAIN grown = 1 .. (i + 1)
        /\ grown = [q \in 1 .. (i + 1) |-> grown[q]]
        /\ grown[i + 1] = << >> /\ \A q \in 1 .. i : grown[q] = children[q]
    <2> DEFINE T == Seq(1 .. i)
    <2>1. children \in Seq(T) /\ << >> \in T
      OBVIOUS
    <2> HIDE DEF T
    <2>2. grown \in Seq(T) /\ Len(grown) = i + 1
      BY <2>1
    <2>3. grown[i + 1] = << >> /\ \A q \in 1 .. i : grown[q] = children[q]
      <3>1. DOMAIN children = 1 .. i
        BY <2>1
      <3>2. /\ grown[Len(children) + 1] = << >>
            /\ \A q \in DOMAIN children : grown[q] = children[q]
        <4> DEFINE x == << >>
        <4>1. x \in T /\ grown = Append(children, x)
          BY <2>1
        <4> HIDE DEF x, grown
        <4>2. /\ grown[Len(children) + 1] = x
              /\ \A q \in DOMAIN children : grown[q] = children[q]
          BY ONLY <2>1, <4>1, AppendOne
        <4> QED
          BY <4>2 DEF x
      <3> QED
        BY <3>1, <3>2
    <2> HIDE DEF grown
    <2>4. DOMAIN grown = 1 .. (i + 1) /\ grown = [q \in 1 .. (i + 1) |-> grown[q]]
      BY <2>2
    <2> QED
      BY <2>2, <2>3, <2>4
  <1>6. \A q \in 1 .. (i + 1) : grown[q] \in S
    <2> SUFFICES ASSUME NEW q \in 1 .. (i + 1) PROVE grown[q] \in S
      OBVIOUS
    <2> HIDE DEF S, grown
    <2>1. CASE q = i + 1
      BY <1>4, <1>5, <2>1
    <2>2. CASE q # i + 1
      <3>1. q \in 1 .. i
        BY <2>2
      <3> QED
        BY <1>1, <1>2, <1>5, <3>1
    <2> QED
      BY <2>1, <2>2
  <1>7. Append(grown[up], i + 1) \in S
    <2>1. grown[up] \in S
      BY <1>6
    <2> HIDE DEF S, grown
    <2> QED
      BY <1>3, <2>1
  <1> HIDE DEF grown, S
  <1>8. new = [q \in 1 .. (i + 1) |-> IF q = up THEN Append(grown[up], i + 1) ELSE grown[q]]
    BY <1>5
  <1>9. \A q \in 1 .. (i + 1) : new[q] = IF q = up THEN Append(grown[up], i + 1) ELSE grown[q]
    BY <1>8
  <1>10. new \in [1 .. (i + 1) -> S]
    <2>1. \A q \in 1 .. (i + 1) : (IF q = up THEN Append(grown[up], i + 1) ELSE grown[q]) \in S
      BY <1>6, <1>7
    <2> QED
      BY <1>8, <2>1
  <1>11. new[up] = Append(children[up], i + 1) /\ new[i + 1] = << >>
         /\ \A q \in 1 .. i : q # up => new[q] = children[q]
    <2> HIDE DEF new
    <2>1. up \in 1 .. (i + 1) /\ i + 1 \in 1 .. (i + 1) /\ i + 1 # up
      OBVIOUS
    <2>2. \A q \in 1 .. i : q \in 1 .. (i + 1)
      OBVIOUS
    <2> QED
      BY <1>5, <1>9, <2>1, <2>2
  <1>12. new \in Seq(S) /\ Len(new) = i + 1
    <2> HIDE DEF new
    <2> QED
      BY <1>10
  <1>13. new = WithChild(children, up, i + 1)
    BY DEF WithChild, grown
  <1> HIDE DEF new
  <1> QED
    BY <1>1, <1>11, <1>12, <1>13 DEF S

\* So the lists hold the children of every row, the earlier ones first.
LEMMA ChildrenGrow ==
  ASSUME NEW t \in Text, NEW i \in 1 .. Len(t), i + 1 <= Len(t), NEW stack, StackIs(stack, t, i),
         InPlace(t, i + 1), NEW children, ChildrenAre(children, t, i)
  PROVE  ChildrenAre(WithChild(children, stack[Below(t, i + 1)], i + 1), t, i + 1)
  <1> DEFINE up == stack[Below(t, i + 1)]
             new == WithChild(children, up, i + 1)
  <1>1. up \in 1 .. i /\ i \in Nat \ {0}
    BY StackGrows
  <1>2. \A q \in 1 .. i : IsChild(t, q, i + 1) <=> q = up
    BY ParentOnStack
  <1>3. /\ children \in Seq(Seq(1 .. i)) /\ Len(children) = i
        /\ \A q \in 1 .. i :
             /\ Increasing(children[q])
             /\ \A k \in DOMAIN children[q] : IsChild(t, q, children[q][k])
             /\ \A c \in 1 .. i : IsChild(t, q, c) =>
                  \E k \in DOMAIN children[q] : children[q][k] = c
    BY DEF ChildrenAre
  <1> HIDE DEF up
  <1>4. /\ new \in Seq(Seq(1 .. (i + 1))) /\ Len(new) = i + 1
        /\ new[up] = Append(children[up], i + 1)
        /\ new[i + 1] = << >>
        /\ \A q \in 1 .. i : q # up => new[q] = children[q]
        /\ \A q \in 1 .. i : children[q] \in Seq(1 .. i)
    BY <1>1, <1>3, ChildrenAppend
  <1> HIDE DEF new
  <1>5. ASSUME NEW q \in 1 .. (i + 1)
        PROVE  /\ Increasing(new[q])
               /\ \A k \in DOMAIN new[q] : IsChild(t, q, new[q][k])
               /\ \A c \in 1 .. (i + 1) : IsChild(t, q, c) =>
                    \E k \in DOMAIN new[q] : new[q][k] = c
    <2>1. CASE q = i + 1
      <3>1. DOMAIN new[q] = {}
        <4>1. DOMAIN << >> = {}
          OBVIOUS
        <4> QED
          BY <1>4, <2>1, <4>1
      <3>2. \A c \in 1 .. (i + 1) : ~IsChild(t, q, c)
        BY <2>1 DEF IsChild
      <3> QED
        BY <3>1, <3>2 DEF Increasing
    <2>2. CASE q # i + 1 /\ q # up
      <3>1. q \in 1 .. i /\ new[q] = children[q]
        <4>1. q \in 1 .. i
          BY <1>1, <2>2
        <4> QED
          BY ONLY <1>4, <2>2, <4>1
      <3>2. ~IsChild(t, q, i + 1)
        BY <1>2, <2>2, <3>1
      <3>3. \A c \in 1 .. (i + 1) : c \in 1 .. i \/ c = i + 1
        OBVIOUS
      <3>4. /\ Increasing(new[q])
            /\ \A k \in DOMAIN new[q] : IsChild(t, q, new[q][k])
            /\ \A c \in 1 .. i : IsChild(t, q, c) => \E k \in DOMAIN new[q] : new[q][k] = c
        BY ONLY <1>3, <3>1
      <3>5. \A c \in 1 .. (i + 1) : IsChild(t, q, c) => c \in 1 .. i
        BY ONLY <3>2, <3>3
      <3> QED
        BY ONLY <3>4, <3>5
    <2>3. CASE q = up
      <3> DEFINE old == children[q]
      <3>1. q \in 1 .. i /\ old \in Seq(1 .. i) /\ new[q] = Append(old, i + 1)
        BY <1>1, <1>4, <2>3
      <3>2. /\ Increasing(old)
            /\ \A k \in DOMAIN old : IsChild(t, q, old[k])
            /\ \A c \in 1 .. i : IsChild(t, q, c) => \E k \in DOMAIN old : old[k] = c
        BY <1>3, <3>1
      <3>3. IsChild(t, q, i + 1)
        BY <1>2, <2>3, <3>1
      <3> HIDE DEF old
      <3>4. /\ Len(old) \in Nat /\ DOMAIN old = 1 .. Len(old)
            /\ DOMAIN new[q] = 1 .. (Len(old) + 1)
            /\ new[q][Len(old) + 1] = i + 1
            /\ \A k \in DOMAIN old : new[q][k] = old[k] /\ old[k] \in 1 .. i
        BY <3>1
      <3>5. Increasing(new[q])
        <4> SUFFICES ASSUME NEW j \in DOMAIN new[q], NEW k \in DOMAIN new[q], j < k
                     PROVE  new[q][j] < new[q][k]
          BY DEF Increasing
        <4>1. j \in DOMAIN old
          BY <3>4
        <4>2. CASE k = Len(old) + 1
          BY <3>4, <4>1, <4>2
        <4>3. CASE k # Len(old) + 1
          <5>1. k \in DOMAIN old
            BY <3>4, <4>3
          <5> QED
            BY <3>2, <3>4, <4>1, <5>1 DEF Increasing
        <4> QED
          BY <4>2, <4>3
      <3>6. ASSUME NEW k \in DOMAIN new[q] PROVE IsChild(t, q, new[q][k])
        <4>1. k = Len(old) + 1 \/ k \in DOMAIN old
          BY <3>4
        <4> QED
          BY <3>2, <3>3, <3>4, <4>1
      <3>7. ASSUME NEW c \in 1 .. (i + 1), IsChild(t, q, c)
            PROVE  \E k \in DOMAIN new[q] : new[q][k] = c
        <4>1. CASE c = i + 1
          <5>1. Len(old) + 1 \in DOMAIN new[q]
            BY <3>4
          <5> QED
            BY <3>4, <4>1, <5>1
        <4>2. CASE c # i + 1
          <5>1. c \in 1 .. i
            BY <4>2
          <5>2. PICK k \in DOMAIN old : old[k] = c
            BY <3>2, <3>7, <5>1
          <5>3. k \in DOMAIN new[q] /\ new[q][k] = c
            BY <3>4, <5>2
          <5> QED
            BY <5>3
        <4> QED
          BY <4>1, <4>2
      <3> QED
        BY <3>5, <3>6, <3>7
    <2> QED
      BY <2>1, <2>2, <2>3
  <1>6. ChildrenAre(new, t, i + 1)
    BY <1>4, <1>5 DEF ChildrenAre
  <1> QED
    BY <1>6 DEF new, up

\* A row in place is added to the tree.
LEMMA RowIsAdded ==
  ASSUME NEW t \in Text, NEW i \in 1 .. Len(t), i + 1 <= Len(t), NEW parse, IsTree(parse, t, i),
         InPlace(t, i + 1)
  PROVE  LET d == Below(t, i + 1)
             up == parse.stack[d]
             grown == ParseRow(parse, t[i + 1], d)
         IN /\ IsTree(grown, t, i + 1)
            /\ d \in 1 .. Len(parse.stack) /\ up \in 1 .. i
            /\ grown.children = WithChild(parse.children, up, i + 1)
  <1> DEFINE d == Below(t, i + 1)
             up == parse.stack[d]
             row == t[i + 1]
             grown == [status |-> "ok",
                      stack |-> Append(Ancestors(parse.stack, d), i + 1),
                      nodes |-> Append(parse.nodes, NodeOf(row)),
                      children |-> WithChild(parse.children, up, i + 1)]
  <1>1. /\ parse.status = "ok" /\ StackIs(parse.stack, t, i)
        /\ NodesAre(parse.nodes, t, i) /\ ChildrenAre(parse.children, t, i)
    BY DEF IsTree
  <1>2. /\ d \in 1 .. Len(parse.stack) /\ Ancestors(parse.stack, d)[d] = up /\ up \in 1 .. i
        /\ StackIs(Append(Ancestors(parse.stack, d), i + 1), t, i + 1)
    BY <1>1, StackGrows
  <1>3. ChildrenAre(grown.children, t, i + 1)
    BY <1>1, ChildrenGrow
  <1>4. NodesAre(Append(parse.nodes, NodeOf(row)), t, i + 1)
    <2>1. /\ parse.nodes \in Seq(Node) /\ Len(parse.nodes) = i
          /\ \A j \in 1 .. i : parse.nodes[j] = NodeOf(t[j])
      BY <1>1 DEF NodesAre
    <2>2. NodeOf(row) \in Node
      BY i + 1 \in 1 .. Len(t), BelowType
    <2> QED
      BY <2>1, <2>2 DEF NodesAre
  <1>5. ParseRow(parse, row, d) = grown
    <2>1. Len(parse.nodes) = i /\ Len(parse.stack) \in Nat
      BY <1>1 DEF NodesAre, StackIs
    <2> HIDE DEF d, row
    <2>2. d # 0 /\ ~(d > Len(parse.stack)) /\ ~(d < 0)
      BY <1>2, <2>1
    <2> QED
      BY <1>1, <1>2, <2>1, <2>2 DEF ParseRow, WithChild
  <1>6. IsTree(grown, t, i + 1)
    <2>1. /\ grown.status = "ok" /\ grown.stack = Append(Ancestors(parse.stack, d), i + 1)
          /\ grown.nodes = Append(parse.nodes, NodeOf(row))
      OBVIOUS
    <2> HIDE DEF grown
    <2>2. grown = [status |-> "ok", stack |-> grown.stack, nodes |-> grown.nodes,
                  children |-> grown.children]
      BY DEF grown
    <2> QED
      BY <1>2, <1>3, <1>4, <2>1, <2>2 DEF IsTree
  <1>7. grown.children = WithChild(parse.children, up, i + 1)
    OBVIOUS
  <1> HIDE DEF grown
  <1> QED
    BY <1>2, <1>5, <1>6, <1>7
-----------------------------------------------------------------------------
\* As long as the rows are in place the loop has built the tree of its rows.
LEMMA TreeSoFar ==
  ASSUME NEW t \in Text, t # <<>>, NEW p, IsParsing(p, t, Len(t)),
         NEW n \in 1 .. Len(t), \A j \in 2 .. n : InPlace(t, j)
  PROVE  \A i \in 1 .. n : IsTree(p[i], t, i)
  <1> DEFINE Bad == {i \in 1 .. n : ~IsTree(p[i], t, i)}
  <1> SUFFICES ASSUME Bad # {} PROVE FALSE
    OBVIOUS
  <1>0. Len(t) \in Nat /\ Len(t) >= 1
    BY DEF Text
  <1>1. PICK i \in Bad : \A k \in Bad : i <= k
    <2> Bad \in SUBSET Nat
      OBVIOUS
    <2> HIDE DEF Bad
    <2> QED
      BY LeastNat
  <1>2. i \in 1 .. Len(t) /\ p[i] = ParseRow(p[i - 1], t[i], Below(t, i))
    <2>1. i \in 1 .. Len(t)
      BY <1>0, <1>1
    <2> QED
      BY ONLY IsParsing(p, t, Len(t)), <2>1, Zenon DEF IsParsing
  <1>3. CASE i = 1
    <2>1. p[1] = ParseRow(Started, t[1], Below(t, 1))
      <3>1. p[0] = Started
        BY DEF IsParsing
      <3> QED
        BY <1>2, <1>3, <3>1
    <2> QED
      BY <1>1, <1>3, <2>1, FirstRow
  <1>4. CASE i # 1
    <2> DEFINE k == i - 1
    <2>1. k \in 1 .. Len(t) /\ k + 1 <= Len(t) /\ i = k + 1 /\ k \in 1 .. n /\ k \notin Bad
      BY <1>0, <1>1, <1>4
    <2>2. IsTree(p[k], t, k) /\ InPlace(t, k + 1)
      BY <1>1, <1>4, <2>1
    <2>3. p[i] = ParseRow(p[k], t[k + 1], Below(t, k + 1))
      BY <1>2, <2>1
    <2> HIDE DEF k
    <2>4. IsTree(ParseRow(p[k], t[k + 1], Below(t, k + 1)), t, k + 1)
      BY <2>1, <2>2, RowIsAdded
    <2> QED
      BY <1>1, <2>1, <2>3, <2>4
  <1> QED
    BY <1>3, <1>4

\* From the first row that is out of place on, the loop keeps its error.
LEMMA ErrorFrom ==
  ASSUME NEW t \in Text, t # <<>>, NEW p, IsParsing(p, t, Len(t)),
         NEW m \in 2 .. Len(t), ~InPlace(t, m), \A j \in 2 .. (m - 1) : InPlace(t, j)
  PROVE  \A i \in m .. Len(t) : /\ p[i].status # "ok"
                                /\ p[i].status = "panic" <=> Below(t, m) < 0
  <1> DEFINE Right(i) == /\ p[i].status # "ok"
                         /\ p[i].status = "panic" <=> Below(t, m) < 0
             Bad == {i \in m .. Len(t) : ~Right(i)}
  <1> SUFFICES ASSUME Bad # {} PROVE FALSE
    OBVIOUS
  <1>0. Len(t) \in Nat /\ Len(t) >= 1
    BY DEF Text
  <1>1. PICK i \in Bad : \A k \in Bad : i <= k
    <2> Bad \in SUBSET Nat
      OBVIOUS
    <2> HIDE DEF Bad
    <2> QED
      BY LeastNat
  <1>2. i \in 1 .. Len(t) /\ p[i] = ParseRow(p[i - 1], t[i], Below(t, i))
    <2>1. i \in 1 .. Len(t)
      BY <1>0, <1>1
    <2> QED
      BY ONLY IsParsing(p, t, Len(t)), <2>1, Zenon DEF IsParsing
  <1>3. CASE i = m
    <2> DEFINE k == m - 1
    <2>1. k \in 1 .. Len(t) /\ k + 1 <= Len(t) /\ m = k + 1
      BY <1>0
    <2>2. IsTree(p[k], t, k)
      <3>1. k \in 1 .. k
        BY <2>1
      <3> QED
        BY <2>1, <3>1, TreeSoFar
    <2>3. p[i] = ParseRow(p[k], t[k + 1], Below(t, k + 1)) /\ ~InPlace(t, k + 1)
      BY <1>2, <1>3, <2>1
    <2> HIDE DEF k
    <2>4. LET status == ParseRow(p[k], t[k + 1], Below(t, k + 1)).status
          IN /\ status # "ok"
             /\ status = "panic" <=> Below(t, k + 1) < 0
      BY <2>1, <2>2, <2>3, RowOutOfPlace
    <2>5. Right(i)
      BY <2>1, <2>3, <2>4
    <2> QED
      BY <1>1, <2>5
  <1>4. CASE i # m
    <2>1. i - 1 \in m .. Len(t) /\ i - 1 \notin Bad
      BY <1>0, <1>1, <1>4
    <2>2. Right(i - 1)
      BY <2>1
    <2>3. p[i] = p[i - 1]
      BY <1>2, <2>2, ErrorStays
    <2>4. Right(i)
      BY <2>2, <2>3
    <2> QED
      BY <1>1, <2>4
  <1> QED
    BY <1>3, <1>4

\* What parsePlan makes of any text: nothing of no rows; the tree of a text whose rows
\* are all in place; of any other, the error for the first row out of place.
LEMMA ParseOutcome ==
  ASSUME NEW t \in Text
  PROVE  /\ t = <<>> => ParsePlan(t).status = "no operators"
         /\ t # <<>> /\ (\A j \in 2 .. Len(t) : InPlace(t, j)) =>
              IsTree(ParsePlan(t), t, Len(t))
         /\ \A m \in 2 .. Len(t) :
              ~InPlace(t, m) /\ (\A j \in 2 .. (m - 1) : InPlace(t, j)) =>
                /\ ParsePlan(t).status # "ok"
                /\ ParsePlan(t).status = "panic" <=> Below(t, m) < 0
  <1>1. ASSUME t = <<>> PROVE ParsePlan(t).status = "no operators" /\ Len(t) = 0
    BY <1>1 DEF ParsePlan, NoRows
  <1>2. ASSUME t # <<>>
        PROVE  /\ (\A j \in 2 .. Len(t) : InPlace(t, j)) => IsTree(ParsePlan(t), t, Len(t))
               /\ \A m \in 2 .. Len(t) :
                    ~InPlace(t, m) /\ (\A j \in 2 .. (m - 1) : InPlace(t, j)) =>
                      /\ ParsePlan(t).status # "ok"
                      /\ ParsePlan(t).status = "panic" <=> Below(t, m) < 0
    <2> DEFINE p == ParsingOf(t)
    <2>1. Len(t) \in Nat \ {0} /\ ParsePlan(t) = p[Len(t)] /\ IsParsing(p, t, Len(t))
      BY <1>2, ParsePlanIsLast
    <2> HIDE DEF p
    <2>2. Len(t) \in 1 .. Len(t)
      BY <2>1
    <2>3. ASSUME \A j \in 2 .. Len(t) : InPlace(t, j) PROVE IsTree(p[Len(t)], t, Len(t))
      BY <1>2, <2>1, <2>2, <2>3, TreeSoFar
    <2>4. ASSUME NEW m \in 2 .. Len(t), ~InPlace(t, m), \A j \in 2 .. (m - 1) : InPlace(t, j)
          PROVE  /\ p[Len(t)].status # "ok"
                 /\ p[Len(t)].status = "panic" <=> Below(t, m) < 0
      <3>1. Len(t) \in m .. Len(t)
        BY <2>1
      <3> QED
        BY <1>2, <2>1, <2>4, <3>1, ErrorFrom
    <2> QED
      BY <2>1, <2>3, <2>4
  <1>3. ASSUME t = <<>> PROVE 2 .. Len(t) = {}
    <2>1. Len(t) = 0
      BY <1>1, <1>3
    <2> QED
      BY <2>1
  <1> QED
    BY <1>1, <1>2, <1>3

\* The conditions of ParsedIffOnePreorder, for any text.
LEMMA ParsedIff ==
  ASSUME NEW t \in Text, NEW misplaced, misplaced = {i \in 2 .. Len(t) : ~InPlace(t, i)}
  PROVE  LET status == ParsePlan(t).status
         IN /\ status = "ok" <=> t # << >> /\ misplaced = {}
            /\ status = "panic" <=> misplaced # {} /\ Below(t, Min(misplaced)) < 0
            /\ status = "ok" => IsTree(ParsePlan(t), t, Len(t))
  <1> DEFINE status == ParsePlan(t).status
  <1>1. CASE t = <<>>
    <2>1. misplaced = {}
      <3>1. Len(t) = 0
        BY <1>1
      <3> QED
        BY <3>1
    <2>2. status = "no operators"
      BY <1>1, ParseOutcome
    <2> QED
      BY <1>1, <2>1, <2>2
  <1>2. CASE t # <<>> /\ misplaced = {}
    <2>1. \A j \in 2 .. Len(t) : InPlace(t, j)
      BY <1>2
    <2>2. IsTree(ParsePlan(t), t, Len(t))
      BY <1>2, <2>1, ParseOutcome
    <2>3. status = "ok"
      BY <2>2 DEF IsTree
    <2> QED
      BY <1>2, <2>2, <2>3
  <1>3. CASE t # <<>> /\ misplaced # {}
    <2> DEFINE m == Min(misplaced)
    <2>1. m \in misplaced /\ \A n \in misplaced : m <= n
      <3>1. misplaced \in SUBSET Nat
        OBVIOUS
      <3> QED
        BY ONLY <1>3, <3>1, MinIsLeast
    <2> HIDE DEF m
    <2>2. m \in 2 .. Len(t) /\ ~InPlace(t, m) /\ Len(t) \in Nat
      BY <2>1 DEF Text
    <2>3. \A j \in 2 .. (m - 1) : InPlace(t, j)
      <3> SUFFICES ASSUME NEW j \in 2 .. (m - 1) PROVE InPlace(t, j)
        OBVIOUS
      <3>1. j \in 2 .. Len(t) /\ ~(m <= j)
        BY <2>2
      <3> QED
        BY <2>1, <3>1
    <2>4. /\ ParsePlan(t).status # "ok"
          /\ ParsePlan(t).status = "panic" <=> Below(t, m) < 0
      BY <2>2, <2>3, ParseOutcome
    <2> QED
      BY ONLY <1>3, <2>4 DEF m
  <1> QED
    BY <1>1, <1>2, <1>3
-----------------------------------------------------------------------------
(***************************************************************************)
(* The specification: both plans are texts, whatever rows they grow by.    *)
(***************************************************************************)
PairsInv == recorded \in Text /\ newPlan \in Text

\* A text that grows by a row stays one.
LEMMA ExtensionsAreTexts ==
  ASSUME NEW t \in Text, NEW depths \in SUBSET Nat, NEW u \in Extensions(t, depths)
  PROVE  u \in Text
  <1>1. ASSUME NEW r \in Roots \cup Rows, NEW d \in Nat PROVE Indented(r, d) \in TextRow
    <2>1. r \in [operator : ToSet(OperatorOrder), task : ToSet(TaskOrder),
                 object : ToSet(ObjectOrder), depth : {0}]
      BY RowsAssumption
    <2> QED
      BY <2>1 DEF TextRow, Indented
  <1> DEFINE operators == IF t = << >> THEN Roots ELSE Rows
             ds == IF t = << >> THEN depths ELSE 0 .. (Len(t) + 1)
  <1>2. PICK r \in operators : \E d \in ds : u = Append(t, Indented(r, d))
    BY DEF Extensions
  <1>3. PICK d \in ds : u = Append(t, Indented(r, d))
    BY <1>2
  <1>4. r \in Roots \cup Rows /\ d \in Nat
    BY DEF Text
  <1>5. Indented(r, d) \in TextRow
    BY <1>1, <1>4
  <1> QED
    BY <1>3, <1>5 DEF Text

\* Both plans are always texts: the rows of the model, at depths in the naturals
\* (compare.go:205-234).
THEOREM PairsInvariant == PairsSpec => []PairsInv
  <1>1. PairsInit => PairsInv
    BY DEF PairsInit, PairsInv, Text
  <1>2. PairsInv /\ [PairsNext]_plans => PairsInv'
    <2> SUFFICES ASSUME PairsInv, [PairsNext]_plans PROVE PairsInv'
      OBVIOUS
    <2>0. RecordedDepths \in SUBSET Nat /\ ExplainDepths \in SUBSET Nat
      BY RowsAssumption
    <2>1. CASE RecordRow
      <3>1. recorded' \in Extensions(recorded, RecordedDepths) /\ UNCHANGED newPlan
        BY <2>1 DEF RecordRow
      <3>2. recorded' \in Text
        BY <2>0, <3>1, ExtensionsAreTexts DEF PairsInv
      <3> QED
        BY <3>1, <3>2 DEF PairsInv
    <2>2. CASE ExplainRow
      <3>1. newPlan' \in Extensions(newPlan, ExplainDepths) /\ UNCHANGED recorded
        BY <2>2 DEF ExplainRow
      <3>2. newPlan' \in Text
        BY <2>0, <3>1, ExtensionsAreTexts DEF PairsInv
      <3> QED
        BY <3>1, <3>2 DEF PairsInv
    <2>3. CASE UNCHANGED plans
      BY <2>3 DEF PairsInv, plans
    <2> QED
      BY <2>1, <2>2, <2>3 DEF PairsNext
  <1> QED
    BY <1>1, <1>2, PTL DEF PairsSpec

\* A plan text of any length is read exactly when it lists one tree in preorder, and
\* the parser panics on exactly those whose first row out of place is to the left of
\* the first row of all (compare.go:131-134, 153-173).
THEOREM ParsedTheorem == PairsSpec => []ParsedIffOnePreorder
  <1>1. PairsInv => ParsedIffOnePreorder
    <2> SUFFICES ASSUME PairsInv PROVE ParsedIffOnePreorder
      OBVIOUS
    <2> DEFINE below(i) == newPlan[i].depth - newPlan[1].depth
               misplaced == {i \in 2 .. Len(newPlan) : below(i) < 1 \/ below(i) > below(i - 1) + 1}
    <2>0. newPlan \in Text
      BY DEF PairsInv
    <2>1. \A i : below(i) = Below(newPlan, i)
      BY DEF Below
    <2>2. misplaced = {i \in 2 .. Len(newPlan) : ~InPlace(newPlan, i)}
      <3>1. ASSUME NEW i \in 2 .. Len(newPlan)
            PROVE  (below(i) < 1 \/ below(i) > below(i - 1) + 1) <=> ~InPlace(newPlan, i)
        <4>1. i \in 1 .. Len(newPlan) /\ i - 1 \in 1 .. Len(newPlan)
          BY <2>0 DEF Text
        <4>2. Below(newPlan, i) \in Int /\ Below(newPlan, i - 1) \in Int
          BY <2>0, <4>1, BelowType
        <4> HIDE DEF below
        <4> QED
          BY <2>1, <4>2 DEF InPlace
      <3> QED
        BY <3>1
    <2>3. /\ ParsePlan(newPlan).status = "ok" <=> newPlan # << >> /\ misplaced = {}
          /\ ParsePlan(newPlan).status = "panic"
               <=> misplaced # {} /\ below(Min(misplaced)) < 0
      <3> HIDE DEF below, misplaced
      <3> QED
        BY <2>0, <2>1, <2>2, ParsedIff
    <2> QED
      BY ONLY <2>3 DEF ParsedIffOnePreorder
  <1> QED
    BY <1>1, PairsInvariant, PTL
-----------------------------------------------------------------------------
(***************************************************************************)
(* planNodesEqual: the pairs of nodes that it finds equal.                 *)
(***************************************************************************)
\* One round of planNodesEqual, for the answers g on the children.
EqualRound(left, right, g, pair) ==
  LET mine == left.children[pair[1]]
      theirs == right.children[pair[2]]
  IN /\ left.nodes[pair[1]] = right.nodes[pair[2]]
     /\ SameNumber(mine, theirs)
     /\ \A i \in DOMAIN mine \cap DOMAIN theirs : g[<<mine[i], theirs[i]>>]

Pairs(left, right) == (1 .. Len(left.nodes)) \X (1 .. Len(right.nodes))

EqualOf(left, right) ==
  CHOOSE g : g = [pair \in Pairs(left, right) |-> EqualRound(left, right, g, pair)]

\* Every child of a node is a later node.
HasShape(tree) ==
  /\ Len(tree.nodes) \in Nat
  /\ \A a \in 1 .. Len(tree.nodes) : \A k \in DOMAIN tree.children[a] :
       tree.children[a][k] \in 1 .. Len(tree.nodes) /\ a < tree.children[a][k]

\* So has the tree of a text.
LEMMA TreeShape ==
  ASSUME NEW t \in Text, NEW tree, IsTree(tree, t, Len(t))
  PROVE  HasShape(tree) /\ Len(tree.nodes) = Len(t)
  <1>1. Len(tree.nodes) = Len(t) /\ Len(t) \in Nat
    BY DEF IsTree, NodesAre, Text
  <1>2. ASSUME NEW a \in 1 .. Len(t), NEW k \in DOMAIN tree.children[a]
        PROVE  tree.children[a][k] \in 1 .. Len(t) /\ a < tree.children[a][k]
    <2>1. ChildrenAre(tree.children, t, Len(t))
      BY DEF IsTree
    <2>2. IsChild(t, a, tree.children[a][k])
      BY ONLY <2>1, <1>2, Zenon DEF ChildrenAre
    <2>3. tree.children \in Seq(Seq(1 .. Len(t))) /\ Len(tree.children) = Len(t)
      BY <2>1 DEF ChildrenAre
    <2>4. tree.children[a] \in Seq(1 .. Len(t))
      BY <2>3
    <2>5. tree.children[a][k] \in 1 .. Len(t)
      <3> DEFINE s == tree.children[a]
      <3>1. s \in Seq(1 .. Len(t)) /\ k \in DOMAIN s
        BY <2>4
      <3> HIDE DEF s
      <3>2. s[k] \in 1 .. Len(t)
        BY ONLY <3>1
      <3> QED
        BY <3>2 DEF s
    <2> QED
      BY <2>2, <2>5 DEF IsChild
  <1> QED
    BY <1>1, <1>2 DEF HasShape

\* The recursion of planNodesEqual is over ever later nodes, so it has an answer, ...
LEMMA EqualExists ==
  ASSUME NEW left, NEW right, HasShape(left), HasShape(right)
  PROVE  \E g : g = [pair \in Pairs(left, right) |-> EqualRound(left, right, g, pair)]
  <1> DEFINE n == Len(left.nodes)
             Late(k) == {pair \in Pairs(left, right) : pair[1] > n - k}
             Solves(g, k) == g = [pair \in Late(k) |-> EqualRound(left, right, g, pair)]
             Bad == {k \in Nat : ~\E g : Solves(g, k)}
  <1>0. n \in Nat
    BY DEF HasShape
  <1>1. Bad = {}
    <2> SUFFICES ASSUME Bad # {} PROVE FALSE
      OBVIOUS
    <2>1. PICK k \in Bad : \A j \in Bad : k <= j
      <3> Bad \in SUBSET Nat
        OBVIOUS
      <3> HIDE DEF Bad
      <3> QED
        BY LeastNat
    <2>2. CASE k = 0
      <3>1. Late(0) = {}
        BY <1>0 DEF Pairs
      <3> DEFINE g == [pair \in {} |-> TRUE]
      <3>2. g = [pair \in {} |-> EqualRound(left, right, g, pair)]
        OBVIOUS
      <3>3. Solves(g, 0)
        <4> HIDE DEF Late
        <4> QED
          BY <3>1, <3>2
      <3> QED
        BY <2>1, <2>2, <3>3
    <2>3. CASE k # 0
      <3>0. k - 1 \in Nat
        BY <2>1, <2>3
      <3>1. PICK g : Solves(g, k - 1)
        <4>1. k - 1 \notin Bad
          <5> k \in Nat
            OBVIOUS
          <5> HIDE DEF Bad
          <5> QED
            BY <2>1
        <4> QED
          BY <3>0, <4>1
      <3> DEFINE h == [pair \in Late(k) |-> EqualRound(left, right, g, pair)]
      <3>2. ASSUME NEW pair \in Late(k - 1) PROVE pair \in Late(k) /\ h[pair] = g[pair]
        <4>1. pair \in Late(k)
          <5>1. pair[1] \in Nat
            BY DEF Pairs
          <5> QED
            BY <1>0, <2>1, <5>1
        <4>2. g[pair] = EqualRound(left, right, g, pair)
          <5> HIDE DEF Late
          <5> QED
            BY <3>1
        <4> HIDE DEF Late
        <4> QED
          BY <4>1, <4>2
      <3>3. ASSUME NEW pair \in Late(k),
                   NEW i \in DOMAIN left.children[pair[1]] \cap DOMAIN right.children[pair[2]]
            PROVE  <<left.children[pair[1]][i], right.children[pair[2]][i]>> \in Late(k - 1)
        <4>1. /\ pair[1] \in 1 .. n /\ pair[2] \in 1 .. Len(right.nodes) /\ pair[1] > n - k
          BY DEF Pairs
        <4>2. /\ left.children[pair[1]][i] \in 1 .. n /\ pair[1] < left.children[pair[1]][i]
              /\ right.children[pair[2]][i] \in 1 .. Len(right.nodes)
          BY <3>3, <4>1 DEF HasShape
        <4>3. left.children[pair[1]][i] > n - (k - 1)
          BY <1>0, <2>1, <4>1, <4>2
        <4> QED
          BY <4>2, <4>3 DEF Pairs
      <3>4. ASSUME NEW pair \in Late(k)
            PROVE  EqualRound(left, right, g, pair) = EqualRound(left, right, h, pair)
        <4> HIDE DEF Late, h
        <4>1. \A i \in DOMAIN left.children[pair[1]] \cap DOMAIN right.children[pair[2]] :
                g[<<left.children[pair[1]][i], right.children[pair[2]][i]>>]
                  = h[<<left.children[pair[1]][i], right.children[pair[2]][i]>>]
          BY <3>2, <3>3
        <4> QED
          BY ONLY <4>1, Zenon DEF EqualRound
      <3>5. Solves(h, k)
        BY <3>4
      <3> QED
        BY <2>1, <3>5
    <2> QED
      BY <2>2, <2>3
  <1>2. Late(n) = Pairs(left, right)
    BY <1>0 DEF Pairs
  <1>3. PICK g : Solves(g, n)
    BY <1>0, <1>1
  <1> QED
    BY <1>2, <1>3

\* ... which is the one for the two roots.
LEMMA NodesEqualIs ==
  ASSUME NEW left, NEW right, HasShape(left), HasShape(right)
  PROVE  /\ NodesEqual(left, right) <=> EqualOf(left, right)[<<1, 1>>]
         /\ \A pair \in Pairs(left, right) :
              EqualOf(left, right)[pair] = EqualRound(left, right, EqualOf(left, right), pair)
  <1>1. NodesEqual(left, right) <=> EqualOf(left, right)[<<1, 1>>]
    BY DEF NodesEqual, EqualOf, EqualRound, Pairs
  <1>2. EqualOf(left, right)
          = [pair \in Pairs(left, right) |-> EqualRound(left, right, EqualOf(left, right), pair)]
    BY EqualExists DEF EqualOf
  <1> QED
    BY <1>1, <1>2
\* A set of pairs of nodes that answers for its own children.
IsMatch(E, left, right) ==
  /\ E \subseteq Pairs(left, right)
  /\ \A pair \in E :
       LET mine == left.children[pair[1]]
           theirs == right.children[pair[2]]
       IN /\ left.nodes[pair[1]] = right.nodes[pair[2]]
          /\ Len(mine) = Len(theirs)
          /\ \A i \in DOMAIN mine \cap DOMAIN theirs : <<mine[i], theirs[i]>> \in E

\* What planNodesEqual finds equal is such a set, ...
LEMMA EqualIsMatch ==
  ASSUME NEW left, NEW right, HasShape(left), HasShape(right), NodesEqual(left, right),
         Len(left.nodes) >= 1, Len(right.nodes) >= 1
  PROVE  \E E : IsMatch(E, left, right) /\ <<1, 1>> \in E
  <1> DEFINE g == EqualOf(left, right)
             E == {pair \in Pairs(left, right) : g[pair]}
  <1>1. /\ g[<<1, 1>>]
        /\ \A pair \in Pairs(left, right) : g[pair] = EqualRound(left, right, g, pair)
    BY NodesEqualIs
  <1>2. Len(left.nodes) \in Nat /\ Len(right.nodes) \in Nat
    BY DEF HasShape
  <1>3. <<1, 1>> \in E
    BY <1>1, <1>2 DEF Pairs
  <1>4. ASSUME NEW pair \in E
        PROVE  LET mine == left.children[pair[1]]
                   theirs == right.children[pair[2]]
               IN /\ left.nodes[pair[1]] = right.nodes[pair[2]]
                  /\ Len(mine) = Len(theirs)
                  /\ \A i \in DOMAIN mine \cap DOMAIN theirs : <<mine[i], theirs[i]>> \in E
    <2> DEFINE mine == left.children[pair[1]]
               theirs == right.children[pair[2]]
    <2>1. EqualRound(left, right, g, pair)
      <3>1. pair \in Pairs(left, right) /\ g[pair]
        OBVIOUS
      <3> HIDE DEF g
      <3> QED
        BY ONLY <1>1, <3>1, Zenon
    <2>2. /\ left.nodes[pair[1]] = right.nodes[pair[2]]
          /\ Len(mine) = Len(theirs)
          /\ \A i \in DOMAIN mine \cap DOMAIN theirs : g[<<mine[i], theirs[i]>>]
      <3> HIDE DEF g
      <3> QED
        BY ONLY <2>1, Zenon DEF EqualRound, SameNumber
    <2>3. ASSUME NEW i \in DOMAIN mine \cap DOMAIN theirs
          PROVE  <<mine[i], theirs[i]>> \in Pairs(left, right)
      <3>1. pair[1] \in 1 .. Len(left.nodes) /\ pair[2] \in 1 .. Len(right.nodes)
        BY DEF Pairs
      <3> QED
        BY <2>3, <3>1 DEF HasShape, Pairs
    <2> HIDE DEF g, mine, theirs
    <2>4. \A i \in DOMAIN mine \cap DOMAIN theirs : <<mine[i], theirs[i]>> \in E
      BY <2>2, <2>3
    <2> QED
      BY ONLY <2>2, <2>4 DEF mine, theirs
  <1>5. IsMatch(E, left, right)
    <2>1. E \subseteq Pairs(left, right)
      OBVIOUS
    <2> HIDE DEF E
    <2> QED
      BY ONLY <1>4, <2>1 DEF IsMatch
  <1> QED
    BY <1>3, <1>5

\* ... also with the two sides exchanged.
LEMMA MatchSwapped ==
  ASSUME NEW left, NEW right, NEW E, IsMatch(E, left, right)
  PROVE  LET F == {<<pair[2], pair[1]>> : pair \in E}
         IN /\ IsMatch(F, right, left)
            /\ \A a, b : <<a, b>> \in E => <<b, a>> \in F
  <1> DEFINE F == {<<pair[2], pair[1]>> : pair \in E}
  <1>1. E \subseteq Pairs(left, right)
    BY DEF IsMatch
  <1>2. F \subseteq Pairs(right, left)
    BY <1>1 DEF Pairs
  <1>3. \A a, b : <<a, b>> \in E => <<b, a>> \in F
    <2> TAKE a, b
    <2> HAVE <<a, b>> \in E
    <2> QED
      OBVIOUS
  <1>4. ASSUME NEW other \in F
        PROVE  LET mine == right.children[other[1]]
                   theirs == left.children[other[2]]
               IN /\ right.nodes[other[1]] = left.nodes[other[2]]
                  /\ Len(mine) = Len(theirs)
                  /\ \A i \in DOMAIN mine \cap DOMAIN theirs : <<mine[i], theirs[i]>> \in F
    <2>1. PICK pair \in E : other = <<pair[2], pair[1]>>
      OBVIOUS
    <2>2. other[1] = pair[2] /\ other[2] = pair[1]
      BY <2>1
    <2> DEFINE mine == left.children[pair[1]]
               theirs == right.children[pair[2]]
    <2>3. /\ left.nodes[pair[1]] = right.nodes[pair[2]]
          /\ Len(mine) = Len(theirs)
          /\ \A i \in DOMAIN mine \cap DOMAIN theirs : <<mine[i], theirs[i]>> \in E
      BY DEF IsMatch
    <2>4. \A i \in DOMAIN theirs \cap DOMAIN mine : <<theirs[i], mine[i]>> \in F
      <3> HIDE DEF F, mine, theirs
      <3> QED
        BY <1>3, <2>3
    <2> HIDE DEF F
    <2> QED
      BY <2>2, <2>3, <2>4
  <1>5. IsMatch(F, right, left)
    <2> HIDE DEF F
    <2> QED
      BY ONLY <1>2, <1>4 DEF IsMatch
  <1> QED
    BY <1>3, <1>5

\* Every tree equals itself: the last node for which planNodesEqual would say no
\* has children for which it says yes.
LEMMA EqualToItself ==
  ASSUME NEW tree, HasShape(tree), Len(tree.nodes) >= 1
  PROVE  NodesEqual(tree, tree)
  <1> DEFINE n == Len(tree.nodes)
             g == EqualOf(tree, tree)
             Bad == {k \in 1 .. n : ~g[<<n + 1 - k, n + 1 - k>>]}
  <1>1. /\ NodesEqual(tree, tree) <=> g[<<1, 1>>]
        /\ \A pair \in Pairs(tree, tree) : g[pair] = EqualRound(tree, tree, g, pair)
    BY NodesEqualIs
  <1>2. n \in Nat /\ n >= 1
    BY DEF HasShape
  <1> HIDE DEF g
  <1>3. Bad = {}
    <2> SUFFICES ASSUME Bad # {} PROVE FALSE
      OBVIOUS
    <2>1. PICK k \in Bad : \A j \in Bad : k <= j
      <3> Bad \in SUBSET Nat
        OBVIOUS
      <3> HIDE DEF Bad
      <3> QED
        BY LeastNat
    <2> DEFINE a == n + 1 - k
               kids == tree.children[a]
    <2>2. a \in 1 .. n /\ ~g[<<a, a>>] /\ k \in 1 .. n
      BY <1>2, <2>1
    <2>3. ASSUME NEW i \in DOMAIN kids PROVE g[<<kids[i], kids[i]>>]
      <3>1. kids[i] \in 1 .. n /\ a < kids[i]
        BY <2>2, <2>3 DEF HasShape
      <3> DEFINE j == n + 1 - kids[i]
      <3> HIDE DEF kids
      <3>2. j \in 1 .. n /\ j < k /\ n + 1 - j = kids[i]
        BY <1>2, <2>2, <3>1
      <3>3. j \notin Bad
        BY <2>1, <2>2, <3>2
      <3> QED
        BY <3>2, <3>3
    <2>4. EqualRound(tree, tree, g, <<a, a>>)
      <3>1. <<a, a>>[1] = a /\ <<a, a>>[2] = a
        OBVIOUS
      <3> HIDE DEF a
      <3> QED
        BY <2>3, <3>1 DEF EqualRound, SameNumber
    <2>5. <<a, a>> \in Pairs(tree, tree)
      BY <2>2 DEF Pairs
    <2> HIDE DEF a
    <2> QED
      BY <1>1, <2>2, <2>4, <2>5
  <1>4. n \in 1 .. n /\ n + 1 - n = 1
    BY <1>2
  <1>5. g[<<1, 1>>]
    <2>1. n \notin Bad
      BY <1>3
    <2> QED
      BY <1>4, <2>1
  <1> QED
    BY <1>1, <1>5
-----------------------------------------------------------------------------
(***************************************************************************)
(* Two texts that start alike.                                             *)
(***************************************************************************)
\* The first k rows of two texts show the same nodes at the same depths.
Alike(l, r, k) ==
  \A j \in 1 .. k : NodeOf(l[j]) = NodeOf(r[j]) /\ Below(l, j) = Below(r, j)

\* p is the loop over the rows of a text that lists a tree.
Reads(p, t) ==
  /\ t \in Text /\ t # <<>>
  /\ IsParsing(p, t, Len(t))
  /\ \A i \in 1 .. Len(t) : IsTree(p[i], t, i)
  /\ \A i \in 2 .. Len(t) : InPlace(t, i)

\* A text that parses is read so.
LEMMA ParsedIsRead ==
  ASSUME NEW t \in Text, ParsePlan(t).status = "ok"
  PROVE  /\ Reads(ParsingOf(t), t)
         /\ ParsePlan(t) = ParsingOf(t)[Len(t)] /\ Len(t) \in Nat \ {0}
  <1> DEFINE misplaced == {i \in 2 .. Len(t) : ~InPlace(t, i)}
             p == ParsingOf(t)
  <1>1. t # << >> /\ misplaced = {}
    <2> HIDE DEF misplaced
    <2>1. misplaced = {i \in 2 .. Len(t) : ~InPlace(t, i)}
      BY DEF misplaced
    <2> QED
      BY <2>1, ParsedIff
  <1>2. \A i \in 2 .. Len(t) : InPlace(t, i)
    BY <1>1
  <1>3. /\ Len(t) \in Nat \ {0}
        /\ ParsePlan(t) = p[Len(t)]
        /\ IsParsing(p, t, Len(t))
    BY <1>1, ParsePlanIsLast
  <1> HIDE DEF p, misplaced
  <1>4. \A i \in 1 .. Len(t) : IsTree(p[i], t, i)
    <2>1. Len(t) \in 1 .. Len(t)
      BY <1>3
    <2> QED
      BY <1>1, <1>2, <1>3, <2>1, TreeSoFar
  <1> QED
    BY <1>1, <1>2, <1>3, <1>4 DEF Reads, p

\* The parser sees of a row its node and its depth only.
LEMMA SameRowSameParse ==
  ASSUME NEW parse, NEW a, NEW b, NodeOf(a) = NodeOf(b), NEW d
  PROVE  ParseRow(parse, a, d) = ParseRow(parse, b, d)
  BY DEF ParseRow

\* So it treats two texts alike as long as they are.
LEMMA AlikeSameParse ==
  ASSUME NEW l, NEW r, NEW n \in Nat, NEW m \in Nat, NEW p, NEW q,
         IsParsing(p, l, n), IsParsing(q, r, m),
         NEW k \in Nat, k <= n, k <= m, Alike(l, r, k)
  PROVE  \A i \in 0 .. k : p[i] = q[i]
  <1> DEFINE Bad == {i \in 0 .. k : p[i] # q[i]}
  <1> SUFFICES ASSUME Bad # {} PROVE FALSE
    OBVIOUS
  <1>1. PICK i \in Bad : \A j \in Bad : i <= j
    <2> Bad \in SUBSET Nat
      OBVIOUS
    <2> HIDE DEF Bad
    <2> QED
      BY LeastNat
  <1>2. CASE i = 0
    <2>1. p[0] = Started /\ q[0] = Started
      BY DEF IsParsing
    <2> QED
      BY <1>1, <1>2, <2>1
  <1>3. CASE i # 0
    <2>1. i \in 1 .. n /\ i \in 1 .. m /\ i \in 1 .. k /\ i - 1 \in 0 .. k /\ i - 1 \notin Bad
      BY <1>1, <1>3
    <2>2. p[i] = ParseRow(p[i - 1], l[i], Below(l, i))
      BY ONLY IsParsing(p, l, n), <2>1, Zenon DEF IsParsing
    <2>3. q[i] = ParseRow(q[i - 1], r[i], Below(r, i))
      BY ONLY IsParsing(q, r, m), <2>1, Zenon DEF IsParsing
    <2>4. p[i - 1] = q[i - 1]
      BY <2>1
    <2>5. NodeOf(l[i]) = NodeOf(r[i]) /\ Below(l, i) = Below(r, i)
      BY <2>1 DEF Alike
    <2>6. ParseRow(p[i - 1], l[i], Below(l, i)) = ParseRow(p[i - 1], r[i], Below(l, i))
      BY ONLY <2>5, SameRowSameParse
    <2>7. p[i] = q[i]
      BY ONLY <2>2, <2>3, <2>4, <2>5, <2>6
    <2> QED
      BY <1>1, <2>7
  <1> QED
    BY <1>2, <1>3

\* b is a, and perhaps more rows after the k-th.
Extends(b, a, k) ==
  /\ Len(a) \in Nat /\ Len(b) \in Nat /\ Len(a) <= Len(b)
  /\ DOMAIN a = 1 .. Len(a) /\ DOMAIN b = 1 .. Len(b)
  /\ \A j \in 1 .. Len(a) : b[j] = a[j]
  /\ \A j \in (Len(a) + 1) .. Len(b) : b[j] > k

\* What one more row does to the children of an earlier one.
LEMMA NextChildren ==
  ASSUME NEW t, NEW p, Reads(p, t), NEW i \in 1 .. Len(t), i + 1 <= Len(t)
  PROVE  LET d == Below(t, i + 1)
             up == p[i].stack[d]
         IN /\ d \in 1 .. Len(p[i].stack) /\ up \in 1 .. i
            /\ p[i + 1].children[up] = Append(p[i].children[up], i + 1)
            /\ \A a \in 1 .. i : a # up => p[i + 1].children[a] = p[i].children[a]
            /\ \A a \in 1 .. i : p[i].children[a] \in Seq(1 .. i)
  <1> DEFINE d == Below(t, i + 1)
             up == p[i].stack[d]
  <1>1. t \in Text /\ IsTree(p[i], t, i) /\ InPlace(t, i + 1) /\ IsParsing(p, t, Len(t))
    <2>1. Len(t) \in Nat /\ i + 1 \in 2 .. Len(t)
      BY DEF Reads, Text
    <2> QED
      BY <2>1 DEF Reads
  <1>2. p[i + 1] = ParseRow(p[i], t[i + 1], d)
    <2>1. i + 1 \in 1 .. Len(t) /\ i + 1 - 1 = i
      OBVIOUS
    <2>2. \A x \in 1 .. Len(t) : p[x] = ParseRow(p[x - 1], t[x], Below(t, x))
      BY ONLY <1>1, Zenon DEF IsParsing
    <2> QED
      BY ONLY <2>1, <2>2
  <1>3. /\ d \in 1 .. Len(p[i].stack) /\ up \in 1 .. i
        /\ ParseRow(p[i], t[i + 1], d).children = WithChild(p[i].children, up, i + 1)
    BY <1>1, RowIsAdded
  <1>4. p[i].children \in Seq(Seq(1 .. i)) /\ Len(p[i].children) = i /\ i \in Nat \ {0}
    BY <1>1 DEF IsTree, ChildrenAre
  <1> DEFINE new == WithChild(p[i].children, up, i + 1)
  <1> HIDE DEF d, up
  <1>5. /\ new[up] = Append(p[i].children[up], i + 1)
        /\ \A a \in 1 .. i : a # up => new[a] = p[i].children[a]
        /\ \A a \in 1 .. i : p[i].children[a] \in Seq(1 .. i)
    BY ONLY <1>3, <1>4, ChildrenAppend
  <1>6. p[i + 1].children = new
    BY <1>2, <1>3
  <1> HIDE DEF new
  <1> QED
    BY <1>3, <1>5, <1>6 DEF d, up

\* Later rows are added to the children of a row after the earlier ones.
LEMMA LaterChildren ==
  ASSUME NEW t, NEW p, Reads(p, t), NEW k \in 1 .. Len(t), NEW a \in 1 .. k
  PROVE  \A i \in k .. Len(t) : Extends(p[i].children[a], p[k].children[a], k)
  <1> DEFINE Bad == {i \in k .. Len(t) : ~Extends(p[i].children[a], p[k].children[a], k)}
  <1> SUFFICES ASSUME Bad # {} PROVE FALSE
    OBVIOUS
  <1>0. Len(t) \in Nat
    BY DEF Reads, Text
  <1>1. PICK i \in Bad : \A j \in Bad : i <= j
    <2> Bad \in SUBSET Nat
      OBVIOUS
    <2> HIDE DEF Bad
    <2> QED
      BY LeastNat
  <1>2. \A j \in k .. Len(t) : p[j].children[a] \in Seq(1 .. j)
    <2> SUFFICES ASSUME NEW j \in k .. Len(t) PROVE p[j].children[a] \in Seq(1 .. j)
      OBVIOUS
    <2>1. j \in 1 .. Len(t) /\ a \in 1 .. j
      BY <1>0
    <2>2. p[j].children \in Seq(Seq(1 .. j)) /\ Len(p[j].children) = j
      BY <2>1 DEF Reads, IsTree, ChildrenAre
    <2> QED
      BY <2>1, <2>2
  <1>3. CASE i = k
    <2> DEFINE s == p[k].children[a]
    <2>1. s \in Seq(1 .. k)
      BY <1>0, <1>2
    <2> HIDE DEF s
    <2>2. Extends(s, s, k)
      BY <2>1 DEF Extends
    <2> QED
      BY <1>1, <1>3, <2>2 DEF s
  <1>4. CASE i # k
    <2> DEFINE j == i - 1
               s == p[k].children[a]
               old == p[j].children[a]
               new == p[i].children[a]
               up == p[j].stack[Below(t, j + 1)]
    <2>1. /\ j \in k .. Len(t) /\ j \notin Bad /\ j \in 1 .. Len(t) /\ i = j + 1
          /\ j + 1 <= Len(t) /\ a \in 1 .. j /\ j >= k
      BY <1>0, <1>1, <1>4
    <2>2. Extends(old, s, k) /\ old \in Seq(1 .. j)
      BY <1>2, <2>1
    <2>3. new = Append(old, j + 1) \/ new = old
      <3> HIDE DEF j
      <3>1. /\ p[j + 1].children[up] = Append(p[j].children[up], j + 1)
            /\ \A b \in 1 .. j : b # up => p[j + 1].children[b] = p[j].children[b]
        <4>1. j \in 1 .. Len(t) /\ j + 1 <= Len(t)
          BY <2>1
        <4>2. LET d == Below(t, j + 1)
                  v == p[j].stack[d]
              IN /\ d \in 1 .. Len(p[j].stack) /\ v \in 1 .. j
                 /\ p[j + 1].children[v] = Append(p[j].children[v], j + 1)
                 /\ \A b \in 1 .. j : b # v => p[j + 1].children[b] = p[j].children[b]
                 /\ \A b \in 1 .. j : p[j].children[b] \in Seq(1 .. j)
          BY ONLY <4>1, Reads(p, t), NextChildren, Zenon
        <4> QED
          BY ONLY <4>2
      <3> HIDE DEF up
      <3> QED
        BY <2>1, <3>1
    <2> HIDE DEF j, s, old, new, up
    <2>4. CASE new = old
      BY <1>1, <2>2, <2>4 DEF s, new
    <2>5. CASE new = Append(old, j + 1)
      <3>1. /\ Len(new) = Len(old) + 1 /\ DOMAIN new = 1 .. (Len(old) + 1)
            /\ new[Len(old) + 1] = j + 1 /\ \A b \in 1 .. Len(old) : new[b] = old[b]
        BY <2>2, <2>5
      <3>5. Len(s) \in Nat /\ Len(old) \in Nat /\ Len(s) <= Len(old)
        BY ONLY <2>2, Zenon DEF Extends
      <3>2. ASSUME NEW b \in (Len(s) + 1) .. Len(new) PROVE new[b] > k
        <4>1. CASE b = Len(old) + 1
          BY <2>1, <3>1, <4>1
        <4>2. CASE b # Len(old) + 1
          <5>1. b \in (Len(s) + 1) .. Len(old) /\ b \in 1 .. Len(old)
            BY ONLY <3>1, <3>2, <3>5, <4>2
          <5> QED
            BY <2>2, <3>1, <5>1 DEF Extends
        <4> QED
          BY <4>1, <4>2
      <3>3. ASSUME NEW b \in 1 .. Len(s) PROVE new[b] = s[b]
        <4>1. b \in 1 .. Len(old)
          BY <2>2 DEF Extends
        <4> QED
          BY <2>2, <3>1, <4>1 DEF Extends
      <3>4. Extends(new, s, k)
        BY <2>2, <3>1, <3>2, <3>3 DEF Extends
      <3> QED
        BY <1>1, <3>4 DEF s, new
    <2> QED
      BY <2>3, <2>4, <2>5
  <1> QED
    BY <1>3, <1>4
\* l and r are read as trees whose pairs in E are equal, the first k rows of both
\* alike and paired.
AlikeUpTo(k, l, p, r, q, E) ==
  /\ Reads(p, l) /\ Reads(q, r)
  /\ IsMatch(E, p[Len(l)], q[Len(r)])
  /\ k \in 1 .. Len(l) /\ k \in 1 .. Len(r)
  /\ Alike(l, r, k)
  /\ \A j \in 1 .. k : <<j, j>> \in E
  /\ \A i \in 0 .. k : p[i] = q[i]

\* When the one text has another row, so has the other, no less deep: the new row is
\* a child more of its parent, and the other side's parent has as many children.
LEMMA NextRowIsMatched ==
  ASSUME NEW l, NEW p, NEW r, NEW q, NEW E, NEW k, AlikeUpTo(k, l, p, r, q, E),
         k + 1 <= Len(l)
  PROVE  /\ k + 1 <= Len(r)
         /\ Below(r, k + 1) >= Below(l, k + 1)
         /\ Below(r, k + 1) = Below(l, k + 1) => <<k + 1, k + 1>> \in E
  <1> DEFINE d == Below(l, k + 1)
             up == p[k].stack[d]
             old == p[k].children[up]
             mine == p[Len(l)].children[up]
             theirs == q[Len(r)].children[up]
             at == Len(old) + 1
             c == theirs[at]
  <1>1. /\ Reads(p, l) /\ Reads(q, r) /\ l \in Text /\ r \in Text /\ l # <<>> /\ r # <<>>
        /\ Len(l) \in Nat \ {0} /\ Len(r) \in Nat \ {0} /\ k \in 1 .. Len(l) /\ k \in 1 .. Len(r)
        /\ \A j \in 1 .. k : Below(l, j) = Below(r, j) /\ <<j, j>> \in E
        /\ p[k] = q[k] /\ IsMatch(E, p[Len(l)], q[Len(r)])
    <2>1. l \in Text /\ r \in Text /\ l # <<>> /\ r # <<>>
      BY DEF AlikeUpTo, Reads
    <2>2. Len(l) \in Nat \ {0} /\ Len(r) \in Nat \ {0}
      BY <2>1 DEF Text
    <2> QED
      BY <2>1, <2>2 DEF AlikeUpTo, Alike
  <1>2. /\ d \in 1 .. Len(p[k].stack) /\ up \in 1 .. k
        /\ p[k + 1].children[up] = Append(old, k + 1)
        /\ old \in Seq(1 .. k)
    <2> LET dd == Below(l, k + 1)
            vv == p[k].stack[dd]
        IN /\ dd \in 1 .. Len(p[k].stack) /\ vv \in 1 .. k
           /\ p[k + 1].children[vv] = Append(p[k].children[vv], k + 1)
           /\ \A a \in 1 .. k : a # vv => p[k + 1].children[a] = p[k].children[a]
           /\ \A a \in 1 .. k : p[k].children[a] \in Seq(1 .. k)
      BY <1>1, NextChildren, Zenon
    <2> QED
      OBVIOUS
  <1>3. Below(l, up) = d - 1 /\ d \in Int /\ Below(r, up) = d - 1
    <2>1. IsTree(p[k], l, k)
      BY <1>1 DEF Reads
    <2>2. Below(l, up) = d - 1
      BY <1>2, <2>1 DEF IsTree, StackIs
    <2>3. d \in Int
      <3>1. k + 1 \in 1 .. Len(l)
        BY <1>1
      <3> QED
        BY <1>1, <3>1, BelowType
    <2>4. Below(r, up) = Below(l, up)
      <3> HIDE DEF up
      <3> QED
        BY <1>1, <1>2
    <2> QED
      BY <2>2, <2>3, <2>4
  <1> HIDE DEF d, up
  <1>4. Len(old) \in Nat /\ at \in Nat /\ at \in 1 .. Len(mine) /\ mine[at] = k + 1
    <2> DEFINE one == p[k + 1].children[up]
    <2>1. /\ Len(old) \in Nat /\ Len(one) = Len(old) + 1 /\ one[Len(old) + 1] = k + 1
      BY <1>2
    <2>2. Extends(mine, one, k + 1)
      <3>1. k + 1 \in 1 .. Len(l) /\ up \in 1 .. (k + 1) /\ Len(l) \in (k + 1) .. Len(l)
        BY <1>1, <1>2
      <3> QED
        BY ONLY <1>1, <3>1, LaterChildren
    <2> HIDE DEF one, old, mine
    <2> QED
      BY <2>1, <2>2 DEF Extends
  <1>5. Extends(theirs, old, k)
    <2>1. Len(r) \in k .. Len(r)
      BY <1>1
    <2>2. Extends(q[Len(r)].children[up], q[k].children[up], k)
      BY ONLY <1>1, <1>2, <2>1, LaterChildren
    <2> QED
      BY <1>1, <2>2
  <1>6. /\ Len(mine) = Len(theirs)
        /\ \A i \in DOMAIN mine \cap DOMAIN theirs : <<mine[i], theirs[i]>> \in E
    <2>1. <<up, up>> \in E /\ <<up, up>>[1] = up /\ <<up, up>>[2] = up
      BY <1>1, <1>2
    <2> QED
      BY ONLY <1>1, <2>1 DEF IsMatch
  <1>7. at \in DOMAIN mine /\ at \in DOMAIN theirs /\ c > k
    <2>1. DOMAIN theirs = 1 .. Len(theirs) /\ Len(theirs) \in Nat
      BY ONLY <1>5 DEF Extends
    <2>2. at \in 1 .. Len(theirs) /\ at \in (Len(old) + 1) .. Len(theirs)
      BY <1>4, <1>6
    <2>3. DOMAIN mine = 1 .. Len(mine)
      <3>1. Len(l) \in k .. Len(l)
        BY <1>1
      <3>2. Extends(mine, old, k)
        BY ONLY <1>1, <1>2, <3>1, LaterChildren
      <3> QED
        BY ONLY <3>2 DEF Extends
    <2>4. c > k
      <3> HIDE DEF at, old, theirs
      <3>1. at \in (Len(old) + 1) .. Len(theirs)
        BY <2>2
      <3> QED
        BY ONLY <1>5, <3>1 DEF Extends
    <2> HIDE DEF at, old, theirs, mine
    <2> QED
      BY <1>4, <2>1, <2>2, <2>3, <2>4
  <1>8. <<k + 1, c>> \in E
    <2> HIDE DEF at, mine, theirs
    <2> QED
      BY <1>4, <1>6, <1>7
  <1>9. c \in 1 .. Len(r) /\ IsChild(r, up, c)
    <2>1. IsTree(q[Len(r)], r, Len(r))
      BY <1>1 DEF Reads
    <2>2. ChildrenAre(q[Len(r)].children, r, Len(r))
      BY <2>1 DEF IsTree
    <2>3. up \in 1 .. Len(r)
      BY <1>1, <1>2
    <2>4. \A x \in DOMAIN theirs : IsChild(r, up, theirs[x])
      BY ONLY <2>2, <2>3 DEF ChildrenAre
    <2>5. HasShape(q[Len(r)]) /\ Len(q[Len(r)].nodes) = Len(r)
      BY <1>1, <2>1, TreeShape
    <2>6. c \in 1 .. Len(r)
      <3> HIDE DEF at
      <3> QED
        BY ONLY <1>7, <2>3, <2>5 DEF HasShape
    <2> QED
      BY <1>7, <2>4, <2>6
  <1> HIDE DEF c
  <1>10. k + 1 <= Len(r) /\ k + 1 \in (up + 1) .. c /\ Below(r, k + 1) >= d
    <2>1. k + 1 <= Len(r) /\ k + 1 \in (up + 1) .. c /\ k + 1 \in 1 .. Len(r)
      BY <1>1, <1>2, <1>7, <1>9
    <2>2. Below(r, k + 1) > Below(r, up) /\ Below(r, k + 1) \in Int
      BY <1>1, <1>9, <2>1, BelowType DEF IsChild
    <2> QED
      BY <1>3, <2>1, <2>2
  <1>11. ASSUME Below(r, k + 1) = d PROVE <<k + 1, k + 1>> \in E
    <2> DEFINE one == q[k + 1].children[up]
    <2>1. one = Append(old, k + 1)
      <3>0. k + 1 <= Len(r)
        BY <1>10
      <3>1. LET dd == Below(r, k + 1)
                vv == q[k].stack[dd]
            IN /\ dd \in 1 .. Len(q[k].stack) /\ vv \in 1 .. k
               /\ q[k + 1].children[vv] = Append(q[k].children[vv], k + 1)
               /\ \A a \in 1 .. k : a # vv => q[k + 1].children[a] = q[k].children[a]
               /\ \A a \in 1 .. k : q[k].children[a] \in Seq(1 .. k)
        BY ONLY <1>1, <3>0, NextChildren, Zenon
      <3>2. up = q[k].stack[Below(r, k + 1)] /\ q[k].children[up] = old
        BY <1>1, <1>11 DEF up
      <3> QED
        BY <3>1, <3>2
    <2>2. /\ Len(old) \in Nat /\ Len(one) = Len(old) + 1 /\ one[Len(old) + 1] = k + 1
      BY <1>2, <2>1
    <2>3. Extends(theirs, one, k + 1)
      <3>1. k + 1 \in 1 .. Len(r) /\ up \in 1 .. (k + 1) /\ Len(r) \in (k + 1) .. Len(r)
        BY <1>1, <1>2, <1>10
      <3> QED
        BY ONLY <1>1, <3>1, LaterChildren
    <2>4. c = k + 1
      <3> HIDE DEF one, old, theirs
      <3> QED
        BY <2>2, <2>3 DEF Extends, c
    <2> QED
      BY <1>8, <2>4
  <1> QED
    BY <1>10, <1>11 DEF d

\* The same with the two sides exchanged.
LEMMA AlikeSwapped ==
  ASSUME NEW l, NEW p, NEW r, NEW q, NEW E, NEW k, AlikeUpTo(k, l, p, r, q, E)
  PROVE  \E F : AlikeUpTo(k, r, q, l, p, F)
  <1> DEFINE F == {<<pair[2], pair[1]>> : pair \in E}
  <1>1. /\ IsMatch(F, q[Len(r)], p[Len(l)])
        /\ \A a, b : <<a, b>> \in E => <<b, a>> \in F
    <2>1. IsMatch(E, p[Len(l)], q[Len(r)])
      BY DEF AlikeUpTo
    <2> QED
      BY ONLY <2>1, MatchSwapped
  <1> HIDE DEF F
  <1>2. AlikeUpTo(k, r, q, l, p, F)
    <2>1. Alike(r, l, k) /\ \A j \in 1 .. k : <<j, j>> \in F
      BY <1>1 DEF AlikeUpTo, Alike
    <2>2. \A i \in 0 .. k : q[i] = p[i]
      BY DEF AlikeUpTo
    <2> QED
      BY <1>1, <2>1, <2>2 DEF AlikeUpTo
  <1> QED
    BY <1>2

\* The nodes of a tree are those of its rows.
LEMMA ReadNodes ==
  ASSUME NEW t, NEW p, Reads(p, t)
  PROVE  \A j \in 1 .. Len(t) : p[Len(t)].nodes[j] = NodeOf(t[j])
  <1>1. Len(t) \in 1 .. Len(t)
    BY DEF Reads, Text
  <1>2. IsTree(p[Len(t)], t, Len(t))
    BY <1>1 DEF Reads
  <1> QED
    BY <1>2 DEF IsTree, NodesAre

\* So the next rows are alike too, ...
LEMMA NextRowIsAlike ==
  ASSUME NEW l, NEW p, NEW r, NEW q, NEW E, NEW k, AlikeUpTo(k, l, p, r, q, E),
         k + 1 <= Len(l)
  PROVE  AlikeUpTo(k + 1, l, p, r, q, E)
  <1>1. /\ k + 1 <= Len(r) /\ Below(r, k + 1) >= Below(l, k + 1)
        /\ Below(r, k + 1) = Below(l, k + 1) => <<k + 1, k + 1>> \in E
    BY NextRowIsMatched
  <1>2. Below(l, k + 1) >= Below(r, k + 1)
    <2>1. PICK F : AlikeUpTo(k, r, q, l, p, F)
      BY AlikeSwapped
    <2> QED
      BY <1>1, <2>1, NextRowIsMatched
  <1>3. /\ Reads(p, l) /\ Reads(q, r) /\ l \in Text /\ r \in Text
        /\ Len(l) \in Nat /\ Len(r) \in Nat
        /\ k \in 1 .. Len(l) /\ k + 1 \in 1 .. Len(l) /\ k + 1 \in 1 .. Len(r)
        /\ IsMatch(E, p[Len(l)], q[Len(r)])
    <2>1. /\ Reads(p, l) /\ Reads(q, r) /\ l \in Text /\ r \in Text
          /\ k \in 1 .. Len(l) /\ k \in 1 .. Len(r) /\ IsMatch(E, p[Len(l)], q[Len(r)])
      BY DEF AlikeUpTo, Reads
    <2>2. Len(l) \in Nat /\ Len(r) \in Nat
      BY <2>1 DEF Text
    <2> QED
      BY <1>1, <2>1, <2>2
  <1>4. Below(r, k + 1) = Below(l, k + 1) /\ <<k + 1, k + 1>> \in E
    <2>1. Below(l, k + 1) \in Int /\ Below(r, k + 1) \in Int
      BY <1>3, BelowType
    <2> QED
      BY <1>1, <1>2, <2>1
  <1>5. NodeOf(l[k + 1]) = NodeOf(r[k + 1])
    <2>1. p[Len(l)].nodes[k + 1] = q[Len(r)].nodes[k + 1]
      <3>1. <<k + 1, k + 1>>[1] = k + 1 /\ <<k + 1, k + 1>>[2] = k + 1
        OBVIOUS
      <3> QED
        BY ONLY <1>3, <1>4, <3>1 DEF IsMatch
    <2>2. p[Len(l)].nodes[k + 1] = NodeOf(l[k + 1])
      BY <1>3, ReadNodes
    <2>3. q[Len(r)].nodes[k + 1] = NodeOf(r[k + 1])
      BY <1>3, ReadNodes
    <2> QED
      BY <2>1, <2>2, <2>3
  <1>6. Alike(l, r, k + 1) /\ \A j \in 1 .. (k + 1) : <<j, j>> \in E
    <2>1. \A j \in 1 .. (k + 1) : j = k + 1 \/ j \in 1 .. k
      BY <1>3
    <2> QED
      BY <1>4, <1>5, <2>1 DEF AlikeUpTo, Alike
  <1>7. \A i \in 0 .. (k + 1) : p[i] = q[i]
    <2>1. IsParsing(p, l, Len(l)) /\ IsParsing(q, r, Len(r))
      BY <1>3 DEF Reads
    <2>2. k + 1 \in Nat /\ k + 1 <= Len(l) /\ k + 1 <= Len(r)
      BY <1>3
    <2>3. Alike(l, r, k + 1) /\ Len(l) \in Nat /\ Len(r) \in Nat
      BY <1>3, <1>6
    <2> QED
      BY ONLY <2>1, <2>2, <2>3, AlikeSameParse
  <1> QED
    BY <1>3, <1>6, <1>7 DEF AlikeUpTo

\* ... up to the last row of both.
LEMMA AlikeToTheEnd ==
  ASSUME NEW l, NEW p, NEW r, NEW q, NEW E, AlikeUpTo(1, l, p, r, q, E)
  PROVE  Len(l) = Len(r) /\ Alike(l, r, Len(l))
  <1>0. Len(l) \in Nat \ {0} /\ Len(r) \in Nat \ {0}
    BY DEF AlikeUpTo, Reads, Text
  <1>1. AlikeUpTo(Len(l), l, p, r, q, E)
    <2> DEFINE Bad == {k \in 1 .. Len(l) : ~AlikeUpTo(k, l, p, r, q, E)}
    <2> SUFFICES ASSUME Bad # {} PROVE FALSE
      <3> Len(l) \in 1 .. Len(l)
        BY <1>0
      <3> QED
        OBVIOUS
    <2>1. PICK k \in Bad : \A j \in Bad : k <= j
      <3> Bad \in SUBSET Nat
        OBVIOUS
      <3> HIDE DEF Bad
      <3> QED
        BY LeastNat
    <2>2. k \in 1 .. Len(l) /\ k # 1
      BY <2>1
    <2> DEFINE j == k - 1
    <2>3. j \in 1 .. Len(l) /\ j \notin Bad /\ j + 1 = k /\ j + 1 <= Len(l)
      BY <1>0, <2>1, <2>2
    <2>4. AlikeUpTo(j, l, p, r, q, E)
      BY <2>3
    <2> HIDE DEF j
    <2>5. AlikeUpTo(j + 1, l, p, r, q, E)
      BY ONLY <2>3, <2>4, NextRowIsAlike
    <2> QED
      BY <2>1, <2>3, <2>5
  <1>2. Len(l) <= Len(r) /\ Alike(l, r, Len(l))
    BY <1>0, <1>1 DEF AlikeUpTo
  <1>3. ~(Len(l) + 1 <= Len(r))
    <2> SUFFICES ASSUME Len(l) + 1 <= Len(r) PROVE FALSE
      OBVIOUS
    <2>1. PICK F : AlikeUpTo(Len(l), r, q, l, p, F)
      BY <1>1, AlikeSwapped
    <2>2. Len(l) + 1 <= Len(l)
      BY <2>1, NextRowIsMatched
    <2> QED
      BY <1>0, <2>2
  <1> QED
    BY <1>0, <1>2, <1>3

\* The plans of two texts are equal for planNodesEqual exactly when the texts show
\* the same nodes at the same depths.
LEMMA NodesEqualIff ==
  ASSUME NEW l \in Text, NEW r \in Text, ParsePlan(l).status = "ok", ParsePlan(r).status = "ok"
  PROVE  /\ NodesEqual(ParsePlan(l), ParsePlan(r)) => Outline(l) = Outline(r)
         /\ Outline(l) = Outline(r) => ParsePlan(l) = ParsePlan(r)
         /\ NodesEqual(ParsePlan(l), ParsePlan(l))
  <1> DEFINE p == ParsingOf(l)
             q == ParsingOf(r)
  <1>1. /\ Reads(p, l) /\ ParsePlan(l) = p[Len(l)] /\ Len(l) \in Nat \ {0}
        /\ Reads(q, r) /\ ParsePlan(r) = q[Len(r)] /\ Len(r) \in Nat \ {0}
    BY ParsedIsRead
  <1> HIDE DEF p, q
  <1>2. /\ IsTree(p[Len(l)], l, Len(l)) /\ IsParsing(p, l, Len(l))
        /\ IsTree(q[Len(r)], r, Len(r)) /\ IsParsing(q, r, Len(r))
        /\ l # <<>> /\ r # <<>>
    <2>1. Len(l) \in 1 .. Len(l) /\ Len(r) \in 1 .. Len(r)
      BY <1>1
    <2> QED
      BY <1>1, <2>1 DEF Reads
  <1>3. /\ HasShape(p[Len(l)]) /\ Len(p[Len(l)].nodes) = Len(l)
        /\ HasShape(q[Len(r)]) /\ Len(q[Len(r)].nodes) = Len(r)
    BY <1>2, TreeShape
  <1>4. ASSUME NodesEqual(p[Len(l)], q[Len(r)]) PROVE Outline(l) = Outline(r)
    <2>0. Len(p[Len(l)].nodes) >= 1 /\ Len(q[Len(r)].nodes) >= 1
      BY <1>1, <1>3
    <2>1. PICK E : IsMatch(E, p[Len(l)], q[Len(r)]) /\ <<1, 1>> \in E
      BY ONLY <1>3, <1>4, <2>0, EqualIsMatch
    <2>2. NodeOf(l[1]) = NodeOf(r[1])
      <3>1. p[Len(l)].nodes[1] = q[Len(r)].nodes[1]
        <4>1. <<1, 1>>[1] = 1 /\ <<1, 1>>[2] = 1
          OBVIOUS
        <4> QED
          BY ONLY <2>1, <4>1 DEF IsMatch
      <3>2. 1 \in 1 .. Len(l) /\ 1 \in 1 .. Len(r)
        BY <1>1
      <3>3. p[Len(l)].nodes[1] = NodeOf(l[1]) /\ q[Len(r)].nodes[1] = NodeOf(r[1])
        BY <1>1, <3>2, ReadNodes
      <3> QED
        BY <3>1, <3>3
    <2>3. Alike(l, r, 1)
      <3>1. Below(l, 1) = 0 /\ Below(r, 1) = 0
        BY <1>2, BelowType
      <3> QED
        BY <2>2, <3>1 DEF Alike
    <2>4. \A i \in 0 .. 1 : p[i] = q[i]
      <3> DEFINE k == 1
      <3>1. k \in Nat /\ k <= Len(l) /\ k <= Len(r) /\ Len(l) \in Nat /\ Len(r) \in Nat
        BY <1>1
      <3>2. Alike(l, r, k)
        BY <2>3
      <3> HIDE DEF k
      <3>3. \A i \in 0 .. k : p[i] = q[i]
        BY ONLY <1>2, <3>1, <3>2, AlikeSameParse
      <3> QED
        BY <3>3 DEF k
    <2>5. AlikeUpTo(1, l, p, r, q, E)
      <3>1. 1 \in 1 .. Len(l) /\ 1 \in 1 .. Len(r) /\ \A j \in 1 .. 1 : <<j, j>> \in E
        BY <1>1, <2>1
      <3> QED
        BY <1>1, <2>1, <2>3, <2>4, <3>1 DEF AlikeUpTo
    <2>6. Len(l) = Len(r) /\ Alike(l, r, Len(l))
      BY <2>5, AlikeToTheEnd
    <2> QED
      BY <2>6 DEF Outline, Alike, Below
  <1>5. ASSUME Outline(l) = Outline(r) PROVE p[Len(l)] = q[Len(r)]
    <2>1. Len(l) = Len(r)
      <3>1. DOMAIN Outline(l) = 1 .. Len(l) /\ DOMAIN Outline(r) = 1 .. Len(r)
        BY DEF Outline
      <3>2. Len(l) \in 1 .. Len(r) /\ Len(r) \in 1 .. Len(l)
        BY <1>1, <1>5, <3>1
      <3> QED
        BY <1>1, <3>2
    <2>2. Alike(l, r, Len(l))
      <3> SUFFICES ASSUME NEW j \in 1 .. Len(l)
                   PROVE  NodeOf(l[j]) = NodeOf(r[j]) /\ Below(l, j) = Below(r, j)
        BY DEF Alike
      <3>1. Outline(l)[j] = <<NodeOf(l[j]), Below(l, j)>> /\ Outline(r)[j] = <<NodeOf(r[j]), Below(r, j)>>
        BY <2>1 DEF Outline, Below
      <3> QED
        BY <1>5, <3>1
    <2>3. \A i \in 0 .. Len(l) : p[i] = q[i]
      BY <1>1, <1>2, <2>1, <2>2, AlikeSameParse
    <2> QED
      BY <1>1, <2>1, <2>3
  <1>6. NodesEqual(p[Len(l)], p[Len(l)])
    BY <1>1, <1>3, EqualToItself
  <1> QED
    BY <1>1, <1>4, <1>5, <1>6

\* A reason is no verdict of equality.
LEMMA ReasonIsNotEqual ==
  ASSUME NEW left, NEW right
  PROVE  ReaderChangeReason(left, right) # Equal /\ Others # Equal
  <1>1. Others # Equal
    BY DEF Others, Equal
  <1>2. \A a, b, c : <<a, b, c>> # Equal
    BY DEF Equal
  <1> QED
    BY <1>1, <1>2 DEF ReaderChangeReason

\* The verdict of ComparePlans is that of planNodesEqual: plans that it finds equal are
\* one tree, whose readers are equal as well.
LEMMA PlansEqualIff ==
  ASSUME NEW l \in Text, NEW r \in Text, ParsePlan(l).status = "ok", ParsePlan(r).status = "ok"
  PROVE  PlansEqual(ParsePlan(l), ParsePlan(r)) <=> Outline(l) = Outline(r)
  <1>1. ASSUME PlansEqual(ParsePlan(l), ParsePlan(r)) PROVE Outline(l) = Outline(r)
    <2>1. ComparePlans(ParsePlan(l), ParsePlan(r)) = Equal
      BY <1>1 DEF PlansEqual
    <2>2. NodesEqual(ParsePlan(l), ParsePlan(r))
      BY <2>1, ReasonIsNotEqual DEF ComparePlans
    <2> QED
      BY <2>2, NodesEqualIff
  <1>2. ASSUME Outline(l) = Outline(r) PROVE PlansEqual(ParsePlan(l), ParsePlan(r))
    <2>1. ParsePlan(l) = ParsePlan(r) /\ NodesEqual(ParsePlan(l), ParsePlan(l))
      BY <1>2, NodesEqualIff
    <2>2. \A plan : NodesEqual(plan, plan) => ComparePlans(plan, plan) = Equal
      <3> SUFFICES ASSUME NEW plan, NodesEqual(plan, plan) PROVE ComparePlans(plan, plan) = Equal
        OBVIOUS
      <3>1. /\ EqualReaderNodes(Readers(plan), Readers(plan))
            /\ EqualReaderNodes(IndexReaders(plan), IndexReaders(plan))
        BY DEF EqualReaderNodes
      <3> QED
        BY <3>1 DEF ComparePlans
    <2> QED
      BY <2>1, <2>2 DEF PlansEqual
  <1> QED
    BY <1>1, <1>2

\* Two plan texts of any length that are read compare equal exactly when they show the
\* same operators, tasks and access objects at the same relative depths: no reader that
\* is compared first and no tree that is built changes that verdict
\* (compare.go:298-313, 359-372).
THEOREM EqualTheorem == PairsSpec => []EqualIffSameOutline
  <1>1. PairsInv => EqualIffSameOutline
    BY PlansEqualIff DEF PairsInv, EqualIffSameOutline, Parses
  <1> QED
    BY <1>1, PairsInvariant, PTL
-----------------------------------------------------------------------------
\* Where x stands in a list that has it.
LEMMA PlaceIs ==
  ASSUME NEW order, DOMAIN order = 1 .. Len(order), NEW x \in ToSet(order)
  PROVE  PlaceIn(order)[x] \in 1 .. Len(order) /\ order[PlaceIn(order)[x]] = x
  <1>1. \E i \in 1 .. Len(order) : order[i] = x
    BY DEF ToSet
  <1> QED
    BY <1>1 DEF PlaceIn

\* Nodes are told by the places of their names in the lists.
LEMMA NodePlaces ==
  ASSUME NEW n \in Node
  PROVE  /\ OperatorPlace[n.operator] \in Nat /\ OperatorOrder[OperatorPlace[n.operator]] = n.operator
         /\ TaskPlace[n.task] \in Nat /\ TaskOrder[TaskPlace[n.task]] = n.task
         /\ ObjectPlace[n.object] \in Nat /\ ObjectOrder[ObjectPlace[n.object]] = n.object
         /\ n = [operator |-> n.operator, task |-> n.task, object |-> n.object]
  <1>1. PICK r \in TextRow : n = NodeOf(r)
    BY DEF Node
  <1>2. /\ n.operator \in ToSet(OperatorOrder) /\ n.object \in ToSet(ObjectOrder)
        /\ n = [operator |-> n.operator, task |-> n.task, object |-> n.object]
        /\ n.task = NormalizeTask(r.task) /\ r.task \in ToSet(TaskOrder)
    BY <1>1 DEF TextRow, NodeOf
  <1>3. n.task \in ToSet(TaskOrder)
    <2>1. /\ TaskOrder[6] = "tiflash" /\ TaskOrder[7] = "tikv" /\ Len(TaskOrder) = 7
      BY DEF TaskOrder
    <2>2. "tiflash" \in ToSet(TaskOrder) /\ "tikv" \in ToSet(TaskOrder)
      BY <2>1 DEF ToSet
    <2> QED
      BY <1>2, <2>2 DEF NormalizeTask
  <1>4. OperatorPlace[n.operator] \in Nat /\ OperatorOrder[OperatorPlace[n.operator]] = n.operator
    <2>1. DOMAIN OperatorOrder = 1 .. Len(OperatorOrder) /\ Len(OperatorOrder) \in Nat
      BY DEF OperatorOrder
    <2> QED
      BY <1>2, <2>1, PlaceIs DEF OperatorPlace
  <1>5. TaskPlace[n.task] \in Nat /\ TaskOrder[TaskPlace[n.task]] = n.task
    <2>1. DOMAIN TaskOrder = 1 .. Len(TaskOrder) /\ Len(TaskOrder) \in Nat
      BY DEF TaskOrder
    <2> QED
      BY <1>3, <2>1, PlaceIs DEF TaskPlace
  <1>6. ObjectPlace[n.object] \in Nat /\ ObjectOrder[ObjectPlace[n.object]] = n.object
    <2>1. DOMAIN ObjectOrder = 1 .. Len(ObjectOrder) /\ Len(ObjectOrder) \in Nat
      BY DEF ObjectOrder
    <2> QED
      BY <1>2, <2>1, PlaceIs DEF ObjectPlace
  <1> QED
    BY <1>2, <1>4, <1>5, <1>6

\* The order of the texts is a strict total order of the nodes.
LEMMA TextOrder ==
  ASSUME NEW x \in Node, NEW y \in Node, NEW z \in Node
  PROVE  /\ ~ TextBefore(x, x)
         /\ TextBefore(x, y) => ~ TextBefore(y, x)
         /\ TextBefore(x, y) \/ TextBefore(y, x) \/ x = y
         /\ TextBefore(x, y) /\ TextBefore(y, z) => TextBefore(x, z)
  <1>1. ASSUME NEW m \in Node, NEW n \in Node
        PROVE  /\ OperatorPlace[m.operator] = OperatorPlace[n.operator] => m.operator = n.operator
               /\ TaskPlace[m.task] = TaskPlace[n.task] => m.task = n.task
               /\ ObjectPlace[m.object] = ObjectPlace[n.object] => m.object = n.object
               /\ m.operator = n.operator /\ m.task = n.task /\ m.object = n.object => m = n
    BY NodePlaces
  <1>2. /\ OperatorPlace[x.operator] \in Nat /\ TaskPlace[x.task] \in Nat /\ ObjectPlace[x.object] \in Nat
        /\ OperatorPlace[y.operator] \in Nat /\ TaskPlace[y.task] \in Nat /\ ObjectPlace[y.object] \in Nat
        /\ OperatorPlace[z.operator] \in Nat /\ TaskPlace[z.task] \in Nat /\ ObjectPlace[z.object] \in Nat
    BY NodePlaces
  <1>3. TextBefore(x, y) \/ TextBefore(y, x) \/ x = y
    BY <1>1, <1>2 DEF TextBefore
  <1> QED
    BY <1>2, <1>3 DEF TextBefore

\* sortPlanNodes moves the nodes, and leaves none before a smaller one: each goes to the
\* place that is the number of those not after it, which no other node goes to.
LEMMA SortNodesIs ==
  ASSUME NEW t \in Seq(Node)
  PROVE  LET s == SortNodes(t)
         IN /\ \E p : IsOrder(p, s, t)
            /\ \A i, j \in DOMAIN t : i < j => ~ TextBefore(s[j], s[i])
  <1> DEFINE n == Len(t)
             S == DOMAIN t
             Pre(i, j) == TextBefore(t[i], t[j]) \/ (t[i] = t[j] /\ i <= j)
             Ahead(i) == {j \in S : Pre(j, i)}
             rank == [i \in S |-> Cardinality(Ahead(i))]
             p == [k \in S |-> CHOOSE i \in S : rank[i] = k]
             s == SortNodes(t)
  <1>0. /\ n \in Nat /\ S = 1 .. n /\ IsFiniteSet(S) /\ Cardinality(S) = n
        /\ \A i \in S : t[i] \in Node /\ i \in Nat
    <2>1. n \in Nat /\ S = 1 .. n /\ \A i \in S : t[i] \in Node
      OBVIOUS
    <2> HIDE DEF S, n
    <2> QED
      BY <2>1, FS_Interval
  <1>20. s = [k \in S |-> t[p[k]]]
    BY DEF SortNodes
  <1> HIDE DEF S, n, s
  <1>1. \A i \in S : Pre(i, i)
    BY <1>0
  <1>2. ASSUME NEW i \in S, NEW j \in S, NEW k \in S, Pre(i, j), Pre(j, k) PROVE Pre(i, k)
    <2>1. t[i] \in Node /\ t[j] \in Node /\ t[k] \in Node /\ i \in Nat /\ j \in Nat /\ k \in Nat
      BY <1>0
    <2> QED
      BY <1>2, <2>1, TextOrder
  <1>3. ASSUME NEW i \in S, NEW j \in S, i # j PROVE Pre(i, j) <=> ~ Pre(j, i)
    <2>1. t[i] \in Node /\ t[j] \in Node /\ i \in Nat /\ j \in Nat
      BY <1>0
    <2> QED
      BY <1>3, <2>1, TextOrder
  <1>4. \A i \in S : /\ Ahead(i) \in SUBSET S /\ i \in Ahead(i) /\ IsFiniteSet(Ahead(i))
                     /\ Cardinality(Ahead(i)) \in Nat
    <2> SUFFICES ASSUME NEW i \in S
                 PROVE  /\ Ahead(i) \in SUBSET S /\ i \in Ahead(i) /\ IsFiniteSet(Ahead(i))
                        /\ Cardinality(Ahead(i)) \in Nat
      OBVIOUS
    <2>1. Ahead(i) \in SUBSET S /\ i \in Ahead(i)
      BY <1>1
    <2> HIDE DEF Ahead
    <2> QED
      BY <1>0, <2>1, FS_Subset, FS_CardinalityType
  <1>5. ASSUME NEW i \in S, NEW j \in S, i # j, Pre(i, j)
        PROVE  Cardinality(Ahead(i)) < Cardinality(Ahead(j))
    <2>1. Ahead(i) \in SUBSET Ahead(j)
      BY <1>2, <1>5
    <2>2. j \in Ahead(j) /\ j \notin Ahead(i)
      BY <1>1, <1>3, <1>5
    <2>3. /\ IsFiniteSet(Ahead(j)) /\ Cardinality(Ahead(j)) \in Nat
          /\ Cardinality(Ahead(i)) \in Nat
      BY <1>4
    <2> HIDE DEF Ahead
    <2> QED
      BY <2>1, <2>2, <2>3, FS_Subset
  <1>6. rank \in Injection(S, S)
    <2>1. ASSUME NEW i \in S PROVE rank[i] \in S
      <3>1. rank[i] = Cardinality(Ahead(i))
        OBVIOUS
      <3>2. /\ Ahead(i) \in SUBSET S /\ Ahead(i) # {} /\ IsFiniteSet(Ahead(i))
            /\ Cardinality(Ahead(i)) \in Nat
        BY <1>4
      <3> HIDE DEF Ahead, rank
      <3>3. Cardinality(Ahead(i)) <= n /\ Cardinality(Ahead(i)) # 0
        BY <1>0, <3>2, FS_Subset, FS_EmptySet
      <3> QED
        BY <1>0, <3>1, <3>2, <3>3
    <2>2. ASSUME NEW i \in S, NEW j \in S, rank[i] = rank[j] PROVE i = j
      <3>1. SUFFICES ASSUME i # j PROVE FALSE
        OBVIOUS
      <3>2. /\ Cardinality(Ahead(i)) = Cardinality(Ahead(j))
            /\ Cardinality(Ahead(i)) \in Nat /\ Cardinality(Ahead(j)) \in Nat
        BY <1>4, <2>2
      <3>3. Pre(i, j) \/ Pre(j, i)
        BY <1>3, <3>1
      <3> HIDE DEF Pre, Ahead
      <3> QED
        BY <1>5, <3>1, <3>2, <3>3
    <2>3. rank \in [S -> S]
      BY <2>1
    <2> HIDE DEF rank
    <2> QED
      BY <2>2, <2>3 DEF Injection, IsInjective
  <1>7. rank \in [S -> S] /\ \A k \in S : \E i \in S : rank[i] = k
    <2> HIDE DEF rank
    <2>1. rank \in Surjection(S, S)
      BY <1>0, <1>6, FS_Injection
    <2> QED
      BY <2>1 DEF Surjection
  <1>8. \A i, j \in S : rank[i] = rank[j] => i = j
    <2> HIDE DEF rank
    <2> QED
      BY <1>6 DEF Injection, IsInjective
  <1>9. p \in [S -> S] /\ \A k \in S : rank[p[k]] = k
    <2>1. ASSUME NEW k \in S PROVE \E i \in S : rank[i] = k
      BY <1>7
    <2> HIDE DEF rank
    <2> QED
      BY <2>1
  <1>10. IsOrder(p, s, t)
    <2> HIDE DEF rank, p
    <2>1. \A i, j \in S : p[i] = p[j] => i = j
      BY <1>9
    <2>2. \A i \in S : \E k \in S : p[k] = i
      <3> SUFFICES ASSUME NEW i \in S PROVE \E k \in S : p[k] = i
        OBVIOUS
      <3>1. rank[i] \in S /\ p[rank[i]] = i
        BY <1>7, <1>8, <1>9
      <3> QED
        BY <3>1
    <2> QED
      BY <1>9, <1>20, <2>1, <2>2 DEF IsOrder, S
  <1>11. ASSUME NEW i \in S, NEW j \in S, i < j, TextBefore(s[j], s[i]) PROVE FALSE
    <2>1. p[i] \in S /\ p[j] \in S /\ rank[p[i]] = i /\ rank[p[j]] = j
      BY <1>9
    <2>2. Pre(p[j], p[i])
      <3> HIDE DEF p
      <3> QED
        BY <1>11, <1>20
    <2>3. p[i] # p[j]
      <3>1. i # j
        BY <1>0, <1>11
      <3> HIDE DEF p, rank
      <3> QED
        BY <2>1, <3>1
    <2>4. rank[p[j]] < rank[p[i]]
      <3> HIDE DEF Pre, Ahead, p
      <3> QED
        BY <1>5, <2>1, <2>2, <2>3
    <2> QED
      BY <1>0, <1>11, <2>1, <2>4
  <1> HIDE DEF p
  <1> QED
    BY <1>10, <1>11 DEF S, s

\* The collection of some operators after one node more.
KeptStep(kept, node, operators) ==
  IF node.operator \in operators THEN Append(kept, node) ELSE kept

\* p[i] is what the loop over the nodes has kept after i of them.
IsKeeping(p, nodes, operators) ==
  /\ p \in [0 .. Len(nodes) -> Seq(Node)]
  /\ p[0] = << >>
  /\ \A i \in 1 .. Len(nodes) : p[i] = KeptStep(p[i - 1], nodes[i], operators)

\* The collection is what the loop has kept at its end.
LEMMA CollectedIs ==
  ASSUME NEW nodes \in Seq(Node), NEW operators
  PROVE  \E p : IsKeeping(p, nodes, operators) /\ Collected(nodes, operators) = p[Len(nodes)]
  <1> DEFINE n == Len(nodes)
             V == Seq(Node)
             G == [x \in V \X (1 .. n) |-> KeptStep(x[1], nodes[x[2]], operators)]
             base == << >>
             Step(g, i) == IF i = 0 THEN << >>
                           ELSE IF nodes[i].operator \in operators THEN Append(g[i - 1], nodes[i])
                           ELSE g[i - 1]
             keeping == CHOOSE g : g = [i \in 0 .. n |-> Step(g, i)]
  <1>1. n \in Nat /\ DOMAIN nodes = 1 .. n /\ base \in V
    OBVIOUS
  <1>2. G \in [V \X (1 .. n) -> V]
    <2> SUFFICES ASSUME NEW x \in V \X (1 .. n) PROVE KeptStep(x[1], nodes[x[2]], operators) \in V
      OBVIOUS
    <2>1. x[1] \in Seq(Node) /\ nodes[x[2]] \in Node
      BY <1>1
    <2> QED
      BY <2>1 DEF KeptStep
  <1>3. \A v \in V, i \in 1 .. n : G[<<v, i>>] = KeptStep(v, nodes[i], operators)
    OBVIOUS
  <1>4. Collected(nodes, operators) = keeping[n]
    BY DEF Collected
  <1> HIDE DEF n, V, G, base
  <1>5. PICK h : IsFold(h, n, V, base, G)
    BY ONLY <1>1, <1>2, FoldExists
  <1> DEFINE q == [i \in 0 .. n |-> h[1 .. i]]
  <1>6. q \in [0 .. n -> V]
    BY <1>1, <1>5 DEF IsFold
  <1>7. q[0] = << >>
    <2>1. {} \in SUBSET (1 .. n) /\ 1 .. 0 = {} /\ 0 \in 0 .. n
      BY <1>1
    <2>2. h[{}] = base
      BY <1>5, <2>1 DEF IsFold
    <2>3. q[0] = h[1 .. 0]
      BY <2>1
    <2> QED
      BY <2>1, <2>2, <2>3 DEF base
  <1>8. ASSUME NEW i \in 1 .. n PROVE q[i] = KeptStep(q[i - 1], nodes[i], operators)
    <2>1. i \in Nat \ {0} /\ i \in 0 .. n /\ i - 1 \in 0 .. n
          /\ 1 .. i \in SUBSET (1 .. n) /\ 1 .. i # {}
      <3>1. i \in Nat \ {0} /\ i \in 0 .. n /\ i - 1 \in 0 .. n /\ i <= n
        BY ONLY <1>1, i \in 1 .. n
      <3>2. 1 .. i \in SUBSET (1 .. n)
        BY ONLY <1>1, <3>1
      <3>3. 1 \in 1 .. i
        BY ONLY <3>1
      <3> QED
        BY <3>1, <3>2, <3>3
    <2>2. Max(1 .. i) = i /\ (1 .. i) \ {Max(1 .. i)} = 1 .. (i - 1)
      BY <2>1, MaxOfPrefix
    <2>3. q[i] = h[1 .. i] /\ q[i - 1] = h[1 .. (i - 1)] /\ q[i - 1] \in V
      BY <1>6, <2>1
    <2>4. h[1 .. i] = G[<<h[(1 .. i) \ {Max(1 .. i)}], Max(1 .. i)>>]
      BY <1>5, <2>1 DEF IsFold
    <2>5. q[i] = G[<<q[i - 1], i>>]
      BY <2>2, <2>3, <2>4
    <2> QED
      BY <1>3, <2>3, <2>5
  <1> HIDE DEF q
  <1>9. q = [i \in 0 .. n |-> Step(q, i)]
    <2>1. ASSUME NEW i \in 0 .. n PROVE q[i] = Step(q, i)
      <3>1. CASE i = 0
        BY <1>7, <3>1
      <3>2. CASE i # 0
        <4>1. i \in 1 .. n
          BY <1>1, <3>2
        <4> QED
          BY <1>8, <3>2, <4>1 DEF KeptStep
      <3> QED
        BY <3>1, <3>2
    <2> HIDE DEF Step
    <2> QED
      BY <1>6, <2>1
  <1>10. keeping = [i \in 0 .. n |-> Step(keeping, i)]
    <2> HIDE DEF Step
    <2> QED
      BY <1>9
  <1> HIDE DEF keeping
  <1>11. keeping[0] = << >>
    BY <1>1, <1>10
  <1>12. ASSUME NEW i \in 1 .. n PROVE keeping[i] = KeptStep(keeping[i - 1], nodes[i], operators)
    <2>1. i \in 0 .. n /\ i # 0
      BY <1>1
    <2>2. keeping[i] = Step(keeping, i)
      <3> HIDE DEF Step
      <3> QED
        BY <1>10, <2>1
    <2> QED
      BY <2>1, <2>2 DEF KeptStep
  <1>13. \A i \in 0 .. n : keeping[i] = q[i]
    <2> DEFINE Bad == {i \in 0 .. n : keeping[i] # q[i]}
    <2> SUFFICES ASSUME Bad # {} PROVE FALSE
      OBVIOUS
    <2>1. PICK i \in Bad : \A k \in Bad : i <= k
      <3> Bad \in SUBSET Nat
        OBVIOUS
      <3> HIDE DEF Bad
      <3> QED
        BY LeastNat
    <2>2. CASE i = 0
      BY <1>7, <1>11, <2>1, <2>2
    <2>3. CASE i # 0
      <3>1. i \in 1 .. n /\ i - 1 \in 0 .. n /\ i - 1 \notin Bad
        BY <1>1, <2>1, <2>3
      <3>2. keeping[i - 1] = q[i - 1]
        BY <3>1
      <3> QED
        BY <1>8, <1>12, <2>1, <3>1, <3>2
    <2> QED
      BY <2>2, <2>3
  <1>14. Collected(nodes, operators) = q[n]
    BY <1>1, <1>4, <1>13
  <1>15. IsKeeping(q, nodes, operators)
    BY <1>6, <1>7, <1>8 DEF IsKeeping, n, V
  <1> QED
    BY <1>14, <1>15 DEF n

\* A collection holds nodes of its operators only, and of those as many of each kind as the
\* plan: the loop has kept each one it has seen.
LEMMA CollectedCounts ==
  ASSUME NEW nodes \in Seq(Node), NEW operators, NEW A,
         \A x \in Node : x \in A => x.operator \in operators
  PROVE  /\ Collected(nodes, operators) \in Seq(Node)
         /\ \A k \in DOMAIN Collected(nodes, operators) :
              Collected(nodes, operators)[k].operator \in operators
         /\ CountIn(Collected(nodes, operators), A) = CountIn(nodes, A)
  <1> DEFINE n == Len(nodes)
             Seen(i) == Cardinality({j \in 1 .. i : nodes[j] \in A})
  <1>0. n \in Nat /\ DOMAIN nodes = 1 .. n /\ \A i \in 1 .. n : nodes[i] \in Node
    OBVIOUS
  <1>1. PICK p : IsKeeping(p, nodes, operators) /\ Collected(nodes, operators) = p[n]
    BY CollectedIs
  <1>2. /\ p \in [0 .. n -> Seq(Node)] /\ p[0] = << >>
        /\ \A i \in 1 .. n : p[i] = KeptStep(p[i - 1], nodes[i], operators)
    BY <1>1 DEF IsKeeping
  <1> DEFINE Good(i) == /\ \A k \in DOMAIN p[i] : p[i][k].operator \in operators
                        /\ CountIn(p[i], A) = Seen(i)
             Bad == {i \in 0 .. n : ~ Good(i)}
  <1> HIDE DEF n
  <1>3. Seen(0) = 0 /\ CountIn(<< >>, A) = 0 /\ DOMAIN << >> = {}
    BY FS_EmptySet DEF CountIn, Where
  <1>4. ASSUME NEW i \in 1 .. n
        PROVE  /\ Seen(i) = Seen(i - 1) + (IF nodes[i] \in A THEN 1 ELSE 0)
               /\ Seen(i - 1) \in Nat
    <2> DEFINE T == {j \in 1 .. (i - 1) : nodes[j] \in A}
    <2>1. IsFiniteSet(T) /\ Cardinality(T) \in Nat
      <3>1. IsFiniteSet(1 .. (i - 1)) /\ T \in SUBSET (1 .. (i - 1))
        BY <1>0, FS_Interval
      <3> HIDE DEF T
      <3> QED
        BY <3>1, FS_Subset, FS_CardinalityType
    <2>2. CASE nodes[i] \in A
      <3>1. {j \in 1 .. i : nodes[j] \in A} = T \cup {i} /\ i \notin T
        BY <1>0, <2>2
      <3> HIDE DEF T
      <3>2. Cardinality(T \cup {i}) = Cardinality(T) + 1
        BY <2>1, <3>1, FS_AddElement
      <3> QED
        BY <2>1, <2>2, <3>1, <3>2 DEF T
    <2>3. CASE nodes[i] \notin A
      <3>1. {j \in 1 .. i : nodes[j] \in A} = T
        BY <1>0, <2>3
      <3>2. Seen(i) = Cardinality(T) /\ Seen(i - 1) = Cardinality(T)
        BY <3>1
      <3> HIDE DEF Seen, T
      <3> QED
        BY <2>1, <2>3, <3>2
    <2> QED
      BY <2>2, <2>3
  <1>5. Bad = {}
    <2> SUFFICES ASSUME Bad # {} PROVE FALSE
      OBVIOUS
    <2>1. PICK i \in Bad : \A k \in Bad : i <= k
      <3> Bad \in SUBSET Nat
        BY <1>0
      <3> HIDE DEF Bad
      <3> QED
        BY LeastNat
    <2>2. CASE i = 0
      <3> HIDE DEF Seen
      <3>1. Good(0)
        BY <1>2, <1>3
      <3> QED
        BY <2>1, <2>2, <3>1
    <2>3. CASE i # 0
      <3>1. i \in 1 .. n /\ i - 1 \in 0 .. n /\ i - 1 \notin Bad
        <4>1. i \in 1 .. n /\ i - 1 \in 0 .. n
          BY <1>0, <2>1, <2>3
        <4> HIDE DEF Bad
        <4>2. i - 1 \notin Bad
          BY <1>0, <2>1, <4>1
        <4> QED
          BY <4>1, <4>2
      <3>2. Good(i - 1) /\ p[i - 1] \in Seq(Node) /\ nodes[i] \in Node
            /\ p[i] = KeptStep(p[i - 1], nodes[i], operators)
        BY <1>0, <1>2, <3>1
      <3>3. CASE nodes[i].operator \in operators
        <4>1. p[i] = Append(p[i - 1], nodes[i])
          BY <3>2, <3>3 DEF KeptStep
        <4>2. \A k \in DOMAIN p[i] : p[i][k].operator \in operators
          BY <3>2, <3>3, <4>1, AppendOne
        <4>3. CountIn(p[i], A) = CountIn(p[i - 1], A) + (IF nodes[i] \in A THEN 1 ELSE 0)
          BY <3>2, <4>1, CountAppend
        <4>4. CountIn(p[i], A) = Seen(i)
          <5>1. CountIn(p[i - 1], A) = Seen(i - 1)
            BY <3>2
          <5> HIDE DEF Seen
          <5> QED
            BY <1>4, <3>1, <4>3, <5>1
        <4> QED
          BY <2>1, <4>2, <4>4
      <3>4. CASE nodes[i].operator \notin operators
        <4>1. p[i] = p[i - 1]
          BY <3>2, <3>4 DEF KeptStep
        <4>2. nodes[i] \notin A
          BY <3>2, <3>4
        <4>3. CountIn(p[i], A) = Seen(i)
          <5>1. CountIn(p[i - 1], A) = Seen(i - 1)
            BY <3>2
          <5> HIDE DEF Seen
          <5> QED
            BY <1>4, <3>1, <4>1, <4>2, <5>1
        <4> QED
          BY <2>1, <3>2, <4>1, <4>3
      <3> QED
        BY <3>3, <3>4
    <2> QED
      BY <2>2, <2>3
  <1>6. Good(n) /\ p[n] \in Seq(Node)
    <2> HIDE DEF Good
    <2>1. n \in 0 .. n
      BY <1>0
    <2> QED
      BY <1>2, <1>5, <2>1
  <1>7. Seen(n) = CountIn(nodes, A)
    BY <1>0 DEF CountIn, Where
  <1> HIDE DEF Seen
  <1> QED
    BY <1>1, <1>6, <1>7

\* Its nodes have the operators of the collection, ...
LEMMA CollectedNodes ==
  ASSUME NEW nodes \in Seq(Node), NEW operators
  PROVE  /\ Collected(nodes, operators) \in Seq(Node)
         /\ \A k \in DOMAIN Collected(nodes, operators) :
              Collected(nodes, operators)[k].operator \in operators
  <1>1. PICK none : none = {}
    OBVIOUS
  <1>2. \A x \in Node : x \in none => x.operator \in operators
    BY <1>1
  <1>3. /\ Collected(nodes, operators) \in Seq(Node)
        /\ \A k \in DOMAIN Collected(nodes, operators) :
             Collected(nodes, operators)[k].operator \in operators
        /\ CountIn(Collected(nodes, operators), none) = CountIn(nodes, none)
    BY ONLY <1>2, nodes \in Seq(Node), CollectedCounts
  <1> QED
    BY <1>3

\* ... and no others.
LEMMA CollectedHasNone ==
  ASSUME NEW nodes \in Seq(Node), NEW operators, NEW A,
         \A x \in Node : x \in A => x.operator \notin operators
  PROVE  CountIn(Collected(nodes, operators), A) = 0
  <1> DEFINE c == Collected(nodes, operators)
  <1>1. c \in Seq(Node) /\ \A k \in DOMAIN c : c[k].operator \in operators
    BY CollectedNodes
  <1> HIDE DEF c
  <1>2. Where(c, A) = {}
    <2>1. \A k \in DOMAIN c : c[k] \in Node
      BY <1>1
    <2> QED
      BY <1>1, <2>1 DEF Where
  <1> QED
    BY <1>2, FS_EmptySet DEF CountIn, c

\* Two sequences that agree on A before i, where the one has an element of A and from where
\* the other has none, have not as many.
LEMMA FirstDifference ==
  ASSUME NEW s \in Seq(Node), NEW v \in Seq(Node), NEW A, NEW i \in DOMAIN s, s[i] \in A,
         \A j \in DOMAIN v : j < i => (v[j] \in A => s[j] \in A),
         \A j \in DOMAIN v : i <= j => v[j] \notin A
  PROVE  CountIn(v, A) < CountIn(s, A)
  <1>1. /\ Len(s) \in Nat /\ DOMAIN s = 1 .. Len(s)
        /\ Len(v) \in Nat /\ DOMAIN v = 1 .. Len(v)
    OBVIOUS
  <1>2. Where(v, A) \in SUBSET Where(s, A)
    BY <1>1 DEF Where
  <1>3. i \in Where(s, A) /\ i \notin Where(v, A)
    BY <1>1 DEF Where
  <1>4. /\ IsFiniteSet(Where(s, A)) /\ CountIn(s, A) \in Nat /\ CountIn(v, A) \in Nat
    BY CountType
  <1> QED
    BY <1>2, <1>3, <1>4, FS_Subset DEF CountIn

\* The nodes of one operator that have a name in a field.
Kind(operator, field, name) == {x \in Node : x.operator = operator /\ x[field] = name}

\* v leaves no node before a smaller one.
InTextOrder(v) == \A i, j \in DOMAIN v : i < j => ~ TextBefore(v[j], v[i])

\* Where two sorted sequences first differ in operator or task, the one with the smaller
\* name has more nodes of that name: the other has passed its last.
LEMMA SmallerNameIsMore ==
  ASSUME NEW s \in Seq(Node), NEW v \in Seq(Node), Len(s) = Len(v), InTextOrder(v),
         NEW i \in 1 .. Len(s), NEW field \in {"operator", "task"},
         \A j \in 1 .. Len(s) : j < i => s[j].operator = v[j].operator /\ s[j].task = v[j].task,
         field = "operator" => OperatorPlace[s[i].operator] < OperatorPlace[v[i].operator],
         field = "task" => /\ s[i].operator = v[i].operator
                           /\ TaskPlace[s[i].task] < TaskPlace[v[i].task]
  PROVE  LET A == Kind(s[i].operator, field, s[i][field])
         IN CountIn(v, A) < CountIn(s, A)
  <1> DEFINE A == Kind(s[i].operator, field, s[i][field])
  <1>1. /\ Len(s) \in Nat /\ DOMAIN s = 1 .. Len(s) /\ DOMAIN v = 1 .. Len(s)
        /\ \A j \in 1 .. Len(s) : s[j] \in Node /\ v[j] \in Node
    OBVIOUS
  <1>2. s[i] \in A
    BY <1>1 DEF Kind
  <1>3. \A j \in DOMAIN v : j < i => (v[j] \in A => s[j] \in A)
    BY <1>1 DEF Kind
  <1>4. ASSUME NEW j \in DOMAIN v, i <= j, v[j] \in A PROVE FALSE
    <2>1. /\ v[j].operator = s[i].operator /\ v[j][field] = s[i][field]
          /\ v[j] \in Node /\ s[i] \in Node /\ v[i] \in Node
      BY <1>1, <1>4 DEF Kind
    <2>2. /\ OperatorPlace[s[i].operator] \in Nat /\ OperatorPlace[v[i].operator] \in Nat
          /\ TaskPlace[s[i].task] \in Nat /\ TaskPlace[v[i].task] \in Nat
      BY <2>1, NodePlaces
    <2>3. i < j => ~ TextBefore(v[j], v[i])
      BY <1>1 DEF InTextOrder
    <2>4. CASE field = "operator"
      <3>1. OperatorPlace[v[j].operator] < OperatorPlace[v[i].operator]
        BY <2>1, <2>4
      <3>2. i # j
        BY <2>2, <3>1
      <3>3. i < j
        BY <1>1, <1>4, <3>2
      <3> QED
        BY <2>3, <3>1, <3>3 DEF TextBefore
    <2>5. CASE field = "task"
      <3>1. /\ v[j].operator = v[i].operator
            /\ TaskPlace[v[j].task] < TaskPlace[v[i].task]
        BY <2>1, <2>5
      <3>2. i # j
        BY <2>2, <3>1
      <3>3. i < j
        BY <1>1, <1>4, <3>2
      <3> QED
        BY <2>3, <3>1, <3>3 DEF TextBefore
    <2> QED
      BY <2>4, <2>5
  <1> HIDE DEF A
  <1>5. CountIn(v, A) < CountIn(s, A)
    BY <1>1, <1>2, <1>3, <1>4, FirstDifference
  <1> QED
    BY <1>5 DEF A

\* Of a list a and a list b the first shows more nodes of operator o with the old name of a
\* change, or the second more with the new one.
NameMoves(a, b, o, reason) ==
  \/ CountIn(a, Kind(o, reason[1], reason[2])) > CountIn(b, Kind(o, reason[1], reason[2]))
  \/ CountIn(b, Kind(o, reason[1], reason[3])) > CountIn(a, Kind(o, reason[1], reason[3]))

\* The first of two lists shows more of the old name of a change, or the second more of the
\* new one, among the nodes of an operator that one of the lists shows.
LEMMA ReasonIsReal ==
  ASSUME NEW left \in Seq(Node), NEW right \in Seq(Node),
         Len(ReaderChangeReason(left, right)) = 3
  PROVE  LET reason == ReaderChangeReason(left, right)
         IN \E x \in ToSet(left) \cup ToSet(right) : NameMoves(left, right, x.operator, reason)
  <1> DEFINE s == SortNodes(left)
             v == SortNodes(right)
             differs(i) == s[i].operator # v[i].operator \/ s[i].task # v[i].task
             places == {i \in 1 .. Len(s) : differs(i)}
             i == Min(places)
             reason == ReaderChangeReason(left, right)
  <1>1. PICK p : IsOrder(p, s, left)
    BY SortNodesIs
  <1>2. PICK q : IsOrder(q, v, right)
    BY SortNodesIs
  <1>3. InTextOrder(s) /\ InTextOrder(v)
    <2>1. DOMAIN s = DOMAIN left /\ DOMAIN v = DOMAIN right
      BY <1>1, <1>2 DEF IsOrder
    <2> QED
      BY <2>1, SortNodesIs DEF InTextOrder
  <1>4. s \in Seq(Node) /\ v \in Seq(Node)
    <2> HIDE DEF s, v
    <2> QED
      BY <1>1, <1>2, OrderType
  <1>5. Len(s) = Len(v) /\ places # {}
    BY DEF ReaderChangeReason, Others
  <1>6. reason = IF s[i].operator # v[i].operator
                 THEN <<"operator", s[i].operator, v[i].operator>>
                 ELSE <<"task", s[i].task, v[i].task>>
    BY <1>5 DEF ReaderChangeReason
  <1> HIDE DEF s, v, reason
  <1>7. /\ Len(s) \in Nat /\ DOMAIN s = 1 .. Len(s) /\ DOMAIN v = 1 .. Len(s)
        /\ \A j \in 1 .. Len(s) : s[j] \in Node /\ v[j] \in Node
    BY <1>4, <1>5
  <1>8. i \in places /\ \A j \in places : i <= j
    <2>1. places \in SUBSET Nat
      OBVIOUS
    <2> HIDE DEF places
    <2> QED
      BY <1>5, <2>1, MinIsLeast
  <1>9. /\ i \in 1 .. Len(s) /\ differs(i)
        /\ \A j \in 1 .. Len(s) : j < i => s[j].operator = v[j].operator /\ s[j].task = v[j].task
    <2>1. \A j \in 1 .. Len(s) : j < i => j \notin places
      <3>1. \A j \in 1 .. Len(s) : j \in Int
        OBVIOUS
      <3>2. i \in Int
        BY <1>8
      <3> HIDE DEF places, i
      <3> QED
        BY <1>8, <3>1, <3>2
    <2> HIDE DEF i
    <2> QED
      BY <1>8, <2>1
  <1> DEFINE field == IF s[i].operator # v[i].operator THEN "operator" ELSE "task"
  <1> HIDE DEF i
  <1>10. /\ reason[1] = field /\ reason[2] = s[i][field] /\ reason[3] = v[i][field]
         /\ field \in {"operator", "task"}
    BY <1>6
  <1>11. /\ s[i] \in ToSet(left) /\ v[i] \in ToSet(right)
    BY <1>1, <1>2, <1>7, <1>9 DEF IsOrder, ToSet
  <1>12. \A A : CountIn(s, A) = CountIn(left, A) /\ CountIn(v, A) = CountIn(right, A)
    BY <1>1, <1>2, CountOfOrder
  <1>13. \A A : CountIn(s, A) \in Nat /\ CountIn(v, A) \in Nat
    BY <1>4, CountType
  <1>14. /\ OperatorPlace[s[i].operator] \in Nat /\ OperatorPlace[v[i].operator] \in Nat
         /\ TaskPlace[s[i].task] \in Nat /\ TaskPlace[v[i].task] \in Nat
         /\ OperatorPlace[s[i].operator] = OperatorPlace[v[i].operator] => s[i].operator = v[i].operator
         /\ TaskPlace[s[i].task] = TaskPlace[v[i].task] => s[i].task = v[i].task
    BY <1>7, <1>9, NodePlaces
  <1>15. \/ /\ field = "operator" => OperatorPlace[s[i].operator] < OperatorPlace[v[i].operator]
            /\ field = "task" => /\ s[i].operator = v[i].operator
                                 /\ TaskPlace[s[i].task] < TaskPlace[v[i].task]
         \/ /\ field = "operator" => OperatorPlace[v[i].operator] < OperatorPlace[s[i].operator]
            /\ field = "task" => /\ v[i].operator = s[i].operator
                                 /\ TaskPlace[v[i].task] < TaskPlace[s[i].task]
    BY <1>9, <1>14
  <1> HIDE DEF field, differs
  <1>16. \/ CountIn(v, Kind(s[i].operator, field, s[i][field]))
              < CountIn(s, Kind(s[i].operator, field, s[i][field]))
         \/ CountIn(s, Kind(v[i].operator, field, v[i][field]))
              < CountIn(v, Kind(v[i].operator, field, v[i][field]))
    BY <1>3, <1>4, <1>5, <1>9, <1>10, <1>15, SmallerNameIsMore
  <1> QED
    BY <1>10, <1>11, <1>12, <1>13, <1>16 DEF reason, NameMoves

\* The nodes of a plan that was read.
LEMMA NodesOfPlan ==
  ASSUME NEW t \in Text, Parses(t)
  PROVE  ParsePlan(t).nodes \in Seq(Node)
  <1>1. /\ Reads(ParsingOf(t), t)
        /\ ParsePlan(t) = ParsingOf(t)[Len(t)] /\ Len(t) \in Nat \ {0}
    BY ParsedIsRead DEF Parses
  <1>2. Len(t) \in 1 .. Len(t)
    BY <1>1
  <1>3. IsTree(ParsePlan(t), t, Len(t))
    BY <1>1, <1>2 DEF Reads
  <1> QED
    BY <1>3 DEF IsTree, NodesAre

\* The two lists of a plan whose changes are named.
IndexRead(nodes) == Collected(nodes, IndexReaderOperators)
AllRead(nodes) == Collected(nodes, ReaderOperators) \o IndexRead(nodes)

\* What the two collections of a plan show of a reader's nodes is what the plan shows, and
\* the readers of an index are in the second.
LEMMA CollectionsShow ==
  ASSUME NEW nodes \in Seq(Node), NEW o, NEW A, \A x \in Node : x \in A => x.operator = o
  PROVE  /\ o \in ReaderOperators \cup IndexReaderOperators =>
              CountIn(AllRead(nodes), A) = CountIn(nodes, A)
         /\ o \in IndexReaderOperators => CountIn(IndexRead(nodes), A) = CountIn(nodes, A)
  <1> DEFINE R == Collected(nodes, ReaderOperators)
             I == Collected(nodes, IndexReaderOperators)
  <1>1. /\ R \in Seq(Node) /\ \A k \in DOMAIN R : R[k].operator \in ReaderOperators
        /\ I \in Seq(Node) /\ \A k \in DOMAIN I : I[k].operator \in IndexReaderOperators
    BY CollectedNodes
  <1>2. o \in ReaderOperators => o \notin IndexReaderOperators
    BY DEF ReaderOperators, IndexReaderOperators
  <1>3. o \in ReaderOperators => CountIn(R, A) = CountIn(nodes, A) /\ CountIn(I, A) = 0
    <2> SUFFICES ASSUME o \in ReaderOperators
                 PROVE  CountIn(R, A) = CountIn(nodes, A) /\ CountIn(I, A) = 0
      OBVIOUS
    <2>1. /\ \A x \in Node : x \in A => x.operator \in ReaderOperators
          /\ \A x \in Node : x \in A => x.operator \notin IndexReaderOperators
      BY <1>2
    <2> QED
      BY <2>1, CollectedCounts, CollectedHasNone
  <1>4. o \in IndexReaderOperators => CountIn(I, A) = CountIn(nodes, A) /\ CountIn(R, A) = 0
    <2> SUFFICES ASSUME o \in IndexReaderOperators
                 PROVE  CountIn(I, A) = CountIn(nodes, A) /\ CountIn(R, A) = 0
      OBVIOUS
    <2>1. /\ \A x \in Node : x \in A => x.operator \in IndexReaderOperators
          /\ \A x \in Node : x \in A => x.operator \notin ReaderOperators
      BY <1>2
    <2> QED
      BY <2>1, CollectedCounts, CollectedHasNone
  <1> HIDE DEF R, I
  <1>5. CountIn(R \o I, A) = CountIn(R, A) + CountIn(I, A)
    BY <1>1, CountConcat
  <1>6. CountIn(nodes, A) \in Nat
    BY CountType
  <1> QED
    BY <1>1, <1>3, <1>4, <1>5, <1>6 DEF R, I, AllRead, IndexRead

\* The lists hold nodes of readers only.
LEMMA CollectionsHold ==
  ASSUME NEW nodes \in Seq(Node)
  PROVE  /\ AllRead(nodes) \in Seq(Node) /\ IndexRead(nodes) \in Seq(Node)
         /\ \A x \in ToSet(AllRead(nodes)) :
              x.operator \in ReaderOperators \cup IndexReaderOperators
         /\ \A x \in ToSet(IndexRead(nodes)) : x.operator \in IndexReaderOperators
  <1> DEFINE R == Collected(nodes, ReaderOperators)
             I == Collected(nodes, IndexReaderOperators)
  <1>1. /\ R \in Seq(Node) /\ \A k \in DOMAIN R : R[k].operator \in ReaderOperators
        /\ I \in Seq(Node) /\ \A k \in DOMAIN I : I[k].operator \in IndexReaderOperators
    BY CollectedNodes
  <1> HIDE DEF R, I
  <1>7. /\ R \o I \in Seq(Node)
        /\ \A k \in DOMAIN (R \o I) :
             \/ k \in DOMAIN R /\ (R \o I)[k] = R[k]
             \/ \E j \in DOMAIN I : (R \o I)[k] = I[j]
    <2>1. /\ Len(R) \in Nat /\ Len(I) \in Nat /\ DOMAIN R = 1 .. Len(R) /\ DOMAIN I = 1 .. Len(I)
          /\ R \o I \in Seq(Node) /\ DOMAIN (R \o I) = 1 .. (Len(R) + Len(I))
          /\ \A k \in 1 .. Len(R) : (R \o I)[k] = R[k]
          /\ \A k \in 1 .. (Len(R) + Len(I)) : k > Len(R) => (R \o I)[k] = I[k - Len(R)]
      BY <1>1
    <2>2. ASSUME NEW k \in DOMAIN (R \o I), k \notin DOMAIN R
          PROVE  \E j \in DOMAIN I : (R \o I)[k] = I[j]
      <3>1. k - Len(R) \in DOMAIN I /\ k > Len(R)
        BY <2>1, <2>2
      <3> QED
        BY <2>1, <3>1
    <2> QED
      BY <2>1, <2>2
  <1>8. \A x \in ToSet(R \o I) : x.operator \in ReaderOperators \cup IndexReaderOperators
    <2> SUFFICES ASSUME NEW k \in DOMAIN (R \o I)
                 PROVE  (R \o I)[k].operator \in ReaderOperators \cup IndexReaderOperators
      BY DEF ToSet
    <2> QED
      BY <1>1, <1>7
  <1>9. \A x \in ToSet(I) : x.operator \in IndexReaderOperators
    BY <1>1 DEF ToSet
  <1> QED
    BY <1>1, <1>7, <1>8, <1>9 DEF R, I, AllRead, IndexRead

\* A list shows of some operators as many nodes of each kind as a plan does.
ShowsOf(l, a, operators) ==
  \A o \in operators : \A A :
    (\A x \in Node : x \in A => x.operator = o) => CountIn(l, A) = CountIn(a, A)

\* If two lists show of some operators what two plans show, a change that is named between
\* the lists is one between the plans.
LEMMA ChangeOfLists ==
  ASSUME NEW a \in Seq(Node), NEW b \in Seq(Node), NEW l \in Seq(Node), NEW m \in Seq(Node),
         NEW operators, \A x \in ToSet(l) \cup ToSet(m) : x.operator \in operators,
         ShowsOf(l, a, operators), ShowsOf(m, b, operators),
         NEW reason, reason = ReaderChangeReason(l, m), Len(reason) = 3
  PROVE  \E o \in operators : NameMoves(a, b, o, reason)
  <1>1. PICK x \in ToSet(l) \cup ToSet(m) : NameMoves(l, m, x.operator, reason)
    BY ReasonIsReal
  <1>2. x.operator \in operators
    OBVIOUS
  <1>3. ASSUME NEW name
        PROVE  LET A == Kind(x.operator, reason[1], name)
               IN CountIn(l, A) = CountIn(a, A) /\ CountIn(m, A) = CountIn(b, A)
    <2> DEFINE A == Kind(x.operator, reason[1], name)
    <2>1. \A y \in Node : y \in A => y.operator = x.operator
      BY DEF Kind
    <2> HIDE DEF A
    <2>2. CountIn(l, A) = CountIn(a, A) /\ CountIn(m, A) = CountIn(b, A)
      BY <1>2, <2>1 DEF ShowsOf
    <2> QED
      BY <2>2 DEF A
  <1>4. NameMoves(a, b, x.operator, reason)
    BY <1>1, <1>3 DEF NameMoves
  <1> QED
    BY <1>2, <1>4

\* The same of two plans.
LEMMA ChangeIsReal ==
  ASSUME NEW old, NEW new, old.nodes \in Seq(Node), new.nodes \in Seq(Node),
         NEW reason, reason = ComparePlans(old, new), Len(reason) = 3
  PROVE  \E o \in ReaderOperators \cup IndexReaderOperators :
           NameMoves(old.nodes, new.nodes, o, reason)
  <1> DEFINE a == old.nodes
             b == new.nodes
  <1>1. \/ reason = ReaderChangeReason(AllRead(a), AllRead(b))
        \/ reason = ReaderChangeReason(IndexRead(a), IndexRead(b))
    <2>1. Len(Equal) = 1 /\ Len(Others) = 1
      BY DEF Equal, Others
    <2>2. \/ reason = ReaderChangeReason(Readers(old) \o IndexReaders(old),
                                         Readers(new) \o IndexReaders(new))
          \/ reason = ReaderChangeReason(IndexReaders(old), IndexReaders(new))
          \/ reason \in {Equal, Others}
      BY ONLY reason = ComparePlans(old, new), Zenon DEF ComparePlans
    <2>3. reason \notin {Equal, Others}
      <3>1. Len(reason) = 3 /\ Len(reason) # Len(Equal) /\ Len(reason) # Len(Others)
        BY ONLY <2>1, Len(reason) = 3
      <3> QED
        BY ONLY <3>1, Zenon
    <2> QED
      BY <2>2, <2>3 DEF Readers, IndexReaders, AllRead, IndexRead
  <1>2. a \in Seq(Node) /\ b \in Seq(Node)
    OBVIOUS
  <1> HIDE DEF a, b
  <1> DEFINE both == ReaderOperators \cup IndexReaderOperators
  <1>3. ASSUME NEW nodes \in Seq(Node)
        PROVE  /\ ShowsOf(AllRead(nodes), nodes, both)
               /\ ShowsOf(IndexRead(nodes), nodes, IndexReaderOperators)
    BY CollectionsShow DEF ShowsOf
  <1>4. CASE reason = ReaderChangeReason(AllRead(a), AllRead(b))
    <2>1. /\ AllRead(a) \in Seq(Node) /\ AllRead(b) \in Seq(Node)
          /\ \A x \in ToSet(AllRead(a)) \cup ToSet(AllRead(b)) : x.operator \in both
      BY <1>2, CollectionsHold
    <2>2. ShowsOf(AllRead(a), a, both) /\ ShowsOf(AllRead(b), b, both)
      BY <1>2, <1>3
    <2> HIDE DEF both
    <2>3. \E o \in both : NameMoves(a, b, o, reason)
      BY ONLY <1>2, <1>4, <2>1, <2>2, Len(reason) = 3, ChangeOfLists
    <2> QED
      BY <2>3 DEF both, a, b
  <1>5. CASE reason = ReaderChangeReason(IndexRead(a), IndexRead(b))
    <2>1. /\ IndexRead(a) \in Seq(Node) /\ IndexRead(b) \in Seq(Node)
          /\ \A x \in ToSet(IndexRead(a)) \cup ToSet(IndexRead(b)) :
               x.operator \in IndexReaderOperators
      BY <1>2, CollectionsHold
    <2>2. /\ ShowsOf(IndexRead(a), a, IndexReaderOperators)
          /\ ShowsOf(IndexRead(b), b, IndexReaderOperators)
      BY <1>2, <1>3
    <2>3. \E o \in IndexReaderOperators : NameMoves(a, b, o, reason)
      BY ONLY <1>2, <1>5, <2>1, <2>2, Len(reason) = 3, ChangeOfLists
    <2> QED
      BY <2>3 DEF a, b
  <1> QED
    BY <1>1, <1>4, <1>5

\* Whenever the comparison names a change `a->b', the readers of some operator show the name
\* a more often in the recorded plan, or b more often in the new one (compare.go:298-313,
\* 333-357).  It does not say that both names have changed.
THEOREM NamedTheorem == PairsSpec => []NamedChangeIsReal
  <1>1. PairsInv => NamedChangeIsReal
    <2> SUFFICES ASSUME PairsInv, Parses(recorded), Parses(newPlan),
                        Len(ComparePlans(ParsePlan(recorded), ParsePlan(newPlan))) = 3
                 PROVE  NamedChangeIsReal
      BY DEF NamedChangeIsReal
    <2> DEFINE old == ParsePlan(recorded)
               new == ParsePlan(newPlan)
               reason == ComparePlans(old, new)
               Shown(plan, operator, name) ==
                 Cardinality({i \in 1..Len(plan.nodes) :
                   plan.nodes[i].operator = operator /\ plan.nodes[i][reason[1]] = name})
    <2>1. old.nodes \in Seq(Node) /\ new.nodes \in Seq(Node)
      BY NodesOfPlan DEF PairsInv
    <2>2. ASSUME NEW plan, plan.nodes \in Seq(Node), NEW o, NEW name
          PROVE  Shown(plan, o, name) = CountIn(plan.nodes, Kind(o, reason[1], name))
      <3>1. /\ DOMAIN plan.nodes = 1 .. Len(plan.nodes)
            /\ \A i \in 1 .. Len(plan.nodes) : plan.nodes[i] \in Node
        BY <2>2
      <3> HIDE DEF reason
      <3>2. {i \in 1..Len(plan.nodes) :
               plan.nodes[i].operator = o /\ plan.nodes[i][reason[1]] = name}
              = Where(plan.nodes, Kind(o, reason[1], name))
        BY <3>1 DEF Where, Kind
      <3> QED
        BY <3>2 DEF CountIn
    <2>3. PICK o \in ReaderOperators \cup IndexReaderOperators :
            NameMoves(old.nodes, new.nodes, o, reason)
      <3> HIDE DEF old, new
      <3> QED
        BY <2>1, ChangeIsReal DEF old, new
    <2>4. \/ Shown(old, o, reason[2]) > Shown(new, o, reason[2])
          \/ Shown(new, o, reason[3]) > Shown(old, o, reason[3])
      <3> HIDE DEF old, new, reason, Shown
      <3> QED
        BY <2>1, <2>2, <2>3 DEF NameMoves
    <2> HIDE DEF old, new, reason, Shown
    <2>5. \E operator \in ReaderOperators \cup IndexReaderOperators :
            \/ Shown(old, operator, reason[2]) > Shown(new, operator, reason[2])
            \/ Shown(new, operator, reason[3]) > Shown(old, operator, reason[3])
      BY <2>4
    <2> QED
      BY <2>5 DEF NamedChangeIsReal, old, new, reason, Shown
  <1> QED
    BY <1>1, PairsInvariant, PTL

-----------------------------------------------------------------------------

SQLInfo == [schema : Nat, sqlDigest : Nat, sql : {r.sql : r \in SummaryRows},
            plan : {r.plan : r \in SummaryRows}, planDigest : Nat,
            hint : {r.hint : r \in SummaryRows}, execCount : Nat, execTime : Nat]

CountsOf(infos) == [i \in DOMAIN infos |-> infos[i].execCount]
TimesOf(infos) == [i \in DOMAIN infos |-> infos[i].execTime]

\* Those of the first n rows that have that key.
RowsWith(raw, n, key) == {j \in 1 .. n : GroupKey(raw[j]) = key}

\* info stands for its group among the first n rows: it is the first of them, with the
\* counts of all of them.
IsGroup(info, raw, n) ==
  LET mine == RowsWith(raw, n, GroupKey(info))
      first == raw[Min(mine)]
  IN /\ mine # {}
     /\ info.sql = first.sql /\ info.plan = first.plan /\ info.hint = first.hint
     /\ info.execCount = SumOver(CountsOf(raw), mine)
     /\ info.execTime = SumOver(TimesOf(raw), mine)

\* One statement for each group of the first n rows.
IsAggregate(infos, raw, n) ==
  /\ infos \in Seq(SQLInfo)
  /\ \A a, b \in DOMAIN infos : GroupKey(infos[a]) = GroupKey(infos[b]) => a = b
  /\ \A a \in DOMAIN infos : IsGroup(infos[a], raw, n)
  /\ \A j \in 1 .. n : \E a \in DOMAIN infos : GroupKey(infos[a]) = GroupKey(raw[j])
-----------------------------------------------------------------------------
\* The fold of aggregateSqlInfos: one unfolding, and the function that solves it.
GroupStep(g, raw, s) ==
  IF s = {} THEN << >> ELSE AddToGroup(g[s \ {Max(s)}], raw[Max(s)])
GroupTable(raw) == CHOOSE g : g = [s \in SUBSET (DOMAIN raw) |-> GroupStep(g, raw, s)]

\* The fold of the community modules, unfolded.
LEMMA FoldIsGroupTable ==
  ASSUME NEW raw
  PROVE  FoldLeft(AddToGroup, << >>, raw) = GroupTable(raw)[DOMAIN raw]
  BY DEF FoldLeft, MapThenFoldSet, GroupTable, GroupStep

\* A row either starts a group or adds its counts to the one it belongs to.
LEMMA AddToGroupIs ==
  ASSUME NEW infos \in Seq(SQLInfo), NEW row \in SQLInfo
  PROVE  /\ (\A a \in DOMAIN infos : GroupKey(infos[a]) # GroupKey(row)) =>
              AddToGroup(infos, row) = Append(infos, row)
         /\ (\E a \in DOMAIN infos : GroupKey(infos[a]) = GroupKey(row)) =>
              \E at \in DOMAIN infos :
                /\ GroupKey(infos[at]) = GroupKey(row)
                /\ AddToGroup(infos, row) =
                     [infos EXCEPT ![at].execCount = @ + row.execCount,
                                   ![at].execTime = @ + row.execTime]
  <1> DEFINE I == {i \in 1 .. Len(infos) : SameGroup(infos[i], row)}
             at == IF I # {} THEN Min(I) ELSE 0
  <1>1. AddToGroup(infos, row) =
          IF at = 0 THEN Append(infos, row)
          ELSE [infos EXCEPT ![at].execCount = @ + row.execCount,
                             ![at].execTime = @ + row.execTime]
    BY DEF AddToGroup, SelectInSeq
  <1>2. DOMAIN infos = 1 .. Len(infos) /\ Len(infos) \in Nat
    OBVIOUS
  <1>3. I = {a \in DOMAIN infos : GroupKey(infos[a]) = GroupKey(row)}
    BY <1>2 DEF SameGroup
  <1>4. ASSUME I # {} PROVE Min(I) \in I
    <2>1. I \in SUBSET Nat
      BY <1>2
    <2> HIDE DEF I
    <2> QED
      BY <1>4, <2>1, MinIsLeast
  <1>5. I # {} => at \in I /\ at # 0
    <2>1. 0 \notin I
      OBVIOUS
    <2> HIDE DEF I
    <2> QED
      BY <1>4, <2>1
  <1>6. I = {} => at = 0
    OBVIOUS
  <1> HIDE DEF at, I
  <1> QED
    BY <1>1, <1>3, <1>5, <1>6

\* What AddToGroup makes of a list of statements is one again.
LEMMA AddToGroupType ==
  ASSUME NEW infos \in Seq(SQLInfo), NEW row \in SQLInfo
  PROVE  AddToGroup(infos, row) \in Seq(SQLInfo)
  <1>1. CASE \A a \in DOMAIN infos : GroupKey(infos[a]) # GroupKey(row)
    <2>1. AddToGroup(infos, row) = Append(infos, row)
      BY <1>1, AddToGroupIs
    <2> QED
      BY <2>1
  <1>2. CASE \E a \in DOMAIN infos : GroupKey(infos[a]) = GroupKey(row)
    <2>1. PICK at \in DOMAIN infos :
            AddToGroup(infos, row) = [infos EXCEPT ![at].execCount = @ + row.execCount,
                                                   ![at].execTime = @ + row.execTime]
      BY <1>2, AddToGroupIs
    <2>2. infos[at] \in SQLInfo
      OBVIOUS
    <2> DEFINE count == infos[at].execCount + row.execCount
               time == infos[at].execTime + row.execTime
               new == [infos[at] EXCEPT !.execCount = count, !.execTime = time]
    <2>3. new \in SQLInfo
      <3>1. count \in Nat /\ time \in Nat
        <4>1. /\ infos[at].execCount \in Nat /\ infos[at].execTime \in Nat
              /\ row.execCount \in Nat /\ row.execTime \in Nat
          BY ONLY <2>2, row \in SQLInfo DEF SQLInfo
        <4> QED
          BY ONLY <4>1
      <3> HIDE DEF count, time
      <3> QED
        BY <2>2, <3>1 DEF SQLInfo
    <2>4. AddToGroup(infos, row) = [infos EXCEPT ![at] = new]
      BY <2>1
    <2> HIDE DEF new
    <2> QED
      BY <2>3, <2>4
  <1> QED
    BY <1>1, <1>2

\* So the fold over any snapshot has a value, row by row.
LEMMA GroupTableEquation ==
  ASSUME NEW raw \in Seq(SQLInfo), NEW s \in SUBSET (DOMAIN raw)
  PROVE  GroupTable(raw)[s] = GroupStep(GroupTable(raw), raw, s)
  <1> DEFINE n == Len(raw)
             V == Seq(SQLInfo)
             G == [x \in V \X (1 .. n) |-> AddToGroup(x[1], raw[x[2]])]
             base == << >>
  <1>1. n \in Nat /\ DOMAIN raw = 1 .. n /\ base \in V
    OBVIOUS
  <1>2. G \in [V \X (1 .. n) -> V]
    <2> SUFFICES ASSUME NEW x \in V \X (1 .. n) PROVE AddToGroup(x[1], raw[x[2]]) \in V
      OBVIOUS
    <2>1. x[1] \in Seq(SQLInfo) /\ raw[x[2]] \in SQLInfo
      BY <1>1
    <2> QED
      BY <2>1, AddToGroupType
  <1>3. \A v \in V, i \in 1 .. n : G[<<v, i>>] = AddToGroup(v, raw[i])
    OBVIOUS
  <1> HIDE DEF n, V, G, base
  <1>4. PICK h : IsFold(h, n, V, base, G)
    BY ONLY <1>1, <1>2, FoldExists
  <1>5. ASSUME NEW u \in SUBSET (1 .. n) PROVE h[u] = GroupStep(h, raw, u)
    <2>1. CASE u = {}
      BY <1>4, <2>1 DEF GroupStep, IsFold, base
    <2>2. CASE u # {}
      <3>1. Max(u) \in 1 .. n /\ h[u \ {Max(u)}] \in V
        <4>1. Max(u) \in u
          BY <1>1, <2>2, MaxIsGreatest
        <4> QED
          BY <1>4, <4>1 DEF IsFold
      <3>2. h[u] = G[<<h[u \ {Max(u)}], Max(u)>>]
        BY <1>4, <2>2 DEF IsFold
      <3> QED
        BY <1>3, <2>2, <3>1, <3>2 DEF GroupStep
    <2> QED
      BY <2>1, <2>2
  <1>6. h = [u \in SUBSET (DOMAIN raw) |-> GroupStep(h, raw, u)]
    BY <1>1, <1>4, <1>5 DEF IsFold
  <1>7. GroupTable(raw) = [u \in SUBSET (DOMAIN raw) |-> GroupStep(GroupTable(raw), raw, u)]
    BY <1>6 DEF GroupTable
  <1> QED
    BY <1>7

\* The first n rows are folded first.
LEMMA GroupTableOfPrefix ==
  ASSUME NEW raw \in Seq(SQLInfo)
  PROVE  /\ GroupTable(raw)[1 .. 0] = << >>
         /\ \A n \in 1 .. Len(raw) :
              GroupTable(raw)[1 .. n] = AddToGroup(GroupTable(raw)[1 .. (n - 1)], raw[n])
  <1>0. DOMAIN raw = 1 .. Len(raw) /\ Len(raw) \in Nat
    OBVIOUS
  <1>1. GroupTable(raw)[1 .. 0] = << >>
    <2>1. 1 .. 0 = {}
      OBVIOUS
    <2>2. GroupTable(raw)[{}] = GroupStep(GroupTable(raw), raw, {})
      BY GroupTableEquation
    <2> QED
      BY <2>1, <2>2 DEF GroupStep
  <1>2. ASSUME NEW n \in 1 .. Len(raw)
        PROVE  GroupTable(raw)[1 .. n] = AddToGroup(GroupTable(raw)[1 .. (n - 1)], raw[n])
    <2>1. n \in Nat \ {0} /\ 1 .. n \in SUBSET (DOMAIN raw) /\ 1 .. n # {}
      <3>1. n \in Nat \ {0} /\ n <= Len(raw)
        BY <1>0
      <3>2. 1 .. n \subseteq 1 .. Len(raw) /\ 1 \in 1 .. n
        BY ONLY <1>0, <3>1
      <3> QED
        BY <1>0, <3>1, <3>2
    <2>2. Max(1 .. n) = n /\ (1 .. n) \ {Max(1 .. n)} = 1 .. (n - 1)
      BY <2>1, MaxOfPrefix
    <2>3. GroupTable(raw)[1 .. n] = GroupStep(GroupTable(raw), raw, 1 .. n)
      BY <2>1, GroupTableEquation
    <2> QED
      BY <2>1, <2>2, <2>3 DEF GroupStep
  <1> QED
    BY <1>1, <1>2

\* One row more belongs to its own group only, of which it is the last.
LEMMA RowsWithOneMore ==
  ASSUME NEW raw, NEW n \in Nat, NEW key
  PROVE  /\ GroupKey(raw[n + 1]) # key => RowsWith(raw, n + 1, key) = RowsWith(raw, n, key)
         /\ GroupKey(raw[n + 1]) = key => RowsWith(raw, n + 1, key) = RowsWith(raw, n, key) \cup {n + 1}
         /\ n + 1 \notin RowsWith(raw, n, key)
         /\ RowsWith(raw, n, key) \in SUBSET (1 .. n)
  <1>1. 1 .. (n + 1) = (1 .. n) \cup {n + 1} /\ n + 1 \notin 1 .. n
    OBVIOUS
  <1> QED
    BY <1>1 DEF RowsWith

\* The counts of a list of statements are naturals.
LEMMA CountsType ==
  ASSUME NEW infos \in Seq(SQLInfo)
  PROVE  /\ CountsOf(infos) \in [1 .. Len(infos) -> Nat]
         /\ TimesOf(infos) \in [1 .. Len(infos) -> Nat]
         /\ \A i \in 1 .. Len(infos) : /\ CountsOf(infos)[i] = infos[i].execCount
                                      /\ TimesOf(infos)[i] = infos[i].execTime
  <1>1. DOMAIN infos = 1 .. Len(infos)
    OBVIOUS
  <1>2. \A i \in 1 .. Len(infos) : infos[i] \in SQLInfo
    OBVIOUS
  <1>3. \A i \in 1 .. Len(infos) : infos[i].execCount \in Nat /\ infos[i].execTime \in Nat
    BY ONLY <1>2 DEF SQLInfo
  <1> QED
    BY ONLY <1>1, <1>3 DEF CountsOf, TimesOf

\* The counts of a group grow by those of a row that joins it, and its first row stays.
LEMMA RowJoinsGroup ==
  ASSUME NEW raw \in Seq(SQLInfo), NEW n \in Nat, n + 1 \in 1 .. Len(raw), NEW key,
         GroupKey(raw[n + 1]) = key
  PROVE  LET mine == RowsWith(raw, n, key)
             now == RowsWith(raw, n + 1, key)
         IN /\ now # {}
            /\ mine # {} => Min(now) = Min(mine)
            /\ mine = {} => Min(now) = n + 1
            /\ SumOver(CountsOf(raw), now) = SumOver(CountsOf(raw), mine) + raw[n + 1].execCount
            /\ SumOver(TimesOf(raw), now) = SumOver(TimesOf(raw), mine) + raw[n + 1].execTime
  <1> DEFINE mine == RowsWith(raw, n, key)
             now == RowsWith(raw, n + 1, key)
  <1>1. now = mine \cup {n + 1} /\ n + 1 \notin mine /\ mine \in SUBSET (1 .. n)
    BY RowsWithOneMore
  <1>2. DOMAIN raw = 1 .. Len(raw) /\ Len(raw) \in Nat
    OBVIOUS
  <1> HIDE DEF mine, now
  <1>3. mine \in SUBSET Nat /\ now \in SUBSET Nat /\ now # {} /\ n + 1 \in now
    BY <1>1
  <1>4. ASSUME mine # {} PROVE Min(now) = Min(mine)
    <2>1. /\ Min(mine) \in mine /\ \A j \in mine : Min(mine) <= j
          /\ Min(now) \in now /\ \A j \in now : Min(now) <= j
      BY <1>3, <1>4, MinIsLeast
    <2> DEFINE a == Min(mine)
               b == Min(now)
    <2>2. a \in mine /\ (\A j \in mine : a <= j) /\ b \in now /\ (\A j \in now : b <= j)
      BY <2>1
    <2> HIDE DEF a, b
    <2>3. a = b
      BY <1>1, <2>2
    <2> QED
      BY <2>3 DEF a, b
  <1>5. ASSUME mine = {} PROVE Min(now) = n + 1
    BY <1>1, <1>3, <1>5, MinIsLeast
  <1>6. IsFiniteSet(now) /\ now \ {n + 1} = mine /\ now \in SUBSET (1 .. Len(raw))
    <2>1. now \in SUBSET (1 .. Len(raw))
      BY <1>1, <1>2
    <2>2. IsFiniteSet(1 .. Len(raw))
      BY <1>2, FS_Interval
    <2> QED
      BY <1>1, <2>1, <2>2, FS_Subset
  <1>7. SumOver(CountsOf(raw), now) = SumOver(CountsOf(raw), mine) + raw[n + 1].execCount
    <2>1. CountsOf(raw) \in [1 .. Len(raw) -> Nat] /\ CountsOf(raw)[n + 1] = raw[n + 1].execCount
      BY CountsType
    <2>2. IsFiniteSet(1 .. Len(raw))
      BY <1>2, FS_Interval
    <2> DEFINE f == CountsOf(raw)
    <2>3. f \in [1 .. Len(raw) -> Nat]
      BY <2>1
    <2> HIDE DEF f
    <2>4. SumOver(f, now) = SumOver(f, now \ {n + 1}) + f[n + 1]
      BY ONLY <1>3, <1>6, <2>2, <2>3, SumOfRest
    <2> QED
      BY <1>6, <2>1, <2>4 DEF f
  <1>8. SumOver(TimesOf(raw), now) = SumOver(TimesOf(raw), mine) + raw[n + 1].execTime
    <2>1. TimesOf(raw) \in [1 .. Len(raw) -> Nat] /\ TimesOf(raw)[n + 1] = raw[n + 1].execTime
      BY CountsType
    <2>2. IsFiniteSet(1 .. Len(raw))
      BY <1>2, FS_Interval
    <2> DEFINE f == TimesOf(raw)
    <2>3. f \in [1 .. Len(raw) -> Nat]
      BY <2>1
    <2> HIDE DEF f
    <2>4. SumOver(f, now) = SumOver(f, now \ {n + 1}) + f[n + 1]
      BY ONLY <1>3, <1>6, <2>2, <2>3, SumOfRest
    <2> QED
      BY <1>6, <2>1, <2>4 DEF f
  <1> QED
    BY <1>3, <1>4, <1>5, <1>7, <1>8 DEF mine, now

\* A group that the next row does not belong to stays as it is.
LEMMA GroupStays ==
  ASSUME NEW raw, NEW n \in Nat, NEW info, IsGroup(info, raw, n),
         GroupKey(raw[n + 1]) # GroupKey(info)
  PROVE  IsGroup(info, raw, n + 1)
  <1>1. RowsWith(raw, n + 1, GroupKey(info)) = RowsWith(raw, n, GroupKey(info))
    BY RowsWithOneMore
  <1> QED
    BY <1>1 DEF IsGroup

\* aggregateSqlInfos takes one row more.
LEMMA AggregateGrows ==
  ASSUME NEW raw \in Seq(SQLInfo), NEW n \in Nat, n + 1 \in 1 .. Len(raw),
         NEW infos, IsAggregate(infos, raw, n)
  PROVE  IsAggregate(AddToGroup(infos, raw[n + 1]), raw, n + 1)
  <1> DEFINE row == raw[n + 1]
             key == GroupKey(row)
             new == AddToGroup(infos, row)
             mine == RowsWith(raw, n, key)
             now == RowsWith(raw, n + 1, key)
  <1>1. /\ infos \in Seq(SQLInfo)
        /\ \A a, b \in DOMAIN infos : GroupKey(infos[a]) = GroupKey(infos[b]) => a = b
        /\ \A a \in DOMAIN infos : IsGroup(infos[a], raw, n)
        /\ \A j \in 1 .. n : \E a \in DOMAIN infos : GroupKey(infos[a]) = GroupKey(raw[j])
    BY DEF IsAggregate
  <1>2. row \in SQLInfo /\ DOMAIN infos = 1 .. Len(infos) /\ Len(infos) \in Nat
    BY <1>1
  <1>3. new \in Seq(SQLInfo)
    BY <1>1, <1>2, AddToGroupType
  <1>4. /\ now # {}
        /\ mine # {} => Min(now) = Min(mine)
        /\ mine = {} => Min(now) = n + 1
        /\ SumOver(CountsOf(raw), now) = SumOver(CountsOf(raw), mine) + row.execCount
        /\ SumOver(TimesOf(raw), now) = SumOver(TimesOf(raw), mine) + row.execTime
    BY RowJoinsGroup, Zenon
  <1>5. 1 .. (n + 1) = (1 .. n) \cup {n + 1}
    OBVIOUS
  <1> HIDE DEF row, now, mine
  <1>6. CASE \A a \in DOMAIN infos : GroupKey(infos[a]) # key
    <2>1. new = Append(infos, row)
      BY <1>1, <1>2, <1>6, AddToGroupIs
    <2> HIDE DEF new
    <2>2. /\ DOMAIN new = DOMAIN infos \cup {Len(infos) + 1} /\ Len(infos) + 1 \notin DOMAIN infos
          /\ new[Len(infos) + 1] = row
          /\ \A a \in DOMAIN infos : new[a] = infos[a]
      BY <1>1, <1>2, <2>1
    <2>3. mine = {}
      <3>1. \A j \in 1 .. n : GroupKey(raw[j]) # key
        BY <1>1, <1>6
      <3> QED
        BY <3>1 DEF mine, RowsWith
    <2>4. IsGroup(row, raw, n + 1)
      <3>1. SumOver(CountsOf(raw), {}) = 0 /\ SumOver(TimesOf(raw), {}) = 0
        BY FS_EmptySet, SumUnfold
      <3>2. row.execCount \in Nat /\ row.execTime \in Nat
        BY <1>2 DEF SQLInfo
      <3>3. row.execCount = SumOver(CountsOf(raw), now) /\ row.execTime = SumOver(TimesOf(raw), now)
        BY <1>4, <2>3, <3>1, <3>2
      <3>4. Min(now) = n + 1
        BY <1>4, <2>3
      <3> QED
        BY <1>4, <3>3, <3>4 DEF IsGroup, row, now
    <2>5. ASSUME NEW a \in DOMAIN infos PROVE IsGroup(infos[a], raw, n + 1)
      BY <1>1, <1>6, GroupStays DEF row
    <2>6. \A a \in DOMAIN new : IsGroup(new[a], raw, n + 1)
      BY <2>2, <2>4, <2>5
    <2>7. \A a, b \in DOMAIN new : GroupKey(new[a]) = GroupKey(new[b]) => a = b
      BY <1>1, <1>6, <2>2
    <2>8. \A j \in 1 .. (n + 1) : \E a \in DOMAIN new : GroupKey(new[a]) = GroupKey(raw[j])
      BY <1>1, <1>5, <2>2 DEF row
    <2> QED
      BY <1>3, <2>6, <2>7, <2>8 DEF IsAggregate, new, row
  <1>7. CASE \E a \in DOMAIN infos : GroupKey(infos[a]) = key
    <2>1. PICK at \in DOMAIN infos :
            /\ GroupKey(infos[at]) = key
            /\ new = [infos EXCEPT ![at].execCount = @ + row.execCount,
                                   ![at].execTime = @ + row.execTime]
      BY <1>1, <1>2, <1>7, AddToGroupIs
    <2> DEFINE old == infos[at]
    <2>2. old \in SQLInfo /\ IsGroup(old, raw, n)
      BY <1>1
    <2>3. /\ DOMAIN new = DOMAIN infos
          /\ \A a \in DOMAIN infos : a # at => new[a] = infos[a]
          /\ new[at] = [old EXCEPT !.execCount = @ + row.execCount, !.execTime = @ + row.execTime]
      BY <1>1, <2>1
    <2> HIDE DEF new
    <2> DEFINE it == new[at]
    <2>4. /\ it.schema = old.schema /\ it.sqlDigest = old.sqlDigest /\ it.planDigest = old.planDigest
          /\ it.sql = old.sql /\ it.plan = old.plan /\ it.hint = old.hint
          /\ it.execCount = old.execCount + row.execCount
          /\ it.execTime = old.execTime + row.execTime
      <3> HIDE DEF old, it
      <3>1. it = [old EXCEPT !.execCount = @ + row.execCount, !.execTime = @ + row.execTime]
        BY <2>3 DEF old, it
      <3> QED
        BY ONLY <2>2, <3>1 DEF SQLInfo
    <2>5. GroupKey(it) = key
      BY <2>1, <2>4 DEF GroupKey
    <2>6. /\ mine # {}
          /\ old.sql = raw[Min(mine)].sql /\ old.plan = raw[Min(mine)].plan
          /\ old.hint = raw[Min(mine)].hint
          /\ old.execCount = SumOver(CountsOf(raw), mine)
          /\ old.execTime = SumOver(TimesOf(raw), mine)
      BY <2>1, <2>2 DEF IsGroup, mine
    <2>7. IsGroup(it, raw, n + 1)
      <3> HIDE DEF it, old, key
      <3>1. RowsWith(raw, n + 1, GroupKey(it)) = now
        BY <2>5 DEF now
      <3>2. Min(now) = Min(mine)
        BY <1>4, <2>6
      <3>3. /\ it.execCount = SumOver(CountsOf(raw), now)
            /\ it.execTime = SumOver(TimesOf(raw), now)
        BY <1>4, <2>4, <2>6
      <3> QED
        BY <1>4, <2>4, <2>6, <3>1, <3>2, <3>3 DEF IsGroup
    <2>8. ASSUME NEW a \in DOMAIN infos, a # at PROVE IsGroup(infos[a], raw, n + 1)
      <3>1. GroupKey(infos[a]) # key
        BY <1>1, <2>1, <2>8
      <3> QED
        BY <1>1, <3>1, GroupStays DEF row
    <2>9. \A a \in DOMAIN new : GroupKey(new[a]) = GroupKey(infos[a])
      BY <2>1, <2>3, <2>5
    <2>10. \A a \in DOMAIN new : IsGroup(new[a], raw, n + 1)
      BY <2>3, <2>7, <2>8
    <2>11. \A a, b \in DOMAIN new : GroupKey(new[a]) = GroupKey(new[b]) => a = b
      BY <1>1, <2>3, <2>9
    <2>12. \A j \in 1 .. (n + 1) : \E a \in DOMAIN new : GroupKey(new[a]) = GroupKey(raw[j])
      <3>1. GroupKey(raw[n + 1]) = key
        BY DEF row
      <3> HIDE DEF key
      <3> QED
        BY <1>1, <1>5, <2>1, <2>3, <2>9, <3>1
    <2> QED
      BY <1>3, <2>10, <2>11, <2>12 DEF IsAggregate, new, row
  <1> QED
    BY <1>6, <1>7

\* The fold over a snapshot is one statement per group of it.
LEMMA Aggregated ==
  ASSUME NEW raw \in Seq(SQLInfo)
  PROVE  IsAggregate(FoldLeft(AddToGroup, << >>, raw), raw, Len(raw))
  <1> DEFINE At(n) == GroupTable(raw)[1 .. n]
             Bad == {n \in 0 .. Len(raw) : ~IsAggregate(At(n), raw, n)}
  <1>0. Len(raw) \in Nat /\ DOMAIN raw = 1 .. Len(raw)
    OBVIOUS
  <1>1. Bad = {}
    <2> SUFFICES ASSUME Bad # {} PROVE FALSE
      OBVIOUS
    <2>1. PICK n \in Bad : \A k \in Bad : n <= k
      <3> Bad \in SUBSET Nat
        BY <1>0
      <3> HIDE DEF Bad
      <3> QED
        BY LeastNat
    <2>2. CASE n = 0
      <3>1. At(0) = << >>
        BY GroupTableOfPrefix
      <3>2. IsAggregate(<< >>, raw, 0)
        BY DEF IsAggregate
      <3> QED
        BY <2>1, <2>2, <3>1, <3>2
    <2>3. CASE n # 0
      <3> DEFINE m == n - 1
      <3>1. m \in Nat /\ n = m + 1 /\ m + 1 \in 1 .. Len(raw) /\ m \in 0 .. Len(raw)
        BY <1>0, <2>1, <2>3
      <3>2. IsAggregate(At(m), raw, m)
        BY <2>1, <3>1
      <3>3. At(n) = AddToGroup(At(m), raw[n])
        BY <3>1, GroupTableOfPrefix
      <3> HIDE DEF m
      <3>4. IsAggregate(At(n), raw, n)
        BY <3>1, <3>2, <3>3, AggregateGrows
      <3> QED
        BY <2>1, <3>4
    <2> QED
      BY <2>2, <2>3
  <1>2. IsAggregate(At(Len(raw)), raw, Len(raw))
    BY <1>0, <1>1
  <1> QED
    BY <1>0, <1>2, FoldIsGroupTable
-----------------------------------------------------------------------------
\* slices.SortFunc moves elements, and leaves none before a smaller one.
LEMMA SortedByDigest ==
  ASSUME NEW t, NEW s \in SortFunc(t, ByDigest)
  PROVE  \E p : IsOrder(p, s, t)
  <1>1. PICK p \in Bijection(DOMAIN t, DOMAIN t) : s = [i \in DOMAIN t |-> t[p[i]]]
    BY DEF SortFunc
  <1>2. IsOrder(p, s, t)
    BY <1>1 DEF IsOrder, Bijection, Injection, Surjection, IsInjective
  <1> QED
    BY <1>2

\* Sorted by time, no statement comes before a slower one.
LEMMA SortedByExecTime ==
  ASSUME NEW t, NEW s \in SortFunc(t, ByExecTime)
  PROVE  /\ \E p : IsOrder(p, s, t)
         /\ \A i, j \in DOMAIN t : i < j => ~ ByExecTime(s[j], s[i])
  <1>1. PICK p \in Bijection(DOMAIN t, DOMAIN t) :
          /\ s = [i \in DOMAIN t |-> t[p[i]]]
          /\ \A i, j \in DOMAIN t : i < j => ~ ByExecTime(t[p[j]], t[p[i]])
    BY DEF SortFunc
  <1>2. IsOrder(p, s, t)
    BY <1>1 DEF IsOrder, Bijection, Injection, Surjection, IsInjective
  <1>3. \A i \in DOMAIN t : s[i] = t[p[i]]
    BY <1>1
  <1> QED
    BY <1>1, <1>2, <1>3

\* A statement per group in another order is one still.
LEMMA SortedAggregate ==
  ASSUME NEW infos, NEW raw, NEW n, IsAggregate(infos, raw, n),
         NEW s \in SortFunc(infos, ByDigest)
  PROVE  IsAggregate(s, raw, n)
  <1>1. infos \in Seq(SQLInfo)
    BY DEF IsAggregate
  <1>2. PICK p : IsOrder(p, s, infos)
    BY SortedByDigest
  <1>3. /\ s \in Seq(SQLInfo) /\ DOMAIN s = DOMAIN infos
        /\ \A i \in DOMAIN infos : p[i] \in DOMAIN infos /\ s[i] = infos[p[i]]
        /\ \A j \in DOMAIN infos : \E i \in DOMAIN infos : p[i] = j /\ s[i] = infos[j]
    BY <1>1, <1>2, OrderType
  <1>4. \A a, b \in DOMAIN s : GroupKey(s[a]) = GroupKey(s[b]) => a = b
    <2> SUFFICES ASSUME NEW a \in DOMAIN s, NEW b \in DOMAIN s, GroupKey(s[a]) = GroupKey(s[b])
                 PROVE  a = b
      OBVIOUS
    <2>0. /\ p[a] \in DOMAIN infos /\ p[b] \in DOMAIN infos
          /\ GroupKey(infos[p[a]]) = GroupKey(infos[p[b]])
      BY <1>3
    <2>1. p[a] = p[b]
      BY ONLY <2>0, IsAggregate(infos, raw, n) DEF IsAggregate
    <2> QED
      BY <1>2, <1>3, <2>1 DEF IsOrder
  <1>5. \A a \in DOMAIN s : IsGroup(s[a], raw, n)
    BY <1>3 DEF IsAggregate
  <1>6. \A j \in 1 .. n : \E a \in DOMAIN s : GroupKey(s[a]) = GroupKey(raw[j])
    <2> SUFFICES ASSUME NEW j \in 1 .. n PROVE \E a \in DOMAIN s : GroupKey(s[a]) = GroupKey(raw[j])
      OBVIOUS
    <2>1. PICK b \in DOMAIN infos : GroupKey(infos[b]) = GroupKey(raw[j])
      BY DEF IsAggregate
    <2> QED
      BY <1>3, <2>1
  <1> QED
    BY <1>3, <1>4, <1>5, <1>6 DEF IsAggregate

\* aggregateSqlInfos, for every snapshot: one statement for each schema, digest and plan
\* digest that occurs, as its first row says, with the counts of all its rows.
LEMMA AggregateIs ==
  ASSUME NEW raw \in Seq(SQLInfo), NEW infos \in AggregateSqlInfos(raw)
  PROVE  IsAggregate(infos, raw, Len(raw))
  BY Aggregated, SortedAggregate DEF AggregateSqlInfos

\* The slowest come first.
LEMMA SlowerFirst ==
  ASSUME NEW a, NEW b, a.statement.execTime \in Nat, b.statement.execTime \in Nat,
         ~ ByExecTime(b, a)
  PROVE  a.statement.execTime >= b.statement.execTime
  <1> DEFINE x == <<0 - b.statement.execTime, b.statement.sqlDigest, b.statement.planDigest>>
             y == <<0 - a.statement.execTime, a.statement.sqlDigest, a.statement.planDigest>>
  <1>1. ~ Lexicographic(x, y)
    BY DEF ByExecTime
  <1>2. x[1] = 0 - b.statement.execTime /\ y[1] = 0 - a.statement.execTime /\ Len(x) = 3
    OBVIOUS
  <1>3. ~(x[1] < y[1])
    <2>1. 1 \in 1 .. 3 /\ 1 .. (1 - 1) = {}
      OBVIOUS
    <2> HIDE DEF x, y
    <2> QED
      BY <1>1, <1>2, <2>1 DEF Lexicographic
  <1> HIDE DEF x, y
  <1> QED
    BY <1>2, <1>3
-----------------------------------------------------------------------------
\* Every text that is read is one the parser is proved about, and SamePlan says what
\* comparePlans does.
LEMMA SamePlanIs ==
  ASSUME NEW one, NEW other
  PROVE  /\ SamePlan(one, other) =>
              /\ one \in Readable /\ other \in Readable
              /\ Outline(one) = Outline(other)
         /\ one \in Readable /\ other \in Readable /\ Outline(one) = Outline(other) =>
              SamePlan(one, other)
  <1>1. ASSUME NEW text \in Readable PROVE text \in Text /\ ParsePlan(text).status = "ok"
    <2>1. text \in PlanTexts /\ ParsePlan(text).status = "ok"
      BY <1>1 DEF Readable
    <2>2. [operator : ToSet(OperatorOrder), task : ToSet(TaskOrder),
           object : ToSet(ObjectOrder), depth : Nat] \subseteq TextRow
      BY DEF TextRow
    <2>3. text \in Seq(TextRow)
      <3> DEFINE NatRow == [operator : ToSet(OperatorOrder), task : ToSet(TaskOrder),
                            object : ToSet(ObjectOrder), depth : Nat]
      <3>1. text \in Seq(NatRow) /\ NatRow \subseteq TextRow
        BY <2>1, <2>2, PlanTextAssumption
      <3> HIDE DEF NatRow
      <3> QED
        BY ONLY <3>1
    <2> QED
      BY <2>1, <2>3 DEF Text
  <1>2. SamePlan(one, other) <=>
          /\ one \in Readable /\ other \in Readable
          /\ ComparePlans(ParsePlan(one), ParsePlan(other)) = Equal
    <2> DEFINE verdict(a, b) == ComparePlans(ParsePlan(a), ParsePlan(b))
    <2>1. SamePlan(one, other) <=>
            \E a \in Readable, b \in Readable :
              [old |-> one, new |-> other, reason |-> Equal]
                = [old |-> a, new |-> b, reason |-> verdict(a, b)]
      BY DEF SamePlan, Changes
    <2> HIDE DEF verdict
    <2>2. \A a, b : [old |-> one, new |-> other, reason |-> Equal]
                     = [old |-> a, new |-> b, reason |-> verdict(a, b)]
                   <=> one = a /\ other = b /\ Equal = verdict(a, b)
      OBVIOUS
    <2>3. SamePlan(one, other) <=>
            one \in Readable /\ other \in Readable /\ Equal = verdict(one, other)
      BY <2>1, <2>2
    <2> QED
      BY <2>3 DEF verdict
  <1>3. ASSUME one \in Readable, other \in Readable
        PROVE  ComparePlans(ParsePlan(one), ParsePlan(other)) = Equal
                 <=> Outline(one) = Outline(other)
    BY <1>1, <1>3, PlansEqualIff DEF PlansEqual
  <1> QED
    BY <1>2, <1>3

\* An empty text is not read.
LEMMA NotExplainedUnreadable == NotExplained \notin Readable
  <1>1. ParsePlan(<< >>).status = "no operators"
    BY DEF ParsePlan, NoRows
  <1> QED
    BY <1>1 DEF Readable, NotExplained
-----------------------------------------------------------------------------
InLoop == pc \in {"explain", "compare", "digest", "binding"}

\* How many statements have been counted.
Counted == IF InLoop THEN next ELSE next - 1

Differs(i) == Outline(sqlInfos[i].plan) # Outline(explained[Sample(sqlInfos[i])])

Digests == {NoDigest} \cup {e.digest : e \in StaleExplains} \cup {DigestOf[plan] : plan \in Plans}
ComparedPlan == [statement : SQLInfo, newPlan : Readable, newPlanDigest : Digests,
                 planChange : {c.reason : c \in Changes}]

\* A digest is that of an entry for that statement with that plan.
HasEntry(digest, plan, info) ==
  digest # NoDigest =>
    \E e \in entries : /\ e.digest = digest
                       /\ e.sql = info.sql
                       /\ info.schema # 0 => e.schema = info.schema
                       /\ Outline(e.plan) = Outline(plan)

TypeInv ==
  /\ rows \in Seq(SQLInfo)
  /\ pc \in {"collect", "statement", "explain", "compare", "digest", "binding",
             "reported", "failed"}
  /\ cancelled \in BOOLEAN
  /\ sqlInfos \in Seq(SQLInfo)
  /\ next \in 1 .. (Len(sqlInfos) + 1)
  /\ explained \in [Samples -> Plans \cup {NotExplained}]
  /\ totalExecCount \in Nat
  /\ changed \in Seq(ComparedPlan)
  /\ \A e \in entries : e.digest \in Digests
  /\ newPlanDigest \in {NoDigest} \cup {e.digest : e \in entries}

\* The loop is over what has been read, and ends at its end.
PositionInv ==
  /\ IsAggregate(sqlInfos, rows, Len(rows))
  /\ \A i \in 1 .. Len(sqlInfos) :
       Sample(sqlInfos[i]) \in Samples /\ \E r \in SummaryRows : SQLKey(sqlInfos[i]) = SQLKey(r)
  /\ pc = "collect" => next = 1
  /\ InLoop => next <= Len(sqlInfos)
  /\ pc = "reported" => next = Len(sqlInfos) + 1

\* Every statement that the loop has come to is counted once.
CountInv ==
  /\ pc # "failed" =>
       /\ totalExecCount = SumOver(CountsOf(sqlInfos), 1 .. Counted)
       /\ checkedSQLs = {SQLKey(sqlInfos[i]) : i \in 1 .. Counted}
  /\ changedSQLs \subseteq checkedSQLs
  /\ checkedSQLs \subseteq {SQLKey(r) : r \in SummaryRows}

\* Both plans of every statement that is done have been read, and the new one is not
\* explained again.
ReadInv ==
  /\ pc # "failed" =>
       /\ \A i \in 1 .. Counted : sqlInfos[i].plan \in Readable
       /\ \A i \in 1 .. (next - 1) : explained[Sample(sqlInfos[i])] \in Readable
  /\ pc = "explain" => NewPlan = NotExplained
  /\ pc \in {"digest", "binding"} => NewPlan \in Readable /\ Differs(next)

\* Those done with another plan, and no others, are kept, each once.
ChangedInv ==
  /\ \A k \in DOMAIN changed : \E i \in 1 .. (next - 1) :
       /\ Differs(i)
       /\ changed[k].statement = sqlInfos[i]
       /\ changed[k].newPlan = explained[Sample(sqlInfos[i])]
  /\ \A i \in 1 .. (next - 1) : Differs(i) => \E k \in DOMAIN changed : changed[k].statement = sqlInfos[i]
  /\ \A k, m \in DOMAIN changed : changed[k].statement = changed[m].statement => k = m
  /\ changedSQLs = {SQLKey(sqlInfos[i]) : i \in {j \in 1 .. (next - 1) : Differs(j)}}
  /\ Len(changed) < next

DigestInv ==
  /\ \A k \in DOMAIN changed : HasEntry(changed[k].newPlanDigest, changed[k].newPlan, changed[k].statement)
  /\ pc = "binding" => HasEntry(newPlanDigest, NewPlan, Current)

\* The report is the changed plans in another order.
ReportInv ==
  /\ pc = "reported" => report \in SortFunc(changed, ByExecTime)
  /\ pc # "reported" => report = << >>

ComparerInv ==
  TypeInv /\ PositionInv /\ CountInv /\ ReadInv /\ ChangedInv /\ DigestInv /\ ReportInv
-----------------------------------------------------------------------------
\* The loop begins before any statement.
LEMMA InitInv == Init => ComparerInv
  <1> SUFFICES ASSUME Init PROVE ComparerInv
    OBVIOUS
  <1> USE DEF Init
  <1>1. TypeInv
    <2>1. \A e \in entries : e.digest \in Digests
      BY DEF Digests
    <2>2. next \in 1 .. (Len(sqlInfos) + 1)
      OBVIOUS
    <2>3. explained \in [Samples -> Plans \cup {NotExplained}]
      OBVIOUS
    <2>4. rows \in Seq(SQLInfo) /\ sqlInfos \in Seq(SQLInfo) /\ changed \in Seq(ComparedPlan)
      OBVIOUS
    <2>5. cancelled \in BOOLEAN /\ totalExecCount \in Nat
      OBVIOUS
    <2>6. pc \in {"collect", "statement", "explain", "compare", "digest", "binding",
                  "reported", "failed"}
      OBVIOUS
    <2>7. newPlanDigest \in {NoDigest} \cup {e.digest : e \in entries}
      OBVIOUS
    <2> QED
      BY ONLY <2>1, <2>2, <2>3, <2>4, <2>5, <2>6, <2>7 DEF TypeInv
  <1>2. PositionInv
    BY DEF PositionInv, IsAggregate, InLoop
  <1>3. CountInv
    <2>1. Counted = 0 /\ 1 .. Counted = {}
      BY DEF Counted, InLoop
    <2>2. SumOver(CountsOf(sqlInfos), {}) = 0
      BY FS_EmptySet, SumUnfold
    <2> QED
      BY <2>1, <2>2 DEF CountInv
  <1>4. ReadInv
    <2>1. 1 .. Counted = {} /\ 1 .. (next - 1) = {}
      BY DEF Counted, InLoop
    <2> QED
      BY <2>1 DEF ReadInv
  <1>5. ChangedInv
    <2>1. 1 .. (next - 1) = {} /\ DOMAIN changed = {} /\ Len(changed) = 0
      OBVIOUS
    <2> QED
      BY <2>1 DEF ChangedInv
  <1>6. DigestInv /\ ReportInv
    BY DEF DigestInv, ReportInv
  <1> QED
    BY <1>1, <1>2, <1>3, <1>4, <1>5, <1>6 DEF ComparerInv

\* The snapshot becomes one statement per group, of statements of the summary.
LEMMA CollectKeeps ==
  ASSUME ComparerInv, CollectSnapshot
  PROVE  ComparerInv'
  <1> USE DEF ComparerInv
  <1>1. PICK snapshot \in BoundedSeq(SummaryRows, MaxSummaryRows) :
          rows' = snapshot /\ sqlInfos' \in AggregateSqlInfos(snapshot)
    BY DEF CollectSnapshot
  <1>2. snapshot \in Seq(SummaryRows) /\ snapshot \in Seq(SQLInfo)
    <2>1. snapshot \in Seq(SummaryRows)
      <3>1. PICK m \in 0 .. MaxSummaryRows : snapshot \in [1 .. m -> SummaryRows]
        BY <1>1 DEF BoundedSeq, SeqOf
      <3>2. m \in Nat
        BY SummaryAssumption
      <3> QED
        BY <3>1, <3>2
    <2>2. SummaryRows \subseteq SQLInfo
      BY SummaryAssumption DEF SQLInfo
    <2> QED
      BY <2>1, <2>2
  <1>3. IsAggregate(sqlInfos', rows', Len(rows'))
    BY <1>1, <1>2, AggregateIs
  <1>4. /\ pc = "collect" /\ pc' = "statement" /\ next = 1 /\ next' = 1
        /\ UNCHANGED <<entries, cancelled, explained, newPlanDigest, tallies, report>>
        /\ UNCHANGED <<totalExecCount, checkedSQLs, changedSQLs, changed>>
    BY DEF CollectSnapshot, PositionInv, tallies
  <1>5. sqlInfos' \in Seq(SQLInfo) /\ Len(sqlInfos') \in Nat /\ DOMAIN sqlInfos' = 1 .. Len(sqlInfos')
    BY <1>3 DEF IsAggregate
  <1>6. TypeInv'
    <2>1. next' \in 1 .. (Len(sqlInfos') + 1)
      BY <1>4, <1>5
    <2> QED
      BY <1>1, <1>2, <1>4, <1>5, <2>1 DEF TypeInv
  <1>7. PositionInv'
    <2>1. ASSUME NEW i \in 1 .. Len(sqlInfos')
          PROVE  /\ Sample(sqlInfos'[i]) \in Samples
                 /\ \E r \in SummaryRows : SQLKey(sqlInfos'[i]) = SQLKey(r)
      <3> DEFINE info == sqlInfos'[i]
                 mine == RowsWith(rows', Len(rows'), GroupKey(info))
                 first == rows'[Min(mine)]
      <3>1. mine # {} /\ info.sql = first.sql
        BY <1>3, <1>5 DEF IsAggregate, IsGroup
      <3>2. mine \in SUBSET (1 .. Len(rows')) /\ mine \in SUBSET Nat
        BY <1>1, <1>2 DEF RowsWith
      <3>3. Min(mine) \in mine
        <4> HIDE DEF mine
        <4> QED
          BY <3>1, <3>2, MinIsLeast
      <3>4. GroupKey(first) = GroupKey(info) /\ Min(mine) \in 1 .. Len(rows')
        BY <3>2, <3>3 DEF RowsWith
      <3>5. first \in SummaryRows
        BY <1>1, <1>2, <3>4
      <3>6. first.schema = info.schema /\ first.sqlDigest = info.sqlDigest
        BY <3>4 DEF GroupKey
      <3>7. Sample(info) = Sample(first) /\ SQLKey(info) = SQLKey(first)
        BY <3>1, <3>6 DEF Sample, SQLKey
      <3> HIDE DEF first, info
      <3>8. Sample(info) \in Samples /\ \E r \in SummaryRows : SQLKey(info) = SQLKey(r)
        BY <3>5, <3>7 DEF Samples
      <3> QED
        BY <3>8 DEF info
    <2> QED
      BY <1>3, <1>4, <2>1 DEF PositionInv, InLoop
  <1>8. 1 .. (next - 1) = {} /\ 1 .. Counted = {} /\ Counted = 0 /\ Counted' = 0
    BY <1>4 DEF Counted, InLoop
  <1>9. CountInv'
    <2>1. SumOver(CountsOf(sqlInfos), {}) = 0 /\ SumOver(CountsOf(sqlInfos)', {}) = 0
      BY FS_EmptySet, SumUnfold
    <2>2. totalExecCount = 0 /\ checkedSQLs = {}
      BY <1>4, <1>8, <2>1 DEF CountInv
    <2> QED
      BY <1>4, <1>8, <2>1, <2>2 DEF CountInv
  <1>10. ReadInv'
    BY <1>4, <1>8 DEF ReadInv
  <1>11. ChangedInv'
    BY <1>4, <1>8 DEF ChangedInv
  <1>12. DigestInv' /\ ReportInv'
    BY <1>4 DEF DigestInv, ReportInv, HasEntry
  <1> QED
    BY <1>6, <1>7, <1>9, <1>10, <1>11, <1>12

\* An error return changes nothing but the position.
LEMMA FailKeeps ==
  ASSUME ComparerInv, Fail, pc # "reported"
  PROVE  ComparerInv'
  <1> USE DEF ComparerInv
  <1>1. /\ pc' = "failed"
        /\ UNCHANGED <<rows, entries, cancelled, sqlInfos, next, explained, newPlanDigest, report>>
        /\ UNCHANGED <<totalExecCount, checkedSQLs, changedSQLs, changed>>
    BY DEF Fail, summary, tallies
  <1>2. TypeInv'
    BY <1>1 DEF TypeInv
  <1>3. PositionInv'
    BY <1>1 DEF PositionInv, InLoop
  <1>4. CountInv' /\ ReadInv'
    BY <1>1 DEF CountInv, ReadInv
  <1>5. ChangedInv'
    BY <1>1 DEF ChangedInv, Differs
  <1>6. DigestInv' /\ ReportInv'
    BY <1>1 DEF DigestInv, ReportInv, HasEntry
  <1> QED
    BY <1>2, <1>3, <1>4, <1>5, <1>6

\* The statement the loop is at is counted once.
LEMMA BeginKeeps ==
  ASSUME ComparerInv, BeginStatement
  PROVE  ComparerInv'
  <1> USE DEF ComparerInv
  <1>1. /\ pc = "statement" /\ next <= Len(sqlInfos)
        /\ totalExecCount' = totalExecCount + Current.execCount
        /\ checkedSQLs' = checkedSQLs \cup {SQLKey(Current)}
        /\ pc' \in {"failed", "explain", "compare"}
        /\ pc' # "failed" => Current.plan \in Readable
        /\ pc' = "explain" => NewPlan = NotExplained
        /\ UNCHANGED <<rows, entries, cancelled, sqlInfos, next, explained, newPlanDigest,
                       changedSQLs, changed, report>>
    BY DEF BeginStatement, Info, summary, Unexplained
  <1>2. next \in 1 .. Len(sqlInfos) /\ sqlInfos \in Seq(SQLInfo) /\ Len(sqlInfos) \in Nat
    BY <1>1 DEF TypeInv
  <1>3. Current \in SQLInfo /\ Current.execCount \in Nat
    <2>1. Current \in SQLInfo
      BY <1>2 DEF Current
    <2> QED
      BY ONLY <2>1 DEF SQLInfo
  <1>4. TypeInv'
    <2>1. totalExecCount' \in Nat
      BY <1>1, <1>3 DEF TypeInv
    <2> QED
      BY <1>1, <2>1 DEF TypeInv
  <1>5. PositionInv'
    BY <1>1 DEF PositionInv, InLoop
  <1>6. /\ Counted = next - 1
        /\ pc' # "failed" => Counted' = next
        /\ 1 .. next = (1 .. (next - 1)) \cup {next}
    BY <1>1, <1>2 DEF Counted, InLoop
  <1>7. CountInv'
    <2>1. checkedSQLs' \subseteq {SQLKey(r) : r \in SummaryRows}
      <3>1. \E r \in SummaryRows : SQLKey(Current) = SQLKey(r)
        BY <1>2 DEF PositionInv, Current
      <3> QED
        BY <1>1, <3>1 DEF CountInv
    <2>2. changedSQLs' \subseteq checkedSQLs'
      BY <1>1 DEF CountInv
    <2>3. ASSUME pc' # "failed"
          PROVE  /\ totalExecCount' = SumOver(CountsOf(sqlInfos), 1 .. next)
                 /\ checkedSQLs' = {SQLKey(sqlInfos[i]) : i \in 1 .. next}
      <3>1. /\ totalExecCount = SumOver(CountsOf(sqlInfos), 1 .. (next - 1))
            /\ checkedSQLs = {SQLKey(sqlInfos[i]) : i \in 1 .. (next - 1)}
        BY <1>1, <1>6 DEF CountInv
      <3>2. SumOver(CountsOf(sqlInfos), 1 .. next)
              = SumOver(CountsOf(sqlInfos), 1 .. (next - 1)) + Current.execCount
        <4> DEFINE f == CountsOf(sqlInfos)
                   T == 1 .. Len(sqlInfos)
                   S == 1 .. next
        <4>1. f \in [T -> Nat] /\ f[next] = Current.execCount
          BY <1>2, CountsType DEF Current
        <4>2. IsFiniteSet(T) /\ S \in SUBSET T /\ next \in S /\ S \ {next} = 1 .. (next - 1)
          <5>1. IsFiniteSet(T)
            BY <1>2, FS_Interval
          <5>2. S \in SUBSET T /\ next \in S
            BY <1>2
          <5>3. S \ {next} = 1 .. (next - 1)
            BY <1>2
          <5> QED
            BY <5>1, <5>2, <5>3
        <4> HIDE DEF f, T, S
        <4>3. SumOver(f, S) = SumOver(f, S \ {next}) + f[next]
          BY <4>1, <4>2, SumOfRest
        <4> QED
          BY <4>1, <4>2, <4>3 DEF f, S
      <3>3. checkedSQLs' = {SQLKey(sqlInfos[i]) : i \in 1 .. next}
        BY <1>1, <1>6, <3>1 DEF Current
      <3> QED
        BY <1>1, <3>1, <3>2, <3>3
    <2> QED
      BY <1>1, <1>6, <2>1, <2>2, <2>3 DEF CountInv
  <1>8. ReadInv'
    <2>1. ASSUME pc' # "failed" PROVE \A i \in 1 .. next : sqlInfos[i].plan \in Readable
      <3>1. \A i \in 1 .. (next - 1) : sqlInfos[i].plan \in Readable
        BY <1>1, <1>6 DEF ReadInv
      <3>2. sqlInfos[next].plan \in Readable
        BY <1>1, <2>1 DEF Current
      <3> QED
        BY <1>6, <3>1, <3>2
    <2>2. \A i \in 1 .. (next - 1) : explained[Sample(sqlInfos[i])] \in Readable
      BY <1>1 DEF ReadInv
    <2>3. NewPlan' = NewPlan
      BY <1>1 DEF NewPlan, Current
    <2> QED
      BY <1>1, <1>6, <2>1, <2>2, <2>3 DEF ReadInv
  <1>9. ChangedInv'
    BY <1>1 DEF ChangedInv, Differs
  <1>10. DigestInv' /\ ReportInv'
    BY <1>1 DEF DigestInv, ReportInv, HasEntry
  <1> QED
    BY <1>4, <1>5, <1>7, <1>8, <1>9, <1>10

\* EXPLAIN gives the statement a plan; the plans of those that are done stay theirs.
LEMMA ExplainKeeps ==
  ASSUME ComparerInv, ExplainPlan
  PROVE  ComparerInv'
  <1> USE DEF ComparerInv
  <1>1. PICK plan \in Plans :
          /\ explained' = [explained EXCEPT ![Sample(Current)] = plan]
          /\ entries' \in {entries, entries \cup {ExplainEntry(plan)}}
    BY DEF ExplainPlan
  <1>2. /\ pc = "explain" /\ pc' = "compare" /\ next <= Len(sqlInfos)
        /\ UNCHANGED <<rows, cancelled, sqlInfos, next, newPlanDigest, report>>
        /\ UNCHANGED <<totalExecCount, checkedSQLs, changedSQLs, changed>>
    BY DEF ExplainPlan, Info, tallies
  <1>3. \A e \in entries' : e.digest \in Digests
    <2>1. ExplainEntry(plan).digest \in Digests
      BY <1>1 DEF ExplainEntry, Digests
    <2> QED
      BY <1>1, <2>1 DEF TypeInv
  <1>4. entries \subseteq entries'
    BY <1>1
  <1>5. TypeInv'
    <2>1. explained' \in [Samples -> Plans \cup {NotExplained}]
      BY <1>1 DEF TypeInv
    <2>2. newPlanDigest' \in {NoDigest} \cup {e.digest : e \in entries'}
      BY <1>2, <1>4 DEF TypeInv
    <2> QED
      BY <1>2, <1>3, <2>1, <2>2 DEF TypeInv
  <1>6. PositionInv'
    BY <1>2 DEF PositionInv, InLoop
  <1>7. CountInv'
    <2>1. Counted' = Counted
      BY <1>2 DEF Counted, InLoop
    <2> QED
      BY <1>2, <2>1 DEF CountInv
  <1>8. ASSUME NEW i \in 1 .. (next - 1)
        PROVE  explained'[Sample(sqlInfos[i])] = explained[Sample(sqlInfos[i])]
    <2>1. explained[Sample(sqlInfos[i])] \in Readable
      BY <1>2 DEF ReadInv
    <2>2. explained[Sample(Current)] = NotExplained
      BY <1>2 DEF ReadInv, NewPlan
    <2>3. Sample(sqlInfos[i]) # Sample(Current)
      BY <2>1, <2>2, NotExplainedUnreadable
    <2> QED
      BY <1>1, <2>3 DEF TypeInv
  <1>9. ReadInv'
    <2>1. Counted' = Counted
      BY <1>2 DEF Counted, InLoop
    <2> QED
      BY <1>2, <1>8, <2>1 DEF ReadInv
  <1>10. ChangedInv'
    <2>1. \A i \in 1 .. (next - 1) : Differs(i)' <=> Differs(i)
      BY <1>2, <1>8 DEF Differs
    <2>2. \A k \in DOMAIN changed : \E i \in 1 .. (next - 1) :
            /\ Differs(i)'
            /\ changed[k].statement = sqlInfos[i]
            /\ changed[k].newPlan = explained'[Sample(sqlInfos[i])]
      BY <1>8, <2>1 DEF ChangedInv
    <2>3. {j \in 1 .. (next - 1) : Differs(j)'} = {j \in 1 .. (next - 1) : Differs(j)}
      BY <2>1
    <2>4. changedSQLs = {SQLKey(sqlInfos[i]) : i \in {j \in 1 .. (next - 1) : Differs(j)'}}
      BY <2>3 DEF ChangedInv
    <2> QED
      BY <1>2, <2>1, <2>2, <2>4 DEF ChangedInv
  <1>11. DigestInv' /\ ReportInv'
    <2>1. \A k \in DOMAIN changed : HasEntry(changed[k].newPlanDigest, changed[k].newPlan, changed[k].statement)'
      BY <1>2, <1>4 DEF DigestInv, HasEntry
    <2> QED
      BY <1>2, <2>1 DEF DigestInv, ReportInv
  <1> QED
    BY <1>5, <1>6, <1>7, <1>9, <1>10, <1>11

\* A statement whose plans are the same is done and not kept.
LEMMA EqualKeeps ==
  ASSUME ComparerInv, ComparedEqual
  PROVE  ComparerInv'
  <1> USE DEF ComparerInv
  <1>1. /\ pc = "compare" /\ pc' = "statement" /\ next <= Len(sqlInfos) /\ next' = next + 1
        /\ NewPlan \in Readable /\ SamePlan(Current.plan, NewPlan)
        /\ UNCHANGED <<rows, entries, cancelled, sqlInfos, explained, newPlanDigest, report>>
        /\ UNCHANGED <<totalExecCount, checkedSQLs, changedSQLs, changed>>
    BY DEF ComparedEqual, Info, NextOnEqual, summary, tallies
  <1>2. next \in 1 .. Len(sqlInfos) /\ Len(sqlInfos) \in Nat /\ next \in Nat
    BY <1>1 DEF TypeInv
  <1>3. next' \in 1 .. (Len(sqlInfos) + 1) /\ next' - 1 = next /\ 1 .. next = (1 .. (next - 1)) \cup {next}
    BY <1>1, <1>2
  <1>4. TypeInv'
    BY <1>1, <1>3 DEF TypeInv
  <1>5. PositionInv'
    BY <1>1 DEF PositionInv, InLoop
  <1>6. Counted = next /\ Counted' = next
    BY <1>1, <1>3 DEF Counted, InLoop
  <1>7. CountInv'
    BY <1>1, <1>6 DEF CountInv
  <1>8. ReadInv'
    <2>1. \A i \in 1 .. (next - 1) : explained[Sample(sqlInfos[i])] \in Readable
      BY <1>1 DEF ReadInv
    <2>2. explained[Sample(sqlInfos[next])] \in Readable
      BY <1>1 DEF NewPlan, Current
    <2>3. \A i \in 1 .. next : explained[Sample(sqlInfos[i])] \in Readable
      BY <1>3, <2>1, <2>2
    <2> QED
      BY <1>1, <1>3, <1>6, <2>3 DEF ReadInv
  <1>9. ChangedInv'
    <2>1. ~ Differs(next)
      BY <1>1, SamePlanIs DEF Differs, NewPlan, Current
    <2>2. \A i : Differs(i)' <=> Differs(i)
      BY <1>1 DEF Differs
    <2>3. {j \in 1 .. (next - 1) : Differs(j)} = {j \in 1 .. next : Differs(j)}
      BY <1>3, <2>1
    <2>4. \A i \in 1 .. next : Differs(i) => i \in 1 .. (next - 1)
      BY <1>3, <2>1
    <2>5. \A k \in DOMAIN changed : \E i \in 1 .. next :
            /\ Differs(i)
            /\ changed[k].statement = sqlInfos[i]
            /\ changed[k].newPlan = explained[Sample(sqlInfos[i])]
      BY <1>3 DEF ChangedInv
    <2>6. \A i \in 1 .. next : Differs(i) => \E k \in DOMAIN changed : changed[k].statement = sqlInfos[i]
      BY <2>4 DEF ChangedInv
    <2>7. changedSQLs = {SQLKey(sqlInfos[i]) : i \in {j \in 1 .. next : Differs(j)}}
      BY <2>3 DEF ChangedInv
    <2>8. Len(changed) < next'
      BY <1>1, <1>2 DEF ChangedInv, TypeInv
    <2>9. {j \in 1 .. next : Differs(j)'} = {j \in 1 .. next : Differs(j)}
      BY <2>2
    <2> QED
      BY <1>1, <1>3, <2>2, <2>5, <2>6, <2>7, <2>8, <2>9 DEF ChangedInv
  <1>10. DigestInv' /\ ReportInv'
    BY <1>1 DEF DigestInv, ReportInv, HasEntry
  <1> QED
    BY <1>4, <1>5, <1>7, <1>8, <1>9, <1>10

\* One whose plans are not goes on to its digest.
LEMMA DifferentKeeps ==
  ASSUME ComparerInv, ComparedDifferent
  PROVE  ComparerInv'
  <1> USE DEF ComparerInv
  <1>1. /\ pc = "compare" /\ pc' = "digest" /\ next <= Len(sqlInfos)
        /\ NewPlan \in Readable /\ ~ SamePlan(Current.plan, NewPlan)
        /\ UNCHANGED <<rows, entries, cancelled, sqlInfos, next, explained, newPlanDigest, report>>
        /\ UNCHANGED <<totalExecCount, checkedSQLs, changedSQLs, changed>>
    BY DEF ComparedDifferent, Info, summary, tallies
  <1>2. next \in 1 .. Len(sqlInfos)
    BY <1>1 DEF TypeInv
  <1>3. TypeInv'
    BY <1>1 DEF TypeInv
  <1>4. PositionInv'
    BY <1>1 DEF PositionInv, InLoop
  <1>5. Counted = next /\ Counted' = next
    BY <1>1 DEF Counted, InLoop
  <1>6. CountInv'
    BY <1>1, <1>5 DEF CountInv
  <1>7. ReadInv'
    <2>1. Current.plan \in Readable
      <3>1. next \in 1 .. Counted
        BY <1>2, <1>5
      <3> QED
        BY <1>1, <3>1 DEF ReadInv, Current
    <2>2. Differs(next)
      BY <1>1, <2>1, SamePlanIs DEF Differs, NewPlan, Current
    <2>3. NewPlan' = NewPlan /\ (Differs(next)' <=> Differs(next))
      BY <1>1 DEF NewPlan, Current, Differs
    <2> QED
      BY <1>1, <1>5, <2>2, <2>3 DEF ReadInv
  <1>8. ChangedInv'
    BY <1>1 DEF ChangedInv, Differs
  <1>9. DigestInv' /\ ReportInv'
    BY <1>1 DEF DigestInv, ReportInv, HasEntry
  <1> QED
    BY <1>3, <1>4, <1>6, <1>7, <1>8, <1>9

\* The digest of the new plan is that of an entry with an equal plan, or none.
LEMMA DigestKeeps ==
  ASSUME ComparerInv, LookUpDigest \/ DigestUnavailable
  PROVE  ComparerInv'
  <1> USE DEF ComparerInv
  <1>1. /\ pc = "digest" /\ pc' = "binding" /\ next <= Len(sqlInfos)
        /\ UNCHANGED <<rows, entries, cancelled, sqlInfos, next, explained, report>>
        /\ UNCHANGED <<totalExecCount, checkedSQLs, changedSQLs, changed>>
    BY DEF LookUpDigest, DigestUnavailable, Info, summary, tallies
  <1>2. newPlanDigest' = NoDigest \/
          \E e \in entries : /\ newPlanDigest' = e.digest
                             /\ e.sql = Current.sql
                             /\ Current.schema # 0 => e.schema = Current.schema
                             /\ SamePlan(NewPlan, e.plan)
    BY DEF LookUpDigest, DigestUnavailable, RecordsNewPlan, InSchema
  <1>3. NewPlan' = NewPlan /\ Current' = Current /\ (Differs(next)' <=> Differs(next))
    BY <1>1 DEF NewPlan, Current, Differs
  <1>4. TypeInv'
    BY <1>1, <1>2 DEF TypeInv
  <1>5. PositionInv'
    BY <1>1 DEF PositionInv, InLoop
  <1>6. Counted' = Counted
    BY <1>1 DEF Counted, InLoop
  <1>7. CountInv'
    BY <1>1, <1>6 DEF CountInv
  <1>8. ReadInv'
    BY <1>1, <1>3, <1>6 DEF ReadInv
  <1>9. ChangedInv'
    BY <1>1 DEF ChangedInv, Differs
  <1>10. DigestInv'
    <2>1. HasEntry(newPlanDigest, NewPlan, Current)'
      <3>1. CASE newPlanDigest' = NoDigest
        BY <3>1 DEF HasEntry
      <3>2. CASE newPlanDigest' # NoDigest
        <4>1. PICK e \in entries : /\ newPlanDigest' = e.digest
                                   /\ e.sql = Current.sql
                                   /\ Current.schema # 0 => e.schema = Current.schema
                                   /\ SamePlan(NewPlan, e.plan)
          BY <1>2, <3>2
        <4>2. Outline(e.plan) = Outline(NewPlan)
          BY <4>1, SamePlanIs
        <4> QED
          BY <1>1, <1>3, <4>1, <4>2 DEF HasEntry
      <3> QED
        BY <3>1, <3>2
    <2>2. \A k \in DOMAIN changed : HasEntry(changed[k].newPlanDigest, changed[k].newPlan, changed[k].statement)'
      BY <1>1 DEF DigestInv, HasEntry
    <2> QED
      BY <1>1, <2>1, <2>2 DEF DigestInv
  <1>11. ReportInv'
    BY <1>1 DEF ReportInv
  <1> QED
    BY <1>4, <1>5, <1>7, <1>8, <1>9, <1>10, <1>11

\* One that has its binding is kept, once, beside the plan EXPLAIN gave it.
LEMMA ReportKeeps ==
  ASSUME ComparerInv, ReportChange
  PROVE  ComparerInv'
  <1> USE DEF ComparerInv
  <1> DEFINE it == [statement |-> Current, newPlan |-> NewPlan, newPlanDigest |-> newPlanDigest,
                    planChange |-> PlanChange(Current.plan, NewPlan)]
  <1>1. /\ pc = "binding" /\ pc' = "statement" /\ next <= Len(sqlInfos) /\ next' = next + 1
        /\ changed' = Append(changed, it)
        /\ changedSQLs' = changedSQLs \cup {SQLKey(Current)}
        /\ UNCHANGED <<rows, entries, cancelled, sqlInfos, explained, newPlanDigest, report>>
        /\ UNCHANGED <<totalExecCount, checkedSQLs>>
    BY DEF ReportChange, Info, summary
  <1>2. next \in 1 .. Len(sqlInfos) /\ Len(sqlInfos) \in Nat /\ next \in Nat /\ sqlInfos \in Seq(SQLInfo)
    BY <1>1 DEF TypeInv
  <1>3. next' \in 1 .. (Len(sqlInfos) + 1) /\ next' - 1 = next /\ 1 .. next = (1 .. (next - 1)) \cup {next}
    BY <1>1, <1>2
  <1>4. Counted = next /\ Counted' = next
    BY <1>1, <1>3 DEF Counted, InLoop
  <1>5. NewPlan \in Readable /\ Differs(next) /\ Current.plan \in Readable
    <2>1. next \in 1 .. Counted
      BY <1>2, <1>4
    <2> QED
      BY <1>1, <2>1 DEF ReadInv, Current
  <1>6. it \in ComparedPlan
    <2>1. Current \in SQLInfo
      BY <1>2 DEF Current
    <2>2. newPlanDigest \in Digests
      BY DEF TypeInv, Digests
    <2>3. PlanChange(Current.plan, NewPlan) \in {c.reason : c \in Changes}
      <3> DEFINE found == CHOOSE c \in Changes : c.old = Current.plan /\ c.new = NewPlan
      <3>1. \E c \in Changes : c.old = Current.plan /\ c.new = NewPlan
        <4> DEFINE verdict(a, b) == ComparePlans(ParsePlan(a), ParsePlan(b))
        <4>1. Changes = {[old |-> a, new |-> b, reason |-> verdict(a, b)] : a \in Readable, b \in Readable}
          BY DEF Changes
        <4> HIDE DEF verdict
        <4> DEFINE c == [old |-> Current.plan, new |-> NewPlan, reason |-> verdict(Current.plan, NewPlan)]
        <4>2. c \in Changes /\ c.old = Current.plan /\ c.new = NewPlan
          BY <1>5, <4>1
        <4> HIDE DEF c
        <4> QED
          BY <4>2
      <3>2. found \in Changes
        BY <3>1
      <3> QED
        BY <3>2 DEF PlanChange
    <2> QED
      BY <1>5, <2>1, <2>2, <2>3 DEF ComparedPlan
  <1>7. /\ it.statement = sqlInfos[next] /\ it.newPlan = explained[Sample(sqlInfos[next])]
        /\ it.newPlan = NewPlan /\ it.newPlanDigest = newPlanDigest
    BY DEF Current, NewPlan
  <1> HIDE DEF it
  <1>8. /\ changed' \in Seq(ComparedPlan) /\ Len(changed') = Len(changed) + 1 /\ Len(changed) \in Nat
        /\ DOMAIN changed' = DOMAIN changed \cup {Len(changed) + 1}
        /\ Len(changed) + 1 \notin DOMAIN changed
        /\ changed'[Len(changed) + 1] = it
        /\ \A j \in DOMAIN changed : changed'[j] = changed[j]
    BY <1>1, <1>6, AppendOne DEF TypeInv
  <1>9. TypeInv'
    BY <1>1, <1>3, <1>8 DEF TypeInv
  <1>10. PositionInv'
    BY <1>1 DEF PositionInv, InLoop
  <1>11. CountInv'
    <2>1. SQLKey(Current) \in checkedSQLs
      <3>1. next \in 1 .. Counted
        BY <1>2, <1>4
      <3> QED
        BY <1>1, <3>1 DEF CountInv, Current
    <2> QED
      BY <1>1, <1>4, <2>1 DEF CountInv
  <1>12. ReadInv'
    <2>1. \A i \in 1 .. (next - 1) : explained[Sample(sqlInfos[i])] \in Readable
      BY <1>1 DEF ReadInv
    <2>2. explained[Sample(sqlInfos[next])] \in Readable
      BY <1>5 DEF NewPlan, Current
    <2>3. \A i \in 1 .. next : explained[Sample(sqlInfos[i])] \in Readable
      BY <1>3, <2>1, <2>2
    <2> QED
      BY <1>1, <1>3, <1>4, <2>3 DEF ReadInv
  <1>13. ChangedInv'
    <2>1. \A i : Differs(i)' <=> Differs(i)
      BY <1>1 DEF Differs
    <2>2. ASSUME NEW k \in DOMAIN changed'
          PROVE  \E i \in 1 .. next :
                   /\ Differs(i)
                   /\ changed'[k].statement = sqlInfos[i]
                   /\ changed'[k].newPlan = explained[Sample(sqlInfos[i])]
      <3>1. CASE k \in DOMAIN changed
        <4>1. PICK i \in 1 .. (next - 1) :
                /\ Differs(i)
                /\ changed[k].statement = sqlInfos[i]
                /\ changed[k].newPlan = explained[Sample(sqlInfos[i])]
          BY <3>1 DEF ChangedInv
        <4>2. i \in 1 .. next /\ changed'[k] = changed[k]
          BY <1>3, <1>8, <3>1
        <4> QED
          BY <4>1, <4>2
      <3>2. CASE k = Len(changed) + 1
        BY <1>3, <1>5, <1>7, <1>8, <3>2
      <3> QED
        BY <1>8, <3>1, <3>2
    <2>3. ASSUME NEW i \in 1 .. next, Differs(i)
          PROVE  \E k \in DOMAIN changed' : changed'[k].statement = sqlInfos[i]
      <3>1. CASE i = next
        BY <1>7, <1>8, <3>1
      <3>2. CASE i \in 1 .. (next - 1)
        <4>1. PICK k \in DOMAIN changed : changed[k].statement = sqlInfos[i]
          BY <2>3, <3>2 DEF ChangedInv
        <4> QED
          BY <1>8, <4>1
      <3> QED
        BY <1>3, <3>1, <3>2
    <2>4. ASSUME NEW k \in DOMAIN changed PROVE changed[k].statement # it.statement
      <3>1. PICK i \in 1 .. (next - 1) : changed[k].statement = sqlInfos[i]
        BY DEF ChangedInv
      <3>2. DOMAIN sqlInfos = 1 .. Len(sqlInfos)
        BY <1>2
      <3>3. i \in DOMAIN sqlInfos /\ next \in DOMAIN sqlInfos /\ i # next
        BY <1>2, <3>2
      <3>4. sqlInfos[i] # sqlInfos[next]
        BY <3>3 DEF PositionInv, IsAggregate
      <3> QED
        BY <1>7, <3>1, <3>4
    <2>5. \A k, m \in DOMAIN changed' : changed'[k].statement = changed'[m].statement => k = m
      BY <1>8, <2>4 DEF ChangedInv
    <2>6. changedSQLs' = {SQLKey(sqlInfos[i]) : i \in {j \in 1 .. next : Differs(j)}}
      <3>1. {j \in 1 .. next : Differs(j)} = {j \in 1 .. (next - 1) : Differs(j)} \cup {next}
        BY <1>3, <1>5
      <3>2. changedSQLs = {SQLKey(sqlInfos[i]) : i \in {j \in 1 .. (next - 1) : Differs(j)}}
        BY DEF ChangedInv
      <3> QED
        BY <1>1, <3>1, <3>2 DEF Current
    <2>7. Len(changed') < next'
      BY <1>1, <1>2, <1>8 DEF ChangedInv
    <2>8. {j \in 1 .. next : Differs(j)'} = {j \in 1 .. next : Differs(j)}
      BY <2>1
    <2>9. \A k \in DOMAIN changed' : \E i \in 1 .. (next' - 1) :
            /\ Differs(i)'
            /\ changed'[k].statement = sqlInfos'[i]
            /\ changed'[k].newPlan = explained'[Sample(sqlInfos'[i])]
      <3> SUFFICES ASSUME NEW k \in DOMAIN changed'
                   PROVE  \E i \in 1 .. next :
                            /\ Differs(i)'
                            /\ changed'[k].statement = sqlInfos[i]
                            /\ changed'[k].newPlan = explained[Sample(sqlInfos[i])]
        BY <1>1, <1>3
      <3>1. PICK i \in 1 .. next : /\ Differs(i)
                                   /\ changed'[k].statement = sqlInfos[i]
                                   /\ changed'[k].newPlan = explained[Sample(sqlInfos[i])]
        BY <2>2
      <3>2. Differs(i)'
        BY <2>1, <3>1
      <3> QED
        BY <3>1, <3>2
    <2>10. \A i \in 1 .. (next' - 1) : Differs(i)' =>
             \E k \in DOMAIN changed' : changed'[k].statement = sqlInfos'[i]
      BY <1>1, <1>3, <2>1, <2>3
    <2>11. changedSQLs' = {SQLKey(sqlInfos'[i]) : i \in {j \in 1 .. (next' - 1) : Differs(j)'}}
      BY <1>1, <1>3, <2>6, <2>8
    <2> QED
      BY <2>5, <2>7, <2>9, <2>10, <2>11 DEF ChangedInv
  <1>14. DigestInv'
    <2>1. \A digest, plan, info : HasEntry(digest, plan, info)' <=> HasEntry(digest', plan', info')
      BY <1>1 DEF HasEntry
    <2>2. HasEntry(newPlanDigest, NewPlan, Current)
      BY <1>1 DEF DigestInv
    <2>3. \A k \in DOMAIN changed : HasEntry(changed[k].newPlanDigest, changed[k].newPlan, changed[k].statement)
      BY DEF DigestInv
    <2>4. ASSUME NEW k \in DOMAIN changed'
          PROVE  HasEntry(changed'[k].newPlanDigest, changed'[k].newPlan, changed'[k].statement)
      <3>1. CASE k \in DOMAIN changed
        BY <1>8, <2>3, <3>1
      <3>2. CASE k = Len(changed) + 1
        <4>1. changed'[k] = it
          BY <1>8, <3>2
        <4>2. HasEntry(it.newPlanDigest, it.newPlan, it.statement)
          <5>1. it.statement = Current
            BY <1>7 DEF Current
          <5> QED
            BY <1>7, <2>2, <5>1
        <4> QED
          BY <4>1, <4>2
      <3> QED
        BY <1>8, <3>1, <3>2
    <2> QED
      BY <1>1, <2>4 DEF DigestInv, HasEntry
  <1>15. ReportInv'
    BY <1>1 DEF ReportInv
  <1> QED
    BY <1>9, <1>10, <1>11, <1>12, <1>13, <1>14, <1>15

\* At the end the changed plans are put in the order of the report.
LEMMA RenderKeeps ==
  ASSUME ComparerInv, Render
  PROVE  ComparerInv'
  <1> USE DEF ComparerInv
  <1>1. /\ pc = "statement" /\ next > Len(sqlInfos) /\ pc' = "reported"
        /\ report' \in SortFunc(changed, ByExecTime)
        /\ UNCHANGED <<rows, entries, cancelled, sqlInfos, next, explained, newPlanDigest>>
        /\ UNCHANGED <<totalExecCount, checkedSQLs, changedSQLs, changed>>
    BY DEF Render, summary, tallies
  <1>2. next = Len(sqlInfos) + 1
    <2>1. Len(sqlInfos) \in Nat
      BY DEF TypeInv
    <2> QED
      BY <1>1, <2>1 DEF TypeInv
  <1>3. TypeInv'
    BY <1>1 DEF TypeInv
  <1>4. PositionInv'
    BY <1>1, <1>2 DEF PositionInv, InLoop
  <1>5. Counted' = Counted
    BY <1>1 DEF Counted, InLoop
  <1>6. CountInv'
    BY <1>1, <1>5 DEF CountInv
  <1>7. ReadInv'
    BY <1>1, <1>5 DEF ReadInv
  <1>8. ChangedInv'
    BY <1>1 DEF ChangedInv, Differs
  <1>9. DigestInv'
    BY <1>1 DEF DigestInv, HasEntry
  <1>10. ReportInv'
    <2>1. SortFunc(changed, ByExecTime)' = SortFunc(changed, ByExecTime)
      BY <1>1 DEF SortFunc, ByExecTime, Lexicographic
    <2> QED
      BY <1>1, <2>1 DEF ReportInv
  <1> QED
    BY <1>3, <1>4, <1>6, <1>7, <1>8, <1>9, <1>10

\* A cancelled context, or nothing at all, changes nothing the invariant is about.
LEMMA CancelKeeps ==
  ASSUME ComparerInv, Cancel \/ UNCHANGED vars
  PROVE  ComparerInv'
  <1> USE DEF ComparerInv
  <1>1. /\ cancelled' \in BOOLEAN
        /\ UNCHANGED <<rows, entries, pc, sqlInfos, next, explained, newPlanDigest, report>>
        /\ UNCHANGED <<totalExecCount, checkedSQLs, changedSQLs, changed>>
    BY DEF Cancel, vars, tallies, TypeInv
  <1>2. TypeInv'
    BY <1>1 DEF TypeInv
  <1>3. PositionInv'
    BY <1>1 DEF PositionInv, InLoop
  <1>4. CountInv' /\ ReadInv'
    BY <1>1 DEF CountInv, ReadInv, Counted, InLoop, NewPlan, Current, Differs
  <1>5. ChangedInv'
    BY <1>1 DEF ChangedInv, Differs
  <1>6. DigestInv' /\ ReportInv'
    BY <1>1 DEF DigestInv, ReportInv, HasEntry, NewPlan, Current
  <1> QED
    BY <1>2, <1>3, <1>4, <1>5, <1>6
-----------------------------------------------------------------------------
\* The comparison keeps its invariant whatever TiDB holds and answers, and whenever a call
\* fails or the context is done.
THEOREM ComparerInvariant == Spec => []ComparerInv
  <1>1. Init => ComparerInv
    BY InitInv
  <1>2. ASSUME ComparerInv, [Next]_vars PROVE ComparerInv'
    <2>1. ASSUME Fail, pc # "reported" PROVE ComparerInv'
      BY <1>2, <2>1, FailKeeps
    <2>2. CASE CollectSnapshot
      BY <1>2, <2>2, CollectKeeps
    <2>3. CASE CallFails
      BY <2>1, <2>3 DEF CallFails
    <2>4. CASE BeginStatement
      BY <1>2, <2>4, BeginKeeps
    <2>5. CASE ExplainPlan
      BY <1>2, <2>5, ExplainKeeps
    <2>6. CASE ComparedEqual
      BY <1>2, <2>6, EqualKeeps
    <2>7. CASE ComparedDifferent
      BY <1>2, <2>7, DifferentKeeps
    <2>8. CASE NewPlanUnreadable
      BY <2>1, <2>8 DEF NewPlanUnreadable, Info
    <2>9. CASE LookUpDigest \/ DigestUnavailable
      BY <1>2, <2>9, DigestKeeps
    <2>10. CASE BindingFails
      BY <2>1, <2>10 DEF BindingFails, Info
    <2>11. CASE ReportChange
      BY <1>2, <2>11, ReportKeeps
    <2>12. CASE Render
      BY <1>2, <2>12, RenderKeeps
    <2>13. CASE Cancel \/ Answered \/ UNCHANGED vars
      <3>1. Cancel \/ UNCHANGED vars
        BY <2>13 DEF Answered
      <3> QED
        BY <1>2, <3>1, CancelKeeps
    <2> QED
      BY <1>2, <2>2, <2>3, <2>4, <2>5, <2>6, <2>7, <2>8, <2>9, <2>10, <2>11, <2>12, <2>13
      DEF Next, Compare
  <1> QED
    BY <1>1, <1>2, PTL DEF Spec

\* The comparison's bookkeeping has its types and stays within its loop.
THEOREM ComparerTypeCorrect == Spec => []TypeOK
  <1>1. ComparerInv => TypeOK
    <2> SUFFICES ASSUME ComparerInv PROVE TypeOK
      OBVIOUS
    <2>1. TypeInv /\ CountInv /\ ChangedInv
      BY DEF ComparerInv
    <2>2. Len(changed) < next
      BY <2>1 DEF ChangedInv
    <2>3. changedSQLs \subseteq checkedSQLs /\ checkedSQLs \subseteq {SQLKey(r) : r \in SummaryRows}
      BY <2>1 DEF CountInv
    <2> QED
      BY <2>1, <2>2, <2>3 DEF TypeInv, TypeOK
  <1> QED
    BY <1>1, ComparerInvariant, PTL

\* Every digest of a changed plan is that of an entry of TiDB's summary for the same
\* statement, in its schema when it has one, whose plan has the outline of the plan it
\* stands beside (repository.go:141-212), whatever other EXPLAIN entries the summary
\* holds.  The entry may be of an older EXPLAIN of that statement.
THEOREM DigestTheorem == Spec => []DigestIsOfTheNewPlan
  <1>1. ComparerInv => DigestIsOfTheNewPlan
    <2> SUFFICES ASSUME ComparerInv PROVE DigestIsOfTheNewPlan
      OBVIOUS
    <2>1. changed \in Seq(ComparedPlan)
      BY DEF ComparerInv, TypeInv
    <2>2. DOMAIN changed = 1 .. Len(changed)
      BY <2>1
    <2>3. \A k \in DOMAIN changed : HasEntry(changed[k].newPlanDigest, changed[k].newPlan, changed[k].statement)
      BY DEF ComparerInv, DigestInv
    <2> QED
      BY <2>2, <2>3 DEF DigestIsOfTheNewPlan, HasEntry
  <1> QED
    BY <1>1, ComparerInvariant, PTL
-----------------------------------------------------------------------------
\* The sums of the report's definition are sums of the lists of counts.
LEMMA ExecCountIs ==
  ASSUME rows \in Seq(SQLInfo), NEW S \in SUBSET (1 .. Len(rows))
  PROVE  ExecCount(S) = SumOver(CountsOf(rows), S)
  <1> DEFINE f == CountsOf(rows)
             Step(g, s) == IF s = {} THEN 0 ELSE rows[AnyOf(s)].execCount + g[s \ {AnyOf(s)}]
             h == CHOOSE g : g = [s \in SUBSET S |-> Step(g, s)]
  <1>1. ExecCount(S) = h[S]
    BY DEF ExecCount, MapThenSumSet, MapThenFoldSet, AnyOf
  <1>2. IsFiniteSet(S)
    <2>1. Len(rows) \in Nat
      OBVIOUS
    <2>2. IsFiniteSet(1 .. Len(rows))
      BY <2>1, FS_Interval
    <2> QED
      BY <2>2, FS_Subset
  <1>3. \A g : \A s \in SUBSET S : Step(g, s) = SumStep(g, f, s)
    <2> SUFFICES ASSUME NEW s \in SUBSET S, s # {}
                 PROVE  f[AnyOf(s)] = rows[AnyOf(s)].execCount
      BY DEF SumStep
    <2>1. AnyOf(s) \in 1 .. Len(rows)
      BY AnyOfIn
    <2> QED
      BY <2>1, CountsType
  <1>4. h = [s \in SUBSET S |-> Step(h, s)]
    <2>1. PICK g : g = [s \in SUBSET S |-> SumStep(g, f, s)]
      BY <1>2, SumTableExists
    <2>2. g = [s \in SUBSET S |-> Step(g, s)]
      BY <1>3, <2>1
    <2> HIDE DEF Step
    <2> QED
      BY <2>2
  <1> HIDE DEF h
  <1>5. \A s \in SUBSET S : h[s] = SumStep(h, f, s)
    BY <1>3, <1>4
  <1> QED
    BY <1>1, <1>2, <1>5, SumSolution DEF f

\* The same of their times.
LEMMA ExecTimeIs ==
  ASSUME rows \in Seq(SQLInfo), NEW S \in SUBSET (1 .. Len(rows))
  PROVE  ExecTime(S) = SumOver(TimesOf(rows), S)
  <1> DEFINE f == TimesOf(rows)
             Step(g, s) == IF s = {} THEN 0 ELSE rows[AnyOf(s)].execTime + g[s \ {AnyOf(s)}]
             h == CHOOSE g : g = [s \in SUBSET S |-> Step(g, s)]
  <1>1. ExecTime(S) = h[S]
    BY DEF ExecTime, MapThenSumSet, MapThenFoldSet, AnyOf
  <1>2. IsFiniteSet(S)
    <2>1. Len(rows) \in Nat
      OBVIOUS
    <2>2. IsFiniteSet(1 .. Len(rows))
      BY <2>1, FS_Interval
    <2> QED
      BY <2>2, FS_Subset
  <1>3. \A g : \A s \in SUBSET S : Step(g, s) = SumStep(g, f, s)
    <2> SUFFICES ASSUME NEW s \in SUBSET S, s # {}
                 PROVE  f[AnyOf(s)] = rows[AnyOf(s)].execTime
      BY DEF SumStep
    <2>1. AnyOf(s) \in 1 .. Len(rows)
      BY AnyOfIn
    <2> QED
      BY <2>1, CountsType
  <1>4. h = [s \in SUBSET S |-> Step(h, s)]
    <2>1. PICK g : g = [s \in SUBSET S |-> SumStep(g, f, s)]
      BY <1>2, SumTableExists
    <2>2. g = [s \in SUBSET S |-> Step(g, s)]
      BY <1>3, <2>1
    <2> HIDE DEF Step
    <2> QED
      BY <2>2
  <1> HIDE DEF h
  <1>5. \A s \in SUBSET S : h[s] = SumStep(h, f, s)
    BY <1>3, <1>4
  <1> QED
    BY <1>1, <1>2, <1>5, SumSolution DEF f

\* The groups of the snapshot, one for each statement that was compared.
LEMMA GroupsAre ==
  ASSUME ComparerInv, NEW i \in 1 .. Len(sqlInfos)
  PROVE  LET info == sqlInfos[i]
             key == GroupKey(info)
         IN /\ key \in {GroupKey(rows[j]) : j \in 1 .. Len(rows)}
            /\ RowsOf(key) = RowsWith(rows, Len(rows), key)
            /\ FirstOf(key).plan = info.plan /\ FirstOf(key).hint = info.hint
            /\ Sample(FirstOf(key)) = Sample(info)
            /\ info.execCount = ExecCount(RowsOf(key)) /\ info.execTime = ExecTime(RowsOf(key))
            /\ info.execCount = SumOver(CountsOf(rows), RowsOf(key))
  <1> DEFINE info == sqlInfos[i]
             key == GroupKey(info)
             mine == RowsWith(rows, Len(rows), key)
             first == rows[Min(mine)]
  <1>1. rows \in Seq(SQLInfo) /\ sqlInfos \in Seq(SQLInfo) /\ Len(rows) \in Nat
    BY DEF ComparerInv, TypeInv
  <1>2. RowsOf(key) = mine
    BY DEF RowsOf, RowsWith
  <1>3. /\ mine # {}
        /\ info.sql = first.sql /\ info.plan = first.plan /\ info.hint = first.hint
        /\ info.execCount = SumOver(CountsOf(rows), mine)
        /\ info.execTime = SumOver(TimesOf(rows), mine)
    <2>1. i \in DOMAIN sqlInfos
      BY <1>1
    <2>2. IsGroup(info, rows, Len(rows))
      BY <2>1 DEF ComparerInv, PositionInv, IsAggregate
    <2> QED
      BY <2>2 DEF IsGroup
  <1>4. mine \in SUBSET (1 .. Len(rows)) /\ mine \in SUBSET Nat
    BY <1>1 DEF RowsWith
  <1>5. Min(mine) \in mine
    <2> HIDE DEF mine
    <2> QED
      BY <1>3, <1>4, MinIsLeast
  <1>6. GroupKey(first) = key /\ Min(mine) \in 1 .. Len(rows)
    BY <1>4, <1>5 DEF RowsWith
  <1>7. first.schema = info.schema
    BY <1>6 DEF GroupKey
  <1>8. FirstOf(key) = first
    BY <1>2 DEF FirstOf
  <1>9. Sample(first) = Sample(info)
    BY <1>3, <1>7 DEF Sample
  <1>10. ExecCount(mine) = SumOver(CountsOf(rows), mine) /\ ExecTime(mine) = SumOver(TimesOf(rows), mine)
    BY <1>1, <1>4, ExecCountIs, ExecTimeIs
  <1>11. key \in {GroupKey(rows[j]) : j \in 1 .. Len(rows)}
    BY <1>6
  <1> HIDE DEF mine, first
  <1>12. /\ FirstOf(key).plan = info.plan /\ FirstOf(key).hint = info.hint
         /\ Sample(FirstOf(key)) = Sample(info)
    BY <1>3, <1>8, <1>9
  <1>13. /\ info.execCount = ExecCount(RowsOf(key)) /\ info.execTime = ExecTime(RowsOf(key))
         /\ info.execCount = SumOver(CountsOf(rows), RowsOf(key))
    BY <1>2, <1>3, <1>10
  <1> QED
    BY <1>2, <1>11, <1>12, <1>13 DEF mine

\* Every group has its statement.
LEMMA EveryGroupIsCompared ==
  ASSUME ComparerInv
  PROVE  /\ {GroupKey(rows[j]) : j \in 1 .. Len(rows)} = {GroupKey(sqlInfos[i]) : i \in 1 .. Len(sqlInfos)}
         /\ \A i, j \in 1 .. Len(sqlInfos) : GroupKey(sqlInfos[i]) = GroupKey(sqlInfos[j]) => i = j
  <1>1. DOMAIN sqlInfos = 1 .. Len(sqlInfos)
    BY DEF ComparerInv, TypeInv
  <1>2. /\ \A a, b \in DOMAIN sqlInfos : GroupKey(sqlInfos[a]) = GroupKey(sqlInfos[b]) => a = b
        /\ \A j \in 1 .. Len(rows) : \E a \in DOMAIN sqlInfos : GroupKey(sqlInfos[a]) = GroupKey(rows[j])
    BY DEF ComparerInv, PositionInv, IsAggregate
  <1>3. \A i \in 1 .. Len(sqlInfos) : GroupKey(sqlInfos[i]) \in {GroupKey(rows[j]) : j \in 1 .. Len(rows)}
    BY GroupsAre, Zenon
  <1>4. \A j \in 1 .. Len(rows) : GroupKey(rows[j]) \in {GroupKey(sqlInfos[i]) : i \in 1 .. Len(sqlInfos)}
    BY <1>1, <1>2
  <1> QED
    BY <1>1, <1>2, <1>3, <1>4

\* The counts of the statements are those of the whole snapshot.
LEMMA CountsAddUp ==
  ASSUME ComparerInv
  PROVE  SumOver(CountsOf(sqlInfos), 1 .. Len(sqlInfos)) = ExecCount(1 .. Len(rows))
  <1> DEFINE f == CountsOf(rows)
             S == 1 .. Len(rows)
             T == 1 .. Len(sqlInfos)
             part == [t \in T |-> RowsWith(rows, Len(rows), GroupKey(sqlInfos[t]))]
             g == CountsOf(sqlInfos)
  <1>1. /\ rows \in Seq(SQLInfo) /\ sqlInfos \in Seq(SQLInfo)
        /\ Len(rows) \in Nat /\ Len(sqlInfos) \in Nat
    BY DEF ComparerInv, TypeInv
  <1>2. IsFiniteSet(S) /\ IsFiniteSet(T)
    BY <1>1, FS_Interval
  <1>3. \A x \in S : f[x] \in Int
    <2>1. f \in [S -> Nat]
      BY <1>1, CountsType
    <2> HIDE DEF f, S
    <2> QED
      BY <2>1
  <1>4. part \in [T -> SUBSET S]
    BY DEF RowsWith
  <1>5. \A t, u \in T : t # u => part[t] \cap part[u] = {}
    BY EveryGroupIsCompared DEF RowsWith
  <1>6. \A x \in S : \E t \in T : x \in part[t]
    <2> SUFFICES ASSUME NEW x \in S PROVE \E t \in T : x \in part[t]
      OBVIOUS
    <2>1. GroupKey(rows[x]) \in {GroupKey(sqlInfos[i]) : i \in T}
      BY EveryGroupIsCompared
    <2>2. PICK t \in T : GroupKey(rows[x]) = GroupKey(sqlInfos[t])
      BY <2>1
    <2>3. x \in part[t]
      BY <2>2 DEF RowsWith
    <2> QED
      BY <2>3
  <1>7. \A t \in T : g[t] = SumOver(f, part[t])
    <2> SUFFICES ASSUME NEW t \in T PROVE g[t] = SumOver(f, part[t])
      OBVIOUS
    <2>1. /\ RowsOf(GroupKey(sqlInfos[t])) = RowsWith(rows, Len(rows), GroupKey(sqlInfos[t]))
          /\ sqlInfos[t].execCount = SumOver(CountsOf(rows), RowsOf(GroupKey(sqlInfos[t])))
      BY GroupsAre, Zenon
    <2>2. g[t] = sqlInfos[t].execCount
      BY <1>1, CountsType
    <2> QED
      BY <2>1, <2>2
  <1>8. ExecCount(S) = SumOver(f, S)
    BY <1>1, ExecCountIs
  <1> HIDE DEF f, S, T, part, g
  <1>9. SumOver(g, T) = SumOver(f, S)
    BY ONLY <1>2, <1>3, <1>4, <1>5, <1>6, <1>7, SumPartition
  <1> QED
    BY <1>8, <1>9 DEF f, S, T, g

\* The report has the changed plans, each once, the slowest first.
LEMMA ReportHas ==
  ASSUME ComparerInv, pc = "reported"
  PROVE  /\ report \in Seq(ComparedPlan) /\ Len(report) \in Nat
         /\ \A k \in 1 .. Len(report) : \E i \in 1 .. Len(sqlInfos) :
              /\ Differs(i)
              /\ report[k].statement = sqlInfos[i]
              /\ report[k].newPlan = explained[Sample(sqlInfos[i])]
         /\ \A i \in 1 .. Len(sqlInfos) : Differs(i) =>
              \E k \in 1 .. Len(report) : report[k].statement = sqlInfos[i]
         /\ \A k, m \in 1 .. Len(report) : report[k].statement = report[m].statement => k = m
         /\ \A i \in 2 .. Len(report) :
              report[i - 1].statement.execTime >= report[i].statement.execTime
  <1>1. changed \in Seq(ComparedPlan) /\ sqlInfos \in Seq(SQLInfo) /\ Len(sqlInfos) \in Nat
    BY DEF ComparerInv, TypeInv
  <1>2. report \in SortFunc(changed, ByExecTime) /\ next = Len(sqlInfos) + 1
    BY DEF ComparerInv, ReportInv, PositionInv
  <1>3. /\ \E p : IsOrder(p, report, changed)
        /\ \A i, j \in DOMAIN changed : i < j => ~ ByExecTime(report[j], report[i])
    BY <1>2, SortedByExecTime
  <1>4. PICK p : IsOrder(p, report, changed)
    BY <1>3
  <1>5. /\ report \in Seq(ComparedPlan) /\ Len(report) = Len(changed) /\ DOMAIN report = DOMAIN changed
        /\ \A i \in DOMAIN changed : p[i] \in DOMAIN changed /\ report[i] = changed[p[i]]
        /\ \A j \in DOMAIN changed : \E i \in DOMAIN changed : p[i] = j /\ report[i] = changed[j]
    BY <1>1, <1>4, OrderType
  <1>6. DOMAIN changed = 1 .. Len(report) /\ Len(report) \in Nat /\ next - 1 = Len(sqlInfos)
    BY <1>1, <1>2, <1>5
  <1>7. /\ \A k \in DOMAIN changed : \E i \in 1 .. Len(sqlInfos) :
             /\ Differs(i)
             /\ changed[k].statement = sqlInfos[i]
             /\ changed[k].newPlan = explained[Sample(sqlInfos[i])]
        /\ \A i \in 1 .. Len(sqlInfos) : Differs(i) =>
             \E k \in DOMAIN changed : changed[k].statement = sqlInfos[i]
        /\ \A k, m \in DOMAIN changed : changed[k].statement = changed[m].statement => k = m
    BY <1>6 DEF ComparerInv, ChangedInv
  <1>8. \A k, m \in 1 .. Len(report) : report[k].statement = report[m].statement => k = m
    <2> SUFFICES ASSUME NEW k \in 1 .. Len(report), NEW m \in 1 .. Len(report),
                        report[k].statement = report[m].statement
                 PROVE  k = m
      OBVIOUS
    <2>1. /\ p[k] \in DOMAIN changed /\ report[k] = changed[p[k]]
          /\ p[m] \in DOMAIN changed /\ report[m] = changed[p[m]]
      BY <1>5, <1>6
    <2>2. p[k] = p[m]
      BY <1>7, <2>1
    <2> QED
      BY <1>4, <1>6, <2>2 DEF IsOrder
  <1>9. ASSUME NEW i \in 2 .. Len(report)
        PROVE  report[i - 1].statement.execTime >= report[i].statement.execTime
    <2>1. i \in 1 .. Len(report) /\ i - 1 \in 1 .. Len(report) /\ i - 1 < i
      BY <1>6
    <2>2. ~ ByExecTime(report[i], report[i - 1])
      BY <1>3, <1>6, <2>1
    <2>3. report[i] \in ComparedPlan /\ report[i - 1] \in ComparedPlan
      BY <1>5, <2>1
    <2>4. report[i].statement.execTime \in Nat /\ report[i - 1].statement.execTime \in Nat
      BY ONLY <2>3 DEF ComparedPlan, SQLInfo
    <2> QED
      BY <2>2, <2>4, SlowerFirst
  <1>10. ASSUME NEW i \in 1 .. Len(sqlInfos), Differs(i)
         PROVE  \E k \in 1 .. Len(report) : report[k].statement = sqlInfos[i]
    <2>1. PICK j \in DOMAIN changed : changed[j].statement = sqlInfos[i]
      BY <1>7, <1>10
    <2> QED
      BY <1>5, <1>6, <2>1
  <1>11. ASSUME NEW k \in 1 .. Len(report)
         PROVE  \E i \in 1 .. Len(sqlInfos) :
                  /\ Differs(i)
                  /\ report[k].statement = sqlInfos[i]
                  /\ report[k].newPlan = explained[Sample(sqlInfos[i])]
    <2>1. p[k] \in DOMAIN changed /\ report[k] = changed[p[k]]
      BY <1>5, <1>6
    <2>2. PICK i \in 1 .. Len(sqlInfos) :
            /\ Differs(i)
            /\ changed[p[k]].statement = sqlInfos[i]
            /\ changed[p[k]].newPlan = explained[Sample(sqlInfos[i])]
      BY <1>7, <2>1
    <2> QED
      BY <2>1, <2>2
  <1> QED
    BY <1>5, <1>6, <1>8, <1>9, <1>10, <1>11

\* A finished report is what it says it is.
LEMMA ReportedIsExact ==
  ASSUME ComparerInv
  PROVE  ReportIsExact
  <1> SUFFICES ASSUME pc = "reported" PROVE ReportIsExact
    BY DEF ReportIsExact
  <1> DEFINE n == Len(sqlInfos)
             keys == {GroupKey(rows[i]) : i \in 1 .. Len(rows)}
             differs == {key \in keys : Outline(FirstOf(key).plan)
                                          # Outline(explained[Sample(FirstOf(key))])}
             Key(k) == GroupKey(report[k].statement)
             places == 1 .. Len(report)
  <1>1. n \in Nat /\ Counted = n /\ next - 1 = n
    BY DEF ComparerInv, TypeInv, PositionInv, Counted, InLoop
  <1>2. /\ keys = {GroupKey(sqlInfos[i]) : i \in 1 .. n}
        /\ \A i, j \in 1 .. n : GroupKey(sqlInfos[i]) = GroupKey(sqlInfos[j]) => i = j
    BY EveryGroupIsCompared
  <1>3. \A i \in 1 .. n :
          /\ FirstOf(GroupKey(sqlInfos[i])).plan = sqlInfos[i].plan
          /\ FirstOf(GroupKey(sqlInfos[i])).hint = sqlInfos[i].hint
          /\ Sample(FirstOf(GroupKey(sqlInfos[i]))) = Sample(sqlInfos[i])
          /\ sqlInfos[i].execCount = ExecCount(RowsOf(GroupKey(sqlInfos[i])))
          /\ sqlInfos[i].execTime = ExecTime(RowsOf(GroupKey(sqlInfos[i])))
    BY GroupsAre, Zenon
  <1>4. /\ report \in Seq(ComparedPlan) /\ Len(report) \in Nat
        /\ \A k \in places : \E i \in 1 .. n :
             /\ Differs(i)
             /\ report[k].statement = sqlInfos[i]
             /\ report[k].newPlan = explained[Sample(sqlInfos[i])]
        /\ \A i \in 1 .. n : Differs(i) => \E k \in places : report[k].statement = sqlInfos[i]
        /\ \A k, m \in places : report[k].statement = report[m].statement => k = m
        /\ \A i \in 2 .. Len(report) :
             report[i - 1].statement.execTime >= report[i].statement.execTime
    BY ReportHas
  <1>5. \A i \in 1 .. n : GroupKey(sqlInfos[i]) \in differs <=> Differs(i)
    BY <1>2, <1>3 DEF Differs
  <1> HIDE DEF n, places, keys
  <1>6. differs = {GroupKey(sqlInfos[i]) : i \in {j \in 1 .. n : Differs(j)}}
    <2>1. \A key \in differs : \E i \in {j \in 1 .. n : Differs(j)} : key = GroupKey(sqlInfos[i])
      BY <1>2, <1>5
    <2> HIDE DEF differs
    <2> QED
      BY <1>5, <2>1
  <1> HIDE DEF differs
  <1>7. \A k \in places : Key(k) \in differs
    BY <1>4, <1>5
  <1>8. \A key \in differs : \E k \in places : Key(k) = key
    BY <1>4, <1>6
  <1>9. {Key(k) : k \in places} = differs
    BY <1>7, <1>8
  <1>10. Len(report) = Cardinality(differs)
    <2> DEFINE f == [k \in places |-> Key(k)]
    <2>1. f \in [places -> differs]
      BY <1>7
    <2>2. \A k, m \in places : f[k] = f[m] => k = m
      <3> SUFFICES ASSUME NEW k \in places, NEW m \in places, Key(k) = Key(m) PROVE k = m
        OBVIOUS
      <3>1. PICK i \in 1 .. n : report[k].statement = sqlInfos[i]
        BY <1>4
      <3>2. PICK j \in 1 .. n : report[m].statement = sqlInfos[j]
        BY <1>4
      <3>3. i = j
        BY <1>2, <3>1, <3>2
      <3> QED
        BY <1>4, <3>1, <3>2, <3>3
    <2>3. \A key \in differs : \E k \in places : f[k] = key
      BY <1>8
    <2>4. IsFiniteSet(places) /\ Cardinality(places) = Len(report)
      <3>1. IsFiniteSet(1 .. Len(report)) /\ Cardinality(1 .. Len(report)) = Len(report)
        <4> DEFINE l == Len(report)
        <4>1. l \in Nat
          BY <1>4
        <4> HIDE DEF l
        <4>2. IsFiniteSet(1 .. l) /\ Cardinality(1 .. l) = IF 1 > l THEN 0 ELSE l - 1 + 1
          BY <4>1, FS_Interval
        <4>3. IsFiniteSet(1 .. l) /\ Cardinality(1 .. l) = l
          BY <4>1, <4>2
        <4> QED
          BY <4>3 DEF l
      <3> QED
        BY <3>1 DEF places
    <2> HIDE DEF f
    <2>5. Cardinality(differs) = Cardinality(places)
      BY <2>1, <2>2, <2>3, <2>4, SameSize
    <2> QED
      BY <2>4, <2>5
  <1>11. \A k \in places :
           /\ report[k].newPlan = explained[Sample(report[k].statement)]
           /\ report[k].statement.hint = FirstOf(Key(k)).hint
           /\ report[k].statement.execCount = ExecCount(RowsOf(Key(k)))
           /\ report[k].statement.execTime = ExecTime(RowsOf(Key(k)))
    BY <1>3, <1>4
  <1>12. totalExecCount = ExecCount(1 .. Len(rows))
    <2>1. totalExecCount = SumOver(CountsOf(sqlInfos), 1 .. n)
      BY <1>1 DEF ComparerInv, CountInv
    <2> QED
      BY <2>1, CountsAddUp DEF n
  <1>13. \A info : SQLKey(info) = <<GroupKey(info)[1], GroupKey(info)[2]>>
    BY DEF SQLKey, GroupKey
  <1>14. checkedSQLs = {<<key[1], key[2]>> : key \in keys}
    <2>1. checkedSQLs = {SQLKey(sqlInfos[i]) : i \in 1 .. n}
      BY <1>1 DEF ComparerInv, CountInv
    <2> QED
      BY <1>2, <1>13, <2>1
  <1>15. changedSQLs = {<<key[1], key[2]>> : key \in differs}
    <2>1. changedSQLs = {SQLKey(sqlInfos[i]) : i \in {j \in 1 .. n : Differs(j)}}
      BY <1>1 DEF ComparerInv, ChangedInv
    <2> QED
      BY <1>6, <1>13, <2>1
  <1> QED
    BY <1>4, <1>9, <1>10, <1>11, <1>12, <1>14, <1>15 DEF ReportIsExact, places, keys, differs

\* A report has a row for exactly the recorded plans of the snapshot that differ from the
\* plan EXPLAIN gave for their statement, with the counts of all their rows and the hint of
\* the first, the slowest first; and its totals are those of the snapshot
\* (compare.go:388-513).
THEOREM ReportTheorem == Spec => []ReportIsExact
  BY ReportedIsExact, ComparerInvariant, PTL
-----------------------------------------------------------------------------
\* The titles of the sections, and the anchors they are linked by.
ShortDigests == {FirstEight(digest) : digest \in Nat \cup Digests}
Titles == {<<"sql", d>> : d \in ShortDigests}
            \cup {<<kind, d, e>> : kind \in {"current-plan", "new-plan", "binding-stmt"},
                                   d \in ShortDigests, e \in ShortDigests}
Anchors == Titles \X (Nat \ {0})
Kinds == <<"current-plan", "new-plan", "binding-stmt">>

SQLSection(info) == <<info.sqlDigest, info.schema, info.sql>>
SQLSections == {SQLSection(info) : info \in SQLInfo}

\* The anchors of a title are numbered without a gap at the top.
Numbered(used) == \A a \in used : a[2] <= Cardinality({b \in used : b[1] = a[1]})

RenderedTable == [used : SUBSET Anchors,
                  sqlAnchors : SUBSET [key : SQLSections, anchor : Anchors],
                  table : Seq([sqlLink : Anchors, links : Anchors \X Anchors \X Anchors])]

\* Every link is to a section of its own kind, that of its row alone.
LinksAreOwn(r) ==
  /\ r \in RenderedTable
  /\ IsFiniteSet(r.used) /\ Numbered(r.used)
  /\ \A s \in r.sqlAnchors : s.anchor \in r.used
  /\ \A s, t \in r.sqlAnchors : s.anchor = t.anchor => s.key = t.key
  /\ \A i \in DOMAIN r.table, k \in 1 .. 3 :
       r.table[i].links[k] \in r.used /\ r.table[i].links[k][1][1] = Kinds[k]
  /\ \A i, j \in DOMAIN r.table, k \in 1 .. 3 :
       r.table[i].links[k] = r.table[j].links[k] => i = j

\* uniqueHeadingAnchor gives one that was not used, and keeps the numbers.
LEMMA AnchorIsNew ==
  ASSUME NEW used \in SUBSET Anchors, IsFiniteSet(used), Numbered(used), NEW title \in Titles
  PROVE  LET new == UniqueHeadingAnchor(title, used)
         IN /\ new \in Anchors /\ new[1] = title /\ new \notin used
            /\ used \cup {new} \in SUBSET Anchors /\ IsFiniteSet(used \cup {new})
            /\ Numbered(used \cup {new})
  <1> DEFINE Of(t, u) == {b \in u : b[1] = t}
             c == Cardinality(Of(title, used))
             new == <<title, 1 + c>>
             after == used \cup {new}
  <1>1. UniqueHeadingAnchor(title, used) = new
    BY DEF UniqueHeadingAnchor
  <1>2. \A t : IsFiniteSet(Of(t, used)) /\ Cardinality(Of(t, used)) \in Nat
    <2> SUFFICES ASSUME NEW t PROVE IsFiniteSet(Of(t, used)) /\ Cardinality(Of(t, used)) \in Nat
      OBVIOUS
    <2>1. Of(t, used) \in SUBSET used
      OBVIOUS
    <2>2. IsFiniteSet(Of(t, used))
      BY <2>1, FS_Subset
    <2> QED
      BY <2>2, FS_CardinalityType
  <1>3. c \in Nat
    BY <1>2
  <1> HIDE DEF c
  <1>4. new \in Anchors /\ new[1] = title /\ new[2] = 1 + c
    BY <1>3 DEF Anchors
  <1>5. new \notin used
    <2> SUFFICES ASSUME new \in used PROVE FALSE
      OBVIOUS
    <2>1. new[2] <= Cardinality({b \in used : b[1] = new[1]})
      BY DEF Numbered
    <2>2. 1 + c <= c
      BY <1>4, <2>1 DEF c
    <2> QED
      BY <1>3, <2>2
  <1> HIDE DEF new
  <1>6. Of(title, after) = Of(title, used) \cup {new} /\ new \notin Of(title, used)
    BY <1>4, <1>5
  <1>7. Cardinality(Of(title, after)) = c + 1
    <2> DEFINE mine == Of(title, used)
    <2>1. IsFiniteSet(mine) /\ Cardinality(mine) = c /\ new \notin mine
      BY <1>2, <1>6 DEF c
    <2>2. Of(title, after) = mine \cup {new}
      BY <1>6
    <2> HIDE DEF mine
    <2>3. Cardinality(mine \cup {new}) = c + 1
      BY <2>1, FS_AddElement
    <2> QED
      BY <2>2, <2>3
  <1>8. \A t : t # title => Of(t, after) = Of(t, used)
    BY <1>4
  <1>9. Numbered(after)
    <2> SUFFICES ASSUME NEW a \in after PROVE a[2] <= Cardinality(Of(a[1], after))
      BY DEF Numbered
    <2>1. CASE a = new
      BY <1>3, <1>4, <1>7, <2>1
    <2>2. CASE a \in used
      <3>1. a[2] <= Cardinality(Of(a[1], used)) /\ a[2] \in Nat
        BY <2>2 DEF Numbered, Anchors
      <3>2. CASE a[1] # title
        BY <1>8, <3>1, <3>2
      <3>3. CASE a[1] = title
        <4>1. a[2] <= c
          BY <3>1, <3>3 DEF c
        <4> HIDE DEF Of
        <4> QED
          BY <1>3, <1>7, <3>1, <3>3, <4>1
      <3> QED
        BY <3>2, <3>3
    <2> QED
      BY <2>1, <2>2
  <1>10. after \in SUBSET Anchors /\ IsFiniteSet(after)
    BY <1>4, FS_AddElement
  <1> QED
    BY <1>1, <1>4, <1>5, <1>9, <1>10

\* Another row keeps the links apart, and leads to its statement's own section.
LEMMA RowKeepsLinks ==
  ASSUME NEW r, LinksAreOwn(r), NEW plan \in ComparedPlan
  PROVE  LET now == AddTableRow(r, plan)
             n == Len(r.table) + 1
         IN /\ LinksAreOwn(now)
            /\ r.sqlAnchors \subseteq now.sqlAnchors
            /\ Len(now.table) = n
            /\ \A i \in DOMAIN r.table : now.table[i] = r.table[i]
            /\ [key |-> SQLSection(plan.statement), anchor |-> now.table[n].sqlLink] \in now.sqlAnchors
  <1> DEFINE info == plan.statement
             key == SQLSection(info)
             known == {s \in r.sqlAnchors : s.key = key}
             sql == FirstEight(info.sqlDigest)
             sqlAnchor == IF known # {} THEN (CHOOSE s \in known : TRUE).anchor
                          ELSE UniqueHeadingAnchor(<<"sql", sql>>, r.used)
             used1 == r.used \cup {sqlAnchor}
             title2 == <<"current-plan", sql, FirstEight(info.planDigest)>>
             current == UniqueHeadingAnchor(title2, used1)
             used2 == used1 \cup {current}
             title3 == <<"new-plan", sql, FirstEight(plan.newPlanDigest)>>
             new == UniqueHeadingAnchor(title3, used2)
             used3 == used2 \cup {new}
             title4 == <<"binding-stmt", sql, FirstEight(info.planDigest)>>
             binding == UniqueHeadingAnchor(title4, used3)
             used4 == used3 \cup {binding}
             row == [sqlLink |-> sqlAnchor, links |-> <<current, new, binding>>]
             now == AddTableRow(r, plan)
  <1>1. now = [used |-> used4,
               sqlAnchors |-> r.sqlAnchors \cup {[key |-> key, anchor |-> sqlAnchor]},
               table |-> Append(r.table, row)]
    BY DEF AddTableRow, SQLSection
  <1>2. /\ r.used \in SUBSET Anchors /\ r.sqlAnchors \in SUBSET [key : SQLSections, anchor : Anchors]
        /\ r.table \in Seq([sqlLink : Anchors, links : Anchors \X Anchors \X Anchors])
        /\ IsFiniteSet(r.used) /\ Numbered(r.used)
        /\ \A s \in r.sqlAnchors : s.anchor \in r.used
        /\ \A s, t \in r.sqlAnchors : s.anchor = t.anchor => s.key = t.key
        /\ \A i \in DOMAIN r.table, k \in 1 .. 3 :
             r.table[i].links[k] \in r.used /\ r.table[i].links[k][1][1] = Kinds[k]
        /\ \A i, j \in DOMAIN r.table, k \in 1 .. 3 :
             r.table[i].links[k] = r.table[j].links[k] => i = j
    BY DEF LinksAreOwn, RenderedTable
  <1>3. info \in SQLInfo /\ plan.newPlanDigest \in Digests
    BY ONLY plan \in ComparedPlan DEF ComparedPlan
  <1>4. info.sqlDigest \in Nat /\ info.planDigest \in Nat
    BY ONLY <1>3 DEF SQLInfo
  <1>5. /\ <<"sql", sql>> \in Titles /\ title2 \in Titles /\ title3 \in Titles /\ title4 \in Titles
        /\ title2[1] = "current-plan" /\ title3[1] = "new-plan" /\ title4[1] = "binding-stmt"
    <2>1. sql \in ShortDigests /\ FirstEight(info.planDigest) \in ShortDigests
          /\ FirstEight(plan.newPlanDigest) \in ShortDigests
      BY <1>3, <1>4 DEF ShortDigests
    <2> HIDE DEF sql, info
    <2> QED
      BY <2>1 DEF Titles
  <1>6. key \in SQLSections
    BY <1>3 DEF SQLSections
  <1> HIDE DEF info, sql, title2, title3, title4, key, now
  <1>7. /\ sqlAnchor \in Anchors /\ used1 \in SUBSET Anchors /\ IsFiniteSet(used1) /\ Numbered(used1)
        /\ \A s \in r.sqlAnchors : s.anchor = sqlAnchor => s.key = key
    <2>1. CASE known # {}
      <3> DEFINE it == CHOOSE s \in known : TRUE
      <3>1. it \in known
        BY <2>1
      <3>2. sqlAnchor = it.anchor
        BY <2>1
      <3> HIDE DEF it, sqlAnchor
      <3>3. it \in r.sqlAnchors /\ it.key = key /\ sqlAnchor \in r.used
        BY <1>2, <3>1, <3>2
      <3>4. used1 = r.used
        BY <3>3
      <3> QED
        BY <1>2, <3>2, <3>3, <3>4
    <2>2. CASE known = {}
      <3>1. sqlAnchor = UniqueHeadingAnchor(<<"sql", sql>>, r.used)
        BY <2>2
      <3> HIDE DEF sqlAnchor
      <3>2. /\ sqlAnchor \in Anchors /\ sqlAnchor \notin r.used
            /\ used1 \in SUBSET Anchors /\ IsFiniteSet(used1) /\ Numbered(used1)
        BY <1>2, <1>5, <3>1, AnchorIsNew
      <3> QED
        BY <1>2, <3>2
    <2> QED
      BY <2>1, <2>2
  <1> HIDE DEF sqlAnchor, used1
  <1>8. /\ current \in Anchors /\ current[1] = title2 /\ current \notin used1
        /\ used2 \in SUBSET Anchors /\ IsFiniteSet(used2) /\ Numbered(used2)
    BY <1>5, <1>7, AnchorIsNew
  <1>9. current \in used2 /\ used1 \subseteq used2
    OBVIOUS
  <1> HIDE DEF current, used2
  <1>10. /\ new \in Anchors /\ new[1] = title3 /\ new \notin used2
         /\ used3 \in SUBSET Anchors /\ IsFiniteSet(used3) /\ Numbered(used3)
    BY <1>5, <1>8, AnchorIsNew
  <1>11. new \in used3 /\ used2 \subseteq used3
    OBVIOUS
  <1> HIDE DEF new, used3
  <1>12. /\ binding \in Anchors /\ binding[1] = title4 /\ binding \notin used3
         /\ used4 \in SUBSET Anchors /\ IsFiniteSet(used4) /\ Numbered(used4)
    BY <1>5, <1>10, AnchorIsNew
  <1>13. binding \in used4 /\ used3 \subseteq used4
    OBVIOUS
  <1> HIDE DEF binding, used4
  <1>14. r.used \subseteq used1 /\ sqlAnchor \in used1
    BY DEF used1
  <1>15. /\ row \in [sqlLink : Anchors, links : Anchors \X Anchors \X Anchors]
         /\ row.sqlLink = sqlAnchor
         /\ row.links[1] = current /\ row.links[2] = new /\ row.links[3] = binding
    BY <1>7, <1>8, <1>10, <1>12
  <1> HIDE DEF row
  <1>16. /\ now.used = used4
         /\ now.sqlAnchors = r.sqlAnchors \cup {[key |-> key, anchor |-> sqlAnchor]}
         /\ now.table = Append(r.table, row)
    BY <1>1
  <1>17. /\ now.table \in Seq([sqlLink : Anchors, links : Anchors \X Anchors \X Anchors])
         /\ Len(now.table) = Len(r.table) + 1
         /\ DOMAIN now.table = DOMAIN r.table \cup {Len(r.table) + 1}
         /\ now.table[Len(r.table) + 1] = row
         /\ \A i \in DOMAIN r.table : now.table[i] = r.table[i]
    BY <1>2, <1>15, <1>16, AppendOne
  <1>18. now \in RenderedTable
    <2>1. [key |-> key, anchor |-> sqlAnchor] \in [key : SQLSections, anchor : Anchors]
      BY <1>6, <1>7
    <2>2. now.sqlAnchors \in SUBSET [key : SQLSections, anchor : Anchors]
      BY <1>2, <1>16, <2>1
    <2> QED
      BY <1>1, <1>12, <1>16, <1>17, <2>2 DEF RenderedTable
  <1>19. \A k \in 1 .. 3 : /\ row.links[k] \in used4 /\ row.links[k] \notin r.used
                           /\ row.links[k][1][1] = Kinds[k]
    <2>1. current \in used4 /\ current \notin r.used /\ current[1][1] = Kinds[1]
      BY <1>5, <1>8, <1>9, <1>11, <1>13, <1>14 DEF Kinds
    <2>2. new \in used4 /\ new \notin r.used /\ new[1][1] = Kinds[2]
      BY <1>5, <1>9, <1>10, <1>11, <1>13, <1>14 DEF Kinds
    <2>3. binding \in used4 /\ binding \notin r.used /\ binding[1][1] = Kinds[3]
      BY <1>5, <1>9, <1>11, <1>12, <1>13, <1>14 DEF Kinds
    <2>4. 1 .. 3 = {1, 2, 3}
      OBVIOUS
    <2> QED
      BY <1>15, <2>1, <2>2, <2>3, <2>4
  <1>20. r.used \subseteq used4 /\ sqlAnchor \in used4
    BY <1>9, <1>11, <1>13, <1>14
  <1>21. \A s \in now.sqlAnchors : s.anchor \in now.used
    BY <1>2, <1>16, <1>20
  <1>22. \A s, t \in now.sqlAnchors : s.anchor = t.anchor => s.key = t.key
    <2> DEFINE it == [key |-> key, anchor |-> sqlAnchor]
    <2>1. it.key = key /\ it.anchor = sqlAnchor
      OBVIOUS
    <2>2. now.sqlAnchors = r.sqlAnchors \cup {it}
      BY <1>16
    <2> HIDE DEF it
    <2> QED
      BY <1>2, <1>7, <2>1, <2>2
  <1>23. \A i \in DOMAIN now.table, k \in 1 .. 3 :
           now.table[i].links[k] \in now.used /\ now.table[i].links[k][1][1] = Kinds[k]
    BY <1>2, <1>16, <1>17, <1>19, <1>20
  <1>24. \A i, j \in DOMAIN now.table, k \in 1 .. 3 :
           now.table[i].links[k] = now.table[j].links[k] => i = j
    <2> DEFINE n == Len(r.table) + 1
    <2>1. \A i \in DOMAIN r.table, k \in 1 .. 3 : now.table[i].links[k] \in r.used
      BY <1>2, <1>17
    <2>2. \A k \in 1 .. 3 : now.table[n].links[k] \notin r.used
      BY <1>17, <1>19
    <2>3. \A i, j \in DOMAIN r.table, k \in 1 .. 3 :
            now.table[i].links[k] = now.table[j].links[k] => i = j
      <3> SUFFICES ASSUME NEW i \in DOMAIN r.table, NEW j \in DOMAIN r.table, NEW k \in 1 .. 3,
                          now.table[i].links[k] = now.table[j].links[k]
                   PROVE  i = j
        OBVIOUS
      <3>1. now.table[i] = r.table[i] /\ now.table[j] = r.table[j]
        BY <1>17
      <3>2. r.table[i].links[k] = r.table[j].links[k]
        BY <3>1
      <3> QED
        BY <1>2, <3>2
    <2>4. DOMAIN now.table = DOMAIN r.table \cup {n}
      BY <1>17
    <2> HIDE DEF n
    <2> QED
      BY ONLY <2>1, <2>2, <2>3, <2>4
  <1>25. LinksAreOwn(now)
    BY <1>12, <1>16, <1>18, <1>21, <1>22, <1>23, <1>24 DEF LinksAreOwn
  <1>26. [key |-> key, anchor |-> now.table[Len(r.table) + 1].sqlLink] \in now.sqlAnchors
    BY <1>15, <1>16, <1>17
  <1> QED
    BY <1>16, <1>17, <1>25, <1>26 DEF now, key, info

\* The fold of renderComparison's rows, unfolded, and the function that solves it.
NoTable == [used |-> {}, sqlAnchors |-> {}, table |-> << >>]
RowStep(g, listed, s) ==
  IF s = {} THEN NoTable ELSE AddTableRow(g[s \ {Max(s)}], listed[Max(s)])
RowTable(listed) == CHOOSE g : g = [s \in SUBSET (DOMAIN listed) |-> RowStep(g, listed, s)]

\* An empty table has no links.
LEMMA NoTableIsOwn == LinksAreOwn(NoTable)
  <1>1. NoTable.used = {} /\ NoTable.sqlAnchors = {} /\ NoTable.table = << >>
    BY DEF NoTable
  <1>2. NoTable \in RenderedTable
    <2>1. << >> \in Seq([sqlLink : Anchors, links : Anchors \X Anchors \X Anchors])
      OBVIOUS
    <2> QED
      BY <2>1 DEF NoTable, RenderedTable
  <1>3. IsFiniteSet({}) /\ Numbered({}) /\ DOMAIN << >> = {}
    BY FS_EmptySet DEF Numbered
  <1> QED
    BY <1>1, <1>2, <1>3 DEF LinksAreOwn

\* RenderTable is that fold over all the rows.
LEMMA RenderIsRowTable ==
  ASSUME NEW listed
  PROVE  RenderTable(listed) = RowTable(listed)[DOMAIN listed].table
  BY DEF RenderTable, FoldLeft, MapThenFoldSet, RowTable, RowStep, NoTable

\* Row by row, it has a value.
LEMMA RowTableEquation ==
  ASSUME NEW listed \in Seq(ComparedPlan), NEW s \in SUBSET (DOMAIN listed)
  PROVE  RowTable(listed)[s] = RowStep(RowTable(listed), listed, s)
  <1> DEFINE n == Len(listed)
             V == {r \in RenderedTable : LinksAreOwn(r)}
             G == [x \in V \X (1 .. n) |-> AddTableRow(x[1], listed[x[2]])]
             base == NoTable
  <1>1. n \in Nat /\ DOMAIN listed = 1 .. n
    OBVIOUS
  <1>2. base \in V
    BY NoTableIsOwn DEF LinksAreOwn
  <1>3. G \in [V \X (1 .. n) -> V]
    <2> SUFFICES ASSUME NEW x \in V \X (1 .. n) PROVE AddTableRow(x[1], listed[x[2]]) \in V
      OBVIOUS
    <2>1. LinksAreOwn(x[1]) /\ listed[x[2]] \in ComparedPlan
      BY <1>1
    <2>2. LinksAreOwn(AddTableRow(x[1], listed[x[2]]))
      BY <2>1, RowKeepsLinks
    <2> QED
      BY <2>2 DEF LinksAreOwn
  <1>4. \A v \in V, i \in 1 .. n : G[<<v, i>>] = AddTableRow(v, listed[i])
    OBVIOUS
  <1> HIDE DEF n, V, G, base
  <1>5. PICK h : IsFold(h, n, V, base, G)
    BY ONLY <1>1, <1>2, <1>3, FoldExists
  <1>6. ASSUME NEW u \in SUBSET (1 .. n) PROVE h[u] = RowStep(h, listed, u)
    <2>1. CASE u = {}
      BY <1>5, <2>1 DEF RowStep, IsFold, base
    <2>2. CASE u # {}
      <3>1. Max(u) \in 1 .. n /\ h[u \ {Max(u)}] \in V
        <4>1. Max(u) \in u
          BY <1>1, <2>2, MaxIsGreatest
        <4> QED
          BY <1>5, <4>1 DEF IsFold
      <3>2. h[u] = G[<<h[u \ {Max(u)}], Max(u)>>]
        BY <1>5, <2>2 DEF IsFold
      <3> QED
        BY <1>4, <2>2, <3>1, <3>2 DEF RowStep
    <2> QED
      BY <2>1, <2>2
  <1>7. h = [u \in SUBSET (DOMAIN listed) |-> RowStep(h, listed, u)]
    BY <1>1, <1>5, <1>6 DEF IsFold
  <1>8. RowTable(listed) = [u \in SUBSET (DOMAIN listed) |-> RowStep(RowTable(listed), listed, u)]
    BY <1>7 DEF RowTable
  <1> QED
    BY <1>8

\* The first rows are rendered first.
LEMMA RowTableOfPrefix ==
  ASSUME NEW listed \in Seq(ComparedPlan)
  PROVE  /\ RowTable(listed)[1 .. 0] = NoTable
         /\ \A n \in 1 .. Len(listed) :
              RowTable(listed)[1 .. n] = AddTableRow(RowTable(listed)[1 .. (n - 1)], listed[n])
  <1>0. DOMAIN listed = 1 .. Len(listed) /\ Len(listed) \in Nat
    OBVIOUS
  <1>1. RowTable(listed)[1 .. 0] = NoTable
    <2>1. 1 .. 0 = {}
      OBVIOUS
    <2>2. RowTable(listed)[{}] = RowStep(RowTable(listed), listed, {})
      BY RowTableEquation
    <2> QED
      BY <2>1, <2>2 DEF RowStep
  <1>2. ASSUME NEW n \in 1 .. Len(listed)
        PROVE  RowTable(listed)[1 .. n] = AddTableRow(RowTable(listed)[1 .. (n - 1)], listed[n])
    <2>1. n \in Nat \ {0} /\ 1 .. n \in SUBSET (DOMAIN listed) /\ 1 .. n # {}
      <3>1. n \in Nat \ {0} /\ n <= Len(listed)
        BY <1>0
      <3>2. 1 .. n \subseteq 1 .. Len(listed) /\ 1 \in 1 .. n
        BY ONLY <1>0, <3>1
      <3> QED
        BY <1>0, <3>1, <3>2
    <2>2. Max(1 .. n) = n /\ (1 .. n) \ {Max(1 .. n)} = 1 .. (n - 1)
      BY <2>1, MaxOfPrefix
    <2>3. RowTable(listed)[1 .. n] = RowStep(RowTable(listed), listed, 1 .. n)
      BY <2>1, RowTableEquation
    <2> QED
      BY <2>1, <2>2, <2>3 DEF RowStep
  <1> QED
    BY <1>1, <1>2

\* The first n rows of a report, rendered.
HasRows(r, listed, n) ==
  /\ LinksAreOwn(r)
  /\ Len(r.table) = n
  /\ \A i \in 1 .. n :
       [key |-> SQLSection(listed[i].statement), anchor |-> r.table[i].sqlLink] \in r.sqlAnchors

\* Every row of the report is in the table, and leads to the section of its statement.
LEMMA TableHasRows ==
  ASSUME NEW listed \in Seq(ComparedPlan)
  PROVE  HasRows(RowTable(listed)[1 .. Len(listed)], listed, Len(listed))
  <1> DEFINE At(n) == RowTable(listed)[1 .. n]
             Bad == {n \in 0 .. Len(listed) : ~HasRows(At(n), listed, n)}
  <1>0. Len(listed) \in Nat /\ DOMAIN listed = 1 .. Len(listed)
    OBVIOUS
  <1>1. Bad = {}
    <2> SUFFICES ASSUME Bad # {} PROVE FALSE
      OBVIOUS
    <2>1. PICK n \in Bad : \A k \in Bad : n <= k
      <3> Bad \in SUBSET Nat
        BY <1>0
      <3> HIDE DEF Bad
      <3> QED
        BY LeastNat
    <2>2. CASE n = 0
      <3>1. At(0) = NoTable
        BY RowTableOfPrefix
      <3>2. Len(NoTable.table) = 0 /\ 1 .. 0 = {}
        BY DEF NoTable
      <3>3. HasRows(NoTable, listed, 0)
        BY <3>2, NoTableIsOwn DEF HasRows
      <3> QED
        BY <2>1, <2>2, <3>1, <3>3
    <2>3. CASE n # 0
      <3> DEFINE m == n - 1
                 r == At(m)
                 now == AddTableRow(r, listed[n])
      <3>1. m \in Nat /\ n = m + 1 /\ n \in 1 .. Len(listed) /\ m \in 0 .. Len(listed)
        BY <1>0, <2>1, <2>3
      <3>2. HasRows(r, listed, m)
        BY <2>1, <3>1
      <3>3. At(n) = now
        BY <3>1, RowTableOfPrefix
      <3>4. listed[n] \in ComparedPlan
        BY <3>1
      <3> HIDE DEF r
      <3>5. /\ LinksAreOwn(now)
            /\ r.sqlAnchors \subseteq now.sqlAnchors
            /\ Len(now.table) = Len(r.table) + 1
            /\ \A i \in DOMAIN r.table : now.table[i] = r.table[i]
            /\ [key |-> SQLSection(listed[n].statement), anchor |-> now.table[Len(r.table) + 1].sqlLink]
                 \in now.sqlAnchors
        BY <3>2, <3>4, RowKeepsLinks DEF HasRows
      <3> HIDE DEF now, m
      <3>6. Len(r.table) = m /\ DOMAIN r.table = 1 .. m
        <4>1. Len(r.table) = m /\ r \in RenderedTable
          BY <3>2 DEF HasRows, LinksAreOwn
        <4>2. r.table \in Seq([sqlLink : Anchors, links : Anchors \X Anchors \X Anchors])
          BY <4>1 DEF RenderedTable
        <4>3. DOMAIN r.table = 1 .. Len(r.table)
          BY <4>2
        <4> QED
          BY <4>1, <4>3
      <3>7. 1 .. n = (1 .. m) \cup {n}
        BY <3>1
      <3>8. \A i \in 1 .. n : [key |-> SQLSection(listed[i].statement), anchor |-> now.table[i].sqlLink]
                                \in now.sqlAnchors
        <4>1. \A i \in 1 .. m : [key |-> SQLSection(listed[i].statement), anchor |-> r.table[i].sqlLink]
                                  \in r.sqlAnchors
          BY <3>2 DEF HasRows
        <4>2. \A i \in 1 .. m : [key |-> SQLSection(listed[i].statement), anchor |-> now.table[i].sqlLink]
                                  \in now.sqlAnchors
          BY <3>5, <3>6, <4>1
        <4>3. [key |-> SQLSection(listed[n].statement), anchor |-> now.table[n].sqlLink] \in now.sqlAnchors
          BY <3>1, <3>5, <3>6
        <4> QED
          BY <3>7, <4>2, <4>3
      <3>9. HasRows(now, listed, n)
        BY <3>1, <3>5, <3>6, <3>8 DEF HasRows
      <3> QED
        BY <2>1, <3>3, <3>9
    <2> QED
      BY <2>2, <2>3
  <1>2. HasRows(At(Len(listed)), listed, Len(listed))
    BY <1>0, <1>1
  <1> QED
    BY <1>2

\* So the links of any report lead to their own sections.
LEMMA LinksAreApart ==
  ASSUME report \in Seq(ComparedPlan)
  PROVE  LinksLeadToTheirOwnSection
  <1> DEFINE r == RowTable(report)[1 .. Len(report)]
             table == RenderTable(report)
             n == Len(report)
  <1>1. DOMAIN report = 1 .. n
    OBVIOUS
  <1>2. table = r.table
    BY <1>1, RenderIsRowTable
  <1>3. HasRows(r, report, n)
    BY TableHasRows
  <1> HIDE DEF r, table, n
  <1>4. DOMAIN table = 1 .. n
    BY <1>2, <1>3 DEF HasRows, LinksAreOwn, RenderedTable
  <1>5. ASSUME NEW x \in (1 .. n) \X (1 .. 3), NEW y \in (1 .. n) \X (1 .. 3),
               table[x[1]].links[x[2]] = table[y[1]].links[y[2]]
        PROVE  x = y
    <2>1. x[1] \in DOMAIN table /\ y[1] \in DOMAIN table /\ x[2] \in 1 .. 3 /\ y[2] \in 1 .. 3
      BY <1>4
    <2>2. Kinds[x[2]] = Kinds[y[2]]
      <3>1. \A i \in DOMAIN table, k \in 1 .. 3 : table[i].links[k][1][1] = Kinds[k]
        BY <1>2, <1>3 DEF HasRows, LinksAreOwn
      <3>2. table[x[1]].links[x[2]][1][1] = Kinds[x[2]] /\ table[y[1]].links[y[2]][1][1] = Kinds[y[2]]
        BY <2>1, <3>1
      <3> QED
        BY <1>5, <3>2
    <2>3. x[2] = y[2]
      BY <2>1, <2>2 DEF Kinds
    <2>4. x[1] = y[1]
      BY <1>2, <1>3, <1>5, <2>1, <2>3 DEF HasRows, LinksAreOwn
    <2> QED
      BY <2>3, <2>4
  <1>6. ASSUME NEW i \in 1 .. n, NEW j \in 1 .. n, table[i].sqlLink = table[j].sqlLink
        PROVE  Sample(report[i].statement) = Sample(report[j].statement)
    <2> DEFINE s == [key |-> SQLSection(report[i].statement), anchor |-> table[i].sqlLink]
               t == [key |-> SQLSection(report[j].statement), anchor |-> table[j].sqlLink]
    <2>1. s \in r.sqlAnchors /\ t \in r.sqlAnchors
      BY <1>2, <1>3 DEF HasRows
    <2>2. s.anchor = t.anchor /\ s.key = SQLSection(report[i].statement)
          /\ t.key = SQLSection(report[j].statement)
      BY <1>6
    <2> HIDE DEF s, t
    <2>3. s.key = t.key
      BY <1>3, <2>1, <2>2 DEF HasRows, LinksAreOwn
    <2> QED
      BY <2>2, <2>3 DEF SQLSection, Sample
  <1>7. {<<i, k>> : i \in 1 .. n, k \in 1 .. 3} = (1 .. n) \X (1 .. 3)
    OBVIOUS
  <1> QED
    BY <1>5, <1>6, <1>7 DEF LinksLeadToTheirOwnSection, table, n

\* No two sections of a report answer to one link, and two rows share the section of their
\* SQL only when they are of one statement (compare.go:524-566, 585-592): however many
\* digests coincide in the digits that are shown.
THEOREM LinksTheorem == Spec => []LinksLeadToTheirOwnSection
  <1>1. ComparerInv => LinksLeadToTheirOwnSection
    <2> SUFFICES ASSUME ComparerInv PROVE LinksLeadToTheirOwnSection
      OBVIOUS
    <2>1. CASE pc = "reported"
      BY <2>1, ReportHas, LinksAreApart
    <2>2. CASE pc # "reported"
      <3>1. report = << >>
        BY <2>2 DEF ComparerInv, ReportInv
      <3>2. report \in Seq(ComparedPlan)
        BY <3>1
      <3> QED
        BY <3>2, LinksAreApart
    <2> QED
      BY <2>1, <2>2
  <1> QED
    BY <1>1, ComparerInvariant, PTL
=============================================================================
