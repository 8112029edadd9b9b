------------------------------ MODULE PlanTree ------------------------------
(***************************************************************************)
(* Plan texts and plan trees: diagnosis/compare/compare.go, parsePlan to    *)
(* planNodesEqual.                                                          *)
(*                                                                          *)
(* A plan text is a sequence of rows, one per physical operator, in         *)
(* preorder; `depth' is the number of tree branch markers in front of the   *)
(* operator (planDepth).  A row's `object' stands for the index and the     *)
(* table of its access object, which the code always compares together.     *)
(* The cutting of a line into columns is left out.                          *)
(***************************************************************************)
EXTENDS Integers, SequencesExt

\* The operators of the source's lists that the bounded plans use, in
\* alphabetical order, and the others that only transform rows.
ReaderOperators == {"TableFullScan", "TableReader"}
IndexReaderOperators == {"IndexLookUp", "IndexReader"}
OperatorOrder == <<"IndexLookUp", "IndexReader", "Projection", "Selection",
                   "TableFullScan", "TableReader">>

\* normalizeTask drops a cop[ ] or mpp[ ] wrapper and leaves anything else.
TaskOrder == <<"batchCop[tiflash]", "cop[tiflash]", "cop[tikv]", "mpp[tiflash]",
               "root", "tiflash", "tikv">>
NormalizeTask(task) ==
  CASE task \in {"cop[tiflash]", "mpp[tiflash]"} -> "tiflash"
    [] task = "cop[tikv]" -> "tikv"
    [] OTHER -> task

ObjectOrder == <<"none", "table:a", "table:b">>

Row(operator, task, object, depth) ==
  [operator |-> operator, task |-> task, object |-> object, depth |-> depth]

\* What of a row becomes its PlanNode; operator IDs are dropped.
NodeOf(row) == [operator |-> row.operator, task |-> NormalizeTask(row.task),
                object |-> row.object]

-----------------------------------------------------------------------------
(* Parsing.                                                                 *)

\* Mutant: the baseline is not subtracted.
DepthsAbsolute(text) == [i \in 1..Len(text) |-> text[i].depth]

\* The first row's depth is the baseline of every other row's.
Depths(text) == [i \in 1..Len(text) |-> text[i].depth - text[1].depth]

\* The ancestors of a row of that depth; a root starts a new stack.
Ancestors(stack, depth) == SubSeq(stack, 1, depth)

\* One round of the loop over the rows: `stack' holds the path to the latest
\* row, whose parent takes it as its last child.  Cutting the stack to a
\* negative length is a runtime panic.
ParseRow(parse, row, depth) ==
  IF parse.status # "ok" THEN parse
  ELSE IF depth = 0 /\ parse.nodes # << >> THEN [parse EXCEPT !.status = "multiple roots"]
  ELSE IF depth > Len(parse.stack) THEN [parse EXCEPT !.status = "invalid depth"]
  ELSE IF depth < 0 THEN [parse EXCEPT !.status = "panic"]
  ELSE LET ancestors == Ancestors(parse.stack, depth)
           id == Len(parse.nodes) + 1
           grown == Append(parse.children, << >>)
       IN [status |-> "ok",
           stack |-> Append(ancestors, id),
           nodes |-> Append(parse.nodes, NodeOf(row)),
           children |-> IF depth = 0 THEN grown
                        ELSE [grown EXCEPT ![ancestors[depth]] = Append(@, id)]]

NoRows == [status |-> "no operators", stack |-> << >>, nodes |-> << >>, children |-> << >>]

ParsePlan(text) ==
  LET depths == Depths(text)
      parsed[i \in 0..Len(text)] ==
        IF i = 0 THEN [NoRows EXCEPT !.status = "ok"]
        ELSE ParseRow(parsed[i - 1], text[i], depths[i])
  IN IF text = << >> THEN NoRows ELSE parsed[Len(text)]

-----------------------------------------------------------------------------
(* Comparing two parsed plans.                                              *)

\* Mutant: the children are compared as far as both sides go.
SameNumberOrFewer(mine, theirs) == TRUE

SameNumber(mine, theirs) == Len(mine) = Len(theirs)

\* planNodesEqual: the same node and, pairwise, the same children.
NodesEqual(left, right) ==
  LET equal[pair \in (1..Len(left.nodes)) \X (1..Len(right.nodes))] ==
        LET mine == left.children[pair[1]]
            theirs == right.children[pair[2]]
        IN /\ left.nodes[pair[1]] = right.nodes[pair[2]]
           /\ SameNumber(mine, theirs)
           /\ \A i \in DOMAIN mine \cap DOMAIN theirs : equal[<<mine[i], theirs[i]>>]
  IN equal[<<1, 1>>]

\* The collections of a plan: a node with one of the operators is appended as it is read.
Collected(nodes, operators) ==
  LET kept[i \in 0..Len(nodes)] ==
        IF i = 0 THEN << >>
        ELSE IF nodes[i].operator \in operators THEN Append(kept[i - 1], nodes[i])
        ELSE kept[i - 1]
  IN kept[Len(nodes)]

Readers(plan) == Collected(plan.nodes, ReaderOperators)
IndexReaders(plan) == Collected(plan.nodes, IndexReaderOperators)

\* The order of the nodes' JSON texts, by which the code sorts.
PlaceIn(order) == [x \in ToSet(order) |-> CHOOSE i \in 1..Len(order) : order[i] = x]
OperatorPlace == PlaceIn(OperatorOrder)
TaskPlace == PlaceIn(TaskOrder)
ObjectPlace == PlaceIn(ObjectOrder)
TextBefore(m, n) ==
  \/ OperatorPlace[m.operator] < OperatorPlace[n.operator]
  \/ /\ m.operator = n.operator
     /\ \/ TaskPlace[m.task] < TaskPlace[n.task]
        \/ m.task = n.task /\ ObjectPlace[m.object] < ObjectPlace[n.object]

\* Mutant: sortPlanNodes leaves the nodes in the order of the plan.
SortNodesInPlanOrder(nodes) == nodes

\* A node goes to the place that is the number of those that are not after it.
SortNodes(nodes) ==
  LET notAfter(i) == {j \in DOMAIN nodes : \/ TextBefore(nodes[j], nodes[i])
                                           \/ nodes[j] = nodes[i] /\ j <= i}
      place == [i \in DOMAIN nodes |-> Cardinality(notAfter(i))]
  IN [k \in DOMAIN nodes |-> nodes[CHOOSE i \in DOMAIN nodes : place[i] = k]]

\* equalReaderNodes compares the sorted texts: the same nodes, each as often.
EqualReaderNodes(left, right) == ToBag(left) = ToBag(right)

\* readerChangeReason: the first of the sorted pairs that differs in operator
\* or in task, as a change from one name to the other.
Others == <<"others">>
ReaderChangeReason(left, right) ==
  LET old == SortNodes(left)
      new == SortNodes(right)
      differs(i) == \/ old[i].operator # new[i].operator
                    \/ old[i].task # new[i].task
      places == {i \in 1..Len(old) : differs(i)}
  IN IF Len(old) # Len(new) \/ places = {} THEN Others
     ELSE LET i == Min(places)
          IN IF old[i].operator # new[i].operator
             THEN <<"operator", old[i].operator, new[i].operator>>
             ELSE <<"task", old[i].task, new[i].task>>

Equal == <<"equal">>
ComparePlans(left, right) ==
  IF ~ EqualReaderNodes(Readers(left), Readers(right))
  THEN ReaderChangeReason(Readers(left) \o IndexReaders(left),
                          Readers(right) \o IndexReaders(right))
  ELSE IF ~ EqualReaderNodes(IndexReaders(left), IndexReaders(right))
  THEN ReaderChangeReason(IndexReaders(left), IndexReaders(right))
  ELSE IF NodesEqual(left, right) THEN Equal ELSE Others

PlansEqual(left, right) == ComparePlans(left, right) = Equal

-----------------------------------------------------------------------------
\* What a plan text says, without building a tree: the nodes in preorder and
\* how deep each is below the first.
Outline(text) == [i \in 1..Len(text) |-> <<NodeOf(text[i]), text[i].depth - text[1].depth>>]
=============================================================================
