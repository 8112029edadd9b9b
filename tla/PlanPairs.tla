------------------------------ MODULE PlanPairs -----------------------------
(***************************************************************************)
(* Every pair of plan texts a bounded EXPLAIN can return, a recorded one    *)
(* and a new one, grown row by row; Compare parses the recorded one first   *)
(* and never looks at the new one when that fails.                          *)
(***************************************************************************)
EXTENDS PlanTree, FiniteSets

CONSTANTS Roots,          \* the operators the first row can show, as rows of depth 0
          Rows,           \* the operators a later row can show, as rows of depth 0
          RecordedDepths, \* how far the first row of a recorded plan is indented
          ExplainDepths,  \* ... and that of a plan of EXPLAIN
          MaxRows         \* bound on the rows of one plan

ASSUME RowsAssumption ==
  /\ MaxRows \in Nat \ {0}
  /\ RecordedDepths \cup ExplainDepths \subseteq Nat
  /\ Roots \cup Rows \subseteq
       [operator : ToSet(OperatorOrder), task : ToSet(TaskOrder),
        object : ToSet(ObjectOrder), depth : {0}]

VARIABLES recorded, newPlan
plans == <<recorded, newPlan>>

Parses(rows) == ParsePlan(rows).status = "ok"

Indented(r, d) == [r EXCEPT !.depth = d]

\* The first row may carry a branch marker; a later row is indented anywhere
\* up to one level more than a path of the rows so far reaches.
Extensions(rows, firstDepths) ==
  LET operators == IF rows = << >> THEN Roots ELSE Rows
      depths == IF rows = << >> THEN firstDepths ELSE 0..(Len(rows) + 1)
  IN {Append(rows, Indented(r, d)) : r \in operators, d \in depths}

PairsInit == recorded = << >> /\ newPlan = << >>

RecordRow ==
  /\ newPlan = << >>
  /\ Len(recorded) < MaxRows
  /\ recorded = << >> \/ Parses(recorded)
  /\ recorded' \in Extensions(recorded, RecordedDepths)
  /\ UNCHANGED newPlan

ExplainRow ==
  /\ Parses(recorded)
  /\ Len(newPlan) < MaxRows
  /\ newPlan = << >> \/ Parses(newPlan)
  /\ newPlan' \in Extensions(newPlan, ExplainDepths)
  /\ UNCHANGED recorded

PairsNext == RecordRow \/ ExplainRow
PairsSpec == PairsInit /\ [][PairsNext]_plans

-----------------------------------------------------------------------------
\* A plan text is read exactly when it lists one tree in preorder, wherever its
\* first row is indented: every later row lies below the first and at most one
\* level below the row before it.  Any other text is an error, but for one in
\* which the first row out of place is to the left of the first row of all:
\* nothing checks that, and the stack is sliced to a negative length
\* (compare.go:131-134, 153-173).
ParsedIffOnePreorder ==
  LET below(i) == newPlan[i].depth - newPlan[1].depth
      misplaced == {i \in 2..Len(newPlan) : below(i) < 1 \/ below(i) > below(i - 1) + 1}
      status == ParsePlan(newPlan).status
  IN /\ status = "ok" <=> newPlan # << >> /\ misplaced = {}
     /\ status = "panic" <=> misplaced # {} /\ below(Min(misplaced)) < 0

\* Two plans compare equal exactly when the texts show the same operators,
\* normalised tasks and access objects at the same relative depths: neither
\* the reader collections that are compared first nor the tree that is built
\* can change that verdict (compare.go:298-313).
EqualIffSameOutline ==
  Parses(recorded) /\ Parses(newPlan) =>
    (PlansEqual(ParsePlan(recorded), ParsePlan(newPlan))
       <=> Outline(recorded) = Outline(newPlan))

\* A change `a->b' is never named out of nothing, nor the wrong way round: of the
\* readers of one operator the recorded plan shows more with the name a than the new
\* one, or the new plan more with the name b (compare.go:333-351).  No more than
\* that: the code walks down two sorted lists, and behind the one name that is gone
\* or new the other may be that of a reader both plans show alike.
NamedChangeIsReal ==
  Parses(recorded) /\ Parses(newPlan) =>
    LET old == ParsePlan(recorded)
        new == ParsePlan(newPlan)
        reason == ComparePlans(old, new)
        Shown(plan, operator, name) ==
          Cardinality({i \in 1..Len(plan.nodes) :
            plan.nodes[i].operator = operator /\ plan.nodes[i][reason[1]] = name})
    IN Len(reason) = 3 =>
         \E operator \in ReaderOperators \cup IndexReaderOperators :
           \/ Shown(old, operator, reason[2]) > Shown(new, operator, reason[2])
           \/ Shown(new, operator, reason[3]) > Shown(old, operator, reason[3])
=============================================================================
