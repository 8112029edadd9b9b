-------------------------- MODULE MCRecommendIndex --------------------------
EXTENDS RecommendIndex

SummaryRow(digest, plan, execCount, execTime) ==
  [schema |-> "test", digest |-> digest, sql |-> "q", plan |-> plan,
   execCount |-> execCount, execTime |-> execTime]

\* Two instances of one plan, a second plan of the same statement, and two
\* other statements, one of them as slow as the sum of the first two rows.
MCSummaryRows ==
  {SummaryRow(1, "p", 1, 2), SummaryRow(1, "p", 2, 1), SummaryRow(1, "r", 1, 3),
   SummaryRow(2, "p", 1, 3), SummaryRow(3, "p", 1, 1)}

MCAdvices == {[name |-> "idx_a", complete |-> TRUE], [name |-> "idx_b", complete |-> FALSE]}
=============================================================================
