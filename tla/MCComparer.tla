----------------------------- MODULE MCComparer -----------------------------
EXTENDS Comparer

OnTiKV == <<Row("TableReader", "root", "none", 0),
            Row("TableFullScan", "cop[tikv]", "table:a", 1)>>
OnTiFlash == <<Row("TableReader", "root", "none", 0),
               Row("TableFullScan", "mpp[tiflash]", "table:a", 1)>>
OnTiFlashCop == <<Row("TableReader", "root", "none", 1),
                  Row("TableFullScan", "cop[tiflash]", "table:a", 2)>>
TwoRoots == <<Row("TableReader", "root", "none", 0),
              Row("TableFullScan", "cop[tikv]", "table:a", 0)>>

MCPlans == {OnTiKV, OnTiFlash, OnTiFlashCop, TwoRoots}
MCDigestOf == (OnTiKV :> 11) @@ (OnTiFlash :> 12) @@ (OnTiFlashCop :> 13) @@ (TwoRoots :> 14)

SummaryRow(schema, sqlDigest, sql, plan, hint, execCount, execTime) ==
  [schema |-> schema, sqlDigest |-> sqlDigest, sql |-> sql, plan |-> plan,
   planDigest |-> MCDigestOf[plan], hint |-> hint,
   execCount |-> execCount, execTime |-> execTime]

MCSummaryRows ==
  {SummaryRow(1, 11, "q", OnTiKV, "hint", 1, 2),
   SummaryRow(1, 11, "q", OnTiKV, "other", 2, 3),
   SummaryRow(1, 11, "q", OnTiFlash, "none", 1, 4),
   SummaryRow(2, 11, "q", OnTiKV, "hint", 1, 3),
   SummaryRow(1, 12, "r", OnTiFlash, "broken", 1, 1),
   SummaryRow(1, 12, "r", OnTiKV, "none", 1, 1)}

\* An older EXPLAIN of the statement itself, and one of another statement.
MCStaleExplains == {[schema |-> 1, sql |-> "q", plan |-> OnTiFlash, digest |-> 12],
                    [schema |-> 1, sql |-> "r", plan |-> OnTiKV, digest |-> 11]}
=============================================================================
