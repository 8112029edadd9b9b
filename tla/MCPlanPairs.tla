----------------------------- MODULE MCPlanPairs ----------------------------
EXTENDS PlanPairs

MCRoots == {Row("Projection", "root", "none", 0)}

\* Two scans that differ in their task and a reader that comes after both: a
\* change of the one can hide a change of the other.
MCRows == {Row("TableFullScan", "cop[tikv]", "table:a", 0),
           Row("TableFullScan", "mpp[tiflash]", "table:a", 0),
           Row("TableReader", "mpp[tiflash]", "table:a", 0),
           Row("IndexReader", "cop[tikv]", "table:b", 0),
           Row("Selection", "cop[tikv]", "none", 0)}
=============================================================================
