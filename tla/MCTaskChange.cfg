SPECIFICATION Spec
CONSTANTS
  SummaryRows <- MCSummaryRows
  MaxSummaryRows = 3
  Plans <- MCPlans
  DigestOf <- MCDigestOf
  StaleExplains <- MCStaleExplains
INVARIANTS
  EveryTaskChangeIsReported
