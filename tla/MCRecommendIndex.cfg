SPECIFICATION Spec
CONSTANTS
  SummaryRows <- MCSummaryRows
  MaxSummaryRows = 3
  Advices <- MCAdvices
  MaxAdvices = 2
  MaxResults = 2
INVARIANTS
  TypeOK
  ReportedAreTheSlowest
  SamplesAddUp
  AdviceIsItsOwn
