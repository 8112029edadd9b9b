SPECIFICATION Spec
CONSTANTS
  SummaryRows <- MCSummaryRows
  MaxSummaryRows = 4
  Plans <- MCPlans
  DigestOf <- MCDigestOf
  StaleExplains <- MCStaleExplains
INVARIANTS
  TypeOK
  ReportIsExact
  DigestIsOfTheNewPlan
  LinksLeadToTheirOwnSection
