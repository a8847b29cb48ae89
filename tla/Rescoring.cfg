SPECIFICATION RescoringSpec
CONSTANTS
  CveIds = {"a", "b"}
  CveLists <- MCCveLists
  CvssValues = {0, 98}
  EpssValues = {29, 30, 94}
INVARIANTS
  RescoringTypeOK
  BreakdownExplainsTheScore
  ReportAgreesWithTicket
PROPERTIES
  EscalationIsNeverRewarded
\* A finding scored worst in every dimension cannot get worse.
CHECK_DEADLOCK FALSE
