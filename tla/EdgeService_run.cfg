SPECIFICATION LiveSpec
INVARIANTS
  TypeOK
  OutageCovered
  SourcesStayForMidnight
PROPERTIES
  StopFinishes
  RestartClosesStorageGap
