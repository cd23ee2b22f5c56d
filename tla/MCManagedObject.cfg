SPECIFICATION Spec
CONSTANTS
  Grace = 2
  MaxClock = 11
  Absent = Absent
  Finalizers = {x, y, z}
  ManagementPolicies = {"default", "observe", "observe-create-update", "observe-delete", "misspelt"}
  DeletionPolicies = {"delete", "orphan", "misspelt"}
  MaxConditions = 2
  MaxMappings = 3
INVARIANTS
  TypeOK
  RemovalIsExact
  PoliciesAgree
  SummaryIsExact
  ConditionsAreKept
  FailureIsLocal
