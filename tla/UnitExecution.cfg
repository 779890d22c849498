CONSTANTS
  MaxRuns = 2
  MaxAttempts = 2
  SchemaMax = 1
SPECIFICATION Spec
INVARIANTS
  OutcomeIsBacked
  CallsAreAccountedFor
  RunningIsOwned
PROPERTIES
  ImplementsUnitContract
CHECK_DEADLOCK FALSE
