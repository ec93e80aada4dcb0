SPECIFICATION Spec
CONSTANTS
  None = None
  Inputs <- AnyInputs
  Fine = 3
  One = 2
  MaxNumeric = 20
  MaxInt = 50
  MaxPlan = 5
  MaxRationale = 500
INVARIANTS  OutcomeTrue 
CHECK_DEADLOCK FALSE
