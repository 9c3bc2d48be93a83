\* Three executions under each of the four policies.
SPECIFICATION Spec
CONSTANTS
  Executions = {e1, e2, e3}
  Nobody = Nobody
SYMMETRY ExecutionSymmetry
INVARIANTS SlotIsLatest AloneIsReached ReasonTrue 
CHECK_DEADLOCK FALSE
