\* Min/max responses against the documents the search ran on.
CONSTANTS
    NNodes = 2
    CpuValues = {10, 20}
    MaxDocs = 3
    NReqs = 2
    SearchMayFail = TRUE
SPECIFICATION Spec
INVARIANT ExtremumOwnerHoldsValue
CHECK_DEADLOCK FALSE
