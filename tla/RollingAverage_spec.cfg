\* One node, the code's window of 5, two samples: the scenario of spec 8.
CONSTANTS
    NNodes = 1
    MaxTime = 3
    Interval = 2
    Window = 5
    CpuValues = {10, 20}
    MaxDocs = 2
    SearchMayFail = FALSE
SPECIFICATION Spec
INVARIANT MovingAvgMatchesSpec
