SPECIFICATION Spec
CONSTANTS
    c1 = c1
    i1 = i1
    i2 = i2
    a1 = a1
    p1 = p1
    Components = {c1}
    Missing = Missing
    Inputs = {i1, i2}
    Args = {a1}
    Paths = {p1}
    None = None
    Invalid = Invalid
    Commands <- MCCommands
    Lines = {"text", "unlisted", "data"}
    OutputCap = 1
    ScanCap = 1
    MaxRuns = 2
INVARIANTS
    SuccessDelivered
    FailureRecorded
    BundleOfThisRun
    OverflowReported
