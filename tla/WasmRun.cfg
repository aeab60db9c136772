SPECIFICATION Spec
CONSTANTS
    p1 = p1
    p2 = p2
    i1 = i1
    f1 = f1
    None = None
    Procs = {p1, p2}
    Inputs = {i1}
    Paths = {f1}
    Builds <- MCBuilds
    Commands <- MCCommands
SYMMETRY Symmetry
INVARIANTS
    SuccessDelivered
    FailureRecorded
    BundleUsable
    BundlesKeepModule
