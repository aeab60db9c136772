SPECIFICATION Spec
CONSTANTS
    good = good
    once = once
    given = given
    c1 = c1
    c2 = c2
    e1 = e1
    f1 = f1
    f2 = f2
    Null = Null
    BadEnv = BadEnv
    Default = Default
    Versions = {good, once}
    Components = {given, Default}
    Cases = {c1, c2}
    Envs = {e1}
    Frames = {f1, f2}
    MaxSteps = 2
    Traces <- MCTraces
    Answers <- MCAnswers
    Tests <- MCTests
    MaxRuns = 3
    MaxEdits = 1
INVARIANTS
    VerdictOfReducer
    RegressComplete
    RegressionKeepsFailing
