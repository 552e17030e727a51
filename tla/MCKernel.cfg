SPECIFICATION Spec
CONSTANTS
    h1 = h1
    a1 = a1
    a2 = a2
    a3 = a3
    idem = idem
    r1 = r1
    k1 = k1
    k2 = k2
    d1 = d1
    d2 = d2
    c1 = c1
    c2 = c2
    x1 = x1
    Humans = {h1}
    Agents = {a1, a2, a3}
    Keys = {idem}
    Once = Once
    MaxDepth = 1
    MaxNonTerminal = 1
    Circumstances <- KernelCircumstances
    Runs = {r1}
    ReportKeys = {k1, k2}
    Contents = {d1, d2}
    Calls = {c1, c2}
    Readers = {x1}
    MaxActivations = 2
    MaxRevision = 3
    MaxCrashes = 1
SYMMETRY Symmetry
INVARIANTS
    CollaborationSafety
    ReportSafety
PROPERTIES
    StepsKeepAuthority
    RegisterSpec
CHECK_DEADLOCK FALSE
