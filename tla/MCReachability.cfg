CONSTANTS
    a = a
    b = b
    t = t
    handler = handler
    target = target
    e1 = e1
    e2 = e2
    v1 = v1
    v2 = v2
    Functions = {a, b, t}
    Names = {handler, target}
    NameOf <- MCNameOf
    Endpoints = {e1, e2}
    CodeHandlers <- MCCodeHandlers
    CodeCalls <- MCCodeCalls
    Vulns = {v1, v2}
    Advisories <- MCAdvisories
    Depth = 2
    RowLimit = 2
    MaxChanges = 2
SPECIFICATION Spec
INVARIANTS
    TypeOK
    ExactLabels
    LabelsGrounded
PROPERTY
    RunLabelsAll
