SPECIFICATION Spec
CONSTANTS
    Names = {"card", "note"}
    Decls = {"card1", "note1", "note2"}
    FileOf <- MCFileOf
    NameOf <- MCNameOf
    WriterOf <- MCWriterOf
    Functions = {"g"}
    Endpoints = {"e"}
    Types = {"CREDIT_CARD", "ADDRESS"}
    NameType <- MCNameType
    ContextType <- MCContextType
    NoType = "clean"
    Scopes = {"PCI"}
    ScopesOf <- MCScopesOf
    NameScopes = {}
    Markers <- MCMarkers
    CodeqlFlows <- MCCodeqlFlows
    RowLimit = 1
    Annotators = {"cli"}
    WithRepo = {"cli"}
    Taints = {t1, t2}
    MaxEvents = 4
SYMMETRY MCSymmetry
CHECK_DEADLOCK FALSE
INVARIANTS
    TypeOK
    NeverBoth
    FlowsStayFlagged
    ScanMarksTellingNames
    
