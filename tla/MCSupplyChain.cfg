SPECIFICATION Spec
CONSTANTS
    Deps = {"a", "b", "unversioned"}
    Images = {"i1", "i2"}
    ComponentsOf <- MCComponentsOf
    Versioned = {"a", "b"}
    Sboms = {s1, s2}
    MaxBuilds = 4
    Advisories = {"ghsa", "osv"}
    AffectedBy <- MCAffectedBy
    Cves = {}
    CveOf <- MCCveOf
    NoCve = "noCve"
    VectorOf <- MCVectorOf
    NoVector = NoVector
    DbSeverityOf <- MCDbSeverityOf
    NoSeverity = "noSeverity"
    NoRecord = NoRecord
    Pollers = {"cli"}
    Daemons = {}
    MaxEvents = 2
SYMMETRY MCSymmetry
CHECK_DEADLOCK FALSE
INVARIANTS
    TypeOK
    SavedDigestIsIngested
    VettedImagesLinked
