SPECIFICATION CveFairSpec
CONSTANTS
    Deps = {"d1", "d2"}
    Advisories = {"ghsa", "pysec", "osv"}
    AffectedBy <- MCAffectedBy
    Cves = {"cve"}
    CveOf <- MCCveOf
    NoCve = "noCve"
    VectorOf <- MCVectorOf
    NoVector = NoVector
    DbSeverityOf <- MCDbSeverityOf
    NoSeverity = "noSeverity"
    NoRecord = NoRecord
    Pollers = {"daemon", "cli"}
    Daemons = {"daemon"}
    MaxEvents = 2
CHECK_DEADLOCK FALSE
INVARIANTS
    LinksGrounded
    PollLinksAll
PROPERTY DaemonLinksAll
