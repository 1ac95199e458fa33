CONSTANTS
    Instance = {i1, i2}
    Nobody = Nobody
    MaxQuarantine = 2
    MaxVersion = 3
    MaxDamages = 2
SPECIFICATION Spec
INVARIANTS
    AckedIsDurable
    UnreadableBytesSurvive
PROPERTIES
    ImplementsAtomicStore
    VersionsNeverDecrease
