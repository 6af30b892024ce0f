SPECIFICATION Spec
CONSTANTS
    a = a
    b = b
    OutPaths = {a, b}
    Operations = {"switch", "boot", "test", "null"}
    KernelOf <- KernelOfEach
    UnitOf <- UnitOfEach
    NoHash = NoHash
    BootEntryCapacity = 1
    SuccessfulCapacity = 2
    AnyCapacity = 2
    MaxDeployments = 3
SYMMETRY PathSymmetry
INVARIANTS TypeOK UnderWayIsStored RunningSystemIsKept BootEntriesAreKept RecentAreKept RunsCurrentUnit RebootIsKnown
PROPERTIES BootedProfileIsKept
