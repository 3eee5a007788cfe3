\* Every check of the Boot Analyzer over every way its facts can be read, and the
\* Services page over every way its machines can be read.
CONSTANTS
    kernel = kernel
    initramfs = initramfs
    unit = unit
    NoFile = NoFile
    Paths <- MCPaths
    KernelPaths <- MCKernelPaths
    InitramfsPaths <- MCInitramfsPaths
    Snapshots <- MCSnapshots
    Edited = {"kexec", "journal_errors"}
    MaxEdits = 3
    AllNames <- MCNames
    Templates <- MCTemplates
    TemplateOf <- MCTemplateOf
    PathOrder <- MCPathOrder
    Chunk = 2
    Machines <- MCMachines
    MaxTurns = 1
SPECIFICATION MCSpec
INVARIANTS
    PassesAreEarned
    PresetsAreOrdered
    ReportFollowsProfile
    ListFollowsPicker
    ListIsEarned
CHECK_DEADLOCK FALSE
