SPECIFICATION TablesSpec
CONSTANTS
    f1 = f1
    f2 = f2
    t1 = t1
    t2 = t2
    NoFile = NoFile
    Files <- MCFiles
    Names = {"nm"}
    HasHandle <- MCHasHandle
    Threads = {t1, t2}
    Limit = 2
    MaxInode = 3
    MaxHandle = 2
    MaxRefs = 2
    m1 = m1  m2 = m2  x1 = x1  x2 = x2  x3 = x3  x4 = x4
    NoFd = NoFd
    Mounts <- MCMounts
    Fds <- MCFds
    Openers = {t1, t2}
    MaxStrong = 2
SYMMETRY DescriptorSymmetry
INVARIANTS
    TypeOK
    SlotAccounting
    OneFdPerMount
    NoDeadEntry
PROPERTY
    HandleStable
