SPECIFICATION Spec
CONSTANTS
    f1 = f1
    f2 = f2
    t1 = t1
    t2 = t2
    NoFile = NoFile
    Files <- MCFiles
    Names = {"nm"}
    HasHandle <- MCHasHandle
    Threads = {t1, t2}
    Limit = 2
    MaxInode = 3
    MaxHandle = 2
    MaxRefs = 2
INVARIANT
    LeaksBelongToGuest
