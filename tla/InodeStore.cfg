SPECIFICATION Spec
CONSTANTS
    Files <- MCFiles
    RootFile = root
    NoFile = NoFile
    Ids <- MCIds
    IdsOf <- MCIdsOf
    HasHandle <- MCHasHandle
    Deletable = {a, b}
    Gone <- MCGone
    Threads = {t1, t2}
    t1 = t1  t2 = t2
    MaxInode = 3
    MaxGuestRefs = 1
    root = root  a = a  a2 = a2  b = b  b2 = b2
    i0 = i0  i1 = i1  i2 = i2
SYMMETRY ThreadSymmetry
INVARIANTS
    TypeOK
    IndexSound
    RefAccounting
    LiveWhileReferenced
    OneIdPerFile
    LookupIdentity
