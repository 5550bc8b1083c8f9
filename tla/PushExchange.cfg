SPECIFICATION Spec
CONSTANTS
    a = a  b = b  f = f  g = g  t1 = t1  t2 = t2
    NoName = NoName  NoFile = NoFile  NoInode = 0
    Names <- MCNames
    Files <- MCFiles
    Inodes <- MCInodes
    Canonical = TRUE
    Renames = {"EXCHANGE"}
    Threads <- MCThreads
    MaxInode = 3
    Buffers = 2
    Setups <- ExchangeSetups
SYMMETRY ThreadSymmetry
CONSTRAINT NothingLost
INVARIANTS DentriesIndexed
