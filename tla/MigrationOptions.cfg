SPECIFICATION Spec
CONSTANTS
    root = root
    sub = sub
    a = a
    b = b
    x = x
    y = y
    NoFile = NoFile
    InvalidFile = InvalidFile
    NoName = NoName
    Files <- MCFiles
    Dirs <- MCDirs
    RootFile = root
    HasHandle = {root, sub, a}
    HardLinked = {a}
    Names <- MCNames
    Fresh = {b}
    Setups <- PlainSetup
    MaxInode = 7
INVARIANT OptionsArrive
