SPECIFICATION FairProgramsSpec
CONSTANTS
    DATA_BLOCK_SIZE = 2
    DENTRY_NAME_LEN = 2
    Bytes <- MCBytes
    inodes <- MCInodes
    data <- MCData
    dentries <- MCDentries
    Names <- MCNames
    n_inodes = 4
    n_blocks = 3
    Pids = {0, 1}
    MAX_FILE_DESCRIPTORS = 5
    Counts = {0, 1, 2, 3}
    BUFSIZE = 3
    Sessions <- MCSessions
    Installed <- MCInstalled
    NL <- MCNL
    NUL <- MCNUL
    Junk = {1, 10}
    Dotted <- MCDotted
    Pointers = {null, kernel, user}
    UserPage = {user}
    Absent <- MCAbsent
    CELLS = 12
    SLOTS = 12
    Structs = {}
    Locations = {}
    COLUMNS = 4
    OFFSET = 1
    WAIT = 3
    EXTRA = 4
    LENGTH = 2
    EXTRA_ON = 1
    EXTRA_OFF = 2
    INT_SIZE = 2
    Frames <- MCFrames
    NEWLINE <- MCNL
    BLANK = 32
INVARIANTS
    CopyIsPrefix
    CatPrintsFile
PROPERTIES
    ShellComesBack
