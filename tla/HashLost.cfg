CONSTANTS
    HEAP_SIZE = 64
    BUMP_SIZE = 6
    SIZE_MOD = 256
    OBJ_COUNT = 3
    Nodes = {a, b, c}
    Anchor = h
    NFRAMES = 5
    WORD = 3
    PAGE = 2
    MAX_HELD = 1
    VirtualX86 <- PagesX86
    VirtualSv32 <- PagesSv32
    Flags <- FlagSets
    NBITS = 5
    BM_WORD = 3
    RIV_BUF_BLOCKS = 2
    Lbas = {1, 2, 3}
    Cpus = {"A", "B"}
    DATA_MAX = 1
    RAMFS_MAX_FILES = 2
    RAMFS_MAX_DATA = 1
    RIV_FILES_MAX = 1
    RIV_MOUNTS_MAX = 2
    RIV_PATH_MAX = 3
    FILE_MOD = 4
    Procs = {p, q}
    Systems = {1}
    MountCalls <- BootMounts
    Paths <- OpenPaths
    MAX_CREATES = 2
    HASH_CAP = 4
    Keys = {ka, kb, kc}
    Vals = {1}
    LongKeys = {}
    CutTo = ka
    RIV_ARP_CACHE_SIZE = 3
    Ips = {1, 2, 3, 4}
    Macs = {7, 8}
    Expiries = {1, 2}
    Sigs = {9, 10, 11}
    MAX_DEPTH = 2
    TICK_MOD = 8
    Periods <- TaskPeriods
    MAX_AGE = 9
    HALF = 4
    CLK_MAX = 9
    Waits = {0, 1, 3}
    TICKS_PER_MS_10 = 15
    RIV_TTY_BUF_SZ = 3
    RING_ROOM = 4
    TtyChars = {"x", "y"}
    KBD_QUEUE = 2
    SHA_BLOCK = 8
    SHA_LEN = 2
    MAX_MESSAGE = 34
    CodecBytes = {0, 62, 191, 255}
    CODEC_MAX = 4
    INT_MOD = 64
    TEXT_BUF = 10
    Formats <- TextFormats
    Strings <- TextStrings
    FB_WIDTH = 3
    FB_HEIGHT = 2
    FB_PITCH = 4
    COORD_MOD = 16
    GLYPH = 2
    Colors = {0, 1}
    Labelled <- SmallFont
    FbStrings <- ShortTexts
    TREE_WORDS = 9
    NameLengths = {0, 4}
    PropLengths = {1, 4}
    Noise = {1, 9}
SPECIFICATION Spec
SYMMETRY Symmetric
CHECK_DEADLOCK FALSE
INVARIANT LookupHits
