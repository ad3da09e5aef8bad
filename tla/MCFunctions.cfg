CONSTANTS
    http_methods <- Methods
    MAX_DEFRAG_PIECES = 128
    UDP_MAX_REASM = 16384
    WordBits = 6
    WideBits = 4
    IntegerSizes = {3, 6}
    MaxTerms = 3
    WrongSums = {0, 1, 4660, 65535}
    ByteBits = 2
    WireBytes = 3
    MAX_THRESH = 2
    AddrBits = 4
    Width <- Widths
    Lines <- ListLines
    MaxLines = 3
    Contents <- ListContents
    Includes = 2
    Excludes = 1
    Proto = {"p", "q"}
    PayloadType = {"p", "q"}
    Identifier = {"f", "a", "b", "c"}
    IpsetFile = {"l"}
    GzipFile = {"z"}
    FileSize <- Sizes
    MAX_BLOB_SIZE = 4
    MAX_GIDS = 1
    MaxOptions <- OptionCounts
SPECIFICATION Spec
INVARIANTS
    MessagesAreRead DatagramsAreRead PacketArrives
    NumbersHold ListedIsCovered ListsDecide OptionsAreMeant
CHECK_DEADLOCK FALSE
