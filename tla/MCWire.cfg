SPECIFICATION Spec
CONSTANTS
    Scripts <- MCScripts
    MAX_FRAME <- MCMaxFrame
    MAX_DEPTH = 4
    BUF_CAP <- MCBufCap
    RECV_CHUNK <- MCRecvChunk
    Payload <- Encoded
    Handle <- Handled
    IsSwitch <- Switches
    Compress <- Deflate
    Uncompress <- Inflate
    Right <- CameOut
INVARIANTS Faithful NoneWaits
PROPERTIES ImplementsStream Delivered
CHECK_DEADLOCK FALSE
