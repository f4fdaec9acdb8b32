SPECIFICATION Spec
CONSTANTS
    Byte = {0, 1, 2}
    MagicLo = 1
    MagicHi = 2
    HeaderSize = 4
    MaxPayload = 1
    SAFETY_PROTO_VERSION = 1
    Depth = 1
    Streams <- MCStreams
    MaxCuts = 1
INVARIANTS
    BridgeTransparent
    HostExact
    FirmwareExact
    BuffersBounded
CHECK_DEADLOCK FALSE
