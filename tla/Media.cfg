\* Decoders of one and two streams, encoders, and both: every file length, codec delay and fault.
CONSTANTS
    MaxMedia = 2
    PoolSize = 2
    Lengths = {1, 2}
    Delays = {0, 1}
    DecoderFaults = {"read", "send", "receive", "store", "aux", "tell", "convert"}
    WordBits = 64
    EntryCount = 3
    Pictures <- SmallPictures
    GPUBuffers <- PoolBuffers
    NoPicture = NoPicture
    NoBuffer = NoBuffer
    CodecDelays = {0, 1, 2}
    EncoderFaults = {"convert", "update", "aux", "packet", "fetch", "encode", "flush"}
    GraphKinds <- SmallGraphs
    MaxCalls = 4
SPECIFICATION FairSpec
INVARIANT BufferIsStable
INVARIANT ShowsInStep
INVARIANT NothingDropped
INVARIANT EntryIsFree
INVARIANT FileInOrder
INVARIANT DelayedAreWritten
INVARIANT TranscodedInOrder
INVARIANT NeverOlder
PROPERTY EndIsFinal
PROPERTY CallsReturn
PROPERTY DestructorsReturn
\* The application may stop calling; a thread may be gone without a word.
CHECK_DEADLOCK FALSE
