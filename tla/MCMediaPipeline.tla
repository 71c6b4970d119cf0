--------------------------- MODULE MCMediaPipeline ---------------------------
\* Small graphs for TLC: decoders of one and two streams in both modes, encoders
\* fed by the application, and both nodes on one image.
EXTENDS MediaPipeline

Kind(media, gpu, enc) ==
    [media: {media}, loop: {FALSE}, gpuOutput: {gpu}, encodes: {enc}, gpuInput: {gpu}]

SmallGraphs ==
    Kind(2, FALSE, FALSE) \cup Kind(2, TRUE, FALSE)
        \cup Kind(1, FALSE, TRUE) \cup Kind(1, TRUE, TRUE)
        \cup Kind(0, FALSE, TRUE) \cup Kind(0, TRUE, TRUE)
        \cup {[media |-> 1, loop |-> TRUE, gpuOutput |-> TRUE, encodes |-> FALSE, gpuInput |-> FALSE]}

SmallPictures == [Streams -> -1..MaxCalls + PoolSize]
PoolBuffers == Buffers
================================================================================
