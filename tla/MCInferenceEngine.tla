--------------------------- MODULE MCInferenceEngine ---------------------------
\* Small sessions for TLC: one device whose buffers are used again, two devices
\* that share the queues of results, and a client who names an empty file.
EXTENDS InferenceEngine

SmallRequests ==
    [GPUs: {1}, mode: {"top1"}, imageCount: {5}, empty: {{}, {3}}]
        \cup [GPUs: {1}, mode: {"topk", "bb"}, imageCount: {0, 3}, empty: {{}}]
        \cup [GPUs: {2}, mode: {"top1"}, imageCount: {3}, empty: {{}, {1}}]
================================================================================
