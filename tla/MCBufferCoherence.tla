--------------------------- MODULE MCBufferCoherence ---------------------------
\* Small graphs for TLC over the data a, b and c.
EXTENDS BufferCoherence

CONSTANTS a, b, c

Step(device, level, reads, writes) ==
    [device |-> device, level |-> level, reads |-> reads, writes |-> writes]

ThreeData == {a, b, c}
OnlyB == {b}
SmallGraphs ==
    { <<Step("cpu", 1, {a}, {b})>>, <<Step("gpu", 1, {b}, {c})>>,
      <<Step("gpu", 1, {a}, {b}), Step("cpu", 2, {b}, {c})>>,
      <<Step("cpu", 1, {a}, {b}), Step("gpu", 2, {b}, {c}), Step("cpu", 2, {b}, {})>>,
      <<Step("gpu", 1, {a}, {b}), Step("access", 2, {b}, {c}), Step("cpu", 3, {c}, {})>> }
================================================================================
