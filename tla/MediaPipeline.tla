---------------------------- MODULE MediaPipeline ----------------------------
(***************************************************************************)
(* A graph with the media nodes: one that decodes, one that encodes, or    *)
(* both on one image (transcoding).  One application thread executes it,   *)
(* as often as it likes, and releases it.  An execution runs the nodes in  *)
(* order and stops at the first that does not succeed (agoExecuteGraph).   *)
(*                                                                         *)
(* Without a decoder the application draws a new picture into the image    *)
(* before every execution.  The shared state is the image: its pixels in   *)
(* host memory, or the GPU buffer it has and the pool of those buffers.    *)
(***************************************************************************)
EXTENDS MediaDecoder, MediaEncoder

CONSTANTS GraphKinds,    \* the graphs considered: [media, loop, gpuOutput, encodes, gpuInput]
          MaxCalls       \* bound: executions

\* What a released buffer shows is not taken for a picture.
ASSUME PipelineAssumption == NoPicture \notin [Streams -> Nat \cup {NoFrame}]

VARIABLES stage,         \* what the application's thread is in
          calls

vars == <<decoderVars, encoderVars, stage, calls>>

Init ==
    /\ DecoderInit /\ EncoderInit
    /\ [media |-> mediaCount, loop |-> LoopDec, gpuOutput |-> gpuOutput,
        encodes |-> encodes, gpuInput |-> gpuInput] \in GraphKinds
    /\ \A i \in Streams \ Media:     \* the files that are not there: any one will do
          (\A n \in Lengths: length[i] <= n) /\ (\A n \in Delays: delay[i] <= n)
    /\ ~encodes => \A n \in CodecDelays: codecDelay <= n
    /\ stage = "idle" /\ calls = 0

\* What the image shows: in the GPU buffer it has, or to the host.
Picture == IF gpuInput \/ (mediaCount > 0 /\ gpuOutput) THEN mem[buffer] ELSE pixels

\* The GPU buffers as the encoder's thread reads them: it may still have
\* commands when the decoder, the first to be taken down, has released its pool.
Memory == IF Released THEN [b \in Buffers |-> NoPicture] ELSE mem

------------------------------------------------------------------------------
\* vxProcessGraph of a graph with a decoder.
ExecuteDecoder ==
    /\ stage = "idle" /\ calls < MaxCalls
    /\ ProcessFrame
    /\ stage' = "decode" /\ calls' = calls + 1
    /\ UNCHANGED encoderVars

\* The application draws picture number calls, and executes the graph.
DrawAndEncode ==
    /\ stage = "idle" /\ calls < MaxCalls /\ mediaCount = 0
    /\ LET drawing == [i \in Streams |-> calls]
       IN  pixels' = drawing /\ mem' = [mem EXCEPT ![buffer] = drawing]
    /\ EncodeFrame
    /\ stage' = "encode" /\ calls' = calls + 1
    /\ UNCHANGED <<arguments, files, decoding, queues, counts, node, buffer, history>>

DecoderSucceeds ==
    /\ stage = "decode" /\ shows = "out"
    /\ IF encodes
          THEN EncodeFrame /\ stage' = "encode" /\ UNCHANGED decoderVars
          ELSE Shown /\ stage' = "idle" /\ UNCHANGED encoderVars
    /\ UNCHANGED calls

\* Seeded fault: the graph goes on to the next node.
DecoderFailedGoesOn ==
    /\ stage = "decode" /\ shows = "idle"
    /\ IF encodes THEN EncodeFrame /\ stage' = "encode" ELSE UNCHANGED encoderVars /\ stage' = "idle"
    /\ UNCHANGED <<decoderVars, calls>>

DecoderFailed ==
    /\ stage = "decode" /\ shows = "idle"
    /\ stage' = "idle"
    /\ UNCHANGED <<decoderVars, encoderVars, calls>>

\* The encoder's result is the graph's.
EncoderReturns ==
    /\ stage = "encode" /\ takes \in {"idle", "out"}
    /\ IF takes = "out" THEN Accepted ELSE UNCHANGED encoderVars
    /\ IF mediaCount > 0 THEN Shown ELSE UNCHANGED decoderVars
    /\ stage' = "idle"
    /\ UNCHANGED calls

\* vxReleaseGraph: the nodes' deinitializers, in the order of the nodes.
ReleaseDecoder ==
    /\ stage = "idle"
    /\ DecoderClose
    /\ stage' = "release"
    /\ UNCHANGED <<encoderVars, calls>>

ReleaseEncoder ==
    /\ encodes
    /\ (stage = "idle" /\ mediaCount = 0) \/ (stage = "release" /\ shows = "gone")
    /\ EncoderClose
    /\ stage' = "releaseEncoder"
    /\ UNCHANGED <<decoderVars, calls>>

Application ==
    \/ ExecuteDecoder \/ DrawAndEncode
    \/ DecoderSucceeds \/ DecoderFailed \/ EncoderReturns
    \/ ReleaseDecoder \/ ReleaseEncoder

DecoderRuns ==
    /\ DecoderNode \/ \E i \in Media: DecodeLoop(i)
    /\ UNCHANGED <<encoderVars, stage, calls>>

EncoderRuns ==
    /\ encodes
    /\ EncoderNode(Picture, buffer) \/ EncodeLoop(Memory)
    /\ UNCHANGED <<decoderVars, stage, calls>>

Next == Application \/ DecoderRuns \/ EncoderRuns
Spec == Init /\ [][Next]_vars

\* The thread that is inside vxProcessGraph or vxReleaseGraph.
InCall ==
    \/ DecoderNode /\ UNCHANGED <<encoderVars, stage, calls>>
    \/ encodes /\ EncoderNode(Picture, buffer) /\ UNCHANGED <<decoderVars, stage, calls>>
    \/ DecoderSucceeds \/ DecoderFailed \/ EncoderReturns
    \/ stage = "release" /\ ReleaseEncoder

\* The threads run, and the application goes on inside a call.
Fairness ==
    /\ \A i \in Streams: WF_vars(i \in Media /\ DecodeLoop(i) /\ UNCHANGED <<encoderVars, stage, calls>>)
    /\ WF_vars(encodes /\ EncodeLoop(Memory) /\ UNCHANGED <<decoderVars, stage, calls>>)
    /\ WF_vars(InCall)

FairSpec == Spec /\ Fairness

------------------------------------------------------------------------------
TypeOK ==
    /\ DecoderTypeOK /\ EncoderTypeOK
    /\ stage \in {"idle", "decode", "encode", "release", "releaseEncoder"}
    /\ calls \in 0..MaxCalls

\* Transcoding in host mode: the k-th picture of the file is the frame, of every
\* stream, of the encoder's k-th turn, while no node failed half way and no frame
\* was lost.  That is the k-th frame if the codec answers at once; H.264 as the
\* node opens it does not, and repeats and skips frames (Turn).
TranscodedInOrder ==
    (mediaCount > 0 /\ ~gpuInput /\ ~failed /\ ~missed /\ \A i \in Media: ~Silent(i)) =>
        \A k \in 1..Len(file): \E j \in Turn(k): \A i \in Media: file[k][i] = j - 1

\* GPU mode: the encoder's thread reads the buffer after ProcessFrame returned,
\* so the picture it writes may be one that came later than that of its turn,
\* never an older one: until the decoder has released the pool.  Of the pictures
\* that were waiting then, fewer than the pool has entries, any may be anything.
NeverOlder ==
    (gpuInput /\ ~missed) =>
        \A k \in 1..Len(file):
            IF file[k] = NoPicture
               THEN Released /\ Len(submitted) - k < EntryCount - 1
               ELSE \E j \in Turn(k): \A i \in Streams: file[k][i] >= submitted[j][i]

\* A decoder's callback may wait in vain: a thread left a command without an
\* answer, the call follows one that was abandoned, or a call has taken the last
\* word of a stream whose flag of eof was lost.
DecoderMayHang ==
    \/ shows \notin {"idle", "out", "gone"} /\ \E i \in Media: Silent(i)
    \/ shows = "wait" /\ abandoned
    \/ shows \in {"drain", "take"} /\ abandoned /\ forgot

\* An encoder's: the thread ended without a word, or the call follows one that
\* was refused or has kept its entry.
EncoderMayHang ==
    \/ takes \notin {"idle", "out", "gone"} /\ EncoderSilent
    \/ takes = "wait" /\ (refused \/ missed)

\* vxProcessGraph returns: with its frame and its entry, or with the news that
\* there is none.
CallsReturn ==
    stage \in {"decode", "encode"} ~> (stage = "idle" \/ DecoderMayHang \/ EncoderMayHang)

\* vxReleaseGraph returns, whatever the threads of both nodes were doing.
DestructorsReturn ==
    stage \in {"release", "releaseEncoder"} ~>
        \/ (mediaCount = 0 \/ shows = "gone") /\ (encodes => takes = "gone")
        \/ DecoderMayHang \/ EncoderMayHang
================================================================================
