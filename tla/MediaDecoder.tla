----------------------------- MODULE MediaDecoder -----------------------------
(***************************************************************************)
(* The node com.amd.amd_media.decode: every media stream has a thread that *)
(* decodes a frame per command and acknowledges it; ProcessFrame waits for *)
(* one acknowledgement of every stream, orders the next frames and shows   *)
(* the ones that are ready, one below the other in the output image.       *)
(*                                                                         *)
(* A frame is its number in the stream.  In GPU mode the threads write the *)
(* frames into a pool of buffers and ProcessFrame only tells the image     *)
(* which buffer it has; in host mode frames pass through queueFrames.      *)
(* The file and the codec (FFmpeg) are external: a file has a length, and  *)
(* a codec holds back up to "delay" packets before it yields a frame.      *)
(***************************************************************************)
EXTENDS Integers, Sequences

CONSTANTS MaxMedia,      \* bound: streams of a node
          PoolSize,      \* DECODE_BUFFER_POOL_SIZE
          Lengths,       \* bound: packets of a file
          Delays,        \* bound: packets a codec holds back
          WordBits,      \* the flags that a word of std::vector<bool> holds
          DecoderFaults  \* the calls of FFmpeg and the GPU that may fail

Streams == 1..MaxMedia
Buffers == 0..PoolSize - 1

ASSUME DecoderAssumption ==
    /\ MaxMedia \in Nat
    /\ PoolSize \in Nat \ {0, 1}       \* "keep it atleast 2"
    /\ Lengths \subseteq Nat \ {0}
    /\ Delays \subseteq Nat
    /\ WordBits \in Nat \ {0}
    /\ DecoderFaults \subseteq {"read", "send", "receive", "store", "aux", "tell", "convert"}

VARIABLES
    mediaCount, gpuOutput, LoopDec,   \* arguments of the node; 0 streams: no such node
    length, delay,         \* of the files and their codecs
    position, held, received,         \* packets read, packets in the codec, frames out of it
    decoding,              \* where each thread of DecodeLoop is
    queueCmd, queueAck, queueFrames, eof, decodeFrameCount,
    word,                  \* what a thread that sets its flag has read of eof
    shows,                 \* where the node's callbacks are
    mediaIndex, outputFrameCount,
    pixels,                \* the output image in host memory, by stream
    buffer,                \* the buffer of the output image, in GPU mode
    mem,                   \* the pool
    shown,                 \* history: calls that succeeded
    abandoned, failed,     \* history: a call was abandoned, or failed half way
    forgot                 \* history: a flag of eof was lost

arguments == <<mediaCount, gpuOutput, LoopDec, length, delay>>
files == <<position, held, received>>
queues == <<queueCmd, queueAck, queueFrames>>
counts == <<eof, word, decodeFrameCount>>
image == <<pixels, buffer, mem>>
node == <<shows, mediaIndex, outputFrameCount>>
history == <<shown, abandoned, failed, forgot>>
decoderVars == <<arguments, files, decoding, queues, counts, node, image, history>>

Media == 1..mediaCount
NoFrame == -1
NoFlags == [i \in Streams |-> FALSE]

\* Initialize: the threads run, and the first frames are ordered.
DecoderInit ==
    /\ mediaCount \in 0..MaxMedia
    /\ gpuOutput \in BOOLEAN /\ LoopDec \in BOOLEAN
    /\ length \in [Streams -> Lengths] /\ delay \in [Streams -> Delays]
    /\ position = [i \in Streams |-> 0]
    /\ held = [i \in Streams |-> 0]
    /\ received = [i \in Streams |-> 0]
    /\ decoding = [i \in Streams |-> "pop"]
    /\ queueCmd = [i \in Streams |-> [k \in 1..PoolSize - 1 |-> "decode"]]
    /\ queueAck = [i \in Streams |-> <<>>]
    /\ queueFrames = [i \in Streams |-> <<>>]
    /\ eof = NoFlags
    /\ word = [i \in Streams |-> NoFlags]
    /\ decodeFrameCount = [i \in Streams |-> 0]
    /\ shows = "idle" /\ mediaIndex = 1 /\ outputFrameCount = 0
    /\ pixels = [i \in Streams |-> NoFrame]
    /\ buffer = 0
    /\ mem = [b \in Buffers |-> [i \in Streams |-> NoFrame]]
    /\ shown = 0 /\ abandoned = FALSE /\ failed = FALSE /\ forgot = FALSE

Push(queue, i, x) == [queue EXCEPT ![i] = Append(@, x)]
Pop(queue, i) == [queue EXCEPT ![i] = Tail(@)]

------------------------------------------------------------------------------
\* DecodeLoop, the thread of stream i
At(i, label) == decoding[i] = label
GoesTo(i, label) == decoding' = [decoding EXCEPT ![i] = label]

PopCommand(i) ==
    /\ At(i, "pop") /\ queueCmd[i] # <<>>
    /\ GoesTo(i, IF Head(queueCmd[i]) = "decode" THEN "read" ELSE "stop")
    /\ queueCmd' = Pop(queueCmd, i)
    /\ UNCHANGED <<arguments, files, queueAck, queueFrames, counts, node, image, history>>

\* av_read_frame found a packet of the video stream, and the codec took it.
ReadPacket(i) ==
    /\ At(i, "read") /\ position[i] < length[i]
    /\ position' = [position EXCEPT ![i] = @ + 1]
    /\ held' = [held EXCEPT ![i] = @ + 1]
    /\ GoesTo(i, "receive")
    /\ UNCHANGED <<arguments, received, queues, counts, node, image, history>>

\* The file is read again from its beginning.
SeekStart(i) ==
    /\ At(i, "read") /\ position[i] = length[i] /\ LoopDec
    /\ position' = [position EXCEPT ![i] = 0]
    /\ UNCHANGED <<arguments, held, received, decoding, queues, counts, node, image, history>>

\* The end, or an error of av_read_frame.  What the codec still holds is
\* flushed (avcodec_send_packet) but never received.
ReadEnds(i) ==
    /\ At(i, "read")
    /\ (position[i] = length[i] /\ ~LoopDec) \/ "read" \in DecoderFaults
    /\ GoesTo(i, "stop")
    /\ UNCHANGED <<arguments, files, queues, counts, node, image, history>>

\* avcodec_send_packet or av_frame_alloc fails: the thread ends, and says so
\* to nobody.
SendFails(i) ==
    /\ At(i, "read") /\ position[i] < length[i]
    /\ "send" \in DecoderFaults
    /\ position' = [position EXCEPT ![i] = @ + 1]
    /\ GoesTo(i, "quit")
    /\ UNCHANGED <<arguments, held, received, queues, counts, node, image, history>>

\* EAGAIN: the codec needs another packet.
ReceiveAgain(i) ==
    /\ At(i, "receive") /\ held[i] <= delay[i]
    /\ GoesTo(i, "read")
    /\ UNCHANGED <<arguments, files, queues, counts, node, image, history>>

ReceiveFrame(i) ==
    /\ At(i, "receive") /\ held[i] > delay[i]
    /\ held' = [held EXCEPT ![i] = @ - 1]
    /\ received' = [received EXCEPT ![i] = @ + 1]
    /\ GoesTo(i, "store")
    /\ UNCHANGED <<arguments, position, queues, counts, node, image, history>>

\* avcodec_receive_frame, or the transfer from the video hardware, fails.
ReceiveFails(i) ==
    /\ At(i, "receive") /\ "receive" \in DecoderFaults
    /\ GoesTo(i, "stop")
    /\ UNCHANGED <<arguments, files, queues, counts, node, image, history>>

\* Seeded fault: the thread fills the buffer that ProcessFrame shows next.
FilledByOutput(i) == outputFrameCount % PoolSize

Filled(i) == decodeFrameCount[i] % PoolSize

\* While the thread is here it fills its slice of a buffer (GPU mode).
StoreFrame(i) ==
    /\ At(i, "store")
    /\ IF gpuOutput
          THEN /\ mem' = [mem EXCEPT ![Filled(i)][i] = received[i] - 1]
               /\ UNCHANGED queueFrames
          ELSE /\ queueFrames' = Push(queueFrames, i, received[i] - 1)
               /\ UNCHANGED mem
    /\ GoesTo(i, "ack")
    /\ UNCHANGED <<arguments, files, queueCmd, queueAck, counts, node, pixels, buffer, history>>

\* Mapping, converting or copying fails: the command stays unanswered.
StoreFails(i) ==
    /\ At(i, "store") /\ gpuOutput
    /\ "store" \in DecoderFaults
    /\ GoesTo(i, "pop")
    /\ UNCHANGED <<arguments, files, queues, counts, node, image, history>>

\* Seeded fault: a frame that was counted is not acknowledged.
AckFrameQuiet(i) ==
    /\ At(i, "ack")
    /\ decodeFrameCount' = [decodeFrameCount EXCEPT ![i] = @ + 1]
    /\ GoesTo(i, "pop")
    /\ UNCHANGED <<arguments, files, queues, eof, word, node, image, history>>

AckFrame(i) ==
    /\ At(i, "ack")
    /\ decodeFrameCount' = [decodeFrameCount EXCEPT ![i] = @ + 1]
    /\ queueAck' = Push(queueAck, i, 0)
    /\ GoesTo(i, "pop")
    /\ UNCHANGED <<arguments, files, queueCmd, queueFrames, eof, word, node, image, history>>

\* eof is a std::vector<bool>: to set its flag the thread reads the word that
\* holds it, and writes back the word with the flag set.  No lock is held.
SameWord(i, j) == (i - 1) \div WordBits = (j - 1) \div WordBits

ReadEof(i) ==
    /\ At(i, "stop")
    /\ word' = [word EXCEPT ![i] = eof]
    /\ GoesTo(i, "mark")
    /\ UNCHANGED <<arguments, files, queues, eof, decodeFrameCount, node, image, history>>

\* The flag that another thread has set meanwhile is lost.
MarkEof(i) ==
    /\ At(i, "mark")
    /\ eof' = [j \in Streams |-> j = i \/ (IF SameWord(i, j) THEN word[i][j] ELSE eof[j])]
    /\ forgot' = (forgot \/ \E j \in Streams \ {i}: SameWord(i, j) /\ eof[j] /\ ~word[i][j])
    /\ word' = [word EXCEPT ![i] = NoFlags]
    /\ GoesTo(i, "tell")
    /\ UNCHANGED <<arguments, files, queues, decodeFrameCount, node, image, shown, abandoned, failed>>

AckEnd(i) ==
    /\ At(i, "tell")
    /\ queueAck' = Push(queueAck, i, -1)
    /\ GoesTo(i, "exit")
    /\ UNCHANGED <<arguments, files, queueCmd, queueFrames, counts, node, image, history>>

DecodeLoop(i) ==
    \/ PopCommand(i)
    \/ ReadPacket(i) \/ SeekStart(i) \/ ReadEnds(i) \/ SendFails(i)
    \/ ReceiveAgain(i) \/ ReceiveFrame(i) \/ ReceiveFails(i)
    \/ StoreFrame(i) \/ StoreFails(i) \/ AckFrame(i)
    \/ ReadEof(i) \/ MarkEof(i) \/ AckEnd(i)

------------------------------------------------------------------------------
\* ProcessFrame.  A call ends with shows = "idle", or "out" when it succeeded:
\* the graph then goes on to its next node.
NextStream(label, after) ==
    IF mediaIndex < mediaCount
       THEN shows' = label /\ mediaIndex' = mediaIndex + 1
       ELSE shows' = after /\ mediaIndex' = 1

ProcessFrame ==
    /\ shows = "idle" /\ mediaCount > 0
    /\ shows' = "wait" /\ mediaIndex' = 1
    /\ UNCHANGED <<arguments, files, decoding, queues, counts, outputFrameCount, image, history>>

StreamEnded == Head(queueAck[mediaIndex]) < 0 \/ eof[mediaIndex]

\* Seeded fault: the call is abandoned when the frame is not ready.
PopAckPolls ==
    /\ shows = "wait"
    /\ IF queueAck[mediaIndex] = <<>> \/ StreamEnded
          THEN /\ shows' = "idle" /\ abandoned' = TRUE
               /\ UNCHANGED <<mediaIndex, queueAck>>
          ELSE /\ NextStream("wait", "order")
               /\ queueAck' = Pop(queueAck, mediaIndex)
               /\ UNCHANGED abandoned
    /\ UNCHANGED <<arguments, files, decoding, queueCmd, queueFrames, counts, outputFrameCount, image, shown, failed, forgot>>

\* PopAck of one stream.  VX_ERROR_GRAPH_ABANDONED when the stream has ended:
\* the acknowledgements of the streams before it have been taken by then.
PopAck ==
    /\ shows = "wait" /\ queueAck[mediaIndex] # <<>>
    /\ queueAck' = Pop(queueAck, mediaIndex)
    /\ IF StreamEnded
          THEN /\ shows' = "idle" /\ abandoned' = TRUE
               /\ UNCHANGED mediaIndex
          ELSE /\ NextStream("wait", "order")
               /\ UNCHANGED abandoned
    /\ UNCHANGED <<arguments, files, decoding, queueCmd, queueFrames, counts, outputFrameCount, image, shown, failed, forgot>>

\* Seeded fault: two frames are ordered ahead.
OrderTwice ==
    /\ shows = "order"
    /\ queueCmd' = [queueCmd EXCEPT ![mediaIndex] = @ \o <<"decode", "decode">>]
    /\ NextStream("order", IF gpuOutput THEN "tell" ELSE "copy")
    /\ UNCHANGED <<arguments, files, decoding, queueAck, queueFrames, counts, outputFrameCount, image, history>>

OrderFrame ==
    /\ shows = "order"
    /\ queueCmd' = Push(queueCmd, mediaIndex, "decode")
    /\ NextStream("order", IF gpuOutput THEN "tell" ELSE "copy")
    /\ UNCHANGED <<arguments, files, decoding, queueAck, queueFrames, counts, outputFrameCount, image, history>>

\* The auxiliary data does not fit: VX_FAILURE, with a frame of every stream
\* acknowledged, the next one ordered and none shown.
AuxFails ==
    /\ shows \in {"tell", "copy"} /\ mediaIndex = 1
    /\ "aux" \in DecoderFaults
    /\ shows' = "idle" /\ failed' = TRUE
    /\ UNCHANGED <<arguments, files, decoding, queues, counts, mediaIndex, outputFrameCount, image, shown, abandoned, forgot>>

\* Seeded fault: the count is used without the size of the pool.
TellBufferRaw ==
    /\ shows = "tell"
    /\ buffer' = outputFrameCount
    /\ outputFrameCount' = outputFrameCount + 1
    /\ shown' = shown + 1
    /\ shows' = "out"
    /\ UNCHANGED <<arguments, files, decoding, queues, counts, mediaIndex, pixels, mem, abandoned, failed, forgot>>

TellBuffer ==
    /\ shows = "tell"
    /\ buffer' = outputFrameCount % PoolSize
    /\ outputFrameCount' = outputFrameCount + 1
    /\ shown' = shown + 1
    /\ shows' = "out"
    /\ UNCHANGED <<arguments, files, decoding, queues, counts, mediaIndex, pixels, mem, abandoned, failed, forgot>>

\* vxSetImageAttribute fails: VX_FAILURE, and the frame is counted.
TellFails ==
    /\ shows = "tell" /\ "tell" \in DecoderFaults
    /\ outputFrameCount' = outputFrameCount + 1
    /\ shows' = "idle" /\ failed' = TRUE
    /\ UNCHANGED <<arguments, files, decoding, queues, counts, mediaIndex, image, shown, abandoned, forgot>>

\* PopFrame of one stream, converted or copied into its part of the image.
CopyFrame ==
    /\ shows = "copy" /\ queueFrames[mediaIndex] # <<>>
    /\ pixels' = [pixels EXCEPT ![mediaIndex] = Head(queueFrames[mediaIndex])]
    /\ queueFrames' = Pop(queueFrames, mediaIndex)
    /\ NextStream("copy", "out")
    /\ shown' = IF mediaIndex = mediaCount THEN shown + 1 ELSE shown
    /\ UNCHANGED <<arguments, files, decoding, queueCmd, queueAck, counts, outputFrameCount, buffer, mem, abandoned, failed, forgot>>

\* VX_FAILURE, with the frames of the later streams still in their queues.
CopyFails ==
    /\ shows = "copy" /\ queueFrames[mediaIndex] # <<>>
    /\ "convert" \in DecoderFaults
    /\ queueFrames' = Pop(queueFrames, mediaIndex)
    /\ shows' = "idle" /\ failed' = TRUE
    /\ UNCHANGED <<arguments, files, decoding, queueCmd, queueAck, counts, mediaIndex, outputFrameCount, image, shown, abandoned, forgot>>

\* The graph is done with the image (or goes on with it): the next call may come.
Shown ==
    /\ shows = "out"
    /\ shows' = "idle"
    /\ UNCHANGED <<arguments, files, decoding, queues, counts, mediaIndex, outputFrameCount, image, history>>

------------------------------------------------------------------------------
\* ~CLoomIoMediaDecoder: for every stream, abort, drain and join.
DecoderClose ==
    /\ shows = "idle" /\ mediaCount > 0
    /\ shows' = "abort" /\ mediaIndex' = 1
    /\ UNCHANGED <<arguments, files, decoding, queues, counts, outputFrameCount, image, history>>

Abort ==
    /\ shows = "abort"
    /\ queueCmd' = Push(queueCmd, mediaIndex, "abort")
    /\ shows' = "drain"
    /\ UNCHANGED <<arguments, files, decoding, queueAck, queueFrames, counts, mediaIndex, outputFrameCount, image, history>>

Drain ==
    /\ shows = "drain"
    /\ shows' = IF eof[mediaIndex] THEN "join" ELSE "take"
    /\ UNCHANGED <<arguments, files, decoding, queues, counts, mediaIndex, outputFrameCount, image, history>>

TakeAck ==
    /\ shows = "take" /\ queueAck[mediaIndex] # <<>>
    /\ queueAck' = Pop(queueAck, mediaIndex)
    /\ shows' = IF Head(queueAck[mediaIndex]) < 0 THEN "join" ELSE "drain"
    /\ UNCHANGED <<arguments, files, decoding, queueCmd, queueFrames, counts, mediaIndex, outputFrameCount, image, history>>

\* After the last thread the pool is released.
Join ==
    /\ shows = "join" /\ decoding[mediaIndex] \in {"exit", "quit"}
    /\ NextStream("abort", "gone")
    /\ UNCHANGED <<arguments, files, decoding, queues, counts, outputFrameCount, image, history>>

\* The buffers of the pool are no more: what they show is anybody's guess.
Released == gpuOutput /\ shows = "gone"

\* What runs by itself once a callback of the node was called.
DecoderNode ==
    \/ PopAck \/ OrderFrame \/ AuxFails \/ TellBuffer \/ TellFails \/ CopyFrame \/ CopyFails
    \/ Abort \/ Drain \/ TakeAck \/ Join

DecoderNext ==
    \/ \E i \in Media: DecodeLoop(i)
    \/ DecoderNode
    \/ ProcessFrame \/ Shown \/ DecoderClose

DecoderSpec == DecoderInit /\ [][DecoderNext]_decoderVars

------------------------------------------------------------------------------
Labels == {"pop", "read", "receive", "store", "ack", "stop", "mark", "tell", "exit", "quit"}
Places == {"idle", "wait", "order", "tell", "copy", "out", "abort", "drain", "take", "join", "gone"}

DecoderTypeOK ==
    /\ mediaCount \in 0..MaxMedia /\ gpuOutput \in BOOLEAN /\ LoopDec \in BOOLEAN
    /\ length \in [Streams -> Lengths] /\ delay \in [Streams -> Delays]
    /\ position \in [Streams -> Nat] /\ held \in [Streams -> Nat] /\ received \in [Streams -> Nat]
    /\ decoding \in [Streams -> Labels]
    /\ queueCmd \in [Streams -> Seq({"decode", "abort"})]
    /\ queueAck \in [Streams -> Seq({0, -1})]
    /\ queueFrames \in [Streams -> Seq(Nat)]
    /\ eof \in [Streams -> BOOLEAN] /\ word \in [Streams -> [Streams -> BOOLEAN]]
    /\ decodeFrameCount \in [Streams -> Nat]
    /\ shows \in Places /\ mediaIndex \in Nat \ {0} /\ outputFrameCount \in Nat
    /\ (shows # "idle" => mediaIndex \in Media)
    /\ pixels \in [Streams -> Nat \cup {NoFrame}]
    /\ buffer \in Buffers
    /\ mem \in [Buffers -> [Streams -> Nat \cup {NoFrame}]]
    /\ shown \in Nat /\ abandoned \in BOOLEAN /\ failed \in BOOLEAN /\ forgot \in BOOLEAN

\* A command of stream i was consumed without an acknowledgement: the thread
\* is gone without a word, or a frame could not be stored.
Silent(i) ==
    \/ At(i, "quit")
    \/ received[i] > decodeFrameCount[i] + (IF decoding[i] \in {"store", "ack"} THEN 1 ELSE 0)

\* Stream i has said that it has ended, or is about to.
Ended(i) == decoding[i] \in {"tell", "exit"}

Frame(i) == IF gpuOutput THEN mem[buffer][i] ELSE pixels[i]

\* The buffer of the output image is not refilled while the graph and the
\* application use it, from one ProcessFrame to the next: the threads run at
\* most PoolSize - 1 frames ahead of what was shown.  A call that failed after
\* it ordered the next frame lets them run on.
BufferIsStable ==
    (gpuOutput /\ shown > 0 /\ ~failed /\ shows \in {"idle", "out"}) =>
        \A i \in Media: At(i, "store") => Filled(i) # buffer

\* The n-th successful call shows the n-th frame of every stream, the streams
\* in step: unless a call before failed half way, or a frame was not stored.
ShowsInStep ==
    (shows = "out" /\ ~failed /\ \A i \in Media: ~Silent(i)) =>
        \A i \in Media: Frame(i) = shown - 1

\* When a call is abandoned a stream has really ended, and every frame its
\* codec yielded has been shown: none is dropped behind the end marker.
NothingDropped ==
    (abandoned /\ ~failed) => \E i \in Media: Ended(i) /\ decodeFrameCount[i] = shown

\* Once a call was abandoned no later call shows a frame, with the code's pool of two:
\* the call waits for a word of the ended stream that nobody will say.
EndIsFinal == [][abandoned => shown' = shown]_decoderVars
================================================================================
