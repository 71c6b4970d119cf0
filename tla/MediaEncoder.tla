----------------------------- MODULE MediaEncoder -----------------------------
(***************************************************************************)
(* The node com.amd.amd_media.encode: ProcessFrame waits for a free entry  *)
(* of a pool, fills it with the input image (host mode) or remembers the   *)
(* GPU buffer the image has (GPU mode), and commands the encoder's thread. *)
(* The thread takes the entries in turn and writes packets to a file.      *)
(*                                                                         *)
(* A picture is what the input image showed.  The codec (FFmpeg) is        *)
(* external: it holds back up to codecDelay pictures before it yields the  *)
(* first packet.                                                           *)
(***************************************************************************)
EXTENDS Integers, Sequences

CONSTANTS EntryCount,    \* ENCODE_BUFFER_POOL_SIZE
          Pictures,      \* what an image may show
          GPUBuffers,    \* the buffers an input image may have
          NoPicture, NoBuffer,  \* an entry that was never filled
          CodecDelays,   \* bound: pictures the codec may hold back
          EncoderFaults  \* the calls of FFmpeg and the GPU that may fail

Entries == 0..EntryCount - 1

ASSUME EncoderAssumption ==
    /\ EntryCount \in Nat \ {0, 1}     \* "keep it atleast 2"
    /\ NoPicture \notin Pictures /\ NoBuffer \notin GPUBuffers
    /\ CodecDelays \subseteq Nat
    /\ EncoderFaults \subseteq {"convert", "update", "aux", "packet", "fetch", "encode", "flush"}

VARIABLES
    encodes, gpuInput, codecDelay,     \* is there such a node, and its arguments
    encoding,              \* where the thread of EncodeLoop is
    commands, acks,        \* its queueCmd and queueAck
    threadTerminated,
    inputFrameCount, encodeFrameCount,
    videoFrame,            \* the pool in host mode; its entry 0 in GPU mode
    submittedBuffer,       \* the pool in GPU mode: whose GPU buffer is in the entry
    codec,                 \* the pictures the codec holds
    takes,                 \* where the node's callbacks are
    file,                  \* the pictures written
    submitted,             \* history: the pictures ProcessFrame accepted
    refused, missed        \* history: a call was abandoned; a picture was lost half way

encoderArguments == <<encodes, gpuInput, codecDelay>>
pool == <<videoFrame, submittedBuffer>>
link == <<commands, acks, threadTerminated>>
encoderHistory == <<submitted, refused, missed>>
encoderVars == <<encoderArguments, encoding, link, inputFrameCount, encodeFrameCount,
                 pool, codec, takes, file, encoderHistory>>

EncoderInit ==
    /\ encodes \in BOOLEAN /\ gpuInput \in BOOLEAN /\ codecDelay \in CodecDelays
    /\ encoding = "start"
    /\ commands = <<>> /\ acks = <<>> /\ threadTerminated = FALSE
    /\ inputFrameCount = 0 /\ encodeFrameCount = 0
    /\ videoFrame = [e \in Entries |-> NoPicture]
    /\ submittedBuffer = [e \in Entries |-> NoBuffer]
    /\ codec = <<>> /\ file = <<>>
    /\ takes = "idle"
    /\ submitted = <<>> /\ refused = FALSE /\ missed = FALSE

------------------------------------------------------------------------------
\* EncodeLoop
Entry(count) == count % EntryCount

\* Seeded fault: one acknowledgement for each entry.
AckEntriesAll ==
    /\ encoding = "start"
    /\ acks' = [k \in 1..EntryCount |-> 0]
    /\ encoding' = "pop"
    /\ UNCHANGED <<encoderArguments, commands, threadTerminated, inputFrameCount, encodeFrameCount, pool, codec, takes, file, encoderHistory>>

\* One acknowledgement for each entry but one.
AckEntries ==
    /\ encoding = "start"
    /\ acks' = [k \in 1..EntryCount - 1 |-> 0]
    /\ encoding' = "pop"
    /\ UNCHANGED <<encoderArguments, commands, threadTerminated, inputFrameCount, encodeFrameCount, pool, codec, takes, file, encoderHistory>>

\* av_packet_alloc fails: the thread ends, and says so to nobody.
PacketFails ==
    /\ encoding = "start" /\ "packet" \in EncoderFaults
    /\ acks' = [k \in 1..EntryCount - 1 |-> 0]
    /\ encoding' = "exit"
    /\ UNCHANGED <<encoderArguments, commands, threadTerminated, inputFrameCount, encodeFrameCount, pool, codec, takes, file, encoderHistory>>

TakeCommand ==
    /\ encoding = "pop" /\ commands # <<>>
    /\ encoding' = IF Head(commands) = "abort" THEN "flush"
                   ELSE IF gpuInput THEN "fetch" ELSE "send"
    /\ commands' = Tail(commands)
    /\ UNCHANGED <<encoderArguments, acks, threadTerminated, inputFrameCount, encodeFrameCount, pool, codec, takes, file, encoderHistory>>

\* GPU mode: the buffer is read now, whatever it shows by now.  NoPicture is in
\* a buffer that was released: reading it yields anything, or fails.
Fetched == submittedBuffer[Entry(encodeFrameCount)]

FetchPicture(memory) ==
    /\ encoding = "fetch" /\ Fetched # NoBuffer
    /\ videoFrame' = [videoFrame EXCEPT ![0] = memory[Fetched]]
    /\ encoding' = "send"
    /\ UNCHANGED <<encoderArguments, link, inputFrameCount, encodeFrameCount, submittedBuffer, codec, takes, file, encoderHistory>>

FetchFails(memory) ==
    /\ encoding = "fetch"
    /\ "fetch" \in EncoderFaults \/ ~(Fetched # NoBuffer /\ memory[Fetched] # NoPicture)
    /\ encoding' = "stop"
    /\ UNCHANGED <<encoderArguments, link, inputFrameCount, encodeFrameCount, pool, codec, takes, file, encoderHistory>>

\* Seeded fault: the thread takes the entry the producer is about to fill.
SentByInput == videoFrame[IF gpuInput THEN 0 ELSE Entry(inputFrameCount)]

Sent == videoFrame[IF gpuInput THEN 0 ELSE Entry(encodeFrameCount)]

\* EAGAIN: the codec took the picture and yields nothing yet.  The frame is not
\* counted: the next command takes the same entry again.
SendAgain ==
    /\ encoding = "send" /\ Len(codec) < codecDelay
    /\ codec' = Append(codec, Sent)
    /\ acks' = Append(acks, 0)
    /\ encoding' = "pop"
    /\ UNCHANGED <<encoderArguments, commands, threadTerminated, inputFrameCount, encodeFrameCount, pool, takes, file, encoderHistory>>

\* Seeded fault: a written frame is not counted.
SendPictureUncounted ==
    /\ encoding = "send" /\ Len(codec) >= codecDelay
    /\ LET held == Append(codec, Sent)
       IN  file' = Append(file, Head(held)) /\ codec' = Tail(held)
    /\ acks' = Append(acks, 0)
    /\ encoding' = "pop"
    /\ UNCHANGED <<encoderArguments, commands, threadTerminated, inputFrameCount, encodeFrameCount, pool, takes, encoderHistory>>

SendPicture ==
    /\ encoding = "send" /\ Len(codec) >= codecDelay
    /\ LET held == Append(codec, Sent)
       IN  file' = Append(file, Head(held)) /\ codec' = Tail(held)
    /\ encodeFrameCount' = encodeFrameCount + 1
    /\ acks' = Append(acks, 0)
    /\ encoding' = "pop"
    /\ UNCHANGED <<encoderArguments, commands, threadTerminated, inputFrameCount, pool, takes, encoderHistory>>

\* avcodec_send_frame, avcodec_receive_packet or the write to the file fails.
EncodeFails ==
    /\ encoding = "send" /\ "encode" \in EncoderFaults
    /\ encoding' = "stop"
    /\ UNCHANGED <<encoderArguments, link, inputFrameCount, encodeFrameCount, pool, codec, takes, file, encoderHistory>>

\* Seeded fault: nothing is flushed.
FlushNothing ==
    /\ encoding = "flush"
    /\ encoding' = "stop"
    /\ UNCHANGED <<encoderArguments, link, inputFrameCount, encodeFrameCount, pool, codec, takes, file, encoderHistory>>

\* After the abort one delayed packet is written, if there is one: the loop
\* ends when avcodec_receive_packet succeeds.
Flush ==
    /\ encoding = "flush"
    /\ IF codec = <<>>
          THEN UNCHANGED <<codec, file>>
          ELSE file' = Append(file, Head(codec)) /\ codec' = Tail(codec)
    /\ encoding' = "stop"
    /\ UNCHANGED <<encoderArguments, link, inputFrameCount, encodeFrameCount, pool, takes, encoderHistory>>

\* avcodec_receive_packet or the write of the delayed packet fails.
FlushFails ==
    /\ encoding = "flush" /\ "flush" \in EncoderFaults
    /\ encoding' = "stop" /\ missed' = TRUE
    /\ UNCHANGED <<encoderArguments, link, inputFrameCount, encodeFrameCount, pool, codec, takes, file, submitted, refused>>

MarkTerminated ==
    /\ encoding = "stop"
    /\ threadTerminated' = TRUE
    /\ encoding' = "tell"
    /\ UNCHANGED <<encoderArguments, commands, acks, inputFrameCount, encodeFrameCount, pool, codec, takes, file, encoderHistory>>

\* Seeded fault: the thread ends without the last acknowledgement.
AckTerminationNever ==
    /\ encoding = "tell"
    /\ encoding' = "exit"
    /\ UNCHANGED <<encoderArguments, link, inputFrameCount, encodeFrameCount, pool, codec, takes, file, encoderHistory>>

AckTermination ==
    /\ encoding = "tell"
    /\ acks' = Append(acks, -1)
    /\ encoding' = "exit"
    /\ UNCHANGED <<encoderArguments, commands, threadTerminated, inputFrameCount, encodeFrameCount, pool, codec, takes, file, encoderHistory>>

EncodeLoop(memory) ==
    \/ AckEntries \/ PacketFails \/ TakeCommand
    \/ FetchPicture(memory) \/ FetchFails(memory)
    \/ SendAgain \/ SendPicture \/ EncodeFails
    \/ Flush \/ FlushFails \/ MarkTerminated \/ AckTermination

------------------------------------------------------------------------------
\* ProcessFrame; "out" when it succeeded.
EncodeFrame ==
    /\ takes = "idle" /\ encodes
    /\ takes' = "wait"
    /\ UNCHANGED <<encoderArguments, encoding, link, inputFrameCount, encodeFrameCount, pool, codec, file, encoderHistory>>

TakeEntry ==
    /\ takes = "wait" /\ acks # <<>>
    /\ acks' = Tail(acks)
    /\ IF Head(acks) < 0 \/ threadTerminated
          THEN takes' = "idle" /\ refused' = TRUE
          ELSE /\ takes' = IF gpuInput THEN "update" ELSE "convert"
               /\ UNCHANGED refused
    /\ UNCHANGED <<encoderArguments, encoding, commands, threadTerminated, inputFrameCount, encodeFrameCount, pool, codec, file, submitted, missed>>

\* Host mode: while the node is here it writes into the entry.
ConvertPicture(picture) ==
    /\ takes = "convert"
    /\ videoFrame' = [videoFrame EXCEPT ![Entry(inputFrameCount)] = picture]
    /\ inputFrameCount' = inputFrameCount + 1
    /\ submitted' = Append(submitted, picture)
    /\ takes' = "submit"
    /\ UNCHANGED <<encoderArguments, encoding, link, encodeFrameCount, submittedBuffer, codec, file, refused, missed>>

\* VX_FAILURE: the entry is counted, and no command follows.
ConvertFails ==
    /\ takes = "convert" /\ "convert" \in EncoderFaults
    /\ inputFrameCount' = inputFrameCount + 1
    /\ takes' = "idle" /\ missed' = TRUE
    /\ UNCHANGED <<encoderArguments, encoding, link, encodeFrameCount, pool, codec, file, submitted, refused>>

\* UpdateBufferGPU
UpdateBuffer(picture, buf) ==
    /\ takes = "update"
    /\ submittedBuffer' = [submittedBuffer EXCEPT ![Entry(inputFrameCount)] = buf]
    /\ inputFrameCount' = inputFrameCount + 1
    /\ submitted' = Append(submitted, picture)
    /\ takes' = "submit"
    /\ UNCHANGED <<encoderArguments, encoding, link, encodeFrameCount, videoFrame, codec, file, refused, missed>>

\* Its failure is ignored: the command follows without a buffer.  The entry is
\* counted when it was vxQueryImage that failed.
UpdateFails ==
    /\ takes = "update" /\ "update" \in EncoderFaults
    /\ \E counted \in {0, 1}: inputFrameCount' = inputFrameCount + counted
    /\ takes' = "submit" /\ missed' = TRUE
    /\ UNCHANGED <<encoderArguments, encoding, link, encodeFrameCount, pool, codec, file, submitted, refused>>

Submit ==
    /\ takes = "submit"
    /\ commands' = Append(commands, "encode")
    /\ takes' = "out"
    /\ UNCHANGED <<encoderArguments, encoding, acks, threadTerminated, inputFrameCount, encodeFrameCount, pool, codec, file, encoderHistory>>

\* VX_FAILURE after the command: the auxiliary data does not fit.
SubmitFails ==
    /\ takes = "submit" /\ "aux" \in EncoderFaults
    /\ commands' = Append(commands, "encode")
    /\ takes' = "idle"
    /\ UNCHANGED <<encoderArguments, encoding, acks, threadTerminated, inputFrameCount, encodeFrameCount, pool, codec, file, encoderHistory>>

Accepted ==
    /\ takes = "out"
    /\ takes' = "idle"
    /\ UNCHANGED <<encoderArguments, encoding, link, inputFrameCount, encodeFrameCount, pool, codec, file, encoderHistory>>

------------------------------------------------------------------------------
\* ~CLoomIoMediaEncoder: abort, drain and join.
EncoderClose ==
    /\ takes = "idle" /\ encodes
    /\ commands' = Append(commands, "abort")
    /\ takes' = "drain"
    /\ UNCHANGED <<encoderArguments, encoding, acks, threadTerminated, inputFrameCount, encodeFrameCount, pool, codec, file, encoderHistory>>

DrainAcks ==
    /\ takes = "drain"
    /\ takes' = IF threadTerminated THEN "join" ELSE "take"
    /\ UNCHANGED <<encoderArguments, encoding, link, inputFrameCount, encodeFrameCount, pool, codec, file, encoderHistory>>

TakeLastAck ==
    /\ takes = "take" /\ acks # <<>>
    /\ acks' = Tail(acks)
    /\ takes' = IF Head(acks) < 0 THEN "join" ELSE "drain"
    /\ UNCHANGED <<encoderArguments, encoding, commands, threadTerminated, inputFrameCount, encodeFrameCount, pool, codec, file, encoderHistory>>

JoinEncoder ==
    /\ takes = "join" /\ encoding = "exit"
    /\ takes' = "gone"
    /\ UNCHANGED <<encoderArguments, encoding, link, inputFrameCount, encodeFrameCount, pool, codec, file, encoderHistory>>

EncoderNode(picture, buf) ==
    \/ TakeEntry \/ ConvertPicture(picture) \/ ConvertFails
    \/ UpdateBuffer(picture, buf) \/ UpdateFails
    \/ Submit \/ SubmitFails
    \/ DrainAcks \/ TakeLastAck \/ JoinEncoder

\* Alone, with an input image that shows anything at any time.
EncoderNext ==
    \/ encodes /\ \E memory \in [GPUBuffers -> Pictures \cup {NoPicture}]: EncodeLoop(memory)
    \/ \E picture \in Pictures, buf \in GPUBuffers: EncoderNode(picture, buf)
    \/ EncodeFrame \/ Accepted \/ EncoderClose

EncoderSpec == EncoderInit /\ [][EncoderNext]_encoderVars

------------------------------------------------------------------------------
EncoderTypeOK ==
    /\ encodes \in BOOLEAN /\ gpuInput \in BOOLEAN /\ codecDelay \in CodecDelays
    /\ encoding \in {"start", "pop", "fetch", "send", "flush", "stop", "tell", "exit"}
    /\ commands \in Seq({"encode", "abort"}) /\ acks \in Seq({0, -1})
    /\ threadTerminated \in BOOLEAN
    /\ inputFrameCount \in Nat /\ encodeFrameCount \in Nat
    /\ videoFrame \in [Entries -> Pictures \cup {NoPicture}]
    /\ submittedBuffer \in [Entries -> GPUBuffers \cup {NoBuffer}]
    /\ codec \in Seq(Pictures \cup {NoPicture}) /\ file \in Seq(Pictures \cup {NoPicture})
    /\ takes \in {"idle", "wait", "convert", "update", "submit", "out", "drain", "take", "join", "gone"}
    /\ submitted \in Seq(Pictures) /\ refused \in BOOLEAN /\ missed \in BOOLEAN

\* The thread is gone without a word.
EncoderSilent == encoding = "exit" /\ ~threadTerminated

\* Host mode: ProcessFrame never converts into the entry that the thread hands
\* to the codec, if the codec holds back one picture at most.  One that holds
\* back two breaks it, as H.264 with the preset "slow" does that Initialize
\* opens: the thread falls behind by as many entries.
EntryIsFree ==
    (encodes /\ ~gpuInput /\ ~missed /\ codecDelay <= 1) =>
        ~(takes = "convert" /\ encoding = "send" /\ Entry(inputFrameCount) = Entry(encodeFrameCount))

\* The pictures that may be found in the entry of the thread's k-th turn, which
\* is the first entry until the codec yields a packet: the k-th alone when the
\* codec answers at once, the one before it when it holds back one, and then
\* those of the entry that were accepted less than a round of the pool from it.
Turn(k) ==
    {j \in 1..Len(submitted) :
        /\ k - EntryCount < j /\ j < k + EntryCount - 1
        /\ Entry(j - 1) = Entry(IF k > codecDelay THEN k - 1 - codecDelay ELSE 0)}

\* Host mode, any codec, no picture lost half way: the k-th picture of the file
\* is one that was submitted, of the thread's k-th turn.  So the file is in order,
\* each picture once, when the codec answers at once; the first picture comes
\* twice and the last never when it holds back one; with H.264 as it is opened
\* pictures are repeated and skipped, a pool's size apart at most.
FileInOrder ==
    (~gpuInput /\ ~missed) =>
        /\ Len(file) <= Len(submitted)
        /\ \A k \in 1..Len(file): \E j \in Turn(k): file[k] = submitted[j]

\* A node that was taken down without an error of the codec has written as many
\* pictures as it accepted, the delayed one too ("process the delayed frames"),
\* except the others that the codec held back: the loop ends after one.
DelayedAreWritten ==
    (takes = "gone" /\ commands = <<>> /\ ~missed) =>
        /\ Len(file) <= Len(submitted)
        /\ Len(submitted) - Len(file) <= (IF codecDelay <= 1 THEN 0 ELSE codecDelay - 1)
================================================================================
