------------------------- MODULE MediaDecoder_proofs -------------------------
(***************************************************************************)
(* The decoder shows the frames in step for any number of streams, any     *)
(* pool, any files and any failing call.  The inductive invariant relates, *)
(* for every stream, the commands and acknowledgements under way and the   *)
(* place of the call that runs to what was decoded and what was shown.     *)
(* And no call and no destructor waits for a thread that waits for it.     *)
(***************************************************************************)
EXTENDS MediaDecoder, TLAPS

Closing == shows \in {"abort", "drain", "take", "join", "gone"}
Busy(i) == IF At(i, "pop") THEN 0 ELSE 1
Held(i) == IF decoding[i] \in {"pop", "exit", "quit"} THEN 0 ELSE 1
InHand(i) == IF At(i, "store") \/ At(i, "ack") THEN 1 ELSE 0
Stored(i) == decodeFrameCount[i] + (IF At(i, "ack") THEN 1 ELSE 0)
Over(i) == At(i, "exit")
Told(i) == IF Over(i) /\ queueAck[i] # <<>> THEN 1 ELSE 0

\* How far the call that runs has come with stream i.
Taken(i) == IF shows \in {"order", "tell", "copy"} \/ (shows = "wait" /\ i < mediaIndex) THEN 1 ELSE 0
Ordered(i) == IF shows \in {"tell", "copy"} \/ (shows = "order" /\ i < mediaIndex) THEN 1 ELSE 0
Copied(i) == IF shows = "copy" /\ i < mediaIndex THEN 1 ELSE 0
Given(i) == shown + Copied(i)

\* The threads run at most PoolSize - 1 frames ahead of what is shown.
Ahead(i) ==
    ~failed /\ ~Closing =>
        decodeFrameCount[i] + Len(queueCmd[i]) + Busy(i) <= PoolSize - 1 + shown + Ordered(i)

\* A command, its frame and its acknowledgement take one place of the pool.
Load(i) == Len(queueCmd[i]) + Held(i) + Len(queueAck[i])
Tokens(i) == ~Closing => Load(i) + Taken(i) <= PoolSize - 1 + Ordered(i)

\* What is acknowledged has been decoded, except for the end.
Acked(i) ==
    ~failed /\ ~Closing => shown + Taken(i) + Len(queueAck[i]) <= decodeFrameCount[i] + Told(i)

Behind(i) == ~failed => shown <= decodeFrameCount[i]

\* Only a thread that is over has said so, and it was its last word.
Ends(i) ==
    /\ \A k \in 1..Len(queueAck[i]): queueAck[i][k] = -1 => Over(i)
    /\ Over(i) /\ queueAck[i] # <<>> => queueAck[i][Len(queueAck[i])] = -1

Counted(i) ==
    /\ received[i] >= decodeFrameCount[i] + InHand(i)
    /\ ~gpuOutput => received[i] = decodeFrameCount[i] + InHand(i)

GpuFrames(i) ==
    gpuOutput /\ received[i] = decodeFrameCount[i] + InHand(i) =>
        \A f \in Nat: f < Stored(i) /\ Stored(i) <= f + PoolSize => mem[f % PoolSize][i] = f

HostFrames(i) ==
    ~gpuOutput /\ ~failed =>
        /\ Len(queueFrames[i]) + Given(i) = Stored(i)
        /\ \A k \in 1..Len(queueFrames[i]): queueFrames[i][k] = Given(i) + k - 1
        /\ Given(i) > 0 => pixels[i] = Given(i) - 1

Place ==
    /\ shows = "tell" => gpuOutput
    /\ shows = "copy" => ~gpuOutput
    /\ shows = "out" => shown > 0
    /\ gpuOutput /\ ~failed => outputFrameCount = shown /\ (shown > 0 => buffer = (shown - 1) % PoolSize)

\* Flags are set, or about to be, only for streams that have ended; and those of
\* ended streams are set unless one was lost.
Flags ==
    /\ \A j \in Media: (eof[j] => Ended(j)) /\ (\A i \in Streams: word[i][j] => Ended(j))
    /\ ~forgot => \A j \in Media: Ended(j) => eof[j]

StreamInv(i) ==
    /\ Ahead(i) /\ Tokens(i) /\ Acked(i) /\ Behind(i)
    /\ Ends(i) /\ Counted(i) /\ GpuFrames(i) /\ HostFrames(i)
DecoderInv == DecoderTypeOK /\ (\A i \in Media: StreamInv(i)) /\ Place /\ Flags
------------------------------------------------------------------------------
USE DecoderAssumption

LEMMA ModUnique ==
    ASSUME NEW N \in Nat \ {0}, NEW q \in Int, NEW r \in 0..N - 1
    PROVE  (N * q + r) % N = r
OBVIOUS

LEMMA DivMod ==
    ASSUME NEW N \in Nat \ {0}, NEW x \in Int
    PROVE  /\ x = N * (x \div N) + (x % N)
           /\ x \div N \in Int
           /\ x % N \in 0..N - 1
OBVIOUS

\* Numbers less than the size of the pool apart are different slots.
LEMMA SlotsDiffer ==
    ASSUME NEW N \in Nat \ {0}, NEW x \in Int, NEW y \in Int, x < y, y < x + N
    PROVE  x % N # y % N
<1> DEFINE r == x % N
           q == x \div N
           d == y - x
<1>1. x = N * q + r /\ q \in Int /\ r \in 0..N - 1
    BY DivMod
<1>2. d \in 1..N - 1
    OBVIOUS
<1> HIDE DEF q, r, d
<1>3. CASE r + d < N
    <2>1. y = N * q + (r + d) /\ r + d \in 0..N - 1
        BY <1>1, <1>2, <1>3 DEF d
    <2>2. y % N = r + d
        BY <2>1, <1>1, ModUnique
    <2> QED
        BY <2>2, <1>1, <1>2 DEF r
<1>4. CASE r + d >= N
    <2>1. y = N * (q + 1) + (r + d - N) /\ r + d - N \in 0..N - 1
        BY <1>1, <1>2, <1>4 DEF d
    <2>2. y % N = r + d - N
        <3>1. q + 1 \in Int
            BY <1>1
        <3>2. (N * (q + 1) + (r + d - N)) % N = r + d - N
            BY <2>1, <3>1, ModUnique
        <3> QED
            BY <2>1, <3>2
    <2> QED
        BY <2>2, <1>1, <1>2 DEF r
<1> QED
    BY <1>1, <1>2, <1>3, <1>4

LEMMA SlotType ==
    ASSUME NEW x \in Int PROVE x % PoolSize \in Buffers
BY DivMod DEF Buffers

------------------------------------------------------------------------------
(***************************************************************************)
(* Types.                                                                  *)
(***************************************************************************)
Typed == DecoderTypeOK /\ \A i \in Streams: At(i, "store") => received[i] > 0

LEMMA MediaAreStreams == ASSUME DecoderTypeOK PROVE Media \subseteq Streams
BY DEF DecoderTypeOK, Media, Streams

LEMMA Pushed ==
    ASSUME NEW T, NEW i \in Streams, NEW x \in T, NEW q \in [Streams -> Seq(T)]
    PROVE  /\ Push(q, i, x) \in [Streams -> Seq(T)]
           /\ Push(q, i, x)[i] = Append(q[i], x)
           /\ \A j \in Streams \ {i}: Push(q, i, x)[j] = q[j]
<1>1. Append(q[i], x) \in Seq(T)
    OBVIOUS
<1> QED
    BY <1>1 DEF Push

LEMMA Popped ==
    ASSUME NEW T, NEW i \in Streams, NEW q \in [Streams -> Seq(T)], q[i] # <<>>
    PROVE  /\ Pop(q, i) \in [Streams -> Seq(T)]
           /\ Pop(q, i)[i] = Tail(q[i])
           /\ \A j \in Streams \ {i}: Pop(q, i)[j] = q[j]
           /\ Head(q[i]) \in T
<1>1. q[i] \in Seq(T)
    OBVIOUS
<1>2. Tail(q[i]) \in Seq(T) /\ Head(q[i]) \in T
    BY <1>1
<1> QED
    BY <1>2 DEF Pop

LEMMA NextPlace ==
    ASSUME mediaCount \in Nat, mediaIndex \in Media, NEW label, NEW after, NextStream(label, after)
    PROVE  mediaIndex' \in Media /\ mediaIndex' \in Nat \ {0}
BY DEF NextStream, Media

LEMMA CountType == ASSUME DecoderTypeOK PROVE mediaCount \in Nat
BY DEF DecoderTypeOK

LEMMA TypeInit == DecoderInit => Typed
<1> SUFFICES ASSUME DecoderInit PROVE Typed
    OBVIOUS
<1>1. [k \in 1..PoolSize - 1 |-> "decode"] \in Seq({"decode", "abort"})
    OBVIOUS
<1>2. queueCmd \in [Streams -> Seq({"decode", "abort"})]
    BY <1>1 DEF DecoderInit
<1> QED
    <2>1. 0 \in Buffers
        BY DEF Buffers
    <2>2. mem \in [Buffers -> [Streams -> Nat \cup {NoFrame}]] /\ pixels \in [Streams -> Nat \cup {NoFrame}]
        BY DEF DecoderInit
    <2>3. /\ queueAck \in [Streams -> Seq({0, -1})] /\ queueFrames \in [Streams -> Seq(Nat)]
          /\ decoding \in [Streams -> Labels]
        BY DEF DecoderInit, Labels
    <2>4. /\ position \in [Streams -> Nat] /\ held \in [Streams -> Nat] /\ received \in [Streams -> Nat]
          /\ decodeFrameCount \in [Streams -> Nat]
        BY DEF DecoderInit
    <2>10. eof \in [Streams -> BOOLEAN] /\ word \in [Streams -> [Streams -> BOOLEAN]]
        BY Zenon DEF DecoderInit, NoFlags
    <2>5. \A i \in Streams: ~At(i, "store")
        BY DEF DecoderInit, At
    <2>6. /\ mediaCount \in 0..MaxMedia /\ gpuOutput \in BOOLEAN /\ LoopDec \in BOOLEAN
          /\ length \in [Streams -> Lengths] /\ delay \in [Streams -> Delays]
        BY DEF DecoderInit
    <2>7. /\ shows = "idle" /\ mediaIndex = 1 /\ outputFrameCount = 0 /\ buffer = 0
          /\ shown = 0
        BY DEF DecoderInit
    <2>8. abandoned \in BOOLEAN /\ failed \in BOOLEAN /\ forgot \in BOOLEAN
        BY Zenon DEF DecoderInit
    <2>9. mediaIndex \in Nat \ {0} /\ outputFrameCount \in Nat /\ shown \in Nat
        BY <2>7
    <2> QED
        BY <1>2, <2>1, <2>2, <2>3, <2>4, <2>5, <2>6, <2>7, <2>8, <2>9, <2>10, Zenon DEF Typed, DecoderTypeOK, Places

LEMMA AlwaysTyped == DecoderSpec => []Typed
<1>1. DecoderInit => Typed
    BY TypeInit
<1>2. Typed /\ [DecoderNext]_decoderVars => Typed'
    <2> SUFFICES ASSUME Typed, [DecoderNext]_decoderVars PROVE Typed'
        OBVIOUS
    <2> USE DEF Typed, DecoderTypeOK, Labels, At, GoesTo
    <2>M. Media \subseteq Streams
        BY MediaAreStreams
    <2>1. ASSUME NEW i \in Media, DecodeLoop(i) PROVE Typed'
        <3> USE <2>M
        <3> USE DEF arguments, files, queues, counts, node, image, history
        <3>I. i \in Streams
            OBVIOUS
        <3>1. CASE PopCommand(i)
            <4>1. queueCmd' \in [Streams -> Seq({"decode", "abort"})]
                BY <3>1, <3>I, Popped DEF PopCommand
            <4> QED
                BY <3>1, <4>1 DEF PopCommand, Media
        <3>2. CASE ReadPacket(i) \/ SeekStart(i) \/ ReadEnds(i) \/ SendFails(i)
            <4>1. position' \in [Streams -> Nat] /\ held' \in [Streams -> Nat]
                <5>1. CASE ReadPacket(i)
                    BY <5>1 DEF ReadPacket
                <5>2. CASE SeekStart(i)
                    BY <5>2 DEF SeekStart
                <5>3. CASE ReadEnds(i)
                    BY <5>3 DEF ReadEnds
                <5>4. CASE SendFails(i)
                    BY <5>4 DEF SendFails
                <5> QED
                    BY <3>2, <5>1, <5>2, <5>3, <5>4
            <4>4. decoding' \in [Streams -> Labels]
                <5>1. PICK label \in Labels: decoding' = decoding \/ decoding' = [decoding EXCEPT ![i] = label]
                    BY <3>2 DEF ReadPacket, SeekStart, ReadEnds, SendFails
                <5>2. decoding \in [Streams -> Labels]
                    OBVIOUS
                <5> HIDE DEF Typed, DecoderTypeOK, Labels
                <5> QED
                    BY <5>1, <5>2
            <4>2. \A j \in Streams: decoding'[j] = "store" => decoding[j] = "store"
                BY <3>2 DEF ReadPacket, SeekStart, ReadEnds, SendFails
            <4>3. UNCHANGED <<arguments, received, queues, counts, node, image, history>>
                BY <3>2 DEF ReadPacket, SeekStart, ReadEnds, SendFails
            <4> QED
                BY <4>1, <4>2, <4>3, <4>4 DEF Media
        <3>3. CASE ReceiveAgain(i) \/ ReceiveFails(i) \/ ReadEof(i) \/ MarkEof(i) \/ StoreFails(i)
            <4>1. CASE ReceiveAgain(i)
                BY <4>1 DEF ReceiveAgain, Media
            <4>2. CASE ReceiveFails(i)
                BY <4>2 DEF ReceiveFails, Media
            <4>3. CASE ReadEof(i)
                <5>1. word' \in [Streams -> [Streams -> BOOLEAN]]
                    BY <4>3, Zenon DEF ReadEof
                <5> QED
                    BY <4>3, <5>1 DEF ReadEof, Media
            <4>5. CASE MarkEof(i)
                <5>1. word \in [Streams -> [Streams -> BOOLEAN]] /\ eof \in [Streams -> BOOLEAN]
                    OBVIOUS
                <5>2. eof' \in [Streams -> BOOLEAN]
                    <6>1. \A j \in Streams: (j = i \/ (IF SameWord(i, j) THEN word[i][j] ELSE eof[j])) \in BOOLEAN
                        BY Zenon
                    <6> QED
                        BY <4>5, <6>1, Zenon DEF MarkEof
                <5>3. word' \in [Streams -> [Streams -> BOOLEAN]] /\ forgot' \in BOOLEAN
                    BY <4>5, <5>1, Zenon DEF MarkEof, NoFlags
                <5> QED
                    BY <4>5, <5>2, <5>3 DEF MarkEof, Media
            <4>4. CASE StoreFails(i)
                BY <4>4 DEF StoreFails, Media
            <4> QED
                BY <3>3, <4>1, <4>2, <4>3, <4>4, <4>5
        <3>4. CASE ReceiveFrame(i)
            <4>1. held[i] \in Nat /\ delay[i] \in Nat
                BY <3>I
            <4>2. held[i] - 1 \in Nat /\ received[i] + 1 \in Nat /\ received[i] + 1 > 0
                BY <3>4, <4>1 DEF ReceiveFrame
            <4> QED
                BY <3>4, <4>2 DEF ReceiveFrame, Media
        <3>5. CASE StoreFrame(i)
            <4>1. received[i] - 1 \in Nat
                <5>1. received[i] > 0
                    BY <3>5, <3>I DEF StoreFrame
                <5>2. received[i] \in Nat
                    BY <3>I
                <5> QED
                    BY <5>1, <5>2
            <4>2. queueFrames' \in [Streams -> Seq(Nat)]
                <5>1. Push(queueFrames, i, received[i] - 1) \in [Streams -> Seq(Nat)]
                    BY <4>1, <3>I, Pushed
                <5> QED
                    BY <3>5, <5>1 DEF StoreFrame
            <4>3. Filled(i) \in Buffers
                <5>1. decodeFrameCount[i] \in Int
                    BY <3>I
                <5> QED
                    BY <5>1, SlotType DEF Filled
            <4>4. mem' \in [Buffers -> [Streams -> Nat \cup {NoFrame}]]
                <5>1. mem' = mem \/ mem' = [mem EXCEPT ![Filled(i)][i] = received[i] - 1]
                    BY <3>5 DEF StoreFrame
                <5>2. mem \in [Buffers -> [Streams -> Nat \cup {NoFrame}]]
                    OBVIOUS
                <5> HIDE DEF Typed, DecoderTypeOK
                <5> QED
                    BY <5>1, <5>2, <4>1, <4>3, <3>I
            <4> QED
                BY <3>5, <4>2, <4>4 DEF StoreFrame, Media
        <3>6. CASE AckFrame(i)
            <4>1. queueAck' \in [Streams -> Seq({0, -1})]
                BY <3>6, <3>I, Pushed DEF AckFrame
            <4>2. decodeFrameCount' \in [Streams -> Nat] /\ decoding' \in [Streams -> Labels]
                <5>1. /\ decodeFrameCount' = [decodeFrameCount EXCEPT ![i] = decodeFrameCount[i] + 1]
                      /\ decoding' = [decoding EXCEPT ![i] = "pop"]
                    BY <3>6 DEF AckFrame
                <5>2. decodeFrameCount[i] + 1 \in Nat
                    BY <3>I
                <5> QED
                    BY <5>1, <5>2
            <4>3. \A j \in Streams: decoding'[j] = "store" => decoding[j] = "store"
                BY <3>6 DEF AckFrame
            <4> QED
                BY <3>6, <4>1, <4>2, <4>3 DEF AckFrame, Media
        <3>7. CASE AckEnd(i)
            <4>1. queueAck' \in [Streams -> Seq({0, -1})]
                BY <3>7, <3>I, Pushed DEF AckEnd
            <4> QED
                BY <3>7, <4>1 DEF AckEnd, Media
        <3> QED
            BY <2>1, <3>1, <3>2, <3>3, <3>4, <3>5, <3>6, <3>7 DEF DecodeLoop
    <2>2. CASE DecoderNode
        <3> USE <2>M
        <3> USE DEF arguments, files, queues, counts, node, image, history, Places
        <3>1. CASE PopAck
            <4>1. queueAck' \in [Streams -> Seq({0, -1})]
                BY <3>1, Popped DEF PopAck
            <4>2. (mediaIndex \in Nat \ {0} /\ (shows # "idle" => mediaIndex \in Media))'
                <5>1. mediaCount' = mediaCount /\ mediaIndex \in Media
                    BY <3>1 DEF PopAck
                <5>2. mediaIndex' = mediaIndex \/ \E label, after: NextStream(label, after)
                    BY <3>1 DEF PopAck
                <5>3. mediaIndex' \in Media /\ mediaIndex' \in Nat \ {0}
                    BY <5>1, <5>2, CountType, NextPlace
                <5> QED
                    BY <5>1, <5>3 DEF Media
            <4> QED
                BY <3>1, <4>1, <4>2 DEF PopAck, NextStream, Media
        <3>2. CASE OrderFrame
            <4>1. queueCmd' \in [Streams -> Seq({"decode", "abort"})]
                BY <3>2, Pushed DEF OrderFrame
            <4>2. (mediaIndex \in Nat \ {0} /\ (shows # "idle" => mediaIndex \in Media))'
                <5>1. mediaCount' = mediaCount /\ mediaIndex \in Media
                    BY <3>2 DEF OrderFrame
                <5>2. mediaIndex' = mediaIndex \/ \E label, after: NextStream(label, after)
                    BY <3>2 DEF OrderFrame
                <5>3. mediaIndex' \in Media /\ mediaIndex' \in Nat \ {0}
                    BY <5>1, <5>2, CountType, NextPlace
                <5> QED
                    BY <5>1, <5>3 DEF Media
            <4> QED
                BY <3>2, <4>1, <4>2 DEF OrderFrame, NextStream, Media
        <3>3. CASE AuxFails
            BY <3>3 DEF AuxFails, Media
        <3>11. CASE TellFails
            BY <3>11 DEF TellFails, Media
        <3>4. CASE TellBuffer
            <4>1. outputFrameCount % PoolSize \in Buffers
                <5>1. outputFrameCount \in Int
                    OBVIOUS
                <5> QED
                    BY <5>1, SlotType
            <4> QED
                BY <3>4, <4>1 DEF TellBuffer, Media
        <3>5. CASE CopyFrame
            <4>1. queueFrames' \in [Streams -> Seq(Nat)] /\ Head(queueFrames[mediaIndex]) \in Nat
                BY <3>5, Popped DEF CopyFrame
            <4>2. (mediaIndex \in Nat \ {0} /\ (shows # "idle" => mediaIndex \in Media))'
                <5>1. mediaCount' = mediaCount /\ mediaIndex \in Media
                    BY <3>5 DEF CopyFrame
                <5>2. mediaIndex' = mediaIndex \/ \E label, after: NextStream(label, after)
                    BY <3>5 DEF CopyFrame
                <5>3. mediaIndex' \in Media /\ mediaIndex' \in Nat \ {0}
                    BY <5>1, <5>2, CountType, NextPlace
                <5> QED
                    BY <5>1, <5>3 DEF Media
            <4> QED
                <5>1. shows' \in Places
                    BY <3>5 DEF CopyFrame, NextStream
                <5>2. shown' \in Nat
                    BY <3>5 DEF CopyFrame
                <5>3. pixels' \in [Streams -> Nat \cup {NoFrame}]
                    BY <3>5, <4>1 DEF CopyFrame
                <5> QED
                    BY <3>5, <4>1, <4>2, <5>1, <5>2, <5>3 DEF CopyFrame, Media
        <3>6. CASE CopyFails
            <4>1. queueFrames' \in [Streams -> Seq(Nat)]
                BY <3>6, Popped DEF CopyFails
            <4> QED
                BY <3>6, <4>1 DEF CopyFails, Media
        <3>7. CASE Abort
            <4>1. queueCmd' \in [Streams -> Seq({"decode", "abort"})]
                BY <3>7, Pushed DEF Abort
            <4> QED
                BY <3>7, <4>1 DEF Abort, Media
        <3>8. CASE Drain
            BY <3>8 DEF Drain, Media
        <3>9. CASE TakeAck
            <4>1. queueAck' \in [Streams -> Seq({0, -1})]
                BY <3>9, Popped DEF TakeAck
            <4> QED
                BY <3>9, <4>1 DEF TakeAck, Media
        <3>10. CASE Join
            <4>1. mediaCount' = mediaCount /\ mediaIndex \in Media
                BY <3>10 DEF Join
            <4>2. mediaIndex' \in Media /\ mediaIndex' \in Nat \ {0}
                BY <3>10, <4>1, CountType, NextPlace DEF Join
            <4>3. shows' \in Places
                BY <3>10 DEF Join, NextStream
            <4> QED
                BY <3>10, <4>1, <4>2, <4>3 DEF Join, Media
        <3> QED
            BY <2>2, <3>1, <3>2, <3>3, <3>4, <3>5, <3>6, <3>7, <3>8, <3>9, <3>10, <3>11 DEF DecoderNode
    <2>3. CASE ProcessFrame \/ Shown \/ DecoderClose
        BY <2>3 DEF ProcessFrame, Shown, DecoderClose, Media, Places,
            arguments, files, queues, counts, node, image, history
    <2>4. CASE UNCHANGED decoderVars
        BY <2>4 DEF decoderVars, arguments, files, queues, counts, node, image, history, Media
    <2> QED
        BY <2>1, <2>2, <2>3, <2>4 DEF DecoderNext
<1> QED
    BY <1>1, <1>2, PTL DEF DecoderSpec

\* Every variable keeps its type: counts never become negative, a queue is never
\* read past its end, and the buffer of the image is one of the pool.
THEOREM TypeCorrect == DecoderSpec => []DecoderTypeOK
<1>1. Typed => DecoderTypeOK
    BY DEF Typed
<1> QED
    BY <1>1, AlwaysTyped, PTL

------------------------------------------------------------------------------
(***************************************************************************)
(* A step of a thread.                                                     *)
(***************************************************************************)
Kept == <<mediaCount, gpuOutput, shows, mediaIndex, outputFrameCount, pixels, buffer, shown, abandoned, failed>>

LEMMA ThreadFrame ==
    ASSUME Typed, NEW i \in Media, DecodeLoop(i)
    PROVE  /\ UNCHANGED Kept
           /\ \A j \in Media \ {i}:
                 /\ decoding'[j] = decoding[j] /\ received'[j] = received[j]
                 /\ queueCmd'[j] = queueCmd[j] /\ queueAck'[j] = queueAck[j]
                 /\ queueFrames'[j] = queueFrames[j]
                 /\ decodeFrameCount'[j] = decodeFrameCount[j]
                 /\ \A b \in Buffers: mem'[b][j] = mem[b][j]
<1> USE DEF Kept, arguments, files, queues, counts, node, image, history, GoesTo
<1>M. i \in Streams /\ Media \subseteq Streams
    BY MediaAreStreams DEF Typed
<1>T. /\ decoding \in [Streams -> Labels] /\ received \in [Streams -> Nat]
      /\ queueCmd \in [Streams -> Seq({"decode", "abort"})]
      /\ queueAck \in [Streams -> Seq({0, -1})] /\ queueFrames \in [Streams -> Seq(Nat)]
      /\ eof \in [Streams -> BOOLEAN] /\ decodeFrameCount \in [Streams -> Nat]
      /\ mem \in [Buffers -> [Streams -> Nat \cup {NoFrame}]]
    BY DEF Typed, DecoderTypeOK
<1>1. CASE PopCommand(i)
    BY <1>1, <1>M, <1>T DEF PopCommand, Pop
<1>2. CASE ReadPacket(i) \/ SeekStart(i) \/ ReadEnds(i) \/ SendFails(i)
    BY <1>2, <1>M, <1>T DEF ReadPacket, SeekStart, ReadEnds, SendFails
<1>3. CASE ReceiveAgain(i) \/ ReceiveFails(i) \/ ReadEof(i) \/ MarkEof(i) \/ StoreFails(i) \/ ReceiveFrame(i)
    BY <1>3, <1>M, <1>T DEF ReceiveAgain, ReceiveFails, ReadEof, MarkEof, StoreFails, ReceiveFrame
<1>4. CASE StoreFrame(i)
    <2>1. \A j \in Media \ {i}, b \in Buffers: mem'[b][j] = mem[b][j]
        <3>1. mem' = mem \/ mem' = [mem EXCEPT ![Filled(i)][i] = received[i] - 1]
            BY <1>4 DEF StoreFrame
        <3> TAKE j \in Media \ {i}, b \in Buffers
        <3>2. j \in Streams /\ j # i /\ mem[b] \in [Streams -> Nat \cup {NoFrame}]
            BY <1>M, <1>T
        <3>3. CASE mem' = [mem EXCEPT ![Filled(i)][i] = received[i] - 1]
            <4>1. mem'[b] = IF b = Filled(i) THEN [mem[b] EXCEPT ![i] = received[i] - 1] ELSE mem[b]
                BY <3>3, <1>T
            <4> QED
                BY <4>1, <3>2
        <3> QED
            BY <3>1, <3>3
    <2>2. \A j \in Media \ {i}: queueFrames'[j] = queueFrames[j]
        BY <1>4, <1>M, <1>T DEF StoreFrame, Push
    <2> QED
        BY <1>4, <2>1, <2>2, <1>M, <1>T DEF StoreFrame
<1>5. CASE AckFrame(i) \/ AckEnd(i)
    BY <1>5, <1>M, <1>T DEF AckFrame, AckEnd, Push
<1> QED
    BY <1>1, <1>2, <1>3, <1>4, <1>5 DEF DecodeLoop

LEMMA OtherStream ==
    ASSUME Typed, NEW i \in Media, DecodeLoop(i), NEW j \in Media \ {i}, StreamInv(j)
    PROVE  StreamInv(j)'
<1>1. /\ UNCHANGED Kept
      /\ decoding'[j] = decoding[j] /\ received'[j] = received[j]
      /\ queueCmd'[j] = queueCmd[j] /\ queueAck'[j] = queueAck[j]
      /\ queueFrames'[j] = queueFrames[j]
      /\ decodeFrameCount'[j] = decodeFrameCount[j]
      /\ \A b \in Buffers: mem'[b][j] = mem[b][j]
    BY ThreadFrame
<1>2. /\ Busy(j)' = Busy(j) /\ InHand(j)' = InHand(j) /\ Stored(j)' = Stored(j) /\ (Over(j)' <=> Over(j))
      /\ Held(j)' = Held(j) /\ Told(j)' = Told(j)
      /\ Taken(j)' = Taken(j) /\ Ordered(j)' = Ordered(j) /\ Given(j)' = Given(j)
      /\ (Closing' <=> Closing)
    BY <1>1 DEF Kept, Busy, Held, InHand, Stored, Over, Told, Taken, Ordered, Copied, Given, Closing, At
<1>3. GpuFrames(j)'
    <2>1. \A f \in Nat: f % PoolSize \in Buffers
        BY SlotType
    <2> QED
        BY <1>1, <1>2, <2>1 DEF GpuFrames, StreamInv, Kept
<1> QED
    BY <1>1, <1>2, <1>3 DEF StreamInv, Ahead, Tokens, Load, Acked, Behind, Ends, Counted, HostFrames, Kept, At

LEMMA TokensFall ==
    ASSUME NEW i, Tokens(i), Load(i) \in Int, Load(i)' \in Int, Load(i)' <= Load(i),
           Taken(i) \in 0..1, Ordered(i) \in 0..1, Taken(i)' = Taken(i), Ordered(i)' = Ordered(i),
           Closing' <=> Closing
    PROVE  Tokens(i)'
BY DEF Tokens

LEMMA OwnStep ==
    ASSUME Typed, NEW i \in Media, DecodeLoop(i), StreamInv(i), Typed'
    PROVE  StreamInv(i)'
<1> USE DEF arguments, files, queues, counts, node, image, history, GoesTo
<1>M. i \in Streams
    BY MediaAreStreams DEF Typed
<1>T. /\ decoding \in [Streams -> Labels] /\ received \in [Streams -> Nat]
      /\ queueCmd \in [Streams -> Seq({"decode", "abort"})]
      /\ queueAck \in [Streams -> Seq({0, -1})] /\ queueFrames \in [Streams -> Seq(Nat)]
      /\ decodeFrameCount \in [Streams -> Nat]
      /\ mem \in [Buffers -> [Streams -> Nat \cup {NoFrame}]]
    BY DEF Typed, DecoderTypeOK
<1>N. /\ decodeFrameCount[i] \in Nat /\ received[i] \in Nat /\ shown \in Nat
      /\ queueCmd[i] \in Seq({"decode", "abort"}) /\ queueAck[i] \in Seq({0, -1})
      /\ queueFrames[i] \in Seq(Nat)
      /\ Len(queueCmd[i]) \in Nat /\ Len(queueAck[i]) \in Nat /\ Len(queueFrames[i]) \in Nat
    <2>1. /\ queueCmd[i] \in Seq({"decode", "abort"}) /\ queueAck[i] \in Seq({0, -1})
          /\ queueFrames[i] \in Seq(Nat)
        BY <1>M, <1>T
    <2>2. /\ decodeFrameCount[i] \in Nat /\ received[i] \in Nat
        BY <1>M, <1>T
    <2>3. shown \in Nat
        BY DEF Typed, DecoderTypeOK
    <2> QED
        BY <2>1, <2>2, <2>3
<1>I. /\ Len(queueCmd[i]) \in Int /\ Len(queueAck[i]) \in Int /\ PoolSize \in Int
      /\ decodeFrameCount[i] \in Int /\ shown \in Int
    BY <1>N
<1>K. UNCHANGED Kept
    BY ThreadFrame
<1>C. /\ Taken(i)' = Taken(i) /\ Ordered(i)' = Ordered(i) /\ Copied(i)' = Copied(i) /\ (Closing' <=> Closing)
      /\ Taken(i) \in 0..1 /\ Ordered(i) \in 0..1 /\ Given(i)' = Given(i) /\ Given(i) \in Nat
    BY <1>K, <1>N DEF Kept, Taken, Ordered, Copied, Given, Closing
<1> USE DEF StreamInv
\* The thread moves, without touching queues and counts.
<1>1. ASSUME UNCHANGED <<received, queues, decodeFrameCount, mem>>,
             \/ decoding' = decoding
             \/ decoding[i] \in {"read", "receive", "stop", "mark"} /\ decoding'[i] \in {"read", "receive", "stop", "mark", "tell", "quit"}
             \/ decoding[i] = "store" /\ decoding'[i] = "pop" /\ gpuOutput
      PROVE  StreamInv(i)'
    <2>1. CASE decoding' = decoding
        BY <2>1, <1>1, <1>K DEF Kept, Ahead, Tokens, Load, Acked, Behind, Ends, Counted, GpuFrames, HostFrames,
            Taken, Ordered, Copied, Given, Closing, Busy, Held, InHand, Stored, Over, Told, At
    <2>2. CASE decoding[i] \in {"read", "receive", "stop", "mark"} /\ decoding'[i] \in {"read", "receive", "stop", "mark", "tell", "quit"}
        <3>1. /\ Busy(i) = 1 /\ Busy(i)' = 1 /\ InHand(i) = 0 /\ InHand(i)' = 0 /\ Stored(i)' = Stored(i)
              /\ ~Over(i) /\ ~Over(i)' /\ Told(i) = 0 /\ Told(i)' = 0 /\ Held(i) = 1 /\ Held(i)' \in 0..1
            BY <2>2, <1>1 DEF Busy, Held, InHand, Stored, Over, Told, At
        <3>2. GpuFrames(i)' /\ HostFrames(i)'
            BY <3>1, <1>1, <1>K, <1>C DEF GpuFrames, HostFrames, Kept
        <3>3. Ends(i)'
            BY <3>1, <2>2, <1>1 DEF Ends, At
        <3>4. Tokens(i)'
            <4> DEFINE c == Len(queueCmd[i])
                       d == Len(queueCmd'[i])
                       a == Len(queueAck[i])
                       b == Len(queueAck'[i])
                       h == Held(i)
                       g == Held(i)'
            <4>1. d = c /\ b = a /\ h = 1 /\ g \in 0..1 /\ c \in Int /\ a \in Int
                BY <3>1, <1>1, <1>I
            <4> HIDE DEF c, d, a, b, h, g
            <4>2. d + g + b <= c + h + a /\ d + g + b \in Int /\ c + h + a \in Int
                BY <4>1
            <4>3. Load(i)' <= Load(i) /\ Load(i) \in Int /\ Load(i)' \in Int
                BY <4>2 DEF Load, c, d, a, b, h, g
            <4> QED
                BY <4>3, <1>C, TokensFall
        <3> QED
            BY <3>1, <3>2, <3>3, <3>4, <1>1, <1>K, <1>C DEF Kept, Ahead, Acked, Behind, Counted
    <2>3. CASE decoding[i] = "store" /\ decoding'[i] = "pop" /\ gpuOutput
        <3>1. /\ Busy(i) = 1 /\ Busy(i)' = 0 /\ InHand(i) = 1 /\ InHand(i)' = 0
              /\ ~Over(i) /\ ~Over(i)' /\ Told(i) = 0 /\ Told(i)' = 0 /\ Held(i) = 1 /\ Held(i)' = 0
            BY <2>3, <1>1 DEF Busy, Held, InHand, Over, Told, At
        <3>2. Counted(i)' /\ received'[i] > decodeFrameCount'[i] + InHand(i)'
            BY <3>1, <2>3, <1>1, <1>K, <1>N DEF Counted, Kept
        <3>3. GpuFrames(i)' /\ HostFrames(i)'
            <4>1. received'[i] # decodeFrameCount'[i] + InHand(i)'
                BY <3>1, <3>2, <1>1, <1>N
            <4> QED
                BY <4>1, <2>3, <1>K DEF GpuFrames, HostFrames, Kept
        <3>4. Ends(i)'
            BY <3>1, <2>3, <1>1 DEF Ends, At
        <3>5. Tokens(i)'
            <4> DEFINE c == Len(queueCmd[i])
                       d == Len(queueCmd'[i])
                       a == Len(queueAck[i])
                       b == Len(queueAck'[i])
                       h == Held(i)
                       g == Held(i)'
            <4>1. d = c /\ b = a /\ h = 1 /\ g = 0 /\ c \in Int /\ a \in Int
                BY <3>1, <1>1, <1>I
            <4> HIDE DEF c, d, a, b, h, g
            <4>2. d + g + b <= c + h + a /\ d + g + b \in Int /\ c + h + a \in Int
                BY <4>1
            <4>3. Load(i)' <= Load(i) /\ Load(i) \in Int /\ Load(i)' \in Int
                BY <4>2 DEF Load, c, d, a, b, h, g
            <4> QED
                BY <4>3, <1>C, TokensFall
        <3> QED
            <4> HIDE DEF StreamInv
            <4>1. Ahead(i) /\ Acked(i) /\ Behind(i)
                BY DEF StreamInv
            <4>2. Ahead(i)'
                <5> DEFINE e == decodeFrameCount[i] + Len(queueCmd[i])
                           r == PoolSize - 1 + shown + Ordered(i)
                <5>1. ~failed /\ ~Closing => e + 1 <= r
                    BY <4>1, <3>1 DEF Ahead
                <5>2. e \in Int /\ r \in Int
                    BY <1>I, <1>C
                <5> HIDE DEF e, r
                <5>3. ~failed /\ ~Closing => e + 0 <= r
                    BY <5>1, <5>2
                <5> QED
                    BY <5>3, <3>1, <1>1, <1>K, <1>C DEF Kept, Ahead, e, r
            <4>3. Acked(i)' /\ Behind(i)'
                BY <4>1, <3>1, <1>1, <1>K, <1>C DEF Kept, Acked, Behind
            <4> QED
                BY <3>2, <3>3, <3>4, <3>5, <4>2, <4>3 DEF StreamInv
    <2> QED
        BY <1>1, <2>1, <2>2, <2>3
<1>2. CASE ReadPacket(i) \/ SeekStart(i) \/ ReadEnds(i) \/ SendFails(i)
    BY <1>2, <1>1, <1>M, <1>T DEF ReadPacket, SeekStart, ReadEnds, SendFails, At
<1>3. CASE ReceiveAgain(i) \/ ReceiveFails(i) \/ StoreFails(i) \/ ReadEof(i) \/ MarkEof(i)
    BY <1>3, <1>1, <1>M, <1>T DEF ReceiveAgain, ReceiveFails, StoreFails, ReadEof, MarkEof, At
<1>4. CASE PopCommand(i)
    <2>1. /\ decoding[i] = "pop" /\ decoding'[i] \in {"read", "stop"}
          /\ UNCHANGED <<received, queueAck, queueFrames, decodeFrameCount, mem>>
          /\ queueCmd'[i] = Tail(queueCmd[i]) /\ queueCmd[i] # <<>>
        BY <1>4, <1>M, <1>T DEF PopCommand, Pop, At
    <2>2. Len(queueCmd'[i]) = Len(queueCmd[i]) - 1
        BY <2>1, <1>N
    <2>3. /\ Busy(i) = 0 /\ Busy(i)' = 1 /\ InHand(i) = 0 /\ InHand(i)' = 0 /\ Stored(i)' = Stored(i)
          /\ ~Over(i) /\ ~Over(i)' /\ Told(i) = 0 /\ Told(i)' = 0 /\ Held(i) = 0 /\ Held(i)' = 1
        BY <2>1 DEF Busy, Held, InHand, Stored, Over, Told, At
    <2>4. GpuFrames(i)' /\ HostFrames(i)'
        BY <2>3, <2>1, <1>K, <1>C DEF GpuFrames, HostFrames, Kept
    <2>5. Ends(i)'
        BY <2>3, <2>1 DEF Ends, At
    <2>6. Tokens(i)'
        <3> DEFINE c == Len(queueCmd[i])
                   d == Len(queueCmd'[i])
                   a == Len(queueAck[i])
                   b == Len(queueAck'[i])
                   h == Held(i)
                   g == Held(i)'
        <3>1. d = c - 1 /\ b = a /\ h = 0 /\ g = 1 /\ c \in Int /\ a \in Int
            BY <2>1, <2>2, <2>3, <1>I
        <3> HIDE DEF c, d, a, b, h, g
        <3>2. d + g + b <= c + h + a /\ d + g + b \in Int /\ c + h + a \in Int
            BY <3>1
        <3>3. Load(i)' <= Load(i) /\ Load(i) \in Int /\ Load(i)' \in Int
            BY <3>2 DEF Load, c, d, a, b, h, g
        <3> QED
            BY <3>3, <1>C, TokensFall
    <2> QED
        BY <2>1, <2>2, <2>3, <2>4, <2>5, <2>6, <1>K, <1>C, <1>N DEF Kept, Ahead, Acked, Behind, Counted
<1>5. CASE ReceiveFrame(i)
    <2>1. /\ decoding[i] = "receive" /\ decoding'[i] = "store" /\ received'[i] = received[i] + 1
          /\ UNCHANGED <<queues, decodeFrameCount, mem>>
        BY <1>5, <1>M, <1>T DEF ReceiveFrame, At
    <2>2. /\ Busy(i) = 1 /\ Busy(i)' = 1 /\ InHand(i) = 0 /\ InHand(i)' = 1 /\ Stored(i)' = Stored(i)
          /\ ~Over(i) /\ ~Over(i)' /\ Told(i) = 0 /\ Told(i)' = 0 /\ Held(i) = 1 /\ Held(i)' = 1
        BY <2>1 DEF Busy, Held, InHand, Stored, Over, Told, At
    <2>3. Counted(i)'
        BY <2>1, <2>2, <1>K, <1>N DEF Counted, Kept
    <2>4. GpuFrames(i)' /\ HostFrames(i)'
        <3>1. GpuFrames(i)'
            <4>1. received'[i] = decodeFrameCount'[i] + InHand(i)' => received[i] = decodeFrameCount[i] + InHand(i)
                <5>1. received[i] \in Int /\ decodeFrameCount[i] \in Int
                    BY <1>N
                <5>2. received'[i] = received[i] + 1 /\ decodeFrameCount'[i] = decodeFrameCount[i]
                    BY <2>1
                <5>3. InHand(i) = 0 /\ InHand(i)' = 1
                    BY <2>2
                <5> QED
                    BY <5>1, <5>2, <5>3
            <4> QED
                BY <4>1, <2>1, <2>2, <1>K DEF GpuFrames, Kept
        <3>2. HostFrames(i)'
            BY <2>1, <2>2, <1>K, <1>C DEF HostFrames, Kept
        <3> QED
            BY <3>1, <3>2
    <2>5. Ends(i)'
        BY <2>2, <2>1 DEF Ends, At
    <2> QED
        BY <2>1, <2>2, <2>3, <2>4, <2>5, <1>K, <1>C, <1>N DEF Kept, Ahead, Tokens, Load, Acked, Behind
<1>6. CASE StoreFrame(i)
    <2>1. /\ decoding[i] = "store" /\ decoding'[i] = "ack"
          /\ UNCHANGED <<received, queueCmd, queueAck, decodeFrameCount>>
        BY <1>6, <1>M, <1>T DEF StoreFrame, At
    <2>2. /\ Busy(i) = 1 /\ Busy(i)' = 1 /\ InHand(i) = 1 /\ InHand(i)' = 1
          /\ Stored(i) = decodeFrameCount[i] /\ Stored(i)' = decodeFrameCount[i] + 1
          /\ ~Over(i) /\ ~Over(i)' /\ Told(i) = 0 /\ Told(i)' = 0 /\ Held(i) = 1 /\ Held(i)' = 1
        BY <2>1, <1>N DEF Busy, Held, InHand, Stored, Over, Told, At
    <2>3. GpuFrames(i)'
        <3> SUFFICES ASSUME gpuOutput, received[i] = decodeFrameCount[i] + 1,
                            NEW f \in Nat, f < decodeFrameCount[i] + 1, decodeFrameCount[i] + 1 <= f + PoolSize
                     PROVE  mem'[f % PoolSize][i] = f
            BY <2>1, <2>2, <1>K DEF GpuFrames, Kept
        <3>1. mem' = [mem EXCEPT ![Filled(i)][i] = received[i] - 1] /\ received[i] - 1 = decodeFrameCount[i]
            <4>1. mem' = [mem EXCEPT ![Filled(i)][i] = received[i] - 1]
                BY <1>6 DEF StoreFrame
            <4> HIDE DEF StreamInv
            <4> QED
                BY <4>1, <1>I
        <3>2. f % PoolSize \in Buffers /\ Filled(i) \in Buffers
            <4>1. f \in Int /\ decodeFrameCount[i] \in Int
                BY <1>N
            <4> QED
                BY <4>1, SlotType DEF Filled
        <3>3. mem'[Filled(i)][i] = decodeFrameCount[i]
            <4>1. mem[Filled(i)] \in [Streams -> Nat \cup {NoFrame}]
                BY <1>T, <3>2
            <4>2. mem'[Filled(i)] = [mem[Filled(i)] EXCEPT ![i] = received[i] - 1]
                BY <1>T, <3>1, <3>2
            <4> QED
                BY <4>1, <4>2, <3>1, <1>M
        <3>4. CASE f = decodeFrameCount[i]
            BY <3>3, <3>4 DEF Filled
        <3>5. CASE f # decodeFrameCount[i]
            <4>1. f < decodeFrameCount[i] /\ decodeFrameCount[i] < f + PoolSize /\ decodeFrameCount[i] <= f + PoolSize
                BY <3>5, <1>N
            <4>2. f % PoolSize # Filled(i)
                <5>1. f \in Int /\ decodeFrameCount[i] \in Int /\ PoolSize \in Nat \ {0}
                    BY <1>N
                <5> QED
                    BY <5>1, <4>1, SlotsDiffer DEF Filled
            <4>3. mem'[f % PoolSize] = mem[f % PoolSize]
                BY <4>2, <3>1, <3>2, <1>T
            <4>4. mem[f % PoolSize][i] = f
                BY <4>1, <2>2 DEF GpuFrames
            <4> QED
                BY <4>3, <4>4
        <3> QED
            BY <3>4, <3>5
    <2>4. HostFrames(i)'
        <3> SUFFICES ASSUME ~gpuOutput, ~failed PROVE HostFrames(i)'
            BY <1>K DEF HostFrames, Kept
        <3>1. queueFrames'[i] = Append(queueFrames[i], received[i] - 1) /\ received[i] - 1 = decodeFrameCount[i]
            <4>1. received[i] - 1 = decodeFrameCount[i]
                BY <2>2, <1>N DEF Counted
            <4>2. queueFrames' = Push(queueFrames, i, received[i] - 1)
                BY <1>6 DEF StoreFrame
            <4>3. Push(queueFrames, i, received[i] - 1)[i] = Append(queueFrames[i], received[i] - 1)
                BY <1>M, <1>T DEF Push
            <4> QED
                BY <4>1, <4>2, <4>3
        <3>2. Len(queueFrames'[i]) = Len(queueFrames[i]) + 1
            BY <3>1, <1>N
        <3>3. \A k \in 1..Len(queueFrames'[i]): queueFrames'[i][k] = Given(i) + k - 1
            <4> TAKE k \in 1..Len(queueFrames'[i])
            <4>1. CASE k = Len(queueFrames[i]) + 1
                <5>1. queueFrames'[i][k] = decodeFrameCount[i]
                    BY <3>1, <4>1, <1>N
                <5> QED
                    BY <5>1, <4>1, <2>2, <1>N, <1>C DEF HostFrames
            <4>2. CASE k # Len(queueFrames[i]) + 1
                <5>1. k \in 1..Len(queueFrames[i])
                    BY <3>2, <4>2, <1>N
                <5>2. queueFrames'[i][k] = queueFrames[i][k]
                    BY <3>1, <5>1, <1>N
                <5> QED
                    BY <5>1, <5>2 DEF HostFrames
            <4> QED
                BY <4>1, <4>2
        <3>4. Len(queueFrames'[i]) + Given(i) = Stored(i)'
            BY <3>2, <2>2, <1>N, <1>C DEF HostFrames
        <3>5. Given(i) > 0 => pixels[i] = Given(i) - 1
            BY DEF HostFrames
        <3> QED
            BY <3>3, <3>4, <3>5, <1>K, <1>C DEF HostFrames, Kept
    <2>5. Ends(i)'
        BY <2>2, <2>1 DEF Ends, At
    <2> QED
        BY <2>1, <2>2, <2>3, <2>4, <2>5, <1>K, <1>C, <1>N DEF Kept, Ahead, Tokens, Load, Acked, Behind, Counted
<1>7. CASE AckFrame(i)
    <2>1. /\ decoding[i] = "ack" /\ decoding'[i] = "pop"
          /\ decodeFrameCount'[i] = decodeFrameCount[i] + 1
          /\ queueAck'[i] = Append(queueAck[i], 0)
          /\ UNCHANGED <<received, queueCmd, queueFrames, mem>>
        <3>1. Push(queueAck, i, 0)[i] = Append(queueAck[i], 0)
            BY <1>M, <1>T DEF Push
        <3> QED
            BY <1>7, <3>1, <1>M, <1>T DEF AckFrame, At
    <2>2. /\ Busy(i) = 1 /\ Busy(i)' = 0 /\ InHand(i) = 1 /\ InHand(i)' = 0 /\ Stored(i)' = Stored(i)
          /\ ~Over(i) /\ ~Over(i)' /\ Told(i) = 0 /\ Told(i)' = 0 /\ Held(i) = 1 /\ Held(i)' = 0
        BY <2>1, <1>N DEF Busy, Held, InHand, Stored, Over, Told, At
    <2>3. Len(queueAck'[i]) = Len(queueAck[i]) + 1
        BY <2>1, <1>N
    <2>4. Ends(i)'
        <3>1. \A k \in 1..Len(queueAck'[i]): queueAck'[i][k] # -1
            BY <2>1, <2>2, <2>3, <1>N DEF Ends
        <3> QED
            BY <3>1, <2>1, <2>2 DEF Ends, At
    <2>5. GpuFrames(i)' /\ HostFrames(i)'
        BY <2>1, <2>2, <1>K, <1>C, <1>N DEF GpuFrames, HostFrames, Kept
    <2>6. decodeFrameCount[i] + 1 + Len(queueCmd[i]) + 0 = decodeFrameCount[i] + Len(queueCmd[i]) + 1
        BY <1>N
    <2>7. Ahead(i)'
        BY <2>1, <2>2, <2>6, <1>K, <1>C, <1>I DEF Kept, Ahead
    <2>8. Acked(i)'
        <3> HIDE DEF StreamInv
        <3> SUFFICES ASSUME ~failed, ~Closing PROVE Acked(i)'
            BY <1>K DEF Kept, Acked, Closing
        <3> DEFINE a == Len(queueAck[i])
                   b == Len(queueAck'[i])
                   d == decodeFrameCount[i]
                   t == Taken(i)
        <3>1. shown + t + a <= d + 0
            BY <2>2 DEF StreamInv, Acked
        <3>2. b = a + 1 /\ shown \in Int /\ t \in Int /\ a \in Int /\ d \in Int
            BY <2>3, <1>I, <1>C
        <3> HIDE DEF a, b, d, t
        <3>3. shown + t + b <= (d + 1) + 0
            BY <3>1, <3>2
        <3> QED
            BY <3>3, <2>1, <2>2, <1>K, <1>C DEF Kept, Acked, b, d, t
    <2>9. Behind(i)' /\ Counted(i)'
        BY <2>1, <2>2, <1>K, <1>N DEF Kept, Behind, Counted
    <2>10. Tokens(i)'
        <3> DEFINE c == Len(queueCmd[i])
                   d == Len(queueCmd'[i])
                   a == Len(queueAck[i])
                   b == Len(queueAck'[i])
                   h == Held(i)
                   g == Held(i)'
        <3>1. d = c /\ b = a + 1 /\ h = 1 /\ g = 0 /\ c \in Int /\ a \in Int
            BY <2>1, <2>2, <2>3, <1>I
        <3> HIDE DEF c, d, a, b, h, g
        <3>2. d + g + b <= c + h + a /\ d + g + b \in Int /\ c + h + a \in Int
            BY <3>1
        <3>3. Load(i)' <= Load(i) /\ Load(i) \in Int /\ Load(i)' \in Int
            BY <3>2 DEF Load, c, d, a, b, h, g
        <3> QED
            BY <3>3, <1>C, TokensFall
    <2> QED
        BY <2>4, <2>5, <2>7, <2>8, <2>9, <2>10
<1>9. CASE AckEnd(i)
    <2>1. /\ decoding[i] = "tell" /\ decoding'[i] = "exit"
          /\ queueAck'[i] = Append(queueAck[i], -1)
          /\ UNCHANGED <<received, queueCmd, queueFrames, decodeFrameCount, mem>>
        <3>1. Push(queueAck, i, -1)[i] = Append(queueAck[i], -1)
            BY <1>M, <1>T DEF Push
        <3> QED
            BY <1>9, <3>1, <1>M, <1>T DEF AckEnd, At
    <2>3. /\ Len(queueAck'[i]) = Len(queueAck[i]) + 1 /\ queueAck'[i] # <<>>
          /\ queueAck'[i][Len(queueAck'[i])] = -1
        <3>1. queueAck[i] \in Seq({0, -1}) /\ -1 \in {0, -1}
            BY <1>N
        <3> HIDE DEF StreamInv
        <3>2. /\ Len(Append(queueAck[i], -1)) = Len(queueAck[i]) + 1 /\ Append(queueAck[i], -1) # <<>>
              /\ Append(queueAck[i], -1)[Len(queueAck[i]) + 1] = -1
            BY <3>1
        <3> QED
            BY <2>1, <3>2
    <2>2. /\ Busy(i) = 1 /\ Busy(i)' = 1 /\ InHand(i) = 0 /\ InHand(i)' = 0 /\ Stored(i)' = Stored(i)
          /\ ~Over(i) /\ Over(i)' /\ Told(i) = 0 /\ Told(i)' = 1 /\ Held(i) = 1 /\ Held(i)' = 0
        BY <2>1, <2>3 DEF Busy, Held, InHand, Stored, Over, Told, At
    <2>4. Ends(i)'
        BY <2>2, <2>3 DEF Ends
    <2>5. GpuFrames(i)' /\ HostFrames(i)'
        BY <2>1, <2>2, <1>K, <1>C DEF GpuFrames, HostFrames, Kept
    <2>6. Acked(i)'
        <3> SUFFICES ASSUME ~failed, ~Closing PROVE Acked(i)'
            BY <1>K DEF Kept, Acked, Closing
        <3>1. shown + Taken(i) + Len(queueAck[i]) <= decodeFrameCount[i] + 0
            BY <2>2 DEF Acked
        <3>2. /\ shown \in Int /\ Taken(i) \in Int /\ Len(queueAck[i]) \in Int
              /\ decodeFrameCount[i] \in Int
            BY <1>N, <1>C
        <3>3. shown + Taken(i) + Len(queueAck'[i]) <= decodeFrameCount[i] + 1
            <4> DEFINE a == Len(queueAck[i])
                       b == Len(queueAck'[i])
                       d == decodeFrameCount[i]
                       t == Taken(i)
            <4>1. /\ shown + t + a <= d + 0 /\ b = a + 1
                  /\ shown \in Int /\ t \in Int /\ a \in Int /\ d \in Int
                BY <3>1, <3>2, <2>3
            <4> HIDE DEF a, b, d, t, StreamInv
            <4>2. shown + t + b <= d + 1
                BY <4>1
            <4> QED
                BY <4>2 DEF a, b, d, t
        <3> QED
            BY <3>3, <2>1, <2>2, <2>3, <1>K, <1>C DEF Kept, Acked
    <2>7. Ahead(i)' /\ Behind(i)' /\ Counted(i)'
        BY <2>1, <2>2, <1>K, <1>C, <1>N DEF Kept, Ahead, Behind, Counted
    <2>8. Tokens(i)'
        <3> DEFINE c == Len(queueCmd[i])
                   d == Len(queueCmd'[i])
                   a == Len(queueAck[i])
                   b == Len(queueAck'[i])
                   h == Held(i)
                   g == Held(i)'
        <3>1. d = c /\ b = a + 1 /\ h = 1 /\ g = 0 /\ c \in Int /\ a \in Int
            BY <2>1, <2>2, <2>3, <1>I
        <3> HIDE DEF c, d, a, b, h, g
        <3>2. d + g + b <= c + h + a /\ d + g + b \in Int /\ c + h + a \in Int
            BY <3>1
        <3>3. Load(i)' <= Load(i) /\ Load(i) \in Int /\ Load(i)' \in Int
            BY <3>2 DEF Load, c, d, a, b, h, g
        <3> QED
            BY <3>3, <1>C, TokensFall
    <2> QED
        BY <2>4, <2>5, <2>6, <2>7, <2>8
<1> QED
    BY <1>2, <1>3, <1>4, <1>5, <1>6, <1>7, <1>9 DEF DecodeLoop

------------------------------------------------------------------------------
(***************************************************************************)
(* A step of the node's callbacks.                                         *)
(***************************************************************************)
NodeStep == DecoderNode \/ ProcessFrame \/ Shown \/ DecoderClose

LEMMA NodeFrame ==
    ASSUME NodeStep
    PROVE  UNCHANGED <<arguments, files, decoding, counts, mem, forgot>>
BY DEF NodeStep, DecoderNode, ProcessFrame, Shown, DecoderClose, PopAck, OrderFrame, AuxFails, TellBuffer,
    TellFails, CopyFrame, CopyFails, Abort, Drain, TakeAck, Join, arguments, files, counts, image, queues, history, node

LEMMA Bits ==
    ASSUME Typed, NEW i \in Media
    PROVE  /\ i \in Nat /\ mediaCount \in Nat /\ 1 <= i /\ i <= mediaCount
           /\ mediaIndex \in Nat \ {0}
           /\ shows # "idle" => mediaIndex <= mediaCount
           /\ Taken(i) \in 0..1 /\ Ordered(i) \in 0..1 /\ Copied(i) \in 0..1 /\ Given(i) \in Nat
BY DEF Typed, DecoderTypeOK, Media, Taken, Ordered, Copied, Given

LEMMA Lengthy ==
    ASSUME NEW T, NEW s \in Seq(T), s # <<>>
    PROVE  /\ Len(s) \in Nat \ {0} /\ Len(Tail(s)) = Len(s) - 1
           /\ Head(s) = s[1]
           /\ \A k \in 1..Len(Tail(s)): k + 1 \in 1..Len(s) /\ Tail(s)[k] = s[k + 1]
OBVIOUS

LEMMA OneMoved ==
    ASSUME NEW s \in Int, NEW l \in Int
    PROVE  s + 1 + (l - 1) = s + 0 + l
OBVIOUS

LEMMA CallbackStep ==
    ASSUME Typed, Typed', Place, NEW i \in Media, StreamInv(i), NodeStep
    PROVE  StreamInv(i)'
<1> USE DEF arguments, files, queues, counts, node, image, history
<1>M. i \in Streams
    BY MediaAreStreams DEF Typed
<1>T. /\ queueCmd \in [Streams -> Seq({"decode", "abort"})]
      /\ queueAck \in [Streams -> Seq({0, -1})] /\ queueFrames \in [Streams -> Seq(Nat)]
      /\ pixels \in [Streams -> Nat \cup {NoFrame}]
    BY DEF Typed, DecoderTypeOK
<1>N. /\ decodeFrameCount[i] \in Nat /\ received[i] \in Nat /\ shown \in Nat
      /\ Len(queueCmd[i]) \in Nat /\ Len(queueAck[i]) \in Nat /\ Len(queueFrames[i]) \in Nat
    <2>1. /\ queueCmd[i] \in Seq({"decode", "abort"}) /\ queueAck[i] \in Seq({0, -1})
          /\ queueFrames[i] \in Seq(Nat)
        BY <1>M, <1>T
    <2>2. decodeFrameCount[i] \in Nat /\ received[i] \in Nat /\ shown \in Nat
        BY <1>M DEF Typed, DecoderTypeOK
    <2> QED
        BY <2>1, <2>2
<1>I. /\ Len(queueCmd[i]) \in Int /\ Len(queueAck[i]) \in Int /\ PoolSize \in Int
      /\ decodeFrameCount[i] \in Int /\ shown \in Int
    BY <1>N
<1>K. UNCHANGED <<arguments, files, decoding, counts, mem>>
    BY NodeFrame
<1>B. /\ i \in Nat /\ mediaCount \in Nat /\ 1 <= i /\ i <= mediaCount
      /\ mediaIndex \in Nat \ {0}
      /\ shows # "idle" => mediaIndex <= mediaCount
      /\ Taken(i) \in 0..1 /\ Ordered(i) \in 0..1 /\ Given(i) \in Nat
    BY Bits
<1>S. /\ Busy(i)' = Busy(i) /\ InHand(i)' = InHand(i) /\ Stored(i)' = Stored(i) /\ (Over(i)' <=> Over(i))
      /\ Held(i)' = Held(i) /\ Held(i) \in 0..1 /\ Told(i) \in 0..1 /\ Told(i)' \in 0..1
      /\ Busy(i) \in 0..1 /\ Stored(i) \in Nat
      /\ queueAck'[i] = queueAck[i] => Told(i)' = Told(i)
    BY <1>K, <1>N DEF Busy, Held, InHand, Stored, Over, Told, At
<1>G. GpuFrames(i)' /\ Counted(i)'
    BY <1>K, <1>S DEF StreamInv, GpuFrames, Counted
<1>V. Ahead(i) /\ Tokens(i) /\ Acked(i) /\ Behind(i) /\ Ends(i) /\ HostFrames(i)
    BY DEF StreamInv
\* What is left to show.
<1>E. queueAck'[i] = queueAck[i] \/ (queueAck[i] # <<>> /\ queueAck'[i] = Tail(queueAck[i])) => Ends(i)'
    <2>1. CASE queueAck'[i] = queueAck[i]
        BY <2>1, <1>S, <1>V DEF Ends
    <2>2. CASE queueAck[i] # <<>> /\ queueAck'[i] = Tail(queueAck[i])
        <3>0. queueAck[i] \in Seq({0, -1})
            BY <1>M, <1>T
        <3>1. /\ \A k \in 1..Len(queueAck'[i]): k + 1 \in 1..Len(queueAck[i]) /\ queueAck'[i][k] = queueAck[i][k + 1]
              /\ Len(queueAck'[i]) = Len(queueAck[i]) - 1
            BY <2>2, <3>0, Lengthy
        <3>2. queueAck'[i] # <<>> => queueAck'[i][Len(queueAck'[i])] = queueAck[i][Len(queueAck[i])]
            <4>1. queueAck'[i] # <<>> => Len(queueAck'[i]) \in 1..Len(queueAck'[i])
                BY <2>2, <3>0
            <4>2. (Len(queueAck[i]) - 1) + 1 = Len(queueAck[i])
                BY <1>N
            <4> QED
                BY <3>1, <4>1, <4>2
        <3>3. \A k \in 1..Len(queueAck'[i]): queueAck'[i][k] = -1 => Over(i)'
            BY <3>1, <1>S, <1>V DEF Ends
        <3> QED
            BY <2>2, <3>2, <3>3, <1>S, <1>V DEF Ends
    <2> QED
        BY <2>1, <2>2
<1>Q. Ahead(i)' /\ Tokens(i)' /\ Acked(i)' /\ Behind(i)' /\ Ends(i)' /\ HostFrames(i)' => StreamInv(i)'
    BY <1>G DEF StreamInv
<1>1. CASE PopAck
    <2>1. shows = "wait" /\ queueAck[mediaIndex] # <<>> /\ queueAck' = Pop(queueAck, mediaIndex)
        BY <1>1 DEF PopAck
    <2>2. UNCHANGED <<queueCmd, queueFrames, outputFrameCount, image, shown, failed>>
        BY <1>1 DEF PopAck
    <2>3. Ordered(i) = 0 /\ Given(i) = shown /\ ~Closing
        BY <2>1, <1>N DEF Ordered, Given, Copied, Closing
    <2>4. mediaIndex \in Streams /\ mediaIndex <= mediaCount
        BY <2>1, <1>B DEF Typed, DecoderTypeOK, Streams
    <2>5. /\ i # mediaIndex => queueAck'[i] = queueAck[i]
          /\ i = mediaIndex => /\ queueAck[i] # <<>> /\ queueAck'[i] = Tail(queueAck[i])
                               /\ Len(queueAck'[i]) = Len(queueAck[i]) - 1
        <3>1. i = mediaIndex => Len(Tail(queueAck[i])) = Len(queueAck[i]) - 1
            <4>1. queueAck[i] \in Seq({0, -1})
                BY <1>M, <1>T
            <4> QED
                BY <2>1, <4>1, Lengthy
        <3> QED
            BY <2>1, <2>4, <3>1, <1>M, <1>T DEF Pop
    <2>6. Ends(i)'
        BY <2>5, <1>E
    <2>7. Behind(i)'
        BY <2>2, <1>K, <1>V DEF Behind
    <2>8. CASE StreamEnded
        <3>1. shows' = "idle" /\ abandoned'
            BY <1>1, <2>8, Zenon DEF PopAck
        <3>2. Ordered(i)' = 0 /\ Given(i)' = shown /\ ~Closing' /\ Taken(i)' = 0
            BY <3>1, <2>2, <1>N DEF Ordered, Given, Copied, Closing, Taken
        <3>3. Ahead(i)' /\ HostFrames(i)'
            BY <3>1, <3>2, <2>2, <2>3, <1>K, <1>S, <1>V DEF Ahead, HostFrames
        <3> DEFINE b == Len(queueAck'[i])
                   a == Len(queueAck[i])
                   t == Taken(i)
                   c == Len(queueCmd[i])
                   h == Held(i)
                   d == decodeFrameCount[i]
                   o == Told(i)
                   p == Told(i)'
        <3>4. /\ (b = a /\ p = o) \/ b = a - 1
              /\ a \in Int /\ t \in 0..1 /\ c \in Int /\ h \in Int /\ d \in Int /\ o \in 0..1 /\ p \in 0..1
              /\ shown \in Int
            <4>1. Len(queueAck[i]) \in Int /\ Len(queueCmd[i]) \in Int /\ decodeFrameCount[i] \in Int /\ shown \in Int
                BY <1>I
            <4>2. Taken(i) \in 0..1 /\ Held(i) \in Int /\ Told(i) \in 0..1 /\ Told(i)' \in 0..1
                BY <1>B, <1>S
            <4>3. (Len(queueAck'[i]) = Len(queueAck[i]) /\ Told(i)' = Told(i)) \/ Len(queueAck'[i]) = Len(queueAck[i]) - 1
                BY <2>5, <1>S
            <4> QED
                BY <4>1, <4>2, <4>3
        <3>5. /\ c + h + a + t <= PoolSize - 1 + 0
              /\ ~failed => shown + t + a <= d + o
            BY <2>3, <1>V DEF Tokens, Load, Acked
        <3>6. Tokens(i)' <=> c + h + b + 0 <= PoolSize - 1 + 0
            BY <3>2, <2>2, <1>S DEF Tokens, Load
        <3>7. Acked(i)' <=> (~failed => shown + 0 + b <= d + p)
            BY <3>2, <2>2, <1>K DEF Acked
        <3> HIDE DEF a, b, c, d, h, o, p, t
        <3>8. Tokens(i)' /\ Acked(i)'
            BY <3>4, <3>5, <3>6, <3>7
        <3> QED
            BY <3>3, <3>8, <2>6, <2>7, <1>Q
    <2>9. CASE ~StreamEnded
        <3>1. NextStream("wait", "order") /\ abandoned' = abandoned
            BY <1>1, <2>9, Zenon DEF PopAck
        <3>2. Ordered(i)' = 0 /\ Given(i)' = shown /\ ~Closing'
            BY <3>1, <2>2, <1>B, <1>N DEF NextStream, Ordered, Given, Copied, Closing
        <3>3. /\ i # mediaIndex => Taken(i)' = Taken(i)
              /\ i = mediaIndex => Taken(i) = 0 /\ Taken(i)' = 1
            BY <3>1, <2>1, <2>4, <1>B DEF NextStream, Taken
        <3>4. Told(i)' = Told(i)
            <4>1. CASE i # mediaIndex
                BY <4>1, <2>5, <1>S
            <4>2. CASE i = mediaIndex /\ Over(i)
                <5>1. queueAck[i] \in Seq({0, -1}) /\ queueAck[i] # <<>> /\ queueAck'[i] = Tail(queueAck[i])
                    BY <4>2, <2>5, <1>M, <1>T
                <5>2. queueAck[i][Len(queueAck[i])] = -1 /\ queueAck[i][1] # -1
                    <6>1. Head(queueAck[i]) = queueAck[i][1]
                        BY <5>1, Lengthy
                    <6>2. ~(Head(queueAck[i]) < 0)
                        BY <4>2, <2>9 DEF StreamEnded
                    <6> QED
                        BY <4>2, <5>1, <6>1, <6>2, <1>V DEF Ends
                <5>3. Len(queueAck[i]) # 1 /\ Len(queueAck[i]) \in Nat \ {0}
                    BY <5>1, <5>2
                <5>4. queueAck'[i] # <<>>
                    <6>1. Len(Tail(queueAck[i])) = Len(queueAck[i]) - 1
                        BY <5>1, Lengthy
                    <6>2. Len(Tail(queueAck[i])) # 0
                        BY <6>1, <5>3
                    <6>3. Len(<<>>) = 0
                        OBVIOUS
                    <6> QED
                        BY <6>2, <6>3, <5>1
                <5> QED
                    BY <4>2, <5>1, <5>4, <1>S DEF Told
            <4>3. CASE ~Over(i)
                BY <4>3, <1>S DEF Told
            <4> QED
                BY <4>1, <4>2, <4>3
        <3>5. Ahead(i)' /\ HostFrames(i)'
            BY <3>2, <2>2, <2>3, <1>K, <1>S, <1>V DEF Ahead, HostFrames
        <3>6. Acked(i)' /\ Tokens(i)'
            <4>1. Len(queueAck'[i]) + Taken(i)' = Len(queueAck[i]) + Taken(i) /\ Taken(i)' \in Int /\ Len(queueAck'[i]) \in Int
                <5>1. CASE i # mediaIndex
                    BY <5>1, <3>3, <2>5, <1>I, <1>B
                <5>2. CASE i = mediaIndex
                    <6>1. Len(queueAck'[i]) = Len(queueAck[i]) - 1 /\ Taken(i) = 0 /\ Taken(i)' = 1
                        BY <5>2, <3>3, <2>5
                    <6> QED
                        BY <6>1, <1>I
                <5> QED
                    BY <5>1, <5>2
            <4> DEFINE b == Len(queueAck'[i])
                       a == Len(queueAck[i])
                       t == Taken(i)
                       u == Taken(i)'
                       c == Len(queueCmd[i])
                       h == Held(i)
                       d == decodeFrameCount[i] + Told(i)
            <4>2. /\ b + u = a + t /\ a \in Int /\ t \in Int /\ c \in Int /\ h \in Int /\ d \in Int /\ b \in Int /\ u \in Int
                  /\ shown \in Int
                BY <4>1, <1>S, <1>I, <1>B
            <4>3. /\ c + h + a + t <= PoolSize - 1 + 0
                  /\ ~failed => shown + t + a <= d
                BY <2>3, <1>V DEF Tokens, Load, Acked
            <4>4. Tokens(i)' <=> c + h + b + u <= PoolSize - 1 + 0
                BY <3>2, <2>2, <1>S DEF Tokens, Load
            <4>5. Acked(i)' <=> (~failed => shown + u + b <= d)
                BY <3>2, <3>4, <2>2, <1>K DEF Acked
            <4> HIDE DEF a, b, c, d, h, t, u
            <4> QED
                BY <4>2, <4>3, <4>4, <4>5
        <3> QED
            BY <3>5, <3>6, <2>6, <2>7, <1>Q
    <2> QED
        BY <2>8, <2>9
<1>2. CASE OrderFrame
    <2>1. /\ shows = "order" /\ queueCmd' = Push(queueCmd, mediaIndex, "decode")
          /\ NextStream("order", IF gpuOutput THEN "tell" ELSE "copy")
          /\ UNCHANGED <<queueAck, queueFrames, outputFrameCount, image, history>>
        BY <1>2 DEF OrderFrame
    <2>2. mediaIndex \in Streams /\ mediaIndex <= mediaCount
        BY <2>1, <1>B DEF Typed, DecoderTypeOK, Streams
    <2>3. /\ i # mediaIndex => queueCmd'[i] = queueCmd[i]
          /\ i = mediaIndex => Len(queueCmd'[i]) = Len(queueCmd[i]) + 1
        BY <2>1, <2>2, <1>M, <1>T DEF Push
    <2>4. Given(i)' = Given(i) /\ ~Closing /\ ~Closing' /\ Taken(i) = 1 /\ Taken(i)' = 1
        BY <2>1, <1>B DEF NextStream, Given, Copied, Closing, Taken
    <2>5. /\ i # mediaIndex => Ordered(i)' = Ordered(i)
          /\ i = mediaIndex => Ordered(i) = 0 /\ Ordered(i)' = 1
        BY <2>1, <2>2, <1>B DEF NextStream, Ordered
    <2>6. Ahead(i)'
        <3>1. CASE i = mediaIndex
            <4> DEFINE c == Len(queueCmd[i])
                       e == decodeFrameCount[i]
                       b == Busy(i)
            <4>1. /\ ~failed => e + c + b <= PoolSize - 1 + shown + 0
                  /\ c \in Int /\ e \in Int /\ b \in Int /\ shown \in Int
                BY <3>1, <2>4, <2>5, <1>S, <1>V, <1>I DEF Ahead
            <4> HIDE DEF c, e, b
            <4>2. ~failed => e + (c + 1) + b <= PoolSize - 1 + shown + 1
                BY <4>1
            <4> QED
                BY <4>2, <3>1, <2>1, <2>3, <2>4, <2>5, <1>K, <1>S DEF Ahead, c, e, b
        <3>2. CASE i # mediaIndex
            BY <3>2, <2>1, <2>3, <2>4, <2>5, <1>K, <1>S, <1>V DEF Ahead
        <3> QED
            BY <3>1, <3>2
    <2>7. Acked(i)' /\ Behind(i)' /\ Ends(i)' /\ HostFrames(i)'
        BY <2>1, <2>4, <1>K, <1>S, <1>V, <1>E DEF Acked, Behind, HostFrames
    <2>8. Tokens(i)'
        <3>1. CASE i = mediaIndex
            <4> DEFINE c == Len(queueCmd[i])
                       h == Held(i)
                       a == Len(queueAck[i])
            <4>1. /\ c + h + a + 1 <= PoolSize - 1 + 0
                  /\ c \in Int /\ h \in Int /\ a \in Int
                BY <3>1, <2>4, <2>5, <1>S, <1>V, <1>I DEF Tokens, Load
            <4> HIDE DEF c, h, a
            <4>2. (c + 1) + h + a + 1 <= PoolSize - 1 + 1
                BY <4>1
            <4> QED
                BY <4>2, <3>1, <2>1, <2>3, <2>4, <2>5, <1>S DEF Tokens, Load, c, h, a
        <3>2. CASE i # mediaIndex
            BY <3>2, <2>1, <2>3, <2>4, <2>5, <1>S, <1>V DEF Tokens, Load
        <3> QED
            BY <3>1, <3>2
    <2> QED
        BY <2>6, <2>7, <2>8, <1>Q
\* The call ends.
<1>W. ASSUME shows \in {"tell", "copy"}, shows' \in {"idle", "out"}, UNCHANGED <<queueCmd, queueAck>>
      PROVE  Tokens(i)'
    <2>1. /\ Ordered(i) = 1 /\ Ordered(i)' = 0 /\ Taken(i) = 1 /\ Taken(i)' = 0
          /\ ~Closing /\ ~Closing'
        BY <1>W DEF Ordered, Taken, Closing
    <2> QED
        <3> DEFINE l == Load(i)
        <3>1. l + 1 <= PoolSize - 1 + 1 /\ l \in Int
            BY <2>1, <1>S, <1>V, <1>I DEF Tokens, Load
        <3>2. Load(i)' = Load(i)
            BY <1>W, <1>S DEF Load
        <3> HIDE DEF l
        <3>3. l + 0 <= PoolSize - 1 + 0
            BY <3>1
        <3> QED
            BY <3>2, <3>3, <2>1 DEF Tokens, l
<1>3. CASE AuxFails \/ TellFails \/ CopyFails
    <2>1. failed' /\ shows \in {"tell", "copy"} /\ shows' = "idle" /\ UNCHANGED <<queueAck, queueCmd>>
        BY <1>3 DEF AuxFails, TellFails, CopyFails
    <2> QED
        BY <2>1, <1>E, <1>Q, <1>W DEF Ahead, Acked, Behind, HostFrames
\* The call has shown its frames.
<1>4. ASSUME shows \in {"tell", "copy"}, shows' = "out", shown' = shown + 1, UNCHANGED <<queueCmd, queueAck, failed>>
      PROVE  Ahead(i)' /\ Acked(i)' /\ Behind(i)' /\ Tokens(i)'
    <2>1. /\ Ordered(i) = 1 /\ Ordered(i)' = 0 /\ Taken(i) = 1 /\ Taken(i)' = 0
          /\ ~Closing /\ ~Closing'
        BY <1>4 DEF Ordered, Taken, Closing
    <2>5. queueCmd' = queueCmd /\ queueAck' = queueAck /\ failed' = failed /\ decodeFrameCount' = decodeFrameCount
        BY <1>4, <1>K
    <2>4. Ahead(i)'
        <3>1. ~failed => decodeFrameCount[i] + Len(queueCmd[i]) + Busy(i) <= PoolSize - 1 + shown + 1
            BY <2>1, <1>V DEF Ahead
        <3>2. ~failed => decodeFrameCount[i] + Len(queueCmd[i]) + Busy(i) <= PoolSize - 1 + (shown + 1) + 0
            BY <3>1, <1>S, <1>I
        <3>3. Busy(i)' = Busy(i)
            BY <1>S
        <3> QED
            BY <3>2, <3>3, <2>1, <2>5, <1>4 DEF Ahead
    <2>2. Acked(i)'
        <3> DEFINE a == Len(queueAck[i])
                   d == decodeFrameCount[i] + Told(i)
        <3>1. ~failed => shown + 1 + a <= d
            BY <2>1, <1>V DEF Acked
        <3>2. a \in Int /\ d \in Int
            BY <1>S, <1>I
        <3>3. a' = a /\ d' = d
            <4>1. Told(i)' = Told(i)
                BY <2>5, <1>S
            <4> QED
                BY <4>1, <2>5
        <3> HIDE DEF a, d
        <3>4. ~failed => (shown + 1) + 0 + a <= d
            BY <3>1, <3>2, <1>I
        <3>5. ~failed' => shown' + Taken(i)' + a' <= d'
            BY <3>3, <3>4, <2>1, <2>5, <1>4
        <3> QED
            BY <3>5 DEF Acked, a, d
    <2>3. ~failed => shown + 1 <= decodeFrameCount[i]
        <3>1. Told(i) <= Len(queueAck[i])
            <4>1. queueAck[i] \in Seq({0, -1})
                BY <1>M, <1>T
            <4>2. queueAck[i] # <<>> => Len(queueAck[i]) >= 1
                BY <4>1
            <4> QED
                BY <4>2, <1>N DEF Told
        <3> QED
            <4> DEFINE a == Len(queueAck[i])
                       d == decodeFrameCount[i]
                       o == Told(i)
            <4>1. ~failed => shown + 1 + a <= d + o
                BY <2>1, <1>V DEF Acked
            <4>3. o <= a /\ a \in Int /\ d \in Int /\ o \in Int /\ shown \in Int
                BY <3>1, <1>S, <1>I
            <4> HIDE DEF a, d, o
            <4>2. ~failed => shown + 1 <= d
                BY <4>1, <4>3
            <4> QED
                BY <4>2 DEF d
    <2> QED
        BY <2>2, <2>3, <2>4, <1>4, <1>W, <1>K DEF Behind
<1>5. CASE TellBuffer
    <2>1. /\ shows = "tell" /\ shows' = "out" /\ shown' = shown + 1
          /\ UNCHANGED <<queues, abandoned, failed>>
        BY <1>5 DEF TellBuffer
    <2>2. gpuOutput
        BY <2>1 DEF Place
    <2> QED
        BY <2>1, <2>2, <1>4, <1>E, <1>K, <1>Q DEF HostFrames
<1>6. CASE CopyFrame
    <2>1. /\ shows = "copy" /\ queueFrames[mediaIndex] # <<>>
          /\ pixels' = [pixels EXCEPT ![mediaIndex] = Head(queueFrames[mediaIndex])]
          /\ queueFrames' = Pop(queueFrames, mediaIndex)
          /\ NextStream("copy", "out")
          /\ shown' = IF mediaIndex = mediaCount THEN shown + 1 ELSE shown
          /\ UNCHANGED <<queueCmd, queueAck, abandoned, failed>>
        BY <1>6 DEF CopyFrame
    <2>2. mediaIndex \in Streams /\ mediaIndex <= mediaCount
        BY <2>1, <1>B DEF Typed, DecoderTypeOK, Streams
    <2>3. Ends(i)'
        BY <2>1, <1>E
    <2>4. Ahead(i)' /\ Acked(i)' /\ Behind(i)' /\ Tokens(i)'
        <3>1. CASE mediaIndex = mediaCount
            BY <3>1, <2>1, <1>4, <1>B DEF NextStream
        <3>2. CASE mediaIndex # mediaCount
            <4>1. shows' = "copy" /\ shown' = shown
                BY <3>2, <2>1, <2>2, <1>B DEF NextStream
            <4>2. Ordered(i)' = Ordered(i) /\ Taken(i)' = Taken(i) /\ ~Closing /\ ~Closing'
                BY <4>1, <2>1 DEF Ordered, Taken, Closing
            <4> QED
                BY <4>1, <4>2, <2>1, <1>K, <1>S, <1>V DEF Ahead, Tokens, Load, Acked, Behind
        <3> QED
            BY <3>1, <3>2
    <2>5. /\ i # mediaIndex => Given(i)' = Given(i)
          /\ i = mediaIndex => Given(i)' = Given(i) + 1
        BY <2>1, <2>2, <1>B, <1>N DEF NextStream, Given, Copied
    <2>6. HostFrames(i)'
        <3>1. CASE i # mediaIndex
            <4>1. queueFrames'[i] = queueFrames[i] /\ pixels'[i] = pixels[i]
                BY <3>1, <2>1, <2>2, <1>M, <1>T DEF Pop
            <4> QED
                BY <4>1, <3>1, <2>1, <2>5, <1>K, <1>S, <1>V DEF HostFrames
        <3>2. CASE i = mediaIndex
            <4> SUFFICES ASSUME ~gpuOutput, ~failed PROVE HostFrames(i)'
                BY <2>1, <1>K DEF HostFrames
            <4>1. /\ queueFrames'[i] = Tail(queueFrames[i])
                  /\ pixels'[i] = Head(queueFrames[i])
                BY <3>2, <2>1, <2>2, <1>M, <1>T DEF Pop
            <4>2. /\ Len(queueFrames[i]) \in Nat \ {0} /\ Len(queueFrames'[i]) = Len(queueFrames[i]) - 1
                  /\ pixels'[i] = queueFrames[i][1]
                  /\ \A k \in 1..Len(queueFrames'[i]): k + 1 \in 1..Len(queueFrames[i]) /\ queueFrames'[i][k] = queueFrames[i][k + 1]
                <5>1. queueFrames[i] \in Seq(Nat) /\ queueFrames[i] # <<>>
                    BY <3>2, <2>1, <1>M, <1>T
                <5> QED
                    BY <4>1, <5>1, Lengthy
            <4>3. Given(i)' = Given(i) + 1
                BY <3>2, <2>5
            <4>4. Len(queueFrames'[i]) + Given(i)' = Stored(i)'
                BY <4>2, <4>3, <1>S, <1>B, <1>V DEF HostFrames
            <4>5. \A k \in 1..Len(queueFrames'[i]): queueFrames'[i][k] = Given(i)' + k - 1
                <5> TAKE k \in 1..Len(queueFrames'[i])
                <5>1. k \in Int /\ queueFrames'[i][k] = Given(i) + (k + 1) - 1
                    BY <4>2, <1>V DEF HostFrames
                <5> QED
                    BY <5>1, <4>3, <1>B
            <4>6. pixels'[i] = Given(i)' - 1
                <5>1. queueFrames[i][1] = Given(i) + 1 - 1
                    BY <4>2, <1>V DEF HostFrames
                <5> QED
                    BY <5>1, <4>2, <4>3, <1>B
            <4> QED
                BY <4>4, <4>5, <4>6 DEF HostFrames
        <3> QED
            BY <3>1, <3>2
    <2> QED
        BY <2>3, <2>4, <2>6, <1>Q
\* The destructor: what it does to the queues does not matter any more.
<1>7. ASSUME Closing', UNCHANGED <<queueFrames, pixels, shown, failed>>,
             queueAck'[i] = queueAck[i] \/ (queueAck[i] # <<>> /\ queueAck'[i] = Tail(queueAck[i])),
             shows # "copy"
      PROVE  StreamInv(i)'
    <2>1. Given(i)' = Given(i)
        BY <1>7 DEF Closing, Given, Copied
    <2> QED
        BY <2>1, <1>7, <1>E, <1>K, <1>S, <1>V, <1>Q DEF Ahead, Tokens, Load, Acked, Behind, HostFrames
<1>8. CASE Abort \/ Drain \/ Join \/ DecoderClose
    BY <1>8, <1>7 DEF Abort, Drain, Join, DecoderClose, NextStream, Closing
<1>9. CASE TakeAck
    <2>1. mediaIndex \in Streams
        BY <1>9, <1>B DEF TakeAck, Typed, DecoderTypeOK, Streams
    <2>2. queueAck'[i] = queueAck[i] \/ (queueAck[i] # <<>> /\ queueAck'[i] = Tail(queueAck[i]))
        BY <1>9, <2>1, <1>M, <1>T DEF TakeAck, Pop
    <2> QED
        BY <1>9, <2>2, <1>7 DEF TakeAck, Closing
<1>10. CASE ProcessFrame \/ Shown
    <2>1. /\ Ordered(i) = 0 /\ Ordered(i)' = 0 /\ Taken(i) = 0 /\ Taken(i)' = 0
          /\ Given(i)' = Given(i) /\ ~Closing /\ ~Closing'
          /\ UNCHANGED <<queues, image, history>>
        BY <1>10, <1>B DEF ProcessFrame, Shown, Ordered, Taken, Given, Copied, Closing
    <2> QED
        BY <2>1, <1>E, <1>K, <1>S, <1>V, <1>Q DEF Ahead, Tokens, Load, Acked, Behind, HostFrames
<1> QED
    BY <1>1, <1>2, <1>3, <1>5, <1>6, <1>8, <1>9, <1>10 DEF NodeStep, DecoderNode

LEMMA PlaceStep ==
    ASSUME Typed, Place, DecoderNext
    PROVE  Place'
<1> USE DEF arguments, files, queues, counts, node, image, history
<1>B. mediaCount \in Nat /\ mediaIndex \in Nat /\ shown \in Nat /\ outputFrameCount \in Nat /\ gpuOutput \in BOOLEAN
    BY DEF Typed, DecoderTypeOK
<1>1. CASE \E i \in Media: DecodeLoop(i)
    <2>1. UNCHANGED Kept
        BY <1>1, ThreadFrame
    <2> QED
        BY <2>1 DEF Kept, Place
<1>2. CASE TellBuffer
    <2>1. /\ shows = "tell" /\ shows' = "out" /\ shown' = shown + 1 /\ gpuOutput' = gpuOutput
          /\ outputFrameCount' = outputFrameCount + 1 /\ buffer' = outputFrameCount % PoolSize
        BY <1>2 DEF TellBuffer
    <2>2. (~failed => outputFrameCount = shown) /\ shown' - 1 = shown /\ failed' = failed
        BY <1>2, <2>1, <1>B DEF Place, TellBuffer
    <2> QED
        BY <2>1, <2>2, <1>B DEF Place
<1>3. CASE CopyFrame
    <2>1. /\ ~gpuOutput /\ ~gpuOutput'
          /\ shows' = "copy" \/ (shows' = "out" /\ shown' = shown + 1)
        <3>1. mediaIndex \in Media
            BY <1>3 DEF CopyFrame, Typed, DecoderTypeOK
        <3>2. mediaIndex < mediaCount \/ mediaIndex = mediaCount
            BY <3>1, <1>B DEF Media
        <3>3. shows' = "copy" \/ (shows' = "out" /\ shown' = shown + 1)
            BY <1>3, <3>2 DEF CopyFrame, NextStream
        <3> QED
            BY <1>3, <3>3 DEF CopyFrame, Place
    <2> QED
        BY <2>1, <1>B DEF Place
<1>4. CASE OrderFrame
    BY <1>4 DEF OrderFrame, NextStream, Place
<1>5. CASE PopAck
    <2>1. shows' \in {"idle", "wait", "order"} /\ UNCHANGED <<gpuOutput, outputFrameCount, shown, buffer, failed>>
        BY <1>5 DEF PopAck, NextStream
    <2> QED
        BY <2>1 DEF Place
<1>7. CASE AuxFails \/ TellFails \/ CopyFails
    <2>1. shows' = "idle" /\ failed'
        BY <1>7 DEF AuxFails, TellFails, CopyFails
    <2> QED
        BY <2>1 DEF Place
<1>6. CASE ProcessFrame \/ Shown \/ DecoderClose \/ Abort \/ Drain \/ TakeAck \/ Join
    <2>1. /\ shows' \notin {"tell", "copy", "out"}
          /\ UNCHANGED <<gpuOutput, outputFrameCount, shown, buffer, failed>>
        BY <1>6 DEF ProcessFrame, Shown, DecoderClose, Abort, Drain, TakeAck, Join, NextStream
    <2> QED
        BY <2>1 DEF Place
<1> QED
    BY <1>1, <1>2, <1>3, <1>4, <1>5, <1>6, <1>7 DEF DecoderNext, DecoderNode

\* What ended stays ended, and a thread ends when it writes back its word.
LEMMA EndedStays ==
    ASSUME Typed, NEW i \in Media, DecodeLoop(i), NEW j \in Media
    PROVE  /\ Ended(j) => Ended(j)'
           /\ ~MarkEof(i) => (Ended(j)' <=> Ended(j))
           /\ j # i => (Ended(j)' <=> Ended(j))
<1>T. /\ i \in Streams /\ j \in Streams /\ decoding \in [Streams -> Labels]
    BY MediaAreStreams DEF Typed, DecoderTypeOK
<1>1. CASE i # j
    BY <1>1, ThreadFrame DEF Ended
<1>2. CASE i = j
    BY <1>2, <1>T DEF Ended, GoesTo, At, DecodeLoop, PopCommand, ReadPacket, SeekStart, ReadEnds, SendFails, ReceiveAgain,
        ReceiveFrame, ReceiveFails, StoreFrame, StoreFails, AckFrame, ReadEof, MarkEof, AckEnd
<1> QED
    BY <1>1, <1>2

LEMMA FlagsStep ==
    ASSUME Typed, Flags, DecoderNext
    PROVE  Flags'
<1> USE DEF arguments, files, queues, counts, node, image, history
<1>M. Media \subseteq Streams
    BY MediaAreStreams DEF Typed
<1>T. eof \in [Streams -> BOOLEAN] /\ word \in [Streams -> [Streams -> BOOLEAN]]
    BY DEF Typed, DecoderTypeOK
<1>1. ASSUME UNCHANGED <<mediaCount, eof, word, forgot>>, \A j \in Media: Ended(j)' <=> Ended(j)
      PROVE  Flags'
    <2>1. Media' = Media
        BY <1>1 DEF Media
    <2> QED
        BY <1>1, <2>1, Zenon DEF Flags
<1>2. CASE NodeStep
    <2>1. UNCHANGED <<mediaCount, eof, word, forgot, decoding>>
        BY <1>2, NodeFrame
    <2> QED
        BY <2>1, <1>1 DEF Ended
<1>3. ASSUME NEW i \in Media, DecodeLoop(i) PROVE Flags'
    <2>1. Media' = Media
        BY <1>3, ThreadFrame DEF Kept, Media
    <2>2. CASE ReadEof(i)
        <3>1. /\ UNCHANGED <<eof, forgot>> /\ word' = [word EXCEPT ![i] = eof] /\ ~MarkEof(i)
            BY <2>2 DEF ReadEof, MarkEof, At
        <3>2. \A j \in Media: Ended(j)' <=> Ended(j)
            BY <1>3, <3>1, EndedStays
        <3>3. \A k \in Streams: word'[k] = IF k = i THEN eof ELSE word[k]
            BY <3>1, <1>M, <1>T
        <3>4. \A j \in Media, k \in Streams: word'[k][j] => Ended(j)
            BY <3>3, Zenon DEF Flags
        <3> QED
            BY <2>1, <3>1, <3>2, <3>4, Zenon DEF Flags
    <2>3. CASE MarkEof(i)
        <3>1. /\ eof' = [j \in Streams |-> j = i \/ (IF SameWord(i, j) THEN word[i][j] ELSE eof[j])]
              /\ forgot' = (forgot \/ \E j \in Streams \ {i}: SameWord(i, j) /\ eof[j] /\ ~word[i][j])
              /\ word' = [word EXCEPT ![i] = NoFlags]
            BY <2>3 DEF MarkEof
        <3>2. \A j \in Media: Ended(j) => Ended(j)'
            BY <1>3, EndedStays
        <3>3. Ended(i)'
            BY <2>3, <1>M DEF MarkEof, GoesTo, Ended, At, Typed, DecoderTypeOK
        <3>4. \A j \in Media \ {i}: Ended(j)' <=> Ended(j)
            BY <1>3, EndedStays
        <3>5. \A j \in Media: eof'[j] <=> (j = i \/ (IF SameWord(i, j) THEN word[i][j] ELSE eof[j]))
            BY <3>1, <1>M, Zenon
        <3>6. \A j \in Media: eof'[j] => Ended(j)'
            BY <3>2, <3>3, <3>5, <1>M DEF Flags
        <3>7. \A j \in Media, k \in Streams: word'[k][j] => Ended(j)'
            <4>1. \A k \in Streams: word'[k] = IF k = i THEN NoFlags ELSE word[k]
                BY <3>1, <1>M, <1>T
            <4>2. \A j \in Media: ~NoFlags[j]
                BY <1>M DEF NoFlags
            <4>3. \A j \in Media, k \in Streams: word[k][j] => Ended(j)
                BY DEF Flags
            <4> TAKE j \in Media, k \in Streams
            <4>4. CASE k = i
                BY <4>1, <4>2, <4>4
            <4>5. CASE k # i
                BY <4>1, <4>3, <4>5, <3>2
            <4> QED
                BY <4>4, <4>5
        <3>8. ASSUME ~forgot', NEW j \in Media, Ended(j)' PROVE eof'[j]
            <4>1. CASE j = i
                BY <4>1, <3>5
            <4>2. CASE j # i
                <5>1. Ended(j) /\ ~forgot
                    BY <3>8, <4>2, <3>4, <3>1, Zenon
                <5>2. eof[j]
                    BY <5>1 DEF Flags
                <5>3. j \in Streams \ {i}
                    BY <4>2, <1>M
                <5>4. SameWord(i, j) => word[i][j]
                    BY <3>1, <3>8, <5>2, <5>3, Zenon
                <5> QED
                    BY <3>5, <5>2, <5>4
            <4> QED
                BY <4>1, <4>2
        <3> QED
            BY <2>1, <3>6, <3>7, <3>8 DEF Flags
    <2>4. CASE ~ReadEof(i) /\ ~MarkEof(i)
        <3>1. UNCHANGED <<mediaCount, eof, word, forgot>>
            BY <1>3, <2>4 DEF DecodeLoop, PopCommand, ReadPacket, SeekStart, ReadEnds, SendFails, ReceiveAgain,
                ReceiveFrame, ReceiveFails, StoreFrame, StoreFails, AckFrame, AckEnd
        <3>2. \A j \in Media: Ended(j)' <=> Ended(j)
            BY <1>3, <2>4, EndedStays
        <3> QED
            BY <3>1, <3>2, <1>1
    <2> QED
        BY <2>2, <2>3, <2>4
<1> QED
    BY <1>2, <1>3 DEF DecoderNext, NodeStep

LEMMA DecoderInvInit == DecoderInit => DecoderInv
<1> SUFFICES ASSUME DecoderInit PROVE (\A i \in Media: StreamInv(i)) /\ Place /\ Flags /\ Typed
    BY DEF DecoderInv, Typed
<1>1. Typed
    BY TypeInit
<1>2. ASSUME NEW i \in Media PROVE StreamInv(i)
    <2>1. i \in Streams
        BY <1>1, MediaAreStreams DEF Typed
    <2>2. /\ queueCmd[i] = [k \in 1..PoolSize - 1 |-> "decode"] /\ queueAck[i] = <<>> /\ queueFrames[i] = <<>>
          /\ decoding[i] = "pop" /\ received[i] = 0 /\ decodeFrameCount[i] = 0
          /\ shows = "idle" /\ shown = 0
        BY <2>1, Zenon DEF DecoderInit
    <2>3. Len(queueCmd[i]) = PoolSize - 1 /\ Len(queueAck[i]) = 0 /\ Len(queueFrames[i]) = 0
        BY <2>2
    <2>4. /\ Busy(i) = 0 /\ Held(i) = 0 /\ InHand(i) = 0 /\ Stored(i) = 0 /\ ~Over(i) /\ Told(i) = 0
          /\ Taken(i) = 0 /\ Ordered(i) = 0 /\ Given(i) = 0
        BY <2>2 DEF Busy, Held, InHand, Stored, Over, Told, Taken, Ordered, Given, Copied, At
    <2> QED
        BY <2>2, <2>3, <2>4 DEF StreamInv, Ahead, Tokens, Load, Acked, Behind, Ends, Counted, GpuFrames, HostFrames, At
<1>3. Place
    BY DEF DecoderInit, Place
<1>4. Flags
    <2>1. Media \subseteq Streams
        BY <1>1, MediaAreStreams DEF Typed
    <2>2. eof = NoFlags /\ word = [i \in Streams |-> NoFlags] /\ decoding = [i \in Streams |-> "pop"]
        BY Zenon DEF DecoderInit
    <2>3. \A j \in Media: ~eof[j] /\ ~Ended(j) /\ (\A i \in Streams: ~word[i][j])
        BY <2>1, <2>2 DEF NoFlags, Ended
    <2> QED
        BY <2>3 DEF Flags
<1> QED
    BY <1>1, <1>2, <1>3, <1>4

LEMMA DecoderInvStep == DecoderInv /\ Typed /\ Typed' /\ [DecoderNext]_decoderVars => DecoderInv'
<1> SUFFICES ASSUME DecoderInv, Typed, Typed', [DecoderNext]_decoderVars PROVE DecoderInv'
    OBVIOUS
<1>1. CASE DecoderNext
    <2>1. Place' /\ Flags'
        BY <1>1, PlaceStep, FlagsStep DEF DecoderInv
    <2>2. Media' = Media
        <3>1. CASE \E i \in Media: DecodeLoop(i)
            BY <3>1, ThreadFrame DEF Kept, Media
        <3>2. CASE NodeStep
            BY <3>2, NodeFrame DEF arguments, Media
        <3> QED
            BY <3>1, <3>2, <1>1 DEF DecoderNext, NodeStep
    <2>3. ASSUME NEW j \in Media PROVE StreamInv(j)'
        <3>1. ASSUME NEW i \in Media, DecodeLoop(i) PROVE StreamInv(j)'
            <4>1. CASE i = j
                BY <3>1, <4>1, OwnStep DEF DecoderInv
            <4>2. CASE i # j
                BY <3>1, <4>2, OtherStream DEF DecoderInv
            <4> QED
                BY <4>1, <4>2
        <3>2. CASE NodeStep
            BY <3>2, CallbackStep DEF DecoderInv
        <3> QED
            BY <3>1, <3>2, <1>1 DEF DecoderNext, NodeStep
    <2> QED
        BY <2>1, <2>2, <2>3 DEF DecoderInv, Typed
<1>2. CASE UNCHANGED decoderVars
    <2>1. ASSUME NEW i \in Media PROVE StreamInv(i)'
        <3> USE <1>2 DEF decoderVars, arguments, files, queues, counts, node, image, history, DecoderInv, StreamInv
        <3>1. /\ Busy(i)' = Busy(i) /\ InHand(i)' = InHand(i) /\ Stored(i)' = Stored(i) /\ (Over(i)' <=> Over(i))
              /\ Held(i)' = Held(i) /\ Told(i)' = Told(i)
              /\ Taken(i)' = Taken(i) /\ Ordered(i)' = Ordered(i) /\ Given(i)' = Given(i) /\ (Closing' <=> Closing)
            BY DEF Busy, Held, InHand, Stored, Over, Told, Taken, Ordered, Copied, Given, Closing, At
        <3>2. Ahead(i)' /\ Tokens(i)' /\ Acked(i)' /\ Behind(i)' /\ Counted(i)'
            BY <3>1 DEF Ahead, Tokens, Load, Acked, Behind, Counted
        <3>3. Ends(i)' /\ GpuFrames(i)'
            BY <3>1 DEF Ends, GpuFrames, At
        <3>4. HostFrames(i)'
            BY <3>1 DEF HostFrames
        <3> QED
            BY <3>2, <3>3, <3>4
    <2>2. Place' /\ Flags' /\ Media' = Media
        BY <1>2 DEF decoderVars, arguments, files, queues, counts, node, image, history, DecoderInv,
            Place, Flags, Ended, Media
    <2> QED
        BY <2>1, <2>2 DEF DecoderInv, Typed
<1> QED
    BY <1>1, <1>2

LEMMA DecoderInvariant == DecoderSpec => [](DecoderInv /\ Typed)
<1>1. DecoderInit => DecoderInv
    BY DecoderInvInit
<1>2. DecoderInv /\ Typed /\ Typed' /\ [DecoderNext]_decoderVars => DecoderInv'
    BY DecoderInvStep
<1> QED
    BY <1>1, <1>2, AlwaysTyped, PTL DEF DecoderSpec

------------------------------------------------------------------------------
(***************************************************************************)
(* What follows.                                                           *)
(***************************************************************************)
LEMMA Counts ==
    ASSUME Typed, NEW i \in Media
    PROVE  /\ decodeFrameCount[i] \in Nat /\ received[i] \in Nat /\ shown \in Nat
           /\ Len(queueCmd[i]) \in Nat
           /\ Busy(i) \in 0..1 /\ i \in Streams
<1>1. i \in Streams
    BY MediaAreStreams DEF Typed
<1>2. queueCmd[i] \in Seq({"decode", "abort"})
    BY <1>1 DEF Typed, DecoderTypeOK
<1> QED
    BY <1>1, <1>2 DEF Typed, DecoderTypeOK, Busy

\* While the graph and the application use the buffer that ProcessFrame told
\* them, no thread of DecodeLoop fills it.
THEOREM BufferStays == DecoderSpec => []BufferIsStable
<1>1. DecoderInv /\ Typed => BufferIsStable
    <2> SUFFICES ASSUME DecoderInv, Typed, gpuOutput, shown > 0, ~failed, shows \in {"idle", "out"},
                        NEW i \in Media, At(i, "store")
                 PROVE  Filled(i) # buffer
        BY DEF BufferIsStable
    <2>1. /\ decodeFrameCount[i] \in Nat /\ shown \in Nat /\ Len(queueCmd[i]) \in Nat
        BY Counts
    <2>2. Busy(i) = 1 /\ Ordered(i) = 0 /\ ~Closing
        BY DEF Busy, Ordered, Closing, At
    <2>3. decodeFrameCount[i] + 1 <= PoolSize - 1 + shown /\ shown <= decodeFrameCount[i]
        BY <2>1, <2>2 DEF DecoderInv, StreamInv, Ahead, Behind
    <2>4. buffer = (shown - 1) % PoolSize
        BY DEF DecoderInv, Place
    <2>5. shown - 1 < decodeFrameCount[i] /\ decodeFrameCount[i] < (shown - 1) + PoolSize /\ shown - 1 \in Int
        BY <2>1, <2>3
    <2>6. (shown - 1) % PoolSize # decodeFrameCount[i] % PoolSize
        <3> DEFINE p == shown - 1
                   q == decodeFrameCount[i]
        <3>1. p \in Int /\ q \in Int /\ p < q /\ q < p + PoolSize /\ PoolSize \in Nat \ {0}
            BY <2>1, <2>5
        <3> HIDE DEF p, q
        <3>2. p % PoolSize # q % PoolSize
            BY <3>1, SlotsDiffer
        <3> QED
            BY <3>2 DEF p, q
    <2> QED
        BY <2>4, <2>6 DEF Filled
<1> QED
    BY <1>1, DecoderInvariant, PTL

\* Every successful call shows the frame of its number, of every stream.
THEOREM FramesInStep == DecoderSpec => []ShowsInStep
<1>1. DecoderInv /\ Typed => ShowsInStep
    <2> SUFFICES ASSUME DecoderInv, Typed, shows = "out", ~failed, \A j \in Media: ~Silent(j), NEW i \in Media
                 PROVE  Frame(i) = shown - 1
        BY DEF ShowsInStep
    <2>1. /\ decodeFrameCount[i] \in Nat /\ received[i] \in Nat /\ shown \in Nat /\ Len(queueCmd[i]) \in Nat
          /\ Busy(i) \in 0..1
        BY Counts
    <2>2. shown > 0 /\ Ordered(i) = 0 /\ Given(i) = shown /\ ~Closing
        BY <2>1 DEF Ordered, Given, Copied, Closing, DecoderInv, Place
    <2>3. CASE ~gpuOutput
        BY <2>2, <2>3 DEF DecoderInv, StreamInv, HostFrames, Frame
    <2>4. CASE gpuOutput
        <3>1. received[i] = decodeFrameCount[i] + InHand(i)
            BY <2>1 DEF DecoderInv, StreamInv, Counted, Silent, InHand, At
        <3>2. decodeFrameCount[i] <= Stored(i) /\ Stored(i) <= decodeFrameCount[i] + Busy(i) /\ Stored(i) \in Nat
            BY <2>1 DEF Stored, Busy, At
        <3>3. shown - 1 \in Nat /\ shown - 1 < Stored(i) /\ Stored(i) <= (shown - 1) + PoolSize
            <4>1. /\ decodeFrameCount[i] + Len(queueCmd[i]) + Busy(i) <= PoolSize - 1 + shown + 0
                  /\ shown <= decodeFrameCount[i]
                BY <2>2 DEF DecoderInv, StreamInv, Ahead, Behind
            <4> DEFINE d == decodeFrameCount[i]
                       q == Len(queueCmd[i])
                       b == Busy(i)
                       r == Stored(i)
            <4>2. /\ d + q + b <= PoolSize - 1 + shown + 0 /\ shown <= d /\ shown > 0 /\ d <= r /\ r <= d + b
                  /\ d \in Nat /\ q \in Nat /\ b \in 0..1 /\ r \in Nat /\ shown \in Nat
                BY <4>1, <2>1, <2>2, <3>2
            <4> HIDE DEF d, q, b, r
            <4>3. shown - 1 \in Nat /\ shown - 1 < r /\ r <= (shown - 1) + PoolSize
                BY <4>2
            <4> QED
                BY <4>3 DEF r
        <3>4. mem[(shown - 1) % PoolSize][i] = shown - 1
            BY <2>4, <3>1, <3>3 DEF DecoderInv, StreamInv, GpuFrames
        <3>5. buffer = (shown - 1) % PoolSize
            BY <2>2, <2>4 DEF DecoderInv, Place
        <3> QED
            BY <2>4, <3>4, <3>5 DEF Frame
    <2> QED
        BY <2>3, <2>4
<1> QED
    BY <1>1, DecoderInvariant, PTL

Decodes(i) == IF decoding[i] \in {"read", "receive", "store", "ack"} THEN 1 ELSE 0

\* The lengths that the invariant counts.
LEMMA DueNumbers ==
    ASSUME Typed, NEW i \in Media
    PROVE  /\ i \in Streams
           /\ queueCmd[i] \in Seq({"decode", "abort"}) /\ queueAck[i] \in Seq({0, -1})
           /\ queueFrames[i] \in Seq(Nat)
           /\ Len(queueCmd[i]) \in Nat /\ Len(queueAck[i]) \in Nat /\ Len(queueFrames[i]) \in Nat
           /\ Taken(i) \in 0..1 /\ Ordered(i) \in 0..1 /\ Copied(i) \in 0..1 /\ Decodes(i) \in 0..1
<1>1. i \in Streams
    BY MediaAreStreams DEF Typed
<1>2. queueCmd \in [Streams -> Seq({"decode", "abort"})]
    BY DEF Typed, DecoderTypeOK
<1>3. queueAck \in [Streams -> Seq({0, -1})]
    BY DEF Typed, DecoderTypeOK
<1>4. queueFrames \in [Streams -> Seq(Nat)]
    BY DEF Typed, DecoderTypeOK
<1>5. /\ queueCmd[i] \in Seq({"decode", "abort"}) /\ queueAck[i] \in Seq({0, -1})
      /\ queueFrames[i] \in Seq(Nat)
    BY <1>1, <1>2, <1>3, <1>4
<1>6. Taken(i) \in 0..1 /\ Ordered(i) \in 0..1 /\ Copied(i) \in 0..1 /\ Decodes(i) \in 0..1
    BY DEF Taken, Ordered, Copied, Decodes
<1> QED
    BY <1>1, <1>5, <1>6

\* With a pool of two an abandoned call has taken the last word of a stream: the
\* next call waits for that stream, or for one before it.
SaidItAll(i) == Over(i) /\ queueAck[i] = <<>> /\ (shows = "wait" => mediaIndex <= i)
Final ==
    abandoned =>
        /\ shows \notin {"order", "tell", "copy", "out"}
        /\ \E i \in Media: SaidItAll(i)

LEMMA FinalStep ==
    ASSUME PoolSize = 2, DecoderInv, Typed, Final, [DecoderNext]_decoderVars
    PROVE  Final'
<1> USE DEF arguments, files, queues, counts, node, image, history
<1>B. mediaCount \in Nat /\ mediaIndex \in Nat
    BY DEF Typed, DecoderTypeOK
<1>M. Media \subseteq Streams /\ Media \subseteq Nat
    BY MediaAreStreams DEF Typed, Media
<1>T. queueAck \in [Streams -> Seq({0, -1})]
    BY DEF Typed, DecoderTypeOK
<1>1. ASSUME NEW i \in Media, DecodeLoop(i) PROVE Final'
    <2>1. UNCHANGED Kept /\ Media' = Media
        BY <1>1, ThreadFrame DEF Kept, Media
    <2>2. ASSUME NEW j \in Media, SaidItAll(j) PROVE SaidItAll(j)'
        <3>1. i # j
            BY <1>1, <2>2 DEF SaidItAll, Over, At, DecodeLoop, PopCommand, ReadPacket, SeekStart, ReadEnds, SendFails,
                ReceiveAgain, ReceiveFrame, ReceiveFails, StoreFrame, StoreFails, AckFrame, ReadEof, MarkEof, AckEnd
        <3>2. decoding'[j] = decoding[j] /\ queueAck'[j] = queueAck[j]
            BY <1>1, <3>1, ThreadFrame
        <3> QED
            BY <2>1, <2>2, <3>2 DEF SaidItAll, Over, At, Kept
    <2> QED
        BY <2>1, <2>2 DEF Kept, Final
<1>2. CASE PopAck
    <2>1. /\ shows = "wait" /\ mediaIndex \in Media /\ queueAck[mediaIndex] # <<>> /\ mediaCount' = mediaCount
          /\ decoding' = decoding /\ queueAck' = Pop(queueAck, mediaIndex)
        BY <1>2 DEF PopAck, Typed, DecoderTypeOK
    <2>2. Media' = Media
        BY <2>1 DEF Media
    <2>3. CASE StreamEnded
        <3>1. shows' = "idle" /\ abandoned' /\ mediaIndex' = mediaIndex
            BY <1>2, <2>3, Zenon DEF PopAck
        <3> DEFINE i == mediaIndex
        <3>2. /\ queueAck[i] \in Seq({0, -1}) /\ queueAck[i] # <<>> /\ queueAck'[i] = Tail(queueAck[i])
              /\ Len(queueAck[i]) \in Nat \ {0} /\ Len(queueCmd[i]) \in Nat
            BY <2>1, <1>M, <1>T, DueNumbers DEF Pop
        <3>3. Ends(i) /\ Tokens(i)
            BY <2>1 DEF DecoderInv, StreamInv
        <3>4. Ended(i)
            <4>1. CASE Head(queueAck[i]) < 0
                <5>1. 1 \in 1..Len(queueAck[i]) /\ queueAck[i][1] = -1
                    BY <4>1, <3>2
                <5> QED
                    BY <5>1, <3>3 DEF Ends, Over, At, Ended
            <4>2. CASE eof[i]
                BY <4>2, <2>1 DEF DecoderInv, Flags
            <4> QED
                BY <4>1, <4>2, <2>3 DEF StreamEnded
        <3>5. Len(queueCmd[i]) + Held(i) + Len(queueAck[i]) <= 1
            <4>1. ~Closing /\ Taken(i) = 0 /\ Ordered(i) = 0
                BY <2>1, <1>B DEF Closing, Taken, Ordered
            <4>2. Len(queueCmd[i]) + Held(i) + Len(queueAck[i]) + 0 <= 2 - 1 + 0
                BY <4>1, <3>3 DEF Tokens, Load
            <4>3. Held(i) \in 0..1
                BY DEF Held
            <4> QED
                BY <4>2, <4>3, <3>2
        <3>6. Over(i) /\ Len(queueAck[i]) = 1
            <4>1. Held(i) \in 0..1 /\ (~Over(i) => Held(i) = 1)
                BY <3>4 DEF Held, Ended, Over, At
            <4> DEFINE c == Len(queueCmd[i])
                       h == Held(i)
                       a == Len(queueAck[i])
            <4>2. /\ c + h + a <= 1 /\ c \in Nat /\ a \in Nat \ {0} /\ h \in 0..1 /\ (~Over(i) => h = 1)
                BY <4>1, <3>2, <3>5
            <4> HIDE DEF c, h, a
            <4>3. Over(i) /\ a = 1
                BY <4>2
            <4> QED
                BY <4>3 DEF a
        <3>7. queueAck'[i] = <<>>
            <4>1. Len(Tail(queueAck[i])) = 1 - 1
                BY <3>2, <3>6, Lengthy
            <4>2. Tail(queueAck[i]) \in Seq({0, -1})
                BY <3>2
            <4>3. \A q \in Seq({0, -1}): Len(q) = 0 => q = <<>>
                OBVIOUS
            <4> QED
                <5>1. Len(Tail(queueAck[i])) = 0
                    BY <4>1
                <5> QED
                    BY <5>1, <4>2, <4>3, <3>2, Zenon
        <3>8. SaidItAll(i)'
            BY <3>1, <3>6, <3>7, <2>1 DEF SaidItAll, Over, At
        <3> QED
            BY <3>1, <3>8, <2>1, <2>2 DEF Final
    <2>4. CASE ~StreamEnded
        <3>1. NextStream("wait", "order") /\ abandoned' = abandoned
            BY <1>2, <2>4, Zenon DEF PopAck
        <3>2. ASSUME abandoned PROVE Final'
            <4>1. PICK i \in Media: SaidItAll(i)
                BY <3>2 DEF Final
            <4>2. Over(i) /\ queueAck[i] = <<>> /\ mediaIndex <= i /\ i # mediaIndex /\ i <= mediaCount /\ i \in Nat
                BY <4>1, <2>1, <1>B DEF SaidItAll, Media
            <4>3. mediaIndex < mediaCount /\ mediaIndex + 1 <= i
                BY <4>2, <1>B
            <4>4. shows' = "wait" /\ mediaIndex' = mediaIndex + 1
                BY <3>1, <4>3 DEF NextStream
            <4>5. SaidItAll(i)'
                BY <4>1, <4>2, <4>3, <4>4, <2>1, <1>M, <1>T DEF SaidItAll, Over, At, Pop
            <4> QED
                BY <4>4, <4>5, <2>2, <4>1 DEF Final
        <3> QED
            BY <3>1, <3>2 DEF Final
    <2> QED
        BY <2>3, <2>4
<1>3. ASSUME UNCHANGED <<mediaCount, decoding, abandoned>>, shows' = "wait" => (mediaIndex' = 1 \/ UNCHANGED <<shows, mediaIndex>>),
             \A i \in Streams: queueAck[i] = <<>> => queueAck'[i] = <<>>,
             shows' \notin {"order", "tell", "copy", "out"} \/ ~abandoned \/ shows' = shows
      PROVE  Final'
    <2> SUFFICES ASSUME abandoned PROVE Final'
        BY <1>3 DEF Final
    <2>1. PICK i \in Media: SaidItAll(i)
        BY DEF Final
    <2>2. SaidItAll(i)' /\ Media' = Media
        BY <2>1, <1>3, <1>M DEF SaidItAll, Over, At, Media
    <2> QED
        BY <2>1, <2>2, <1>3 DEF Final
<1>4. CASE OrderFrame \/ TellBuffer \/ CopyFrame
    <2>1. /\ UNCHANGED <<mediaCount, decoding, abandoned, queueAck>> /\ shows \in {"order", "tell", "copy"}
          /\ shows' \in {"order", "tell", "copy", "out"}
        BY <1>4 DEF OrderFrame, TellBuffer, CopyFrame, NextStream
    <2> QED
        BY <2>1, <1>3 DEF Final
<1>5. CASE AuxFails \/ TellFails \/ CopyFails \/ ProcessFrame \/ Shown \/ DecoderClose \/ Abort \/ Drain \/ Join
    <2>1. /\ UNCHANGED <<mediaCount, decoding, abandoned, queueAck>>
          /\ shows' = "wait" => mediaIndex' = 1
          /\ shows' \notin {"order", "tell", "copy", "out"}
        BY <1>5 DEF AuxFails, TellFails, CopyFails, ProcessFrame, Shown, DecoderClose, Abort, Drain, Join, NextStream
    <2> QED
        BY <2>1, <1>3
<1>6. CASE TakeAck
    <2>1. /\ UNCHANGED <<mediaCount, decoding, abandoned>> /\ shows' \in {"join", "drain"}
          /\ queueAck[mediaIndex] # <<>> /\ queueAck' = Pop(queueAck, mediaIndex)
        BY <1>6 DEF TakeAck
    <2>2. \A i \in Streams: queueAck[i] = <<>> => queueAck'[i] = <<>>
        BY <2>1, <1>T DEF Pop
    <2> QED
        BY <2>1, <2>2, <1>3
<1>7. CASE UNCHANGED decoderVars
    BY <1>7, <1>3 DEF decoderVars
<1> QED
    BY <1>1, <1>2, <1>4, <1>5, <1>6, <1>7 DEF DecoderNext, DecoderNode

LEMMA FinalAlways == ASSUME PoolSize = 2 PROVE DecoderSpec => []Final
<1>1. DecoderInit => Final
    BY DEF DecoderInit, Final
<1>2. DecoderInv /\ Typed /\ Final /\ [DecoderNext]_decoderVars => Final'
    BY FinalStep
<1> QED
    BY <1>1, <1>2, DecoderInvariant, PTL DEF DecoderSpec

\* With a pool of two, once a call was abandoned no later call shows a frame.
THEOREM NothingAfterTheEnd ==
    ASSUME PoolSize = 2
    PROVE  DecoderSpec => EndIsFinal
<1>1. DecoderInv /\ Typed /\ Final /\ [DecoderNext]_decoderVars => (abandoned => shown' = shown)
    <2> SUFFICES ASSUME DecoderInv, Typed, Final, [DecoderNext]_decoderVars, abandoned PROVE shown' = shown
        OBVIOUS
    <2>1. shows \notin {"tell", "copy"}
        BY DEF Final
    <2>2. CASE \E i \in Media: DecodeLoop(i)
        BY <2>2, ThreadFrame DEF Kept
    <2>3. CASE NodeStep
        BY <2>1, <2>3 DEF NodeStep, DecoderNode, ProcessFrame, Shown, DecoderClose, PopAck, OrderFrame, AuxFails,
            TellBuffer, TellFails, CopyFrame, CopyFails, Abort, Drain, TakeAck, Join, history
    <2>4. CASE UNCHANGED decoderVars
        BY <2>4 DEF decoderVars, history
    <2> QED
        BY <2>2, <2>3, <2>4 DEF DecoderNext, NodeStep
<1>2. DecoderInv /\ Typed /\ Final /\ [DecoderNext]_decoderVars => [abandoned => shown' = shown]_decoderVars
    BY <1>1
<1> QED
    BY <1>2, FinalAlways, DecoderInvariant, PTL DEF EndIsFinal, DecoderSpec

\* With a pool of two a call is abandoned only when every frame of a stream that
\* has ended was shown: none is dropped behind the end marker.
THEOREM EveryFrameIsShown ==
    ASSUME PoolSize = 2
    PROVE  DecoderSpec => []NothingDropped
<1>1. DecoderInit => NothingDropped
    BY DEF DecoderInit, NothingDropped
<1>2. DecoderInv /\ Typed /\ Typed' /\ Final /\ NothingDropped /\ [DecoderNext]_decoderVars => NothingDropped'
    <2> SUFFICES ASSUME DecoderInv, Typed, Final, NothingDropped, [DecoderNext]_decoderVars, abandoned', ~failed'
                 PROVE  (\E i \in Media: Ended(i) /\ decodeFrameCount[i] = shown)'
        BY DEF NothingDropped
    <2> USE DEF arguments, files, queues, counts, node, image, history
    <2>M. Media \subseteq Streams
        BY MediaAreStreams DEF Typed
    <2>T. queueAck \in [Streams -> Seq({0, -1})]
        BY DEF Typed, DecoderTypeOK
    \* Nothing that counts changes.
    <2>1. ASSUME UNCHANGED <<mediaCount, shown, abandoned, failed, decoding, decodeFrameCount>>
          PROVE  (\E i \in Media: Ended(i) /\ decodeFrameCount[i] = shown)'
        BY <2>1 DEF NothingDropped, Media, Ended
    <2>2. ASSUME NEW j \in Media, DecodeLoop(j)
          PROVE  (\E i \in Media: Ended(i) /\ decodeFrameCount[i] = shown)'
        <3>1. UNCHANGED Kept
            BY <2>2, ThreadFrame
        <3>2. PICK i \in Media: Ended(i) /\ decodeFrameCount[i] = shown
            BY <3>1 DEF NothingDropped, Kept
        <3>3. Ended(i)'
            BY <2>2, <3>2, EndedStays
        <3>4. decodeFrameCount'[i] = decodeFrameCount[i]
            <4>1. CASE i # j
                BY <2>2, <4>1, ThreadFrame
            <4>2. CASE i = j
                BY <2>2, <3>2, <4>2 DEF Ended, At, DecodeLoop, PopCommand, ReadPacket, SeekStart, ReadEnds, SendFails, ReceiveAgain,
                    ReceiveFrame, ReceiveFails, StoreFrame, StoreFails, AckFrame, ReadEof, MarkEof, AckEnd
            <4> QED
                BY <4>1, <4>2
        <3> QED
            BY <3>1, <3>2, <3>3, <3>4 DEF Kept, Media
    <2>3. CASE PopAck
        <3>1. /\ shows = "wait" /\ mediaIndex \in Media /\ queueAck[mediaIndex] # <<>>
              /\ UNCHANGED <<mediaCount, shown, failed, decoding, decodeFrameCount>>
            BY <2>3 DEF PopAck, Typed, DecoderTypeOK
        <3>2. CASE ~StreamEnded
            BY <2>1, <2>3, <3>1, <3>2, Zenon DEF PopAck
        <3>3. CASE StreamEnded
            <4>1. Ended(mediaIndex)
                <5>1. CASE Head(queueAck[mediaIndex]) < 0
                    <6>1. queueAck[mediaIndex] \in Seq({0, -1})
                        BY <3>1, <2>M, <2>T
                    <6>2. 1 \in 1..Len(queueAck[mediaIndex]) /\ queueAck[mediaIndex][1] = -1
                        BY <6>1, <5>1, <3>1
                    <6> QED
                        BY <6>2, <3>1 DEF DecoderInv, StreamInv, Ends, Over, At, Ended
                <5>2. CASE eof[mediaIndex]
                    BY <5>2, <3>1 DEF DecoderInv, Flags
                <5> QED
                    BY <5>1, <5>2, <3>3 DEF StreamEnded
            <4>2. Busy(mediaIndex) = 1
                BY <4>1 DEF Ended, Busy, At
            <4>3. /\ decodeFrameCount[mediaIndex] \in Nat /\ shown \in Nat /\ Len(queueCmd[mediaIndex]) \in Nat
                BY <3>1, Counts
            <4>4. Ordered(mediaIndex) = 0 /\ ~Closing /\ ~failed
                BY <3>1 DEF Ordered, Closing
            <4>5. decodeFrameCount[mediaIndex] = shown
                BY <4>2, <4>3, <4>4, <3>1 DEF DecoderInv, StreamInv, Ahead, Behind
            <4> QED
                BY <3>1, <4>1, <4>5 DEF Media, Ended
        <3> QED
            BY <3>2, <3>3
    <2>4. CASE TellBuffer \/ CopyFrame
        <3>1. shows \in {"tell", "copy"} /\ abandoned
            BY <2>4 DEF TellBuffer, CopyFrame
        <3> QED
            BY <3>1 DEF Final
    <2>5. CASE AuxFails \/ TellFails \/ CopyFails
        BY <2>5 DEF AuxFails, TellFails, CopyFails
    <2>6. CASE OrderFrame \/ ProcessFrame \/ Shown \/ DecoderClose \/ Abort \/ Drain \/ TakeAck \/ Join
        <3>1. UNCHANGED <<mediaCount, shown, abandoned, failed, decoding, decodeFrameCount>>
            BY <2>6 DEF OrderFrame, ProcessFrame, Shown, DecoderClose, Abort, Drain, TakeAck, Join
        <3> QED
            BY <3>1, <2>1
    <2>7. CASE UNCHANGED decoderVars
        BY <2>7, <2>1 DEF decoderVars
    <2> QED
        BY <2>2, <2>3, <2>4, <2>5, <2>6, <2>7 DEF DecoderNext, DecoderNode
<1> QED
    BY <1>1, <1>2, FinalAlways, DecoderInvariant, AlwaysTyped, PTL DEF DecoderSpec
------------------------------------------------------------------------------
(***************************************************************************)
(* Nobody waits for ever: what the node waits for has come, or will come   *)
(* from a thread that still has something to do.                           *)
(***************************************************************************)
Ending(i) == decoding[i] \in {"stop", "mark", "tell", "exit", "quit"}

\* Every buffer of the pool but one is ordered, decoded, acknowledged or taken.
AllUnderWay(i) ==
    ~Closing /\ ~abandoned /\ ~Silent(i) /\ ~Ending(i) =>
        Len(queueCmd[i]) + Decodes(i) + Len(queueAck[i]) + Taken(i) = PoolSize - 1 + Ordered(i)

\* The destructor is done with stream i.
Dismissed(i) == shows = "gone" \/ (Closing /\ (i < mediaIndex \/ (shows = "join" /\ i = mediaIndex)))

\* The last acknowledgement of an ended thread is still there for the call, or
\* the destructor, that will ask for it: unless a call took it, and then the flag
\* of the stream tells the destructor, when it was not lost.
EndIsTold(i) ==
    (~abandoned /\ ~Dismissed(i)) \/ (~forgot /\ shows = "take" /\ i = mediaIndex) => (Over(i) => queueAck[i] # <<>>)

\* In host mode every frame that was acknowledged has a place in queueFrames.
FramesCome(i) ==
    ~gpuOutput =>
        Len(queueAck[i]) + Taken(i) + (IF At(i, "ack") THEN 1 ELSE 0)
            <= Len(queueFrames[i]) + Copied(i) + Told(i)

\* The destructor's abort is still to be seen by a thread that works.
AbortComes(i) ==
    shows \in {"drain", "take", "join"} /\ i = mediaIndex /\ ~Ending(i) =>
        \E k \in 1..Len(queueCmd[i]): queueCmd[i][k] = "abort"

JoinsEnded(i) == shows = "join" /\ i = mediaIndex => Ended(i)

Due(i) == AllUnderWay(i) /\ EndIsTold(i) /\ FramesCome(i) /\ AbortComes(i) /\ JoinsEnded(i)
AllDue == \A i \in Media: Due(i)

\* The thread of stream i can do nothing.
ThreadRests(i) == decoding[i] \in {"exit", "quit"} \/ (At(i, "pop") /\ queueCmd[i] = <<>>)

\* A callback can do nothing.
DecoderWaits ==
    \/ shows \in {"wait", "take"} /\ queueAck[mediaIndex] = <<>>
    \/ shows = "copy" /\ queueFrames[mediaIndex] = <<>>
    \/ shows = "join" /\ decoding[mediaIndex] \notin {"exit", "quit"}

\* Both rest only when the thread is gone without a word, or a frame was not
\* stored, or the call was made although one was abandoned before, or a call has
\* taken the last word of a stream whose flag was lost.
DecoderGoesOn ==
    DecoderWaits /\ ThreadRests(mediaIndex) =>
        Silent(mediaIndex) \/ (shows = "wait" /\ abandoned) \/ (abandoned /\ forgot)

LEMMA ForgotStays == ASSUME NEW i \in Media, DecodeLoop(i), forgot PROVE forgot'
<1> USE DEF history
<1>1. CASE MarkEof(i)
    BY <1>1 DEF MarkEof
<1>2. CASE ~MarkEof(i)
    BY <1>2 DEF DecodeLoop, PopCommand, ReadPacket, SeekStart, ReadEnds, SendFails, ReceiveAgain,
        ReceiveFrame, ReceiveFails, StoreFrame, StoreFails, AckFrame, ReadEof, AckEnd
<1> QED
    BY <1>1, <1>2

LEMMA SilentThread == ASSUME Typed, NEW i \in Media, DecodeLoop(i), Silent(i) PROVE Silent(i)'
<1> USE DEF arguments, files, queues, counts, node, image, history
<1>T. /\ i \in Streams
      /\ decoding \in [Streams -> Labels] /\ received \in [Streams -> Nat] /\ decodeFrameCount \in [Streams -> Nat]
      /\ received[i] \in Nat /\ decodeFrameCount[i] \in Nat
    BY MediaAreStreams DEF Typed, DecoderTypeOK
<1>1. ~At(i, "quit") /\ received[i] > decodeFrameCount[i] + InHand(i)
    BY DEF Silent, At, InHand, DecodeLoop, PopCommand, ReadPacket, SeekStart, ReadEnds, SendFails,
        ReceiveAgain, ReceiveFrame, ReceiveFails, StoreFrame, StoreFails, AckFrame, ReadEof, MarkEof, AckEnd
<1>2. ASSUME received'[i] > decodeFrameCount'[i] + InHand(i)' PROVE Silent(i)'
    BY <1>2 DEF Silent, InHand, At
<1>3. CASE ReceiveFrame(i)
    <2>1. received'[i] = received[i] + 1 /\ decodeFrameCount' = decodeFrameCount /\ InHand(i)' = 1 /\ InHand(i) = 0
        BY <1>3, <1>T DEF ReceiveFrame, GoesTo, At, InHand
    <2> QED
        BY <2>1, <1>1, <1>2, <1>T
<1>4. CASE AckFrame(i)
    <2>1. /\ received' = received /\ decodeFrameCount'[i] = decodeFrameCount[i] + 1
          /\ InHand(i)' = 0 /\ InHand(i) = 1
        BY <1>4, <1>T DEF AckFrame, GoesTo, At, InHand
    <2> QED
        BY <2>1, <1>1, <1>2, <1>T
<1>5. CASE StoreFrame(i)
    <2>1. /\ UNCHANGED <<received, decodeFrameCount>> /\ InHand(i)' = 1 /\ InHand(i) = 1
        BY <1>5, <1>T DEF StoreFrame, GoesTo, At, InHand
    <2> QED
        BY <2>1, <1>1, <1>2
<1>6. CASE PopCommand(i) \/ ReadPacket(i) \/ ReadEnds(i) \/ SendFails(i) \/ ReceiveAgain(i) \/ ReceiveFails(i)
    <2>1. UNCHANGED <<received, decodeFrameCount>> /\ InHand(i)' = 0 /\ InHand(i) = 0
        BY <1>6, <1>T DEF PopCommand, ReadPacket, ReadEnds, SendFails, ReceiveAgain, ReceiveFails, GoesTo, At, InHand
    <2> QED
        BY <2>1, <1>1, <1>2
<1>7. CASE SeekStart(i) \/ ReadEof(i) \/ MarkEof(i) \/ AckEnd(i) \/ StoreFails(i)
    <2>1. UNCHANGED <<received, decodeFrameCount>> /\ InHand(i)' = 0
        BY <1>7, <1>T DEF SeekStart, ReadEof, MarkEof, AckEnd, StoreFails, GoesTo, At, InHand
    <2>2. received[i] > decodeFrameCount[i] + 0
        BY <1>1, <1>T DEF InHand
    <2> QED
        BY <2>1, <2>2, <1>2
<1> QED
    BY <1>3, <1>4, <1>5, <1>6, <1>7 DEF DecodeLoop

LEMMA Sums ==
    ASSUME NEW a \in Int, NEW t \in Int, NEW f \in Int, NEW c \in Int
    PROVE  /\ a + t + 0 <= f + c + 0 => a + t + 1 <= (f + 1) + c + 0 /\ (a + 1) + t + 0 <= f + c + 1
           /\ a + t + 1 <= f + c + 0 => (a + 1) + t + 0 <= f + c + 0
OBVIOUS

LEMMA DueThread ==
    ASSUME Typed, Typed', NEW i \in Media, DecodeLoop(i), StreamInv(i), Due(i)
    PROVE  Due(i)'
<1> USE DEF arguments, files, queues, counts, node, image, history, GoesTo
<1>N. /\ i \in Streams
      /\ queueCmd[i] \in Seq({"decode", "abort"}) /\ queueAck[i] \in Seq({0, -1})
      /\ queueFrames[i] \in Seq(Nat)
      /\ Len(queueCmd[i]) \in Nat /\ Len(queueAck[i]) \in Nat /\ Len(queueFrames[i]) \in Nat
      /\ Taken(i) \in 0..1 /\ Ordered(i) \in 0..1 /\ Copied(i) \in 0..1
    BY DueNumbers
<1>I. /\ Len(queueCmd[i]) \in Int /\ Len(queueAck[i]) \in Int /\ Len(queueFrames[i]) \in Int
      /\ Taken(i) \in Int /\ Ordered(i) \in Int /\ Copied(i) \in Int
    BY <1>N
<1>R. received[i] \in Nat /\ decodeFrameCount[i] \in Nat
    BY <1>N DEF Typed, DecoderTypeOK
<1>T. /\ decoding \in [Streams -> Labels]
      /\ queueCmd \in [Streams -> Seq({"decode", "abort"})]
      /\ queueAck \in [Streams -> Seq({0, -1})] /\ queueFrames \in [Streams -> Seq(Nat)]
    BY DEF Typed, DecoderTypeOK
<1>K. UNCHANGED <<gpuOutput, shows, mediaIndex, abandoned>>
    BY ThreadFrame DEF Kept
<1>C. /\ Taken(i)' = Taken(i) /\ Ordered(i)' = Ordered(i) /\ Copied(i)' = Copied(i) /\ (Closing' <=> Closing)
    BY <1>K DEF Taken, Ordered, Copied, Closing
<1>S. ~Silent(i)' => ~Silent(i)
    BY SilentThread
<1>E. Counted(i)
    BY DEF StreamInv
\* Whoever is not over has not said so.
<1>O. /\ ~Over(i) => Told(i) = 0
      /\ ~Over(i)' => Told(i)' = 0 /\ EndIsTold(i)'
    BY DEF Told, EndIsTold
<1>J. JoinsEnded(i)'
    BY <1>K, EndedStays DEF Due, JoinsEnded
<1>D. AllUnderWay(i) /\ EndIsTold(i) /\ FramesCome(i) /\ AbortComes(i) /\ JoinsEnded(i)
    BY DEF Due
\* The thread is at work, and stays at it or ends.
<1>1. ASSUME decoding[i] \in {"read", "receive"}, decoding'[i] \in {"read", "receive", "store", "stop", "quit"},
             queueCmd'[i] = queueCmd[i], queueAck'[i] = queueAck[i], queueFrames'[i] = queueFrames[i]
      PROVE  Due(i)'
    <2>1. ~Over(i) /\ ~Over(i)' /\ ~At(i, "ack") /\ ~At(i, "ack")' /\ ~Ending(i)
        BY <1>1 DEF Over, At, Ending
    <2>2. Decodes(i) = 1 /\ (~Ending(i)' => Decodes(i)' = 1)
        BY <1>1 DEF Decodes, Ending
    <2>3. AllUnderWay(i)'
        BY <1>1, <2>1, <2>2, <1>C, <1>K, <1>S, <1>D DEF AllUnderWay
    <2>4. EndIsTold(i)' /\ JoinsEnded(i)'
        BY <2>1, <1>O, <1>J
    <2>5. FramesCome(i)'
        BY <1>1, <2>1, <1>C, <1>K, <1>O, <1>D DEF FramesCome
    <2>6. AbortComes(i)'
        BY <1>1, <2>1, <1>K, <1>D DEF AbortComes
    <2> QED
        BY <2>3, <2>4, <2>5, <2>6 DEF Due
<1>2. CASE ReadPacket(i) \/ SeekStart(i) \/ ReadEnds(i) \/ SendFails(i)
    <2>1. /\ decoding[i] = "read" /\ decoding'[i] \in {"read", "receive", "stop", "quit"}
          /\ UNCHANGED queues
        BY <1>2, <1>N, <1>T DEF ReadPacket, SeekStart, ReadEnds, SendFails, At
    <2> QED
        BY <2>1, <1>1
<1>3. CASE ReceiveAgain(i) \/ ReceiveFrame(i) \/ ReceiveFails(i)
    <2>1. /\ decoding[i] = "receive" /\ decoding'[i] \in {"read", "store", "stop"}
          /\ UNCHANGED queues
        BY <1>3, <1>N, <1>T DEF ReceiveAgain, ReceiveFrame, ReceiveFails, At
    <2> QED
        BY <2>1, <1>1
<1>4. CASE PopCommand(i)
    <2>1. /\ decoding[i] = "pop" /\ decoding'[i] = IF Head(queueCmd[i]) = "decode" THEN "read" ELSE "stop"
          /\ queueCmd[i] # <<>> /\ queueCmd'[i] = Tail(queueCmd[i])
          /\ UNCHANGED <<queueAck, queueFrames>>
        BY <1>4, <1>N, <1>T DEF PopCommand, Pop, At
    <2>2. /\ Len(queueCmd'[i]) = Len(queueCmd[i]) - 1 /\ Head(queueCmd[i]) = queueCmd[i][1]
          /\ \A k \in 2..Len(queueCmd[i]): k - 1 \in 1..Len(queueCmd'[i]) /\ queueCmd'[i][k - 1] = queueCmd[i][k]
        <3>1. /\ Len(Tail(queueCmd[i])) = Len(queueCmd[i]) - 1 /\ Head(queueCmd[i]) = queueCmd[i][1]
              /\ Len(queueCmd[i]) \in Nat \ {0}
              /\ \A k \in 1..Len(Tail(queueCmd[i])): Tail(queueCmd[i])[k] = queueCmd[i][k + 1]
            BY <2>1, <1>N, Lengthy
        <3>2. ASSUME NEW k \in 2..Len(queueCmd[i])
              PROVE  k - 1 \in 1..Len(queueCmd'[i]) /\ queueCmd'[i][k - 1] = queueCmd[i][k]
            <4>1. k - 1 \in 1..Len(Tail(queueCmd[i])) /\ (k - 1) + 1 = k
                BY <3>1, <1>I
            <4> QED
                BY <4>1, <3>1, <2>1
        <3> QED
            BY <3>1, <3>2, <2>1
    <2>3. ~Over(i) /\ ~Over(i)' /\ ~At(i, "ack") /\ ~At(i, "ack")' /\ ~Ending(i)
        BY <2>1 DEF Over, At, Ending
    <2>4. Decodes(i) = 0 /\ (~Ending(i)' => Decodes(i)' = 1 /\ queueCmd[i][1] = "decode")
        BY <2>1, <2>2 DEF Decodes, Ending
    <2>5. AllUnderWay(i)'
        <3> SUFFICES ASSUME ~Closing, ~abandoned, ~Silent(i), ~Ending(i)'
                     PROVE  Len(queueCmd'[i]) + Decodes(i)' + Len(queueAck[i]) + Taken(i) = PoolSize - 1 + Ordered(i)
            BY <2>1, <1>C, <1>K, <1>S DEF AllUnderWay
        <3>1. Len(queueCmd[i]) + 0 + Len(queueAck[i]) + Taken(i) = PoolSize - 1 + Ordered(i)
            BY <2>3, <2>4, <1>D DEF AllUnderWay
        <3>2. (Len(queueCmd[i]) - 1) + 1 + Len(queueAck[i]) + Taken(i) = Len(queueCmd[i]) + 0 + Len(queueAck[i]) + Taken(i)
            BY <1>I
        <3>3. Len(queueCmd'[i]) = Len(queueCmd[i]) - 1 /\ Decodes(i)' = 1
            BY <2>2, <2>4
        <3> QED
            BY <3>1, <3>2, <3>3
    <2>6. EndIsTold(i)' /\ JoinsEnded(i)'
        BY <2>3, <1>O, <1>J
    <2>7. FramesCome(i)'
        BY <2>1, <2>3, <1>C, <1>K, <1>O, <1>D DEF FramesCome
    <2>8. AbortComes(i)'
        <3> SUFFICES ASSUME shows \in {"drain", "take", "join"}, i = mediaIndex, ~Ending(i)'
                     PROVE  \E k \in 1..Len(queueCmd'[i]): queueCmd'[i][k] = "abort"
            BY <1>K DEF AbortComes
        <3>1. PICK k \in 1..Len(queueCmd[i]): queueCmd[i][k] = "abort"
            BY <2>3, <1>D DEF AbortComes
        <3>2. k \in 2..Len(queueCmd[i])
            BY <3>1, <2>4, <1>N
        <3> QED
            BY <3>1, <3>2, <2>2
    <2> QED
        BY <2>5, <2>6, <2>7, <2>8 DEF Due
<1>5. CASE StoreFrame(i)
    <2>1. /\ decoding[i] = "store" /\ decoding'[i] = "ack" /\ UNCHANGED <<queueCmd, queueAck>>
          /\ ~gpuOutput => queueFrames' = Push(queueFrames, i, received[i] - 1)
        BY <1>5, <1>N, <1>T DEF StoreFrame, At
    <2>2. ~gpuOutput => Len(queueFrames'[i]) = Len(queueFrames[i]) + 1
        BY <2>1, <1>N, <1>T DEF Push
    <2>3. ~Over(i) /\ ~Over(i)' /\ ~At(i, "ack") /\ At(i, "ack")' /\ ~Ending(i) /\ ~Ending(i)'
        BY <2>1 DEF Over, At, Ending
    <2>4. Decodes(i) = 1 /\ Decodes(i)' = 1
        BY <2>1 DEF Decodes
    <2>5. AllUnderWay(i)'
        BY <2>1, <2>3, <2>4, <1>C, <1>K, <1>S, <1>D DEF AllUnderWay
    <2>6. EndIsTold(i)' /\ JoinsEnded(i)' /\ AbortComes(i)'
        BY <2>1, <2>3, <1>K, <1>O, <1>J, <1>D DEF AbortComes
    <2>7. FramesCome(i)'
        <3> SUFFICES ASSUME ~gpuOutput
                     PROVE  Len(queueAck[i]) + Taken(i) + 1 <= (Len(queueFrames[i]) + 1) + Copied(i) + 0
            BY <2>1, <2>2, <2>3, <1>C, <1>K, <1>O DEF FramesCome
        <3>1. Len(queueAck[i]) + Taken(i) + 0 <= Len(queueFrames[i]) + Copied(i) + 0
            BY <2>3, <1>O, <1>D DEF FramesCome
        <3> QED
            BY <3>1, <1>I, Sums
    <2> QED
        BY <2>5, <2>6, <2>7 DEF Due
<1>6. CASE StoreFails(i)
    <2>1. /\ decoding[i] = "store" /\ decoding'[i] = "pop" /\ gpuOutput
          /\ UNCHANGED <<queueCmd, queueAck, received, decodeFrameCount>>
        BY <1>6, <1>N, <1>T DEF StoreFails, At
    <2>2. Silent(i)'
        <3>1. received[i] >= decodeFrameCount[i] + 1
            BY <2>1, <1>E DEF Counted, InHand, At
        <3> QED
            BY <3>1, <2>1, <1>R DEF Silent
    <2>3. ~Over(i) /\ ~Over(i)' /\ ~Ending(i)
        BY <2>1 DEF Over, At, Ending
    <2>4. AllUnderWay(i)' /\ FramesCome(i)'
        BY <2>1, <2>2, <1>K DEF AllUnderWay, FramesCome
    <2>5. EndIsTold(i)' /\ JoinsEnded(i)' /\ AbortComes(i)'
        BY <2>1, <2>3, <1>K, <1>O, <1>J, <1>D DEF AbortComes
    <2> QED
        BY <2>4, <2>5 DEF Due
<1>7. CASE AckFrame(i)
    <2>1. /\ decoding[i] = "ack" /\ decoding'[i] = "pop" /\ UNCHANGED <<queueCmd, queueFrames>>
          /\ queueAck' = Push(queueAck, i, 0)
        BY <1>7, <1>N, <1>T DEF AckFrame, At
    <2>2. queueAck'[i] = Append(queueAck[i], 0) /\ Len(queueAck'[i]) = Len(queueAck[i]) + 1
        BY <2>1, <1>N, <1>T DEF Push
    <2>3. ~Over(i) /\ ~Over(i)' /\ At(i, "ack") /\ ~At(i, "ack")' /\ ~Ending(i) /\ ~Ending(i)'
        BY <2>1 DEF Over, At, Ending
    <2>4. Decodes(i) = 1 /\ Decodes(i)' = 0
        BY <2>1 DEF Decodes
    <2>5. AllUnderWay(i)'
        <3> SUFFICES ASSUME ~Closing, ~abandoned, ~Silent(i)
                     PROVE  Len(queueCmd[i]) + 0 + (Len(queueAck[i]) + 1) + Taken(i) = PoolSize - 1 + Ordered(i)
            BY <2>1, <2>2, <2>4, <1>C, <1>K, <1>S DEF AllUnderWay
        <3>1. Len(queueCmd[i]) + 1 + Len(queueAck[i]) + Taken(i) = PoolSize - 1 + Ordered(i)
            BY <2>3, <2>4, <1>D DEF AllUnderWay
        <3> DEFINE q == Len(queueCmd[i])
                   a == Len(queueAck[i])
                   t == Taken(i)
        <3>2. q + 1 + a + t = q + 0 + (a + 1) + t
            <4>1. q \in Int /\ a \in Int /\ t \in Int
                BY <1>I
            <4> HIDE DEF q, a, t
            <4> QED
                BY <4>1
        <3> QED
            BY <3>1, <3>2
    <2>6. EndIsTold(i)' /\ JoinsEnded(i)' /\ AbortComes(i)'
        BY <2>1, <2>3, <1>K, <1>O, <1>J, <1>D DEF AbortComes
    <2>7. FramesCome(i)'
        <3> SUFFICES ASSUME ~gpuOutput
                     PROVE  (Len(queueAck[i]) + 1) + Taken(i) + 0 <= Len(queueFrames[i]) + Copied(i) + 0
            BY <2>1, <2>2, <2>3, <1>C, <1>K, <1>O DEF FramesCome
        <3>1. Len(queueAck[i]) + Taken(i) + 1 <= Len(queueFrames[i]) + Copied(i) + 0
            BY <2>3, <1>O, <1>D DEF FramesCome
        <3> QED
            BY <3>1, <1>I, Sums
    <2> QED
        BY <2>5, <2>6, <2>7 DEF Due
<1>8. CASE ReadEof(i) \/ MarkEof(i)
    <2>1. decoding[i] \in {"stop", "mark"} /\ decoding'[i] \in {"mark", "tell"} /\ UNCHANGED queues
        BY <1>8, <1>N, <1>T DEF ReadEof, MarkEof, At
    <2>2. ~Over(i) /\ ~Over(i)' /\ ~At(i, "ack") /\ ~At(i, "ack")' /\ Ending(i)'
        BY <2>1 DEF Over, At, Ending
    <2>3. FramesCome(i)'
        BY <2>1, <2>2, <1>C, <1>K, <1>O, <1>D DEF FramesCome
    <2> QED
        BY <2>2, <2>3, <1>O, <1>J DEF Due, AllUnderWay, AbortComes
<1>9. CASE AckEnd(i)
    <2>1. /\ decoding[i] = "tell" /\ decoding'[i] = "exit" /\ UNCHANGED <<queueCmd, queueFrames>>
          /\ queueAck' = Push(queueAck, i, -1)
        BY <1>9, <1>N, <1>T DEF AckEnd, At
    <2>2. queueAck'[i] = Append(queueAck[i], -1) /\ Len(queueAck'[i]) = Len(queueAck[i]) + 1 /\ queueAck'[i] # <<>>
        <3>1. queueAck'[i] = Append(queueAck[i], -1)
            BY <2>1, <1>N, <1>T DEF Push
        <3>2. queueAck[i] \in Seq({0, -1}) /\ -1 \in {0, -1}
            BY <1>N
        <3>3. Len(Append(queueAck[i], -1)) = Len(queueAck[i]) + 1 /\ Append(queueAck[i], -1) # <<>>
            BY <3>2
        <3> QED
            BY <3>1, <3>3
    <2>3. ~Over(i) /\ Over(i)' /\ ~At(i, "ack") /\ ~At(i, "ack")' /\ Ending(i)' /\ Told(i)' = 1
        BY <2>1, <2>2 DEF Over, Told, At, Ending
    <2>4. FramesCome(i)'
        <3> SUFFICES ASSUME ~gpuOutput
                     PROVE  (Len(queueAck[i]) + 1) + Taken(i) + 0 <= Len(queueFrames[i]) + Copied(i) + 1
            BY <2>1, <2>2, <2>3, <1>C, <1>K DEF FramesCome
        <3>1. Len(queueAck[i]) + Taken(i) + 0 <= Len(queueFrames[i]) + Copied(i) + 0
            BY <2>3, <1>O, <1>D DEF FramesCome
        <3> QED
            BY <3>1, <1>I, Sums
    <2> QED
        BY <2>2, <2>3, <2>4, <1>J DEF Due, AllUnderWay, EndIsTold, AbortComes
<1> QED
    BY <1>2, <1>3, <1>4, <1>5, <1>6, <1>7, <1>8, <1>9 DEF DecodeLoop

LEMMA DueOther ==
    ASSUME Typed, NEW i \in Media, NEW j \in Media \ {i}, DecodeLoop(i), Due(j)
    PROVE  Due(j)'
<1>1. /\ UNCHANGED Kept
      /\ decoding'[j] = decoding[j] /\ received'[j] = received[j]
      /\ queueCmd'[j] = queueCmd[j] /\ queueAck'[j] = queueAck[j]
      /\ queueFrames'[j] = queueFrames[j]
      /\ decodeFrameCount'[j] = decodeFrameCount[j]
    BY ThreadFrame
<1>2. /\ (Over(j)' <=> Over(j)) /\ (Dismissed(j)' <=> Dismissed(j)) /\ (Ended(j)' <=> Ended(j)) /\ Told(j)' = Told(j)
      /\ (Ending(j)' <=> Ending(j)) /\ (Silent(j)' <=> Silent(j)) /\ (At(j, "ack")' <=> At(j, "ack"))
      /\ Decodes(j)' = Decodes(j) /\ Taken(j)' = Taken(j) /\ Ordered(j)' = Ordered(j) /\ Copied(j)' = Copied(j)
      /\ (Closing' <=> Closing)
    BY <1>1 DEF Kept, Over, Dismissed, Ended, Told, Ending, Silent, Decodes, Taken, Ordered, Copied, Closing, At
<1>3. forgot => forgot'
    BY ForgotStays
<1> QED
    BY <1>1, <1>2, <1>3 DEF Kept, Due, AllUnderWay, EndIsTold, FramesCome, AbortComes, JoinsEnded

LEMMA DueCallback ==
    ASSUME Typed, Typed', Place, Flags, NEW i \in Media, StreamInv(i), Due(i), NodeStep
    PROVE  Due(i)'
<1> USE DEF arguments, files, queues, counts, node, image, history
<1>N. /\ i \in Streams
      /\ queueCmd[i] \in Seq({"decode", "abort"}) /\ queueAck[i] \in Seq({0, -1})
      /\ queueFrames[i] \in Seq(Nat)
      /\ Len(queueCmd[i]) \in Nat /\ Len(queueAck[i]) \in Nat /\ Len(queueFrames[i]) \in Nat
      /\ Taken(i) \in 0..1 /\ Ordered(i) \in 0..1 /\ Copied(i) \in 0..1 /\ Decodes(i) \in 0..1
    BY DueNumbers
<1>I. /\ Len(queueCmd[i]) \in Int /\ Len(queueAck[i]) \in Int /\ Len(queueFrames[i]) \in Int
      /\ Taken(i) \in Int /\ Ordered(i) \in Int /\ Copied(i) \in Int /\ Decodes(i) \in Int /\ PoolSize \in Int
    BY <1>N
<1>B. /\ i \in Nat /\ mediaCount \in Nat /\ 1 <= i /\ i <= mediaCount
      /\ mediaIndex \in Nat \ {0}
      /\ shows # "idle" => mediaIndex <= mediaCount /\ mediaIndex \in Streams
    <2>1. shows # "idle" => mediaIndex \in Media
        BY DEF Typed, DecoderTypeOK
    <2>2. Media \subseteq Streams
        BY MediaAreStreams DEF Typed
    <2> QED
        BY <2>1, <2>2, Bits
<1>T. /\ queueCmd \in [Streams -> Seq({"decode", "abort"})]
      /\ queueAck \in [Streams -> Seq({0, -1})] /\ queueFrames \in [Streams -> Seq(Nat)]
    BY DEF Typed, DecoderTypeOK
<1>K. UNCHANGED <<arguments, files, decoding, counts, mem, forgot>>
    BY NodeFrame
<1>S. /\ (Over(i)' <=> Over(i)) /\ (Ending(i)' <=> Ending(i)) /\ (Silent(i)' <=> Silent(i)) /\ (At(i, "ack")' <=> At(i, "ack"))
      /\ Decodes(i)' = Decodes(i) /\ (Ended(i)' <=> Ended(i))
      /\ Told(i) \in 0..1 /\ Told(i)' \in 0..1
      /\ queueAck'[i] = queueAck[i] => Told(i)' = Told(i)
    BY <1>K DEF Over, Ending, Silent, Decodes, Ended, Told, At
<1>D. AllUnderWay(i) /\ EndIsTold(i) /\ FramesCome(i) /\ AbortComes(i) /\ JoinsEnded(i)
    BY DEF Due
<1>E. /\ \A k \in 1..Len(queueAck[i]): queueAck[i][k] = -1 => Over(i)
      /\ Over(i) /\ queueAck[i] # <<>> => queueAck[i][Len(queueAck[i])] = -1
    BY DEF StreamInv, Ends
<1>P. /\ ~Closing => ~Dismissed(i) /\ shows # "take"
      /\ ~Closing' => ~Dismissed(i)' /\ shows' # "take"
    BY DEF Dismissed, Closing
\* The acknowledgements stay, or one is taken that is not the last.
<1>L. ASSUME ~Closing, ~Closing', queueAck'[i] = queueAck[i], abandoned' = abandoned PROVE EndIsTold(i)'
    BY <1>L, <1>P, <1>S, <1>D DEF EndIsTold
<1>H. ASSUME queueAck[i] # <<>>, queueAck'[i] = Tail(queueAck[i]), ~(Head(queueAck[i]) < 0)
      PROVE  Told(i)' = Told(i) /\ (Over(i) => queueAck'[i] # <<>>)
    <2>1. CASE ~Over(i)
        BY <2>1, <1>S DEF Told
    <2>2. CASE Over(i)
        <3>1. Head(queueAck[i]) = queueAck[i][1] /\ Len(queueAck[i]) \in Nat \ {0} /\ Len(Tail(queueAck[i])) = Len(queueAck[i]) - 1
            BY <1>H, <1>N, Lengthy
        <3>2. queueAck[i][Len(queueAck[i])] = -1 /\ queueAck[i][1] # -1
            BY <1>H, <2>2, <3>1, <1>E
        <3>3. Len(queueAck[i]) # 1
            BY <3>2
        <3>4. Len(Tail(queueAck[i])) # 0
            BY <3>1, <3>3
        <3>5. Len(<<>>) = 0
            OBVIOUS
        <3>6. queueAck'[i] # <<>>
            BY <1>H, <3>4, <3>5
        <3> QED
            BY <1>H, <2>2, <3>6, <1>S DEF Told
    <2> QED
        BY <2>1, <2>2
<1>Q. AllUnderWay(i)' /\ EndIsTold(i)' /\ FramesCome(i)' /\ AbortComes(i)' /\ JoinsEnded(i)' => Due(i)'
    BY DEF Due
\* A call that shows nothing of the queues' and the threads' doings.
<1>1. CASE PopAck
    <2>1. /\ shows = "wait" /\ queueAck[mediaIndex] # <<>> /\ queueAck' = Pop(queueAck, mediaIndex)
          /\ UNCHANGED <<queueCmd, queueFrames>>
        BY <1>1 DEF PopAck
    <2>2. /\ i # mediaIndex => queueAck'[i] = queueAck[i]
          /\ i = mediaIndex => queueAck[i] # <<>> /\ queueAck'[i] = Tail(queueAck[i])
        BY <2>1, <1>B, <1>N, <1>T DEF Pop
    <2>3. i = mediaIndex => Len(queueAck'[i]) = Len(queueAck[i]) - 1 /\ Len(queueAck[i]) >= 1
        <3>1. i = mediaIndex => Len(Tail(queueAck[i])) = Len(queueAck[i]) - 1 /\ Len(queueAck[i]) \in Nat \ {0}
            BY <2>2, <1>N, Lengthy
        <3>2. i = mediaIndex => Len(Tail(queueAck[i])) + 1 >= 1 /\ Len(queueAck[i]) >= 1
            BY <3>1
        <3> QED
            BY <3>1, <3>2, <2>2, Zenon
    <2>4. Ordered(i) = 0 /\ Copied(i) = 0 /\ ~Closing
        BY <2>1 DEF Ordered, Copied, Closing
    <2>5. shows' \in {"idle", "wait", "order"}
        BY <1>1, Zenon DEF PopAck, NextStream
    <2>6. Copied(i)' = 0 /\ ~Closing' /\ AbortComes(i)' /\ JoinsEnded(i)'
        BY <2>5 DEF Copied, Closing, AbortComes, JoinsEnded
    <2>7. CASE StreamEnded
        <3>1. shows' = "idle" /\ abandoned'
            BY <1>1, <2>7, Zenon DEF PopAck
        <3>2. Taken(i)' = 0
            BY <3>1 DEF Taken
        <3>3. AllUnderWay(i)' /\ EndIsTold(i)'
            BY <3>1 DEF AllUnderWay, EndIsTold
        <3>4. FramesCome(i)'
            <4> DEFINE a == IF At(i, "ack") THEN 1 ELSE 0
                       o == Told(i)
                       p == Told(i)'
                       b == Len(queueAck'[i])
                       c == Len(queueAck[i])
                       t == Taken(i)
                       f == Len(queueFrames[i])
            <4>1. (b = c /\ p = o) \/ b = c - 1
                BY <2>2, <2>3, <1>S
            <4>2. a \in Int /\ o \in 0..1 /\ p \in 0..1 /\ c \in Int /\ t \in 0..1 /\ f \in Int
                BY <1>I, <1>N, <1>S
            <4>3. ~gpuOutput => c + t + a <= f + 0 + o
                BY <2>4, <1>D DEF FramesCome
            <4> SUFFICES ASSUME ~gpuOutput PROVE b + 0 + a <= f + 0 + p
                BY <3>2, <2>1, <2>6, <1>K, <1>S DEF FramesCome
            <4> HIDE DEF a, o, p, b, c, t, f
            <4> QED
                BY <4>1, <4>2, <4>3
        <3> QED
            BY <3>3, <3>4, <2>6, <1>Q
    <2>8. CASE ~StreamEnded
        <3>1. NextStream("wait", "order") /\ abandoned' = abandoned
            BY <1>1, <2>8, Zenon DEF PopAck
        <3>2. Ordered(i)' = 0
            BY <3>1, <1>B DEF NextStream, Ordered
        <3>3. /\ i # mediaIndex => Taken(i)' = Taken(i)
              /\ i = mediaIndex => Taken(i) = 0 /\ Taken(i)' = 1
            BY <3>1, <2>1, <1>B DEF NextStream, Taken
        <3>4. Told(i)' = Told(i) /\ (Over(i) => (queueAck[i] # <<>> => queueAck'[i] # <<>>))
            <4>1. CASE i # mediaIndex
                BY <4>1, <2>2, <1>S
            <4>2. CASE i = mediaIndex
                <5>1. ~(Head(queueAck[i]) < 0)
                    BY <4>2, <2>8 DEF StreamEnded
                <5> QED
                    BY <4>2, <5>1, <2>2, <1>H
            <4> QED
                BY <4>1, <4>2
        <3>5. Len(queueAck'[i]) + Taken(i)' = Len(queueAck[i]) + Taken(i) /\ Len(queueAck'[i]) \in Int /\ Taken(i)' \in Int
            BY <2>2, <2>3, <3>3, <1>I
        <3>6. AllUnderWay(i)'
            <4> SUFFICES ASSUME ~abandoned, ~Silent(i), ~Ending(i)
                         PROVE  Len(queueCmd[i]) + Decodes(i) + Len(queueAck'[i]) + Taken(i)' = PoolSize - 1 + 0
                BY <2>1, <2>6, <3>1, <3>2, <1>S DEF AllUnderWay
            <4>1. Len(queueCmd[i]) + Decodes(i) + Len(queueAck[i]) + Taken(i) = PoolSize - 1 + 0
                BY <2>4, <1>D DEF AllUnderWay
            <4> DEFINE q == Len(queueCmd[i])
                       d == Decodes(i)
                       a == Len(queueAck[i])
                       t == Taken(i)
                       b == Len(queueAck'[i])
                       u == Taken(i)'
            <4>2. q + d + b + u = q + d + a + t
                <5>1. q \in Int /\ d \in Int /\ a \in Int /\ t \in Int /\ b \in Int /\ u \in Int /\ b + u = a + t
                    BY <3>5, <1>I
                <5> HIDE DEF q, d, a, t, b, u
                <5> QED
                    BY <5>1
            <4> QED
                BY <4>1, <4>2
        <3>7. EndIsTold(i)'
            BY <2>4, <2>6, <3>1, <3>4, <1>P, <1>S, <1>D DEF EndIsTold
        <3>8. FramesCome(i)'
            BY <3>4, <3>5, <2>1, <2>4, <2>6, <1>K, <1>S, <1>D DEF FramesCome
        <3> QED
            BY <3>6, <3>7, <3>8, <2>6, <1>Q
    <2> QED
        BY <2>7, <2>8
<1>2. CASE OrderFrame
    <2>1. /\ shows = "order" /\ queueCmd' = Push(queueCmd, mediaIndex, "decode")
          /\ NextStream("order", IF gpuOutput THEN "tell" ELSE "copy")
          /\ UNCHANGED <<queueAck, queueFrames, abandoned>>
        BY <1>2 DEF OrderFrame
    <2>2. /\ i # mediaIndex => queueCmd'[i] = queueCmd[i]
          /\ i = mediaIndex => queueCmd'[i] = Append(queueCmd[i], "decode")
        BY <2>1, <1>B, <1>N, <1>T DEF Push
    <2>3. i = mediaIndex => Len(queueCmd'[i]) = Len(queueCmd[i]) + 1
        BY <2>2, <1>N
    <2>4. shows' \in {"order", "tell", "copy"} /\ Copied(i) = 0 /\ Copied(i)' = 0 /\ ~Closing /\ ~Closing' /\ Taken(i) = 1 /\ Taken(i)' = 1
        BY <2>1, <1>B DEF NextStream, Copied, Closing, Taken
    <2>5. /\ i # mediaIndex => Ordered(i)' = Ordered(i)
          /\ i = mediaIndex => Ordered(i) = 0 /\ Ordered(i)' = 1
        BY <2>1, <1>B DEF NextStream, Ordered
    <2>6. AllUnderWay(i)'
        <3>1. CASE i # mediaIndex
            BY <3>1, <2>1, <2>2, <2>4, <2>5, <1>S, <1>D DEF AllUnderWay
        <3>2. CASE i = mediaIndex
            <4> SUFFICES ASSUME ~abandoned, ~Silent(i), ~Ending(i)
                         PROVE  (Len(queueCmd[i]) + 1) + Decodes(i) + Len(queueAck[i]) + 1 = PoolSize - 1 + 1
                BY <3>2, <2>1, <2>3, <2>4, <2>5, <1>S DEF AllUnderWay
            <4>1. Len(queueCmd[i]) + Decodes(i) + Len(queueAck[i]) + 1 = PoolSize - 1 + 0
                BY <3>2, <2>4, <2>5, <1>D DEF AllUnderWay
            <4> DEFINE q == Len(queueCmd[i])
                       d == Decodes(i)
                       a == Len(queueAck[i])
            <4>2. q \in Int /\ d \in Int /\ a \in Int /\ q + d + a + 1 = PoolSize - 1 + 0
                BY <4>1, <1>I
            <4> HIDE DEF q, d, a
            <4>3. (q + 1) + d + a + 1 = PoolSize - 1 + 1
                BY <4>2, <1>I
            <4> QED
                BY <4>3 DEF q, d, a
        <3> QED
            BY <3>1, <3>2
    <2>7. EndIsTold(i)' /\ AbortComes(i)' /\ JoinsEnded(i)'
        BY <2>1, <2>4, <1>L DEF AbortComes, JoinsEnded
    <2>8. FramesCome(i)'
        BY <2>1, <2>4, <1>K, <1>S, <1>D DEF FramesCome
    <2> QED
        BY <2>6, <2>7, <2>8, <1>Q
\* A call ends that had taken its acknowledgements and ordered the next frames.
<1>3. ASSUME shows \in {"tell", "copy"}, shows' \in {"idle", "out"}, UNCHANGED <<queueCmd, queueAck, abandoned>>,
             ~gpuOutput => Len(queueFrames'[i]) + 1 >= Len(queueFrames[i]) + Copied(i) /\ Len(queueFrames'[i]) \in Int
      PROVE  Due(i)'
    <2>1. /\ Taken(i) = 1 /\ Taken(i)' = 0 /\ Ordered(i) = 1 /\ Ordered(i)' = 0 /\ Copied(i)' = 0
          /\ ~Closing /\ ~Closing'
        BY <1>3 DEF Taken, Ordered, Copied, Closing
    <2>2. AllUnderWay(i)'
        <3> SUFFICES ASSUME ~abandoned, ~Silent(i), ~Ending(i)
                     PROVE  Len(queueCmd[i]) + Decodes(i) + Len(queueAck[i]) + 0 = PoolSize - 1 + 0
            BY <2>1, <1>3, <1>S DEF AllUnderWay
        <3>1. Len(queueCmd[i]) + Decodes(i) + Len(queueAck[i]) + 1 = PoolSize - 1 + 1
            BY <2>1, <1>D DEF AllUnderWay
        <3> DEFINE q == Len(queueCmd[i])
                   d == Decodes(i)
                   a == Len(queueAck[i])
        <3>2. q \in Int /\ d \in Int /\ a \in Int /\ q + d + a + 1 = PoolSize - 1 + 1
            BY <3>1, <1>I
        <3> HIDE DEF q, d, a
        <3>3. q + d + a + 0 = PoolSize - 1 + 0
            BY <3>2, <1>I
        <3> QED
            BY <3>3 DEF q, d, a
    <2>3. EndIsTold(i)' /\ AbortComes(i)' /\ JoinsEnded(i)'
        BY <2>1, <1>3, <1>L DEF AbortComes, JoinsEnded
    <2>4. FramesCome(i)'
        <3> DEFINE a == IF At(i, "ack") THEN 1 ELSE 0
                   o == Told(i)
        <3>1. a \in Int /\ o \in Int
            BY <1>S
        <3>2. ~gpuOutput => Len(queueAck[i]) + 1 + a <= Len(queueFrames[i]) + Copied(i) + o
            BY <2>1, <1>D DEF FramesCome
        <3> SUFFICES ASSUME ~gpuOutput PROVE Len(queueAck[i]) + 0 + a <= Len(queueFrames'[i]) + 0 + o
            BY <2>1, <1>3, <1>K, <1>S DEF FramesCome
        <3> DEFINE l == Len(queueAck[i])
                   c == Len(queueFrames[i]) + Copied(i)
                   n == Len(queueFrames'[i])
        <3>3. l + 1 + a <= c + o
            BY <3>2
        <3>5. n + 1 >= c /\ n \in Int
            BY <1>3
        <3>6. l \in Int /\ c \in Int
            BY <1>I
        <3> HIDE DEF a, o, l, c, n
        <3>4. l + 0 + a <= n + 0 + o
            BY <3>1, <3>3, <3>5, <3>6
        <3> QED
            BY <3>4 DEF l, n
    <2> QED
        BY <2>2, <2>3, <2>4, <1>Q
<1>4. CASE AuxFails
    <2>1. /\ shows \in {"tell", "copy"} /\ mediaIndex = 1 /\ shows' = "idle" /\ UNCHANGED <<queueCmd, queueAck, queueFrames, abandoned>>
        BY <1>4 DEF AuxFails
    <2>2. Copied(i) = 0
        BY <2>1, <1>B DEF Copied
    <2> QED
        BY <2>1, <2>2, <1>3, <1>I
<1>5. CASE TellBuffer \/ TellFails
    <2>1. shows = "tell" /\ shows' \in {"idle", "out"} /\ UNCHANGED <<queueCmd, queueAck, queueFrames, abandoned>>
        BY <1>5 DEF TellBuffer, TellFails
    <2>2. Copied(i) = 0
        BY <2>1 DEF Copied
    <2> QED
        BY <2>1, <2>2, <1>3, <1>I
<1>6. CASE CopyFrame \/ CopyFails
    <2>1. /\ shows = "copy" /\ queueFrames[mediaIndex] # <<>>
          /\ queueFrames' = Pop(queueFrames, mediaIndex)
          /\ UNCHANGED <<queueCmd, queueAck, abandoned>>
          /\ shows' = "idle" \/ NextStream("copy", "out")
        BY <1>6 DEF CopyFrame, CopyFails
    <2>2. /\ i # mediaIndex => queueFrames'[i] = queueFrames[i]
          /\ i = mediaIndex => queueFrames[i] # <<>> /\ queueFrames'[i] = Tail(queueFrames[i])
        BY <2>1, <1>B, <1>N, <1>T DEF Pop
    <2>3. /\ i = mediaIndex => Len(queueFrames'[i]) = Len(queueFrames[i]) - 1
          /\ Len(queueFrames'[i]) \in Int
        <3>1. i = mediaIndex => Len(Tail(queueFrames[i])) = Len(queueFrames[i]) - 1
            BY <2>2, <1>N, Lengthy
        <3>2. CASE i = mediaIndex
            <4>1. Len(queueFrames'[i]) = Len(queueFrames[i]) - 1
                BY <3>1, <3>2, <2>2
            <4> QED
                BY <4>1, <1>I
        <3>3. CASE i # mediaIndex
            BY <3>3, <2>2, <1>I
        <3> QED
            BY <3>2, <3>3
    <2>4. i = mediaIndex => Copied(i) = 0
        BY <1>B DEF Copied
    <2>5. CASE shows' \in {"idle", "out"}
        <3>1. Len(queueFrames'[i]) + 1 >= Len(queueFrames[i]) + Copied(i)
            <4>1. Copied(i) <= 1
                BY <1>N
            <4> QED
                BY <4>1, <2>2, <2>3, <2>4, <1>I
        <3> QED
            BY <3>1, <2>1, <2>3, <2>5, <1>3
    <2>6. CASE shows' \notin {"idle", "out"}
        <3>1. shows' = "copy" /\ mediaIndex' = mediaIndex + 1
            BY <2>1, <2>6 DEF NextStream
        <3>2. /\ Taken(i)' = Taken(i) /\ Ordered(i)' = Ordered(i) /\ ~Closing /\ ~Closing'
            BY <3>1, <2>1 DEF Taken, Ordered, Closing
        <3>3. /\ i # mediaIndex => Copied(i)' = Copied(i)
              /\ i = mediaIndex => Copied(i)' = 1
            BY <3>1, <2>1, <1>B DEF Copied
        <3>4. Len(queueFrames'[i]) + Copied(i)' = Len(queueFrames[i]) + Copied(i)
            BY <3>3, <2>2, <2>3, <2>4, <1>I
        <3>5. FramesCome(i)'
            BY <3>2, <3>4, <2>1, <1>K, <1>S, <1>D DEF FramesCome
        <3>6. AllUnderWay(i)'
            BY <3>2, <2>1, <1>S, <1>D DEF AllUnderWay
        <3>7. EndIsTold(i)' /\ AbortComes(i)' /\ JoinsEnded(i)'
            BY <3>1, <3>2, <2>1, <1>L DEF AbortComes, JoinsEnded
        <3> QED
            BY <3>5, <3>6, <3>7, <1>Q
    <2> QED
        BY <2>5, <2>6
\* Between calls.
<1>7. CASE ProcessFrame \/ Shown
    <2>1. /\ shows \in {"idle", "out"} /\ shows' \in {"wait", "idle"} /\ (shows' = "wait" => mediaIndex' = 1)
          /\ UNCHANGED <<queueCmd, queueAck, queueFrames, abandoned>>
        BY <1>7 DEF ProcessFrame, Shown
    <2>2. /\ Ordered(i) = 0 /\ Ordered(i)' = 0 /\ Taken(i) = 0 /\ Taken(i)' = 0
          /\ Copied(i) = 0 /\ Copied(i)' = 0 /\ ~Closing /\ ~Closing'
        BY <2>1, <1>B DEF Ordered, Taken, Copied, Closing
    <2>3. EndIsTold(i)'
        BY <2>1, <2>2, <1>L
    <2> QED
        BY <2>1, <2>2, <2>3, <1>K, <1>S, <1>D, <1>Q DEF AllUnderWay, FramesCome, AbortComes, JoinsEnded
\* The destructor.
<1>8. ASSUME shows \in {"idle", "abort", "drain", "take", "join"}, Closing', UNCHANGED queueFrames,
             queueAck'[i] = queueAck[i] \/ Len(queueAck'[i]) = Len(queueAck[i]) - 1
      PROVE  AllUnderWay(i)' /\ FramesCome(i)'
    <2>1. Taken(i) = 0 /\ Taken(i)' = 0 /\ Copied(i) = 0 /\ Copied(i)' = 0
        BY <1>8 DEF Closing, Taken, Copied
    <2>2. FramesCome(i)'
        <3> DEFINE a == IF At(i, "ack") THEN 1 ELSE 0
                   o == Told(i)
                   p == Told(i)'
                   b == Len(queueAck'[i])
                   c == Len(queueAck[i])
                   f == Len(queueFrames[i])
        <3>1. (b = c /\ p = o) \/ b = c - 1
            BY <1>8, <1>S
        <3>2. a \in Int /\ o \in 0..1 /\ p \in 0..1 /\ c \in Int /\ f \in Int
            BY <1>S, <1>I
        <3>3. ~gpuOutput => c + 0 + a <= f + 0 + o
            BY <2>1, <1>D DEF FramesCome
        <3> SUFFICES ASSUME ~gpuOutput PROVE b + 0 + a <= f + 0 + p
            BY <2>1, <1>8, <1>K, <1>S DEF FramesCome
        <3> HIDE DEF a, o, p, b, c, f
        <3> QED
            BY <3>1, <3>2, <3>3
    <2> QED
        BY <2>2, <1>8 DEF AllUnderWay
<1>9. CASE DecoderClose \/ Join
    <2>1. /\ shows \in {"idle", "join"} /\ shows' \in {"abort", "gone"} /\ UNCHANGED <<queueCmd, queueAck, queueFrames, abandoned>>
          /\ shows = "join" /\ shows' = "abort" => mediaIndex' = mediaIndex + 1
        BY <1>9 DEF DecoderClose, Join, NextStream
    <2>2. Closing'
        BY <2>1 DEF Closing
    <2>3. ~Dismissed(i)' => ~Dismissed(i)
        BY <2>1, <1>B DEF Dismissed, Closing
    <2>4. EndIsTold(i)' /\ AbortComes(i)' /\ JoinsEnded(i)'
        BY <2>1, <2>3, <1>S, <1>D DEF EndIsTold, AbortComes, JoinsEnded
    <2> QED
        BY <2>1, <2>2, <2>4, <1>8, <1>Q
<1>10. CASE Abort
    <2>1. /\ shows = "abort" /\ shows' = "drain" /\ queueCmd' = Push(queueCmd, mediaIndex, "abort")
          /\ UNCHANGED <<queueAck, queueFrames, mediaIndex, abandoned>>
        BY <1>10 DEF Abort
    <2>2. Closing' /\ (~Dismissed(i)' => ~Dismissed(i))
        BY <2>1 DEF Closing, Dismissed
    <2>3. i = mediaIndex => queueCmd'[i] = Append(queueCmd[i], "abort")
        BY <2>1, <1>N, <1>T DEF Push
    <2>4. Append(queueCmd[i], "abort")[Len(queueCmd[i]) + 1] = "abort" /\ Len(queueCmd[i]) + 1 \in 1..Len(Append(queueCmd[i], "abort"))
        BY <1>N
    <2>5. AbortComes(i)'
        BY <2>1, <2>3, <2>4 DEF AbortComes
    <2>6. EndIsTold(i)' /\ JoinsEnded(i)'
        BY <2>1, <2>2, <1>S, <1>D DEF EndIsTold, JoinsEnded
    <2> QED
        BY <2>1, <2>2, <2>5, <2>6, <1>8, <1>Q
<1>11. CASE Drain
    <2>1. /\ shows = "drain" /\ shows' = (IF eof[mediaIndex] THEN "join" ELSE "take")
          /\ UNCHANGED <<queueCmd, queueAck, queueFrames, mediaIndex, abandoned>>
        BY <1>11 DEF Drain
    <2>2. Closing' /\ (~Dismissed(i)' => ~Dismissed(i))
        BY <2>1, <1>B DEF Closing, Dismissed
    <2>3. AbortComes(i)'
        BY <2>1, <1>S, <1>D DEF AbortComes
    <2>4. (eof[i] => Ended(i)) /\ (~forgot /\ Over(i) => eof[i])
        BY DEF Flags, Ended, Over, At
    <2>5. JoinsEnded(i)'
        BY <2>1, <2>4, <1>S DEF JoinsEnded
    <2>6. EndIsTold(i)'
        BY <2>1, <2>2, <2>4, <1>K, <1>S, <1>D DEF EndIsTold
    <2> QED
        BY <2>1, <2>2, <2>3, <2>5, <2>6, <1>8, <1>Q
<1>12. CASE TakeAck
    <2>1. /\ shows = "take" /\ queueAck[mediaIndex] # <<>> /\ queueAck' = Pop(queueAck, mediaIndex)
          /\ shows' = (IF Head(queueAck[mediaIndex]) < 0 THEN "join" ELSE "drain")
          /\ UNCHANGED <<queueCmd, queueFrames, mediaIndex, abandoned>>
        BY <1>12 DEF TakeAck
    <2>2. /\ i # mediaIndex => queueAck'[i] = queueAck[i]
          /\ i = mediaIndex => queueAck[i] # <<>> /\ queueAck'[i] = Tail(queueAck[i])
        BY <2>1, <1>B, <1>N, <1>T DEF Pop
    <2>3. i = mediaIndex => /\ Len(Tail(queueAck[i])) = Len(queueAck[i]) - 1
                            /\ 1 \in 1..Len(queueAck[i]) /\ Head(queueAck[i]) = queueAck[i][1] /\ queueAck[i][1] \in {0, -1}
        <3>1. i = mediaIndex => /\ Len(Tail(queueAck[i])) = Len(queueAck[i]) - 1 /\ Len(queueAck[i]) \in Nat \ {0}
                                /\ Head(queueAck[i]) = queueAck[i][1]
            BY <2>2, <1>N, Lengthy
        <3>2. i = mediaIndex => 1 \in 1..Len(queueAck[i])
            BY <3>1
        <3> QED
            BY <3>1, <3>2, <1>N
    <2>4. /\ Closing' /\ shows' \in {"join", "drain"} /\ (~Dismissed(i)' => ~Dismissed(i))
          /\ queueAck'[i] = queueAck[i] \/ Len(queueAck'[i]) = Len(queueAck[i]) - 1
        BY <2>1, <2>2, <2>3, <1>B DEF Closing, Dismissed
    <2>5. AbortComes(i)'
        BY <2>1, <1>S, <1>D DEF AbortComes
    <2>6. JoinsEnded(i)'
        <3> SUFFICES ASSUME shows' = "join", i = mediaIndex PROVE Ended(i)
            BY <2>1, <1>S DEF JoinsEnded
        <3>1. queueAck[i][1] = -1
            BY <2>1, <2>3
        <3> QED
            BY <3>1, <2>3, <1>E DEF Ended, Over, At
    <2>7. EndIsTold(i)'
        <3> SUFFICES ASSUME ~abandoned, ~Dismissed(i)', Over(i) PROVE queueAck'[i] # <<>>
            BY <2>1, <2>4, <1>S DEF EndIsTold
        <3>1. CASE i # mediaIndex
            BY <3>1, <2>2, <2>4, <1>D DEF EndIsTold
        <3>2. CASE i = mediaIndex
            <4>1. shows' # "join"
                BY <3>2, <2>1, <2>4 DEF Dismissed
            <4> QED
                BY <3>2, <4>1, <2>1, <2>2, <1>H
        <3> QED
            BY <3>1, <3>2
    <2> QED
        BY <2>1, <2>4, <2>5, <2>6, <2>7, <1>8, <1>Q
<1> QED
    BY <1>1, <1>2, <1>4, <1>5, <1>6, <1>7, <1>9, <1>10, <1>11, <1>12 DEF NodeStep, DecoderNode

LEMMA DueInit == DecoderInit => AllDue
<1> SUFFICES ASSUME DecoderInit, NEW i \in Media PROVE Due(i)
    BY DEF AllDue
<1>1. Typed
    BY TypeInit
<1>2. i \in Streams
    BY <1>1, MediaAreStreams DEF Typed
<1>3. /\ queueCmd[i] = [k \in 1..PoolSize - 1 |-> "decode"] /\ queueAck[i] = <<>> /\ queueFrames[i] = <<>>
      /\ decoding[i] = "pop" /\ shows = "idle"
    BY <1>2, Zenon DEF DecoderInit
<1>4. Len(queueCmd[i]) = PoolSize - 1 /\ Len(queueAck[i]) = 0 /\ Len(queueFrames[i]) = 0
    BY <1>3
<1>5. /\ ~Over(i) /\ Told(i) = 0 /\ ~At(i, "ack") /\ Decodes(i) = 0 /\ Taken(i) = 0 /\ Ordered(i) = 0 /\ Copied(i) = 0
    BY <1>3 DEF Over, Told, At, Decodes, Taken, Ordered, Copied
<1> QED
    BY <1>3, <1>4, <1>5 DEF Due, AllUnderWay, EndIsTold, FramesCome, AbortComes, JoinsEnded

LEMMA DueStep == DecoderInv /\ Typed /\ Typed' /\ AllDue /\ [DecoderNext]_decoderVars => AllDue'
<1> SUFFICES ASSUME DecoderInv, Typed, Typed', AllDue, [DecoderNext]_decoderVars PROVE AllDue'
    OBVIOUS
<1>1. Media' = Media
    <2>1. CASE \E i \in Media: DecodeLoop(i)
        BY <2>1, ThreadFrame DEF Kept, Media
    <2>2. CASE NodeStep
        BY <2>2, NodeFrame DEF arguments, Media
    <2>3. CASE UNCHANGED decoderVars
        BY <2>3 DEF decoderVars, arguments, Media
    <2> QED
        BY <2>1, <2>2, <2>3 DEF DecoderNext, NodeStep
<1>2. ASSUME NEW j \in Media PROVE Due(j)'
    <2>1. Due(j) /\ StreamInv(j) /\ Place /\ Flags
        BY DEF AllDue, DecoderInv
    <2>2. ASSUME NEW i \in Media, DecodeLoop(i) PROVE Due(j)'
        <3>1. CASE i = j
            BY <2>1, <2>2, <3>1, DueThread
        <3>2. CASE i # j
            BY <2>1, <2>2, <3>2, DueOther
        <3> QED
            BY <3>1, <3>2
    <2>3. CASE NodeStep
        BY <2>1, <2>3, DueCallback
    <2>4. CASE UNCHANGED decoderVars
        <3> USE <2>4 DEF decoderVars, arguments, files, queues, counts, node, image, history
        <3>1. /\ (Over(j)' <=> Over(j)) /\ (Ending(j)' <=> Ending(j)) /\ (Silent(j)' <=> Silent(j)) /\ (At(j, "ack")' <=> At(j, "ack"))
              /\ Decodes(j)' = Decodes(j) /\ Taken(j)' = Taken(j) /\ Ordered(j)' = Ordered(j) /\ Copied(j)' = Copied(j)
              /\ (Closing' <=> Closing) /\ (Ended(j)' <=> Ended(j)) /\ (Dismissed(j)' <=> Dismissed(j)) /\ Told(j)' = Told(j)
            BY DEF Over, Ending, Silent, Decodes, Taken, Ordered, Copied, Closing, Ended, Dismissed, Told, At
        <3> QED
            BY <2>1, <3>1 DEF Due, AllUnderWay, EndIsTold, FramesCome, AbortComes, JoinsEnded
    <2> QED
        BY <2>2, <2>3, <2>4 DEF DecoderNext, NodeStep
<1> QED
    BY <1>1, <1>2 DEF AllDue

LEMMA DueAlways == DecoderSpec => []AllDue
<1>1. DecoderInit => AllDue
    BY DueInit
<1>2. DecoderInv /\ Typed /\ Typed' /\ AllDue /\ [DecoderNext]_decoderVars => AllDue'
    BY DueStep
<1> QED
    BY <1>1, <1>2, DecoderInvariant, PTL DEF DecoderSpec

\* ProcessFrame and the destructor of a decoder never wait for a thread of
\* DecodeLoop that waits for them, whatever fails: unless the thread left a
\* command without an answer, or the call follows one that was abandoned, or a
\* call has taken the last word of a stream whose flag of eof was lost to the
\* write of another thread.
THEOREM DecoderNeverHangs == DecoderSpec => []DecoderGoesOn
<1>1. DecoderInv /\ Typed /\ AllDue => DecoderGoesOn
    <2> SUFFICES ASSUME DecoderInv, Typed, AllDue, DecoderWaits, ThreadRests(mediaIndex), ~Silent(mediaIndex),
                        ~(shows = "wait" /\ abandoned), ~(abandoned /\ forgot)
                 PROVE  FALSE
        BY DEF DecoderGoesOn
    <2> DEFINE i == mediaIndex
    <2>M. i \in Media
        BY DEF DecoderWaits, Typed, DecoderTypeOK
    <2>N. /\ queueCmd[i] \in Seq({"decode", "abort"}) /\ queueAck[i] \in Seq({0, -1}) /\ queueFrames[i] \in Seq(Nat)
        BY <2>M, DueNumbers
    <2>D. AllUnderWay(i) /\ EndIsTold(i) /\ FramesCome(i) /\ AbortComes(i) /\ JoinsEnded(i)
        BY <2>M DEF AllDue, Due
    <2>E. Place
        BY DEF DecoderInv
    <2> HIDE DEF i
    <2>R. Over(i) \/ (decoding[i] = "pop" /\ queueCmd[i] = <<>> /\ ~Ending(i) /\ ~Over(i))
        BY DEF ThreadRests, Silent, Over, Ending, At, i
    <2>1. CASE shows = "wait" /\ queueAck[i] = <<>>
        <3>0. mediaIndex \in Int
            BY DEF Typed, DecoderTypeOK
        <3>1. ~Closing /\ ~Dismissed(i) /\ ~abandoned /\ Taken(i) = 0 /\ Ordered(i) = 0
            BY <2>1, <3>0 DEF Closing, Dismissed, Taken, Ordered, i
        <3>2. ~Over(i)
            BY <2>1, <2>D, <3>1 DEF EndIsTold
        <3>3. Decodes(i) = 0 /\ Len(queueCmd[i]) = 0 /\ Len(queueAck[i]) = 0
            BY <2>1, <2>R, <3>2 DEF Decodes
        <3>4. 0 + 0 + 0 + 0 = PoolSize - 1 + 0
            BY <2>R, <2>D, <3>1, <3>2, <3>3 DEF AllUnderWay, i
        <3> QED
            BY <3>4
    <2>2. CASE shows = "take" /\ queueAck[i] = <<>>
        <3>0. ~Dismissed(i)
            <4>1. mediaIndex \in Int
                BY DEF Typed, DecoderTypeOK
            <4> QED
                BY <2>2, <4>1 DEF Dismissed, i
        <3>1. ~Over(i)
            BY <2>2, <2>D, <3>0 DEF EndIsTold, i
        <3>2. \E k \in 1..Len(queueCmd[i]): queueCmd[i][k] = "abort"
            BY <2>2, <2>R, <2>D, <3>1 DEF AbortComes, i
        <3> QED
            BY <2>R, <3>1, <3>2
    <2>3. CASE shows = "copy" /\ queueFrames[i] = <<>>
        <3>1. Taken(i) = 1 /\ Copied(i) = 0 /\ ~gpuOutput /\ i \in Int
            BY <2>3, <2>E DEF Taken, Copied, Place, i, Typed, DecoderTypeOK
        <3>2. Len(queueFrames[i]) = 0 /\ Len(queueAck[i]) \in Nat /\ (queueAck[i] # <<>> => Len(queueAck[i]) > 0)
            BY <2>3, <2>N
        <3>3. ~At(i, "ack")
            BY <2>R DEF At, Over
        <3>4. Len(queueAck[i]) + 1 + 0 <= 0 + 0 + Told(i)
            BY <3>1, <3>2, <3>3, <2>D DEF FramesCome
        <3> QED
            BY <3>2, <3>4 DEF Told
    <2>4. CASE shows = "join" /\ decoding[i] \notin {"exit", "quit"}
        BY <2>R, <2>4, <2>D DEF JoinsEnded, Ended, Over, At, i
    <2> QED
        BY <2>1, <2>2, <2>3, <2>4 DEF DecoderWaits, i
<1> QED
    BY <1>1, DueAlways, DecoderInvariant, PTL
===============================================================================
