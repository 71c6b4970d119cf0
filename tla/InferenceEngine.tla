---------------------------- MODULE InferenceEngine ----------------------------
(***************************************************************************)
(* One session of the cloud inference server: InferenceEngine::run talks   *)
(* to the client, workMasterInputQ deals the images out to the devices,    *)
(* and each device has a pipeline of three threads:                        *)
(*                                                                         *)
(*   ImageQ -> workDeviceInputCopy -> InBusy -> workDeviceProcess          *)
(*                       -> OutBusy -> workDeviceOutputCopy -> outputQ     *)
(*                                                                         *)
(* The tags of the images take a queue of their own, TagQ, and meet their  *)
(* results again in workDeviceOutputCopy.  Buffers return through InIdle   *)
(* and OutIdle.  A negative tag, or a null image or buffer, ends a queue.  *)
(*                                                                         *)
(* A MessageQueue locks itself, its dequeue waits for an item in a loop,   *)
(* and each queue has one consumer: a dequeue is one step, enabled when    *)
(* there is an item.  Its size() is read without the lock, always by the   *)
(* only producer or the only consumer, for whom it is at worst old.        *)
(***************************************************************************)
EXTENDS Integers, Sequences, Functions

CONSTANTS MaxGPUs,             \* MAX_NUM_GPU
          Requests,            \* what clients ask for: see Request
          Detected,            \* images with objects to detect ("bb")
          BatchSize,           \* -b
          DecThreads,          \* numDecThreads, from -t
          TagDepth,            \* MAX_DEVICE_QUEUE_DEPTH
          InputDepth,          \* MAX_INPUT_QUEUE_DEPTH
          PipeDepth,           \* INFERENCE_PIPE_QUEUE_DEPTH
          PacketMax            \* INFCOM_MAX_IMAGES_FOR_TOP1_PER_PACKET / 2

Devices == 1..MaxGPUs

\* A session: the devices it runs on, the results it wants (one label, the k
\* best labels, or the bounding boxes of objects), the images it will send, and
\* those of them that are the names of empty files: the file a name stands for is
\* read on the server, whatever its size.
Request == [GPUs: Devices, mode: {"top1", "topk", "bb"}, imageCount: Nat, empty: SUBSET Nat]

ASSUME EngineAssumption ==
    /\ MaxGPUs \in Nat \ {0}
    /\ Requests \subseteq Request /\ Detected \subseteq Nat
    /\ BatchSize \in Nat \ {0}
    /\ DecThreads \in 0..BatchSize
    /\ TagDepth \in Nat \ {0, 1} /\ InputDepth \in Nat \ {0}
    /\ PipeDepth \in Nat \ {0} /\ PacketMax \in Nat \ {0}

Buffers == 1..PipeDepth
Slots == 1..BatchSize
Images == Nat                  \* the tag of an image is its number at the client
Null == 0                      \* no buffer
End == -1                      \* a negative tag; a null image; no label

VARIABLES
    request,                                     \* the client's
    connected, nextImageToSend, results,         \* the client
    runPc, endOfImageRequested, available, left, packet, dying,
    inputQ, outputQ, vectorQ,                    \* vectorQ: outputQTopk or OutputQBB
    masterPc, image, gpu, inputCountInBatch, scan,
    TagQ, ImageQ,
    InIdle, InBusy, OutIdle, OutBusy,            \* queueDevice{Input,Output}Mem{Idle,Busy}
    inMem, outMem,                               \* per slot, the image it has data of
    inPc, inBuf, batch,
    procPc, procIn, procOut,
    outPc, outBuf, outputCount

client == <<connected, nextImageToSend, results>>
run == <<runPc, endOfImageRequested, available, left, packet, dying>>
master == <<masterPc, image, gpu, inputCountInBatch, scan>>
input == <<inPc, inBuf, batch>>
process == <<procPc, procIn, procOut>>
output == <<outPc, outBuf, outputCount>>
deal == <<TagQ, ImageQ>>
pool == <<InIdle, InBusy, OutIdle, OutBusy, inMem, outMem>>
vars == <<request, client, run, inputQ, outputQ, vectorQ, master, deal, pool, input, process, output>>

GPUs == request.GPUs
mode == request.mode
imageCount == request.imageCount
Empty == request.empty
Working == 1..GPUs

Lesser(a, b) == IF a < b THEN a ELSE b
Put(q, g, x) == [q EXCEPT ![g] = Append(@, x)]
Take(q, g) == [q EXCEPT ![g] = Tail(@)]
Goto(pc, g, label) == [pc EXCEPT ![g] = label]
PerDevice(x) == [g \in Devices |-> x]
AllBuffers == [i \in Buffers |-> i]

\* The constructor, and run up to its loop: queues, buffers and threads exist.
Init ==
    /\ request \in Requests
    /\ connected = TRUE /\ nextImageToSend = 0 /\ results = {}
    /\ runPc = "loop" /\ endOfImageRequested = FALSE
    /\ available = 0 /\ left = 0 /\ packet = <<>> /\ dying = 1
    /\ inputQ = <<>> /\ outputQ = <<>> /\ vectorQ = <<>>
    /\ masterPc = "take" /\ image = End /\ gpu = 1 /\ inputCountInBatch = 0 /\ scan = 1
    /\ TagQ = PerDevice(<<>>) /\ ImageQ = PerDevice(<<>>)
    /\ InIdle = PerDevice(AllBuffers) /\ InBusy = PerDevice(<<>>)
    /\ OutIdle = PerDevice(AllBuffers) /\ OutBusy = PerDevice(<<>>)
    /\ inMem = PerDevice([b \in Buffers |-> [k \in Slots |-> End]])
    /\ outMem = PerDevice([b \in Buffers |-> [k \in Slots |-> End]])
    /\ inPc = PerDevice("take") /\ inBuf = PerDevice(Null) /\ batch = PerDevice(<<>>)
    /\ procPc = PerDevice("take") /\ procIn = PerDevice(Null) /\ procOut = PerDevice(Null)
    /\ outPc = PerDevice("take") /\ outBuf = PerDevice(Null) /\ outputCount = PerDevice(0)

------------------------------------------------------------------------------
(* InferenceEngine::run, and the client that answers it.                    *)
\* Results with a vector of their own: k labels, or the objects of an image.
HasVector(tag) == mode = "topk" \/ (mode = "bb" /\ tag \in Detected)
PerPacket == IF mode = "bb" THEN 1 ELSE PacketMax

RunLoop ==
    /\ runPc = "loop"
    /\ available' = Len(outputQ)
    /\ left' = Lesser(available', PerPacket)
    /\ runPc' = IF available' > 0 THEN "pack" ELSE "ask"
    /\ UNCHANGED <<request, client, endOfImageRequested, packet, dying, inputQ, outputQ, vectorQ, master, deal, pool, input, process, output>>

\* The end marker ends the loop after what was packed before it is sent; the
\* request for images is skipped then, the client having sent its last.
RunPack ==
    LET tag == Head(outputQ)[1]
    IN  /\ runPc = "pack" /\ outputQ # <<>>
        /\ outputQ' = Tail(outputQ)
        /\ IF tag < 0
              THEN runPc' = "sendLast" /\ UNCHANGED <<left, packet>>
              ELSE /\ packet' = Append(packet, Head(outputQ))
                   /\ left' = left - 1
                   /\ runPc' = IF HasVector(tag) THEN "vector" ELSE IF left' > 0 THEN "pack" ELSE "send"
        /\ UNCHANGED <<request, client, endOfImageRequested, available, dying, inputQ, vectorQ, master, deal, pool, input, process, output>>

RunVector ==
    /\ runPc = "vector" /\ vectorQ # <<>>
    /\ vectorQ' = Tail(vectorQ)
    /\ packet' = [packet EXCEPT ![Len(packet)][2] = Head(vectorQ)]
    /\ runPc' = IF left > 0 THEN "pack" ELSE "send"
    /\ UNCHANGED <<request, client, endOfImageRequested, available, left, dying, inputQ, outputQ, master, deal, pool, input, process, output>>

\* A send or a receive that fails ends run with -1; the engine is destroyed.
RunSend ==
    /\ runPc \in {"send", "sendLast"}
    /\ packet' = <<>>
    /\ IF packet # <<>> /\ ~connected
          THEN runPc' = "d_input" /\ UNCHANGED <<results, available, left>>
          ELSE /\ results' = results \cup {packet[i] : i \in DOMAIN packet}
               /\ available' = available - Len(packet)
               /\ left' = Lesser(available', PerPacket)
               /\ runPc' = IF runPc = "sendLast" THEN "bye" ELSE IF available' > 0 THEN "pack" ELSE "ask"
    /\ UNCHANGED <<request, connected, nextImageToSend, endOfImageRequested, dying, inputQ, outputQ, vectorQ, master, deal, pool, input, process, output>>

\* inference_receiver::run: as many images as it has loaded, up to the number
\* requested; -1 when all have been sent.
Replies(requested) ==
    0..Lesser(requested, imageCount - nextImageToSend)
        \cup (IF nextImageToSend = imageCount THEN {-1} ELSE {})

\* Seeded fault: the request does not look at the room in inputQ.
RequestedAlways == PacketMax

\* How many images the next request asks for.
Requested == Lesser(InputDepth - Len(inputQ), PacketMax)

RunAsk ==
    LET requested == Requested
    IN  /\ runPc = "ask"
        /\ \/ /\ endOfImageRequested \/ requested <= 0
              /\ runPc' = "loop"
              /\ UNCHANGED <<left, endOfImageRequested, inputQ>>
           \/ /\ ~endOfImageRequested /\ requested > 0 /\ ~connected
              /\ runPc' = "d_input"
              /\ UNCHANGED <<left, endOfImageRequested, inputQ>>
           \/ /\ ~endOfImageRequested /\ requested > 0 /\ connected
              /\ \E count \in Replies(requested):
                    /\ left' = IF count > 0 THEN count ELSE 0
                    /\ endOfImageRequested' = (count < 0)
                    /\ inputQ' = IF count < 0 THEN Append(inputQ, End) ELSE inputQ
                    /\ runPc' = IF count > 0 THEN "receive" ELSE "loop"
        /\ UNCHANGED <<request, client, available, packet, dying, outputQ, vectorQ, master, deal, pool, input, process, output>>

RunReceive ==
    /\ runPc = "receive"
    /\ IF connected
          THEN /\ inputQ' = Append(inputQ, nextImageToSend)
               /\ nextImageToSend' = nextImageToSend + 1
               /\ left' = left - 1
               /\ runPc' = IF left' > 0 THEN "receive" ELSE "loop"
          ELSE /\ runPc' = "d_input"
               /\ UNCHANGED <<inputQ, nextImageToSend, left>>
    /\ UNCHANGED <<request, connected, results, endOfImageRequested, available, packet, dying, outputQ, vectorQ, master, deal, pool, input, process, output>>

RunBye ==
    /\ runPc = "bye"
    /\ runPc' = "d_input"
    /\ UNCHANGED <<request, client, endOfImageRequested, available, left, packet, dying, inputQ, outputQ, vectorQ, master, deal, pool, input, process, output>>

\* The client aborts: at its user's wish, or as soon as it has every result.
ClientCloses ==
    /\ connected
    /\ runPc \in {"loop", "pack", "vector", "send", "sendLast", "ask", "receive", "bye"}
    /\ connected' = FALSE
    /\ UNCHANGED <<request, nextImageToSend, results, run, inputQ, outputQ, vectorQ, master, deal, pool, input, process, output>>

------------------------------------------------------------------------------
(* InferenceEngine::~InferenceEngine, device by device.                     *)
DestroyInput ==
    /\ runPc = "d_input" /\ runPc' = "d_master"
    /\ inputQ' = Append(inputQ, End)
    /\ UNCHANGED <<request, client, endOfImageRequested, available, left, packet, dying, outputQ, vectorQ, master, deal, pool, input, process, output>>

DestroyJoinMaster ==
    /\ runPc = "d_master" /\ runPc' = "d_tag"
    /\ masterPc = "end"
    /\ UNCHANGED <<request, client, endOfImageRequested, available, left, packet, dying, inputQ, outputQ, vectorQ, master, deal, pool, input, process, output>>

DestroyMark ==
    /\ \/ /\ runPc = "d_tag" /\ runPc' = "d_image"
          /\ Len(TagQ[dying]) < TagDepth
          /\ TagQ' = Put(TagQ, dying, End) /\ UNCHANGED ImageQ
       \/ /\ runPc = "d_image" /\ runPc' = "d_join"
          /\ ImageQ' = Put(ImageQ, dying, End) /\ UNCHANGED TagQ
    /\ UNCHANGED <<request, client, endOfImageRequested, available, left, packet, dying, inputQ, outputQ, vectorQ, master, pool, input, process, output>>

DestroyJoin ==
    /\ runPc = "d_join" /\ runPc' = "d_free"
    /\ inPc[dying] = "end" /\ procPc[dying] = "end" /\ outPc[dying] = "end"
    /\ UNCHANGED <<request, client, endOfImageRequested, available, left, packet, dying, inputQ, outputQ, vectorQ, master, deal, pool, input, process, output>>

\* Only the buffers in the idle queues are released; then the queues go.
DestroyFree ==
    /\ runPc = "d_free"
    /\ InIdle' = [InIdle EXCEPT ![dying] = <<>>]
    /\ OutIdle' = [OutIdle EXCEPT ![dying] = <<>>]
    /\ runPc' = IF dying < GPUs THEN "d_tag" ELSE "gone"
    /\ dying' = IF dying < GPUs THEN dying + 1 ELSE dying
    /\ UNCHANGED <<request, client, endOfImageRequested, available, left, packet, inputQ, outputQ, vectorQ, master, deal, InBusy, OutBusy, inMem, outMem, input, process, output>>

Destroy == DestroyInput \/ DestroyJoinMaster \/ DestroyMark \/ DestroyJoin \/ DestroyFree
Run == RunLoop \/ RunPack \/ RunVector \/ RunSend \/ RunAsk \/ RunReceive \/ RunBye \/ Destroy

------------------------------------------------------------------------------
(* workMasterInputQ                                                         *)
\* An image of no bytes ends it, like the end marker, and is dropped.
MasterTake ==
    /\ masterPc = "take" /\ inputQ # <<>>
    /\ inputQ' = Tail(inputQ)
    /\ image' = Head(inputQ)
    /\ masterPc' = IF image' < 0 \/ image' \in Empty THEN "markTag" ELSE "tag"
    /\ scan' = 1
    /\ UNCHANGED <<request, client, run, outputQ, vectorQ, gpu, inputCountInBatch, deal, pool, input, process, output>>

\* The bounded enqueue polls until there is room; master is the only producer.
MasterTag ==
    /\ masterPc = "tag" /\ masterPc' = "image"
    /\ Len(TagQ[gpu]) < TagDepth
    /\ TagQ' = Put(TagQ, gpu, image)
    /\ UNCHANGED <<request, client, run, inputQ, outputQ, vectorQ, image, gpu, inputCountInBatch, scan, ImageQ, pool, input, process, output>>

\* After a batch the next device is picked, or a later one with fewer tags.
MasterImage ==
    LET full == inputCountInBatch + 1 = BatchSize
    IN  /\ masterPc = "image" /\ masterPc' = IF full THEN "scan" ELSE "take"
        /\ ImageQ' = Put(ImageQ, gpu, image)
        /\ inputCountInBatch' = IF full THEN 0 ELSE inputCountInBatch + 1
        /\ gpu' = IF full THEN (gpu % GPUs) + 1 ELSE gpu
        /\ UNCHANGED <<request, client, run, inputQ, outputQ, vectorQ, image, scan, TagQ, pool, input, process, output>>

MasterScan ==
    /\ masterPc = "scan"
    /\ gpu' = IF Len(TagQ[scan]) < Len(TagQ[gpu]) THEN scan ELSE gpu
    /\ scan' = IF scan < GPUs THEN scan + 1 ELSE 1
    /\ masterPc' = IF scan < GPUs THEN "scan" ELSE "take"
    /\ UNCHANGED <<request, client, run, inputQ, outputQ, vectorQ, image, inputCountInBatch, deal, pool, input, process, output>>

MasterMark ==
    /\ \/ /\ masterPc = "markTag" /\ masterPc' = "markImage"
          /\ Len(TagQ[scan]) < TagDepth
          /\ TagQ' = Put(TagQ, scan, End) /\ UNCHANGED <<ImageQ, scan>>
       \/ /\ masterPc = "markImage" /\ masterPc' = IF scan < GPUs THEN "markTag" ELSE "end"
          /\ ImageQ' = Put(ImageQ, scan, End) /\ UNCHANGED TagQ
          /\ scan' = IF scan < GPUs THEN scan + 1 ELSE scan
    /\ UNCHANGED <<request, client, run, inputQ, outputQ, vectorQ, image, gpu, inputCountInBatch, pool, input, process, output>>

Master == MasterTake \/ MasterTag \/ MasterImage \/ MasterScan \/ MasterMark

------------------------------------------------------------------------------
(* workDeviceInputCopy                                                      *)
InputTake(g) ==
    /\ inPc[g] = "take" /\ inPc' = Goto(inPc, g, "fill")
    /\ InIdle[g] # <<>>
    /\ inBuf' = [inBuf EXCEPT ![g] = Head(InIdle[g])]
    /\ InIdle' = Take(InIdle, g)
    /\ UNCHANGED <<request, client, run, inputQ, outputQ, vectorQ, master, deal, InBusy, OutIdle, OutBusy, inMem, outMem, batch, process, output>>

InputFill(g) ==
    LET next == Head(ImageQ[g])
    IN  /\ inPc[g] = "fill" /\ ImageQ[g] # <<>>
        /\ ImageQ' = Take(ImageQ, g)
        /\ batch' = IF next < 0 THEN batch ELSE Put(batch, g, next)
        /\ inPc' = Goto(inPc, g, IF next < 0 THEN "giveLast" ELSE IF Len(batch'[g]) = BatchSize THEN "give" ELSE "fill")
        /\ UNCHANGED <<request, client, run, inputQ, outputQ, vectorQ, master, TagQ, pool, inBuf, process, output>>

\* The slots that n images are decoded into: with decoder threads, numT ranges
\* of sub_batch_size images, of which the last ends with the batch.
Decoded(n) ==
    IF DecThreads = 0 THEN 1..n
    ELSE LET sub == IF n < BatchSize THEN (n + DecThreads - 1) \div DecThreads ELSE BatchSize \div DecThreads
             numT == IF n < BatchSize THEN (n + sub - 1) \div sub ELSE DecThreads
         IN  {k \in 1..n : k <= sub * numT}

\* Seeded fault: the images of the last, partial batch are not handed over.
InputGiveFull(g) ==
    LET b == inBuf[g]
        n == Len(batch[g])
    IN  /\ inPc[g] \in {"give", "giveLast"}
        /\ inMem' = IF n = 0 THEN inMem
                    ELSE [inMem EXCEPT ![g][b] = [k \in Slots |-> IF k \in Decoded(n) THEN batch[g][k] ELSE @[k]]]
        /\ IF n = BatchSize THEN InBusy' = Put(InBusy, g, b) /\ UNCHANGED InIdle
                    ELSE InIdle' = Put(InIdle, g, b) /\ UNCHANGED InBusy
        /\ inBuf' = [inBuf EXCEPT ![g] = Null]
        /\ batch' = [batch EXCEPT ![g] = <<>>]
        /\ inPc' = Goto(inPc, g, IF inPc[g] = "giveLast" THEN "mark" ELSE "take")
        /\ UNCHANGED <<request, client, run, inputQ, outputQ, vectorQ, master, deal, OutIdle, OutBusy, outMem, process, output>>

\* The buffer is written and handed over; an empty one goes back.
InputGive(g) ==
    LET b == inBuf[g]
        n == Len(batch[g])
    IN  /\ inPc[g] \in {"give", "giveLast"}
        /\ inMem' = IF n = 0 THEN inMem
                    ELSE [inMem EXCEPT ![g][b] = [k \in Slots |-> IF k \in Decoded(n) THEN batch[g][k] ELSE @[k]]]
        /\ IF n > 0 THEN InBusy' = Put(InBusy, g, b) /\ UNCHANGED InIdle
                    ELSE InIdle' = Put(InIdle, g, b) /\ UNCHANGED InBusy
        /\ inBuf' = [inBuf EXCEPT ![g] = Null]
        /\ batch' = [batch EXCEPT ![g] = <<>>]
        /\ inPc' = Goto(inPc, g, IF inPc[g] = "giveLast" THEN "mark" ELSE "take")
        /\ UNCHANGED <<request, client, run, inputQ, outputQ, vectorQ, master, deal, OutIdle, OutBusy, outMem, process, output>>

\* Seeded fault: the end is not passed on to the next stage.
InputMarkForgets(g) ==
    /\ inPc[g] = "mark" /\ inPc' = Goto(inPc, g, "end")
    /\ UNCHANGED <<request, client, run, inputQ, outputQ, vectorQ, master, deal, pool, inBuf, batch, process, output>>

InputMark(g) ==
    /\ inPc[g] = "mark" /\ inPc' = Goto(inPc, g, "end")
    /\ InBusy' = Put(InBusy, g, Null)
    /\ UNCHANGED <<request, client, run, inputQ, outputQ, vectorQ, master, deal, InIdle, OutIdle, OutBusy, inMem, outMem, inBuf, batch, process, output>>

InputCopy(g) == InputTake(g) \/ InputFill(g) \/ InputGive(g) \/ InputMark(g)

------------------------------------------------------------------------------
(* workDeviceProcess                                                        *)
ProcessTakeInput(g) ==
    LET b == Head(InBusy[g])
    IN  /\ procPc[g] = "take" /\ InBusy[g] # <<>>
        /\ InBusy' = Take(InBusy, g)
        /\ procIn' = [procIn EXCEPT ![g] = b]
        /\ procPc' = Goto(procPc, g, IF b = Null THEN "mark" ELSE "takeOutput")
        /\ UNCHANGED <<request, client, run, inputQ, outputQ, vectorQ, master, deal, InIdle, OutIdle, OutBusy, inMem, outMem, input, procOut, output>>

ProcessTakeOutput(g) ==
    /\ procPc[g] = "takeOutput" /\ procPc' = Goto(procPc, g, "graph")
    /\ OutIdle[g] # <<>>
    /\ procOut' = [procOut EXCEPT ![g] = Head(OutIdle[g])]
    /\ OutIdle' = Take(OutIdle, g)
    /\ UNCHANGED <<request, client, run, inputQ, outputQ, vectorQ, master, deal, InIdle, InBusy, OutBusy, inMem, outMem, input, procIn, output>>

\* vxProcessGraph: every slot of the batch, whether it was filled or not.
ProcessGraph(g) ==
    /\ procPc[g] = "graph" /\ procPc' = Goto(procPc, g, "giveInput")
    /\ outMem' = [outMem EXCEPT ![g][procOut[g]] = inMem[g][procIn[g]]]
    /\ UNCHANGED <<request, client, run, inputQ, outputQ, vectorQ, master, deal, InIdle, InBusy, OutIdle, OutBusy, inMem, input, procIn, procOut, output>>

ProcessGive(g) ==
    /\ \/ /\ procPc[g] = "giveInput" /\ procPc' = Goto(procPc, g, "giveOutput")
          /\ InIdle' = Put(InIdle, g, procIn[g])
          /\ procIn' = [procIn EXCEPT ![g] = Null]
          /\ UNCHANGED <<OutBusy, procOut>>
       \/ /\ procPc[g] = "giveOutput" /\ procPc' = Goto(procPc, g, "take")
          /\ OutBusy' = Put(OutBusy, g, procOut[g])
          /\ procOut' = [procOut EXCEPT ![g] = Null]
          /\ UNCHANGED <<InIdle, procIn>>
       \/ /\ procPc[g] = "mark" /\ procPc' = Goto(procPc, g, "end")
          /\ OutBusy' = Put(OutBusy, g, Null)
          /\ UNCHANGED <<InIdle, procIn, procOut>>
    /\ UNCHANGED <<request, client, run, inputQ, outputQ, vectorQ, master, deal, InBusy, OutIdle, inMem, outMem, input, output>>

Process(g) == ProcessTakeInput(g) \/ ProcessTakeOutput(g) \/ ProcessGraph(g) \/ ProcessGive(g)

------------------------------------------------------------------------------
(* workDeviceOutputCopy                                                     *)
\* Seeded fault: the buffer is idle again before its results have been read.
OutputTakeEarly(g) ==
    LET b == Head(OutBusy[g])
    IN  /\ outPc[g] = "take" /\ OutBusy[g] # <<>>
        /\ OutBusy' = Take(OutBusy, g)
        /\ OutIdle' = IF b = Null THEN OutIdle ELSE Put(OutIdle, g, b)
        /\ outBuf' = [outBuf EXCEPT ![g] = b]
        /\ outputCount' = [outputCount EXCEPT ![g] = 0]
        /\ outPc' = Goto(outPc, g, IF b = Null THEN "mark" ELSE "tag")
        /\ UNCHANGED <<request, client, run, inputQ, outputQ, vectorQ, master, deal, InIdle, InBusy, inMem, outMem, input, process>>

OutputTake(g) ==
    LET b == Head(OutBusy[g])
    IN  /\ outPc[g] = "take" /\ OutBusy[g] # <<>>
        /\ OutBusy' = Take(OutBusy, g)
        /\ outBuf' = [outBuf EXCEPT ![g] = b]
        /\ outputCount' = [outputCount EXCEPT ![g] = 0]
        /\ outPc' = Goto(outPc, g, IF b = Null THEN "mark" ELSE "tag")
        /\ UNCHANGED <<request, client, run, inputQ, outputQ, vectorQ, master, deal, InIdle, InBusy, OutIdle, inMem, outMem, input, process>>

\* The next tag gets the result in the next slot of the buffer.
OutputTag(g) ==
    LET tag == Head(TagQ[g])
        n == outputCount[g] + 1
    IN  /\ outPc[g] = "tag" /\ TagQ[g] # <<>>
        /\ TagQ' = Take(TagQ, g)
        /\ IF tag < 0
              THEN outPc' = Goto(outPc, g, "giveLast") /\ UNCHANGED <<outputQ, outputCount>>
              ELSE /\ outputQ' = Append(outputQ, <<tag, outMem[g][outBuf[g]][n]>>)
                   /\ outputCount' = [outputCount EXCEPT ![g] = n]
                   /\ outPc' = Goto(outPc, g, IF HasVector(tag) THEN "vector" ELSE IF n = BatchSize THEN "give" ELSE "tag")
        /\ UNCHANGED <<request, client, run, inputQ, vectorQ, master, ImageQ, pool, input, process, outBuf>>

OutputVector(g) ==
    /\ outPc[g] = "vector"
    /\ vectorQ' = Append(vectorQ, outMem[g][outBuf[g]][outputCount[g]])
    /\ outPc' = Goto(outPc, g, IF outputCount[g] = BatchSize THEN "give" ELSE "tag")
    /\ UNCHANGED <<request, client, run, inputQ, outputQ, master, deal, pool, input, process, outBuf, outputCount>>

\* Seeded fault: the end of the sequence leaves before the buffer is returned.
OutputGiveKeeps(g) ==
    /\ outPc[g] \in {"give", "giveLast"}
    /\ OutIdle' = IF outPc[g] = "give" THEN Put(OutIdle, g, outBuf[g]) ELSE OutIdle
    /\ outBuf' = [outBuf EXCEPT ![g] = Null]
    /\ outPc' = Goto(outPc, g, IF outPc[g] = "giveLast" THEN "mark" ELSE "take")
    /\ UNCHANGED <<request, client, run, inputQ, outputQ, vectorQ, master, deal, InIdle, InBusy, OutBusy, inMem, outMem, input, process, outputCount>>

OutputGive(g) ==
    /\ outPc[g] \in {"give", "giveLast"}
    /\ OutIdle' = Put(OutIdle, g, outBuf[g])
    /\ outBuf' = [outBuf EXCEPT ![g] = Null]
    /\ outPc' = Goto(outPc, g, IF outPc[g] = "giveLast" THEN "mark" ELSE "take")
    /\ UNCHANGED <<request, client, run, inputQ, outputQ, vectorQ, master, deal, InIdle, InBusy, OutBusy, inMem, outMem, input, process, outputCount>>

OutputMark(g) ==
    /\ outPc[g] = "mark" /\ outPc' = Goto(outPc, g, "end")
    /\ outputQ' = Append(outputQ, <<End, End>>)
    /\ UNCHANGED <<request, client, run, inputQ, vectorQ, master, deal, pool, input, process, outBuf, outputCount>>

OutputCopy(g) == OutputTake(g) \/ OutputTag(g) \/ OutputVector(g) \/ OutputGive(g) \/ OutputMark(g)

------------------------------------------------------------------------------
Next ==
    \/ Run \/ Master \/ ClientCloses
    \/ \E g \in Working: InputCopy(g) \/ Process(g) \/ OutputCopy(g)

\* Every thread of the engine keeps running, and a connected client answers;
\* that it closes the connection, or ever has another image, is its own affair.
Fairness ==
    /\ WF_vars(Run) /\ WF_vars(Master)
    /\ \A g \in Devices: /\ WF_vars(g \in Working /\ InputCopy(g))
                         /\ WF_vars(g \in Working /\ Process(g))
                         /\ WF_vars(g \in Working /\ OutputCopy(g))

Spec == Init /\ [][Next]_vars
FairSpec == Spec /\ Fairness

------------------------------------------------------------------------------
(***************************************************************************)
(* Properties.                                                             *)
(***************************************************************************)
\* Types of the members of the queues and of the program counters.
Label == Images \cup {End}
Result == Label \X Label

SessionTypes ==
    /\ request \in Request
    /\ connected \in BOOLEAN /\ nextImageToSend \in 0..imageCount
    /\ results \subseteq Result

RunTypes ==
    /\ runPc \in {"loop", "pack", "vector", "send", "sendLast", "ask", "receive", "bye",
                  "d_input", "d_master", "d_tag", "d_image", "d_join", "d_free", "gone"}
    /\ endOfImageRequested \in BOOLEAN /\ available \in Int /\ left \in Int /\ dying \in Working
    /\ packet \in Seq(Result)

MasterTypes ==
    /\ masterPc \in {"take", "tag", "image", "scan", "markTag", "markImage", "end"}
    /\ image \in Label /\ gpu \in Working /\ scan \in Working
    /\ inputCountInBatch \in 0..BatchSize - 1

QueueTypes ==
    /\ inputQ \in Seq(Label) /\ outputQ \in Seq(Result) /\ vectorQ \in Seq(Label)
    /\ TagQ \in [Devices -> Seq(Label)] /\ ImageQ \in [Devices -> Seq(Label)]

PoolTypes ==
    /\ InIdle \in [Devices -> Seq(Buffers)] /\ OutIdle \in [Devices -> Seq(Buffers)]
    /\ InBusy \in [Devices -> Seq(Buffers \cup {Null})] /\ OutBusy \in [Devices -> Seq(Buffers \cup {Null})]
    /\ inMem \in [Devices -> [Buffers -> [Slots -> Label]]]
    /\ outMem \in [Devices -> [Buffers -> [Slots -> Label]]]

DeviceTypes ==
    /\ inPc \in [Devices -> {"take", "fill", "give", "giveLast", "mark", "end"}]
    /\ inBuf \in [Devices -> Buffers \cup {Null}]
    /\ batch \in [Devices -> Seq(Images)]
    /\ procPc \in [Devices -> {"take", "takeOutput", "graph", "giveInput", "giveOutput", "mark", "end"}]
    /\ procIn \in [Devices -> Buffers \cup {Null}] /\ procOut \in [Devices -> Buffers \cup {Null}]
    /\ outPc \in [Devices -> {"take", "tag", "vector", "give", "giveLast", "mark", "end"}]
    /\ outBuf \in [Devices -> Buffers \cup {Null}]
    /\ outputCount \in [Devices -> 0..BatchSize]

TypeOK == SessionTypes /\ RunTypes /\ MasterTypes /\ QueueTypes /\ PoolTypes /\ DeviceTypes

\* Every result the client receives is the inference of the image whose tag it
\* bears.  The vectors of two devices share one queue, apart from their tags,
\* and may be swapped there: the property is about one device, or top-1 labels.
Separate == GPUs = 1 \/ mode = "top1"
TagMatchesResult == Separate => \A r \in results: r[1] = r[2]

\* The images that master deals out, when it gets as far: those before the first
\* empty file, or all of them.
Served == {t \in 0..imageCount - 1: \A e \in Empty: t < e}

\* When the server says INFCOM_CMD_DONE to a client that asked for one device,
\* the client has the result of every image it sent before its first empty file,
\* which is every image when no file is empty, and of no other.  With more devices
\* run stops at the end marker of the first, whatever the others still have.
OneDeviceAnswersAll ==
    GPUs = 1 /\ runPc = "bye" => {r[1] : r \in results} = Served

\* The engine is destroyed with nothing left in it: every buffer is back in its
\* idle queue, where the destructor finds it, and no image is left in a queue,
\* but for those behind an empty file, which stay in inputQ.
NothingLeaked ==
    runPc = "d_free" =>
        /\ Range(InIdle[dying]) = Buffers /\ Range(OutIdle[dying]) = Buffers
        /\ \A i \in DOMAIN ImageQ[dying]: ImageQ[dying][i] = End
        /\ \A i \in DOMAIN inputQ: inputQ[i] \notin Served

\* inputQ is unbounded, but run asks for no more images than it has room for, and
\* all of those arrive before it asks again: no image ever waits in inputQ behind
\* MAX_INPUT_QUEUE_DEPTH others.
InputWithinLimit == \A i \in DOMAIN inputQ: inputQ[i] >= 0 => i <= InputDepth

\* A thread waits when it needs what another has to give: an item of a queue, a
\* buffer, room for a tag, or, in the destructor, its end.  One that has ended
\* has nothing left to do.
MasterWaits ==
    \/ masterPc = "take" /\ inputQ = <<>>
    \/ masterPc = "tag" /\ Len(TagQ[gpu]) >= TagDepth
    \/ masterPc = "markTag" /\ Len(TagQ[scan]) >= TagDepth
    \/ masterPc = "end"
InputWaits(g) ==
    \/ inPc[g] = "take" /\ InIdle[g] = <<>>
    \/ inPc[g] = "fill" /\ ImageQ[g] = <<>>
    \/ inPc[g] = "end"
ProcessWaits(g) ==
    \/ procPc[g] = "take" /\ InBusy[g] = <<>>
    \/ procPc[g] = "takeOutput" /\ OutIdle[g] = <<>>
    \/ procPc[g] = "end"
OutputWaits(g) ==
    \/ outPc[g] = "take" /\ OutBusy[g] = <<>>
    \/ outPc[g] = "tag" /\ TagQ[g] = <<>>
    \/ outPc[g] = "end"
Ended(g) == inPc[g] = "end" /\ procPc[g] = "end" /\ outPc[g] = "end"
RunWaits ==
    \/ runPc = "pack" /\ outputQ = <<>>
    \/ runPc = "vector" /\ vectorQ = <<>>
    \/ runPc = "d_master" /\ masterPc # "end"
    \/ runPc = "d_tag" /\ Len(TagQ[dying]) >= TagDepth
    \/ runPc = "d_join" /\ ~Ended(dying)

\* The threads never wait for each other in a circle.  When master and the
\* threads of the devices have nothing to do, run does not wait for them, no image
\* that will be dealt out is left, every image of a full batch has been answered,
\* and after the end every image has, and every thread has ended.
NothingIsStuck ==
    (MasterWaits /\ \A g \in Working: InputWaits(g) /\ ProcessWaits(g) /\ OutputWaits(g)) =>
        /\ ~RunWaits
        /\ \A i \in DOMAIN inputQ: inputQ[i] \notin Served
        /\ \A g \in Working: BatchSize \in DOMAIN TagQ[g] => TagQ[g][BatchSize] = End
        /\ masterPc = "end" => \A g \in Working: Ended(g) /\ \A i \in DOMAIN TagQ[g]: TagQ[g][i] = End

\* Once the client has sent everything, or has gone, the session ends: every
\* thread is joined and the engine is destroyed.
SessionEnds == (endOfImageRequested \/ ~connected) ~> runPc = "gone"
================================================================================
