------------------------ MODULE InferenceEngine_proofs ------------------------
(***************************************************************************)
(* Proofs about a session of the inference server, for any number of       *)
(* devices, images, buffers and slots.  What each thread holds where gives *)
(* the types of the state and the bound on inputQ.  Where the buffers are, *)
(* where the ends are, and how many tags wait for the images under way     *)
(* give that the destructor finds everything; with the numbers of the      *)
(* images in each queue, that a session on one device answers all; and the *)
(* order of the tags and of the images in every queue and buffer gives     *)
(* that every result bears the tag of the image it was computed from.      *)
(* With the way of each end, and the vectors run still has to find, they   *)
(* give that the threads never wait for each other in a circle.            *)
(***************************************************************************)
EXTENDS InferenceEngine, FiniteSetTheorems, TLAPS

\* While run receives, the images still to come exist at the client, and fit;
\* a vector is dequeued for a packet that has a result.
RunInv ==
    /\ runPc = "receive" => left > 0 /\ nextImageToSend + left <= imageCount /\ Len(inputQ) + left <= InputDepth
    /\ runPc = "vector" => packet # <<>>

\* A device thread has the buffers and the room its next step needs.
InputInv ==
    \A g \in Devices: /\ inPc[g] \in {"fill", "give", "giveLast"} => inBuf[g] \in Buffers
                      /\ inPc[g] = "take" => batch[g] = <<>>
                      /\ inPc[g] = "fill" => Len(batch[g]) < BatchSize
                      /\ Len(batch[g]) <= BatchSize
ProcessInv ==
    \A g \in Devices: /\ procPc[g] \in {"takeOutput", "graph", "giveInput"} => procIn[g] \in Buffers
                      /\ procPc[g] \in {"graph", "giveInput", "giveOutput"} => procOut[g] \in Buffers
OutputInv ==
    \A g \in Devices: /\ outPc[g] \in {"tag", "vector", "give", "giveLast"} => outBuf[g] \in Buffers
                      /\ outPc[g] = "tag" => outputCount[g] < BatchSize
                      /\ outPc[g] = "vector" => outputCount[g] > 0

SessionInv == TypeOK /\ RunInv /\ InputWithinLimit /\ InputInv /\ ProcessInv /\ OutputInv
------------------------------------------------------------------------------
(* Queues.                                                                  *)
\* What enqueue and dequeue do to the type of a queue.
LEMMA QueueStep ==
    ASSUME NEW S, NEW q \in Seq(S)
    PROVE  /\ \A x \in S: Append(q, x) \in Seq(S)
           /\ q # <<>> => Head(q) \in S /\ Tail(q) \in Seq(S)
  OBVIOUS

\* The same for one queue of an array of queues.
LEMMA ArrayStep ==
    ASSUME NEW S, NEW q \in [Devices -> Seq(S)], NEW g \in Devices
    PROVE  /\ \A x \in S: Put(q, g, x) \in [Devices -> Seq(S)]
           /\ q[g] # <<>> => Head(q[g]) \in S /\ Take(q, g) \in [Devices -> Seq(S)]
  BY DEF Put, Take

------------------------------------------------------------------------------
(* workMasterInputQ.                                                        *)
LEMMA WorkingDevices == ASSUME SessionTypes PROVE /\ GPUs \in Nat \ {0}
                                                  /\ imageCount \in Nat
                                                  /\ Working \subseteq Devices
  BY EngineAssumption DEF SessionTypes, Request, GPUs, imageCount, Working, Devices

LEMMA MasterStep == ASSUME SessionInv, Master PROVE SessionInv'
<1> USE EngineAssumption, WorkingDevices
<1>0. TypeOK /\ RunInv /\ InputWithinLimit /\ InputInv /\ ProcessInv /\ OutputInv
  BY DEF SessionInv
<1>1. /\ SessionTypes' /\ RunTypes' /\ PoolTypes' /\ DeviceTypes'
      /\ InputInv' /\ ProcessInv' /\ OutputInv'
  <2>1. UNCHANGED <<request, client, run, pool, input, process, output>>
    BY DEF Master, MasterTake, MasterTag, MasterImage, MasterScan, MasterMark
  <2>2. SessionTypes' /\ RunTypes'
    BY <1>0, <2>1 DEF TypeOK, SessionTypes, RunTypes, client, run, Working, GPUs, imageCount
  <2>3. PoolTypes' /\ DeviceTypes'
    BY <1>0, <2>1 DEF TypeOK, PoolTypes, DeviceTypes, pool, input, process, output
  <2>4. InputInv' /\ ProcessInv' /\ OutputInv'
    BY <1>0, <2>1 DEF InputInv, ProcessInv, OutputInv, input, process, output
  <2> QED BY <2>2, <2>3, <2>4
<1>2. MasterTypes' /\ QueueTypes' /\ RunInv' /\ InputWithinLimit'
  <2>1. CASE MasterTake
    <3>1. inputQ' = Tail(inputQ) /\ inputQ # <<>> /\ inputQ \in Seq(Label)
      BY <1>0, <2>1 DEF MasterTake, TypeOK, QueueTypes
    <3>2. MasterTypes' /\ QueueTypes'
      BY <1>0, <2>1, <3>1, QueueStep DEF MasterTake, TypeOK, MasterTypes, QueueTypes, deal, Working, GPUs
    <3>3. Len(inputQ') = Len(inputQ) - 1 /\ \A i \in DOMAIN inputQ': i + 1 \in DOMAIN inputQ /\ inputQ'[i] = inputQ[i + 1]
      BY <3>1
    <3>4. RunInv'
      BY <1>0, <2>1, <3>1, <3>3 DEF MasterTake, TypeOK, RunTypes, RunInv, run, client, imageCount
    <3>5. InputWithinLimit'
      BY <1>0, <3>1, <3>3 DEF InputWithinLimit
    <3> QED BY <3>2, <3>4, <3>5
  <2>2. CASE MasterTag
    <3>1. gpu \in Devices /\ image \in Label
      BY <1>0 DEF TypeOK, MasterTypes
    <3>2. QueueTypes'
      BY <1>0, <2>2, <3>1, ArrayStep DEF MasterTag, TypeOK, QueueTypes
    <3> QED BY <1>0, <2>2, <3>2 DEF MasterTag, TypeOK, MasterTypes, RunInv, InputWithinLimit, run, client, imageCount, Working, GPUs
  <2>3. CASE MasterImage
    <3>1. gpu \in Devices /\ image \in Label
      BY <1>0 DEF TypeOK, MasterTypes
    <3>2. QueueTypes'
      BY <1>0, <2>3, <3>1, ArrayStep DEF MasterImage, TypeOK, QueueTypes
    <3>3. (gpu % GPUs) + 1 \in Working
      BY <1>0 DEF TypeOK, MasterTypes, Working
    <3>4. gpu' \in Working'
      BY <1>0, <2>3, <3>3 DEF MasterImage, TypeOK, MasterTypes, Working, GPUs
    <3>5. MasterTypes'
      BY <1>0, <2>3, <3>4 DEF MasterImage, TypeOK, MasterTypes, Working, GPUs
    <3> QED BY <1>0, <2>3, <3>2, <3>5 DEF MasterImage, RunInv, InputWithinLimit, run, client, imageCount
  <2>4. CASE MasterScan
    <3>1. MasterTypes'
      BY <1>0, <2>4 DEF MasterScan, TypeOK, MasterTypes, Working, GPUs
    <3>2. QueueTypes'
      BY <1>0, <2>4 DEF MasterScan, TypeOK, QueueTypes, deal
    <3> QED BY <1>0, <2>4, <3>1, <3>2 DEF MasterScan, RunInv, InputWithinLimit, run, client, imageCount
  <2>5. CASE MasterMark
    <3>1. scan \in Devices /\ End \in Label
      BY <1>0 DEF TypeOK, MasterTypes, Label
    <3>a. Put(TagQ, scan, End) \in [Devices -> Seq(Label)] /\ Put(ImageQ, scan, End) \in [Devices -> Seq(Label)]
      BY <1>0, <3>1, ArrayStep DEF TypeOK, QueueTypes
    <3>2. QueueTypes'
      BY <1>0, <2>5, <3>a DEF MasterMark, TypeOK, QueueTypes
    <3>3. MasterTypes'
      BY <1>0, <2>5 DEF MasterMark, TypeOK, MasterTypes, Working, GPUs
    <3> QED BY <1>0, <2>5, <3>2, <3>3 DEF MasterMark, RunInv, InputWithinLimit, run, client, imageCount
  <2> QED BY <2>1, <2>2, <2>3, <2>4, <2>5 DEF Master
<1> QED BY <1>1, <1>2 DEF SessionInv, TypeOK

------------------------------------------------------------------------------
(* The threads of a device.                                                 *)
LEMMA InputStep ==
    ASSUME SessionInv, NEW g \in Working, InputCopy(g) PROVE SessionInv'
<1> USE EngineAssumption, WorkingDevices
<1>0. TypeOK /\ RunInv /\ InputWithinLimit /\ InputInv /\ ProcessInv /\ OutputInv
  BY DEF SessionInv
<1>1. g \in Devices
  BY <1>0 DEF TypeOK
<1>2. /\ SessionTypes' /\ RunTypes' /\ MasterTypes' /\ RunInv' /\ InputWithinLimit'
      /\ ProcessInv' /\ OutputInv'
  <2>1. UNCHANGED <<request, client, run, inputQ, master, process, output>>
    BY DEF InputCopy, InputTake, InputFill, InputGive, InputMark
  <2>2. SessionTypes' /\ RunTypes' /\ MasterTypes'
    BY <1>0, <2>1 DEF TypeOK, SessionTypes, RunTypes, MasterTypes, client, run, master, Working, GPUs, imageCount
  <2>3. RunInv' /\ InputWithinLimit' /\ ProcessInv' /\ OutputInv'
    BY <1>0, <2>1 DEF RunInv, InputWithinLimit, ProcessInv, OutputInv, client, run, imageCount, process, output
  <2> QED BY <2>2, <2>3
<1>3. QueueTypes' /\ PoolTypes' /\ DeviceTypes' /\ InputInv'
  <2>1. CASE InputTake(g)
    <3>1. Head(InIdle[g]) \in Buffers /\ Take(InIdle, g) \in [Devices -> Seq(Buffers)]
      BY <1>0, <1>1, <2>1, ArrayStep DEF InputTake, TypeOK, PoolTypes
    <3>2. QueueTypes' /\ PoolTypes'
      BY <1>0, <2>1, <3>1 DEF InputTake, TypeOK, QueueTypes, PoolTypes, deal
    <3>3. DeviceTypes'
      BY <1>0, <1>1, <2>1, <3>1 DEF InputTake, TypeOK, DeviceTypes, process, output, Goto
    <3>4. InputInv'
      BY <1>0, <1>1, <2>1, <3>1 DEF InputTake, TypeOK, DeviceTypes, InputInv, Goto
    <3> QED BY <3>2, <3>3, <3>4
  <2>2. CASE InputFill(g)
    <3>1. Head(ImageQ[g]) \in Label /\ Take(ImageQ, g) \in [Devices -> Seq(Label)]
      BY <1>0, <1>1, <2>2, ArrayStep DEF InputFill, TypeOK, QueueTypes
    <3>2. QueueTypes' /\ PoolTypes'
      BY <1>0, <2>2, <3>1 DEF InputFill, TypeOK, QueueTypes, PoolTypes, pool
    <3>a. Head(ImageQ[g]) < 0 \/ Head(ImageQ[g]) \in Images
      BY <3>1 DEF Label, Images, End
    <3>b. batch' \in [Devices -> Seq(Images)]
      BY <1>0, <1>1, <2>2, <3>a, ArrayStep DEF InputFill, TypeOK, DeviceTypes
    <3>3. DeviceTypes'
      BY <1>0, <1>1, <2>2, <3>b DEF InputFill, TypeOK, DeviceTypes, process, output, Goto
    <3>4. InputInv'
      BY <1>0, <1>1, <2>2, <3>1 DEF InputFill, TypeOK, DeviceTypes, InputInv, Goto, Put
    <3> QED BY <3>2, <3>3, <3>4
  <2>3. CASE InputGive(g)
    <3>1. /\ inBuf[g] \in Buffers /\ batch[g] \in Seq(Images) /\ Len(batch[g]) \in 0..BatchSize
          /\ inPc[g] \in {"give", "giveLast"}
      BY <1>0, <1>1, <2>3 DEF InputGive, TypeOK, DeviceTypes, InputInv
    <3>2. inMem' \in [Devices -> [Buffers -> [Slots -> Label]]]
      <4>1. \A k \in Decoded(Len(batch[g])): batch[g][k] \in Label
        BY <3>1 DEF Decoded, Label
      <4>2. [k \in Slots |-> IF k \in Decoded(Len(batch[g])) THEN batch[g][k] ELSE inMem[g][inBuf[g]][k]] \in [Slots -> Label]
        BY <1>0, <1>1, <3>1, <4>1 DEF TypeOK, PoolTypes
      <4> QED BY <1>0, <1>1, <2>3, <3>1, <4>2 DEF InputGive, TypeOK, PoolTypes
    <3>3. Put(InBusy, g, inBuf[g]) \in [Devices -> Seq(Buffers \cup {Null})] /\ Put(InIdle, g, inBuf[g]) \in [Devices -> Seq(Buffers)]
      BY <1>0, <1>1, <3>1, ArrayStep DEF TypeOK, PoolTypes
    <3>4. QueueTypes' /\ PoolTypes'
      BY <1>0, <2>3, <3>2, <3>3 DEF InputGive, TypeOK, QueueTypes, PoolTypes, deal
    <3>5. DeviceTypes'
      BY <1>0, <1>1, <2>3, <3>1 DEF InputGive, TypeOK, DeviceTypes, process, output, Goto
    <3>6. InputInv'
      BY <1>0, <1>1, <2>3, <3>1 DEF InputGive, TypeOK, DeviceTypes, InputInv, Goto
    <3> QED BY <3>4, <3>5, <3>6
  <2>4. CASE InputMark(g)
    <3>1. Put(InBusy, g, Null) \in [Devices -> Seq(Buffers \cup {Null})]
      BY <1>0, <1>1, ArrayStep DEF TypeOK, PoolTypes
    <3>2. QueueTypes' /\ PoolTypes'
      BY <1>0, <2>4, <3>1 DEF InputMark, TypeOK, QueueTypes, PoolTypes, deal
    <3>3. DeviceTypes'
      BY <1>0, <1>1, <2>4 DEF InputMark, TypeOK, DeviceTypes, process, output, Goto
    <3>4. InputInv'
      BY <1>0, <1>1, <2>4 DEF InputMark, TypeOK, DeviceTypes, InputInv, Goto
    <3> QED BY <3>2, <3>3, <3>4
  <2> QED BY <2>1, <2>2, <2>3, <2>4 DEF InputCopy
<1> QED BY <1>2, <1>3 DEF SessionInv, TypeOK

LEMMA ProcessStep ==
    ASSUME SessionInv, NEW g \in Working, Process(g) PROVE SessionInv'
<1> USE EngineAssumption, WorkingDevices
<1>0. TypeOK /\ RunInv /\ InputWithinLimit /\ InputInv /\ ProcessInv /\ OutputInv
  BY DEF SessionInv
<1>1. g \in Devices
  BY <1>0 DEF TypeOK
<1>2. /\ SessionTypes' /\ RunTypes' /\ MasterTypes' /\ QueueTypes' /\ RunInv' /\ InputWithinLimit'
      /\ InputInv' /\ OutputInv'
  <2>1. UNCHANGED <<request, client, run, inputQ, outputQ, vectorQ, master, deal, input, output>>
    BY DEF Process, ProcessTakeInput, ProcessTakeOutput, ProcessGraph, ProcessGive
  <2>2. SessionTypes' /\ RunTypes' /\ MasterTypes' /\ QueueTypes'
    BY <1>0, <2>1 DEF TypeOK, SessionTypes, RunTypes, MasterTypes, QueueTypes, client, run, master, deal, Working, GPUs, imageCount
  <2>3. RunInv' /\ InputWithinLimit' /\ InputInv' /\ OutputInv'
    BY <1>0, <2>1 DEF RunInv, InputWithinLimit, InputInv, OutputInv, client, run, imageCount, input, output
  <2> QED BY <2>2, <2>3
<1>3. PoolTypes' /\ DeviceTypes' /\ ProcessInv'
  <2>1. CASE ProcessTakeInput(g)
    <3>1. Head(InBusy[g]) \in Buffers \cup {Null} /\ Take(InBusy, g) \in [Devices -> Seq(Buffers \cup {Null})]
      BY <1>0, <1>1, <2>1, ArrayStep DEF ProcessTakeInput, TypeOK, PoolTypes
    <3>2. PoolTypes'
      BY <1>0, <2>1, <3>1 DEF ProcessTakeInput, TypeOK, PoolTypes
    <3>3. DeviceTypes'
      BY <1>0, <1>1, <2>1, <3>1 DEF ProcessTakeInput, TypeOK, DeviceTypes, input, output, Goto
    <3>4. ProcessInv'
      BY <1>0, <1>1, <2>1, <3>1 DEF ProcessTakeInput, TypeOK, DeviceTypes, ProcessInv, Goto
    <3> QED BY <3>2, <3>3, <3>4
  <2>2. CASE ProcessTakeOutput(g)
    <3>1. Head(OutIdle[g]) \in Buffers /\ Take(OutIdle, g) \in [Devices -> Seq(Buffers)]
      BY <1>0, <1>1, <2>2, ArrayStep DEF ProcessTakeOutput, TypeOK, PoolTypes
    <3>2. PoolTypes'
      BY <1>0, <2>2, <3>1 DEF ProcessTakeOutput, TypeOK, PoolTypes
    <3>3. DeviceTypes'
      BY <1>0, <1>1, <2>2, <3>1 DEF ProcessTakeOutput, TypeOK, DeviceTypes, input, output, Goto
    <3>4. ProcessInv'
      BY <1>0, <1>1, <2>2, <3>1 DEF ProcessTakeOutput, TypeOK, DeviceTypes, ProcessInv, Goto
    <3> QED BY <3>2, <3>3, <3>4
  <2>3. CASE ProcessGraph(g)
    <3>1. procIn[g] \in Buffers /\ procOut[g] \in Buffers
      BY <1>0, <1>1, <2>3 DEF ProcessGraph, ProcessInv
    <3>2. PoolTypes'
      BY <1>0, <1>1, <2>3, <3>1 DEF ProcessGraph, TypeOK, PoolTypes
    <3>3. DeviceTypes'
      BY <1>0, <1>1, <2>3 DEF ProcessGraph, TypeOK, DeviceTypes, input, output, Goto
    <3>4. ProcessInv'
      BY <1>0, <1>1, <2>3, <3>1 DEF ProcessGraph, TypeOK, DeviceTypes, ProcessInv, Goto
    <3> QED BY <3>2, <3>3, <3>4
  <2>4. CASE ProcessGive(g)
    <3>1. /\ procPc[g] = "giveInput" => procIn[g] \in Buffers
          /\ procPc[g] \in {"giveInput", "giveOutput"} => procOut[g] \in Buffers
      BY <1>0, <1>1 DEF ProcessInv
    <3>2. /\ procPc[g] = "giveInput" => Put(InIdle, g, procIn[g]) \in [Devices -> Seq(Buffers)]
          /\ procPc[g] = "giveOutput" => Put(OutBusy, g, procOut[g]) \in [Devices -> Seq(Buffers \cup {Null})]
          /\ Put(OutBusy, g, Null) \in [Devices -> Seq(Buffers \cup {Null})]
      BY <1>0, <1>1, <3>1, ArrayStep DEF TypeOK, PoolTypes
    <3>3. PoolTypes'
      BY <1>0, <2>4, <3>2 DEF ProcessGive, TypeOK, PoolTypes
    <3>4. DeviceTypes'
      BY <1>0, <1>1, <2>4 DEF ProcessGive, TypeOK, DeviceTypes, input, output, Goto
    <3>5. ProcessInv'
      BY <1>0, <1>1, <2>4, <3>1 DEF ProcessGive, TypeOK, DeviceTypes, ProcessInv, Goto
    <3> QED BY <3>3, <3>4, <3>5
  <2> QED BY <2>1, <2>2, <2>3, <2>4 DEF Process
<1> QED BY <1>2, <1>3 DEF SessionInv, TypeOK

LEMMA OutputStep ==
    ASSUME SessionInv, NEW g \in Working, OutputCopy(g) PROVE SessionInv'
<1> USE EngineAssumption, WorkingDevices
<1>0. TypeOK /\ RunInv /\ InputWithinLimit /\ InputInv /\ ProcessInv /\ OutputInv
  BY DEF SessionInv
<1>1. g \in Devices
  BY <1>0 DEF TypeOK
<1>2. /\ SessionTypes' /\ RunTypes' /\ MasterTypes' /\ RunInv' /\ InputWithinLimit'
      /\ InputInv' /\ ProcessInv'
  <2>1. UNCHANGED <<request, client, run, inputQ, master, input, process>>
    BY DEF OutputCopy, OutputTake, OutputTag, OutputVector, OutputGive, OutputMark
  <2>2. SessionTypes' /\ RunTypes' /\ MasterTypes'
    BY <1>0, <2>1 DEF TypeOK, SessionTypes, RunTypes, MasterTypes, client, run, master, Working, GPUs, imageCount
  <2>3. RunInv' /\ InputWithinLimit' /\ InputInv' /\ ProcessInv'
    BY <1>0, <2>1 DEF RunInv, InputWithinLimit, InputInv, ProcessInv, client, run, imageCount, input, process
  <2> QED BY <2>2, <2>3
<1>3. QueueTypes' /\ PoolTypes' /\ DeviceTypes' /\ OutputInv'
  <2>1. CASE OutputTake(g)
    <3>1. Head(OutBusy[g]) \in Buffers \cup {Null} /\ Take(OutBusy, g) \in [Devices -> Seq(Buffers \cup {Null})]
      BY <1>0, <1>1, <2>1, ArrayStep DEF OutputTake, TypeOK, PoolTypes
    <3>2. QueueTypes' /\ PoolTypes'
      BY <1>0, <2>1, <3>1 DEF OutputTake, TypeOK, QueueTypes, PoolTypes, deal
    <3>3. DeviceTypes'
      BY <1>0, <1>1, <2>1, <3>1 DEF OutputTake, TypeOK, DeviceTypes, input, process, Goto
    <3>4. OutputInv'
      BY <1>0, <1>1, <2>1, <3>1 DEF OutputTake, TypeOK, DeviceTypes, OutputInv, Goto
    <3> QED BY <3>2, <3>3, <3>4
  <2>2. CASE OutputTag(g)
    <3>1. Head(TagQ[g]) \in Label /\ Take(TagQ, g) \in [Devices -> Seq(Label)]
      BY <1>0, <1>1, <2>2, ArrayStep DEF OutputTag, TypeOK, QueueTypes
    <3>2. outBuf[g] \in Buffers /\ outputCount[g] \in 0..BatchSize /\ outputCount[g] < BatchSize
      BY <1>0, <1>1, <2>2 DEF OutputTag, TypeOK, DeviceTypes, OutputInv
    <3>3. outMem[g][outBuf[g]][outputCount[g] + 1] \in Label
      <4>1. outputCount[g] + 1 \in Slots
        BY <3>2 DEF Slots
      <4>2. outMem[g][outBuf[g]] \in [Slots -> Label]
        BY <1>0, <1>1, <3>2 DEF TypeOK, PoolTypes
      <4> QED BY <4>1, <4>2
    <3>4. outputQ' \in Seq(Result)
      <4>1. <<Head(TagQ[g]), outMem[g][outBuf[g]][outputCount[g] + 1]>> \in Result
        BY <3>1, <3>3 DEF Result
      <4>2. Append(outputQ, <<Head(TagQ[g]), outMem[g][outBuf[g]][outputCount[g] + 1]>>) \in Seq(Result)
        BY <1>0, <4>1, QueueStep DEF TypeOK, QueueTypes
      <4> QED BY <1>0, <2>2, <4>2 DEF OutputTag, TypeOK, QueueTypes
    <3>5. QueueTypes' /\ PoolTypes'
      BY <1>0, <2>2, <3>1, <3>4 DEF OutputTag, TypeOK, QueueTypes, PoolTypes, pool
    <3>6. outputCount' \in [Devices -> 0..BatchSize]
      <4>1. outputCount[g] + 1 \in 0..BatchSize
        BY <3>2
      <4>2. outputCount \in [Devices -> 0..BatchSize]
        BY <1>0 DEF TypeOK, DeviceTypes
      <4>3. outputCount' = outputCount \/ outputCount' = [outputCount EXCEPT ![g] = outputCount[g] + 1]
        BY <2>2 DEF OutputTag
      <4> QED BY <1>1, <4>1, <4>2, <4>3
    <3>7. DeviceTypes'
      BY <1>0, <1>1, <2>2, <3>6 DEF OutputTag, TypeOK, DeviceTypes, input, process, Goto
    <3>8. OutputInv'
      BY <1>0, <1>1, <2>2, <3>2 DEF OutputTag, TypeOK, DeviceTypes, OutputInv, Goto
    <3> QED BY <3>5, <3>7, <3>8
  <2>3. CASE OutputVector(g)
    <3>1. outBuf[g] \in Buffers /\ outputCount[g] \in 0..BatchSize /\ outputCount[g] > 0
      BY <1>0, <1>1, <2>3 DEF OutputVector, TypeOK, DeviceTypes, OutputInv
    <3>2. outMem[g][outBuf[g]][outputCount[g]] \in Label
      BY <1>0, <1>1, <3>1 DEF TypeOK, PoolTypes, Slots
    <3>3. vectorQ' \in Seq(Label)
      BY <1>0, <2>3, <3>2, QueueStep DEF OutputVector, TypeOK, QueueTypes
    <3>4. QueueTypes' /\ PoolTypes'
      BY <1>0, <2>3, <3>3 DEF OutputVector, TypeOK, QueueTypes, PoolTypes, pool, deal
    <3>5. DeviceTypes'
      BY <1>0, <1>1, <2>3 DEF OutputVector, TypeOK, DeviceTypes, input, process, Goto
    <3>6. OutputInv'
      BY <1>0, <1>1, <2>3, <3>1 DEF OutputVector, TypeOK, DeviceTypes, OutputInv, Goto
    <3> QED BY <3>4, <3>5, <3>6
  <2>4. CASE OutputGive(g)
    <3>1. outBuf[g] \in Buffers
      BY <1>0, <1>1, <2>4 DEF OutputGive, OutputInv
    <3>2. Put(OutIdle, g, outBuf[g]) \in [Devices -> Seq(Buffers)]
      BY <1>0, <1>1, <3>1, ArrayStep DEF TypeOK, PoolTypes
    <3>3. QueueTypes' /\ PoolTypes'
      BY <1>0, <2>4, <3>2 DEF OutputGive, TypeOK, QueueTypes, PoolTypes, deal
    <3>4. DeviceTypes'
      BY <1>0, <1>1, <2>4 DEF OutputGive, TypeOK, DeviceTypes, input, process, Goto
    <3>5. OutputInv'
      BY <1>0, <1>1, <2>4 DEF OutputGive, TypeOK, DeviceTypes, OutputInv, Goto
    <3> QED BY <3>3, <3>4, <3>5
  <2>5. CASE OutputMark(g)
    <3>1. outputQ' \in Seq(Result)
      <4>1. <<End, End>> \in Result
        BY DEF Result, Label
      <4>2. Append(outputQ, <<End, End>>) \in Seq(Result)
        BY <1>0, <4>1, QueueStep DEF TypeOK, QueueTypes
      <4> QED BY <2>5, <4>2 DEF OutputMark
    <3>2. QueueTypes' /\ PoolTypes'
      BY <1>0, <2>5, <3>1 DEF OutputMark, TypeOK, QueueTypes, PoolTypes, pool, deal
    <3>3. DeviceTypes'
      BY <1>0, <1>1, <2>5 DEF OutputMark, TypeOK, DeviceTypes, input, process, Goto
    <3>4. OutputInv'
      BY <1>0, <1>1, <2>5 DEF OutputMark, TypeOK, DeviceTypes, OutputInv, Goto
    <3> QED BY <3>2, <3>3, <3>4
  <2> QED BY <2>1, <2>2, <2>3, <2>4, <2>5 DEF OutputCopy
<1> QED BY <1>2, <1>3 DEF SessionInv, TypeOK

------------------------------------------------------------------------------
(* run, its client, and the destructor.                                     *)
LEMMA DestroyStep == ASSUME SessionInv, Destroy PROVE SessionInv'
<1> USE EngineAssumption, WorkingDevices
<1>0. TypeOK /\ RunInv /\ InputWithinLimit /\ InputInv /\ ProcessInv /\ OutputInv
  BY DEF SessionInv
<1>1. dying \in Devices /\ dying \in Working /\ End \in Label
  BY <1>0 DEF TypeOK, RunTypes, Label
<1>2. /\ SessionTypes' /\ MasterTypes' /\ DeviceTypes' /\ InputInv' /\ ProcessInv' /\ OutputInv'
  <2>1. UNCHANGED <<request, client, master, input, process, output>>
    BY DEF Destroy, DestroyInput, DestroyJoinMaster, DestroyMark, DestroyJoin, DestroyFree
  <2>2. SessionTypes' /\ MasterTypes'
    BY <1>0, <2>1 DEF TypeOK, SessionTypes, MasterTypes, client, master, Working, GPUs, imageCount
  <2>3. DeviceTypes' /\ InputInv' /\ ProcessInv' /\ OutputInv'
    BY <1>0, <2>1 DEF TypeOK, DeviceTypes, InputInv, ProcessInv, OutputInv, input, process, output
  <2> QED BY <2>2, <2>3
<1>3. RunTypes' /\ QueueTypes' /\ PoolTypes' /\ RunInv' /\ InputWithinLimit'
  <2>1. CASE DestroyInput
    <3>1. Append(inputQ, End) \in Seq(Label)
      BY <1>0, <1>1, QueueStep DEF TypeOK, QueueTypes
    <3>2. RunTypes' /\ QueueTypes' /\ PoolTypes' /\ RunInv'
      BY <1>0, <2>1, <3>1 DEF DestroyInput, TypeOK, RunTypes, QueueTypes, PoolTypes, RunInv, deal, pool, Working, GPUs
    <3>3. InputWithinLimit'
      BY <1>0, <2>1, <3>1 DEF DestroyInput, TypeOK, QueueTypes, InputWithinLimit, End
    <3> QED BY <3>2, <3>3
  <2>2. CASE DestroyJoinMaster \/ DestroyJoin
    BY <1>0, <2>2 DEF DestroyJoinMaster, DestroyJoin, TypeOK, RunTypes, QueueTypes, PoolTypes, RunInv, InputWithinLimit, deal, pool, Working, GPUs
  <2>3. CASE DestroyMark
    <3>1. Put(TagQ, dying, End) \in [Devices -> Seq(Label)] /\ Put(ImageQ, dying, End) \in [Devices -> Seq(Label)]
      BY <1>0, <1>1, ArrayStep DEF TypeOK, QueueTypes
    <3> QED BY <1>0, <2>3, <3>1 DEF DestroyMark, TypeOK, RunTypes, QueueTypes, PoolTypes, RunInv, InputWithinLimit, pool, Working, GPUs
  <2>4. CASE DestroyFree
    <3>1. InIdle' \in [Devices -> Seq(Buffers)] /\ OutIdle' \in [Devices -> Seq(Buffers)]
      BY <1>0, <1>1, <2>4 DEF DestroyFree, TypeOK, PoolTypes
    <3>2. dying' \in Working'
      <4>1. GPUs' = GPUs /\ dying' = IF dying < GPUs THEN dying + 1 ELSE dying
        BY <2>4 DEF DestroyFree, GPUs
      <4>2. GPUs \in Nat \ {0}
        BY <1>0 DEF TypeOK
      <4> QED BY <1>1, <4>1, <4>2 DEF Working
    <3>3. RunTypes' /\ QueueTypes' /\ PoolTypes'
      BY <1>0, <2>4, <3>1, <3>2 DEF DestroyFree, TypeOK, RunTypes, QueueTypes, PoolTypes, deal
    <3> QED BY <1>0, <2>4, <3>3 DEF DestroyFree, RunInv, InputWithinLimit
  <2> QED BY <2>1, <2>2, <2>3, <2>4 DEF Destroy
<1> QED BY <1>2, <1>3 DEF SessionInv, TypeOK

LEMMA ClientStep == ASSUME SessionInv, ClientCloses PROVE SessionInv'
<1>1. UNCHANGED <<request, nextImageToSend, results, run, inputQ, outputQ, vectorQ, master, deal, pool, input, process, output>> /\ connected' \in BOOLEAN
  BY DEF ClientCloses
<1>2. SessionTypes' /\ RunTypes' /\ MasterTypes' /\ QueueTypes'
  BY <1>1 DEF SessionInv, TypeOK, SessionTypes, RunTypes, MasterTypes, QueueTypes, run, master, deal, Working, GPUs, imageCount
<1>3. PoolTypes' /\ DeviceTypes'
  BY <1>1 DEF SessionInv, TypeOK, PoolTypes, DeviceTypes, pool, input, process, output
<1>4. RunInv' /\ InputWithinLimit' /\ InputInv' /\ ProcessInv' /\ OutputInv'
  BY <1>1 DEF SessionInv, RunInv, InputWithinLimit, InputInv, ProcessInv, OutputInv, run, input, process, output, imageCount
<1> QED BY <1>2, <1>3, <1>4 DEF SessionInv, TypeOK

\* The part of the state that run leaves alone.
LEMMA RunFrame ==
    ASSUME SessionInv, UNCHANGED <<request, master, deal, pool, input, process, output>>
    PROVE  /\ MasterTypes' /\ PoolTypes' /\ DeviceTypes' /\ InputInv' /\ ProcessInv' /\ OutputInv'
           /\ TagQ' \in [Devices -> Seq(Label)] /\ ImageQ' \in [Devices -> Seq(Label)]
<1>1. MasterTypes' /\ PoolTypes'
  BY DEF SessionInv, TypeOK, MasterTypes, PoolTypes, master, pool, Working, GPUs
<1>2. TagQ' \in [Devices -> Seq(Label)] /\ ImageQ' \in [Devices -> Seq(Label)]
  BY DEF SessionInv, TypeOK, QueueTypes, deal
<1>3. DeviceTypes' /\ InputInv' /\ ProcessInv' /\ OutputInv'
  BY DEF SessionInv, TypeOK, DeviceTypes, InputInv, ProcessInv, OutputInv, input, process, output
<1> QED BY <1>1, <1>2, <1>3

LEMMA RunStep == ASSUME SessionInv, Run PROVE SessionInv'
<1> USE EngineAssumption, WorkingDevices
<1> DEFINE Part == /\ SessionTypes' /\ RunTypes'
                   /\ inputQ' \in Seq(Label) /\ outputQ' \in Seq(Result) /\ vectorQ' \in Seq(Label)
                   /\ RunInv' /\ InputWithinLimit'
<1>0. TypeOK /\ RunInv /\ InputWithinLimit
  BY DEF SessionInv
<1>1. CASE Destroy
  BY <1>1, DestroyStep
<1>2. CASE RunLoop \/ RunBye
  <2>1. UNCHANGED <<request, client, packet, dying, inputQ, outputQ, vectorQ, endOfImageRequested, master, deal, pool, input, process, output>>
    BY <1>2 DEF RunLoop, RunBye
  <2>2. /\ runPc' \in {"pack", "ask", "d_input"} /\ available' \in Int /\ left' \in Int
    BY <1>0, <1>2 DEF RunLoop, RunBye, TypeOK, RunTypes, QueueTypes, PerPacket, Lesser
  <2>3. Part
    BY <1>0, <2>1, <2>2 DEF TypeOK, SessionTypes, RunTypes, QueueTypes, RunInv, InputWithinLimit, client, Working, GPUs, imageCount
  <2> QED BY <2>1, <2>3, RunFrame DEF SessionInv, TypeOK, QueueTypes
<1>3. CASE RunPack
  <2>1. Head(outputQ) \in Result /\ Tail(outputQ) \in Seq(Result)
    BY <1>0, <1>3, QueueStep DEF RunPack, TypeOK, QueueTypes
  <2>2. Append(packet, Head(outputQ)) \in Seq(Result) /\ Append(packet, Head(outputQ)) # <<>>
    BY <1>0, <2>1 DEF TypeOK, RunTypes
  <2>3. UNCHANGED <<request, client, dying, available, inputQ, vectorQ, endOfImageRequested, master, deal, pool, input, process, output>>
    BY <1>3 DEF RunPack
  <2>4. /\ runPc' \in {"sendLast", "vector", "pack", "send"} /\ left' \in Int /\ outputQ' \in Seq(Result)
        /\ packet' \in Seq(Result) /\ (runPc' = "vector" => packet' # <<>>)
    <3>1. packet \in Seq(Result) /\ left \in Int
      BY <1>0 DEF TypeOK, RunTypes
    <3>2. CASE Head(outputQ)[1] < 0
      BY <1>3, <2>1, <3>1, <3>2 DEF RunPack
    <3>3. CASE ~(Head(outputQ)[1] < 0)
      <4>1. /\ packet' = Append(packet, Head(outputQ)) /\ left' = left - 1 /\ outputQ' = Tail(outputQ)
            /\ runPc' \in {"vector", "pack", "send"}
        BY <1>3, <3>3 DEF RunPack
      <4> QED BY <2>1, <2>2, <3>1, <4>1
    <3> QED BY <3>2, <3>3
  <2>5. Part
    BY <1>0, <2>3, <2>4 DEF TypeOK, SessionTypes, RunTypes, QueueTypes, RunInv, InputWithinLimit, client, Working, GPUs, imageCount
  <2> QED BY <2>3, <2>5, RunFrame DEF SessionInv, TypeOK, QueueTypes
<1>4. CASE RunVector
  <2>1. Head(vectorQ) \in Label /\ Tail(vectorQ) \in Seq(Label)
    BY <1>0, <1>4, QueueStep DEF RunVector, TypeOK, QueueTypes
  <2>2. [packet EXCEPT ![Len(packet)][2] = Head(vectorQ)] \in Seq(Result)
    <3>1. packet \in Seq(Result) /\ Len(packet) \in DOMAIN packet
      BY <1>0, <1>4 DEF RunVector, TypeOK, RunTypes, RunInv
    <3>2. [packet[Len(packet)] EXCEPT ![2] = Head(vectorQ)] \in Result
      BY <2>1, <3>1 DEF Result
    <3> QED BY <3>1, <3>2
  <2>3. UNCHANGED <<request, client, dying, available, left, inputQ, outputQ, endOfImageRequested, master, deal, pool, input, process, output>>
    BY <1>4 DEF RunVector
  <2>4. runPc' \in {"pack", "send"} /\ vectorQ' \in Seq(Label) /\ packet' \in Seq(Result)
    BY <1>4, <2>1, <2>2 DEF RunVector
  <2>5. Part
    BY <1>0, <2>3, <2>4 DEF TypeOK, SessionTypes, RunTypes, QueueTypes, RunInv, InputWithinLimit, client, Working, GPUs, imageCount
  <2> QED BY <2>3, <2>5, RunFrame DEF SessionInv, TypeOK, QueueTypes
<1>5. CASE RunSend
  <2>1. UNCHANGED <<request, connected, nextImageToSend, dying, inputQ, outputQ, vectorQ, endOfImageRequested, master, deal, pool, input, process, output>>
    BY <1>5 DEF RunSend
  <2>2. {packet[i] : i \in DOMAIN packet} \subseteq Result
    BY <1>0 DEF TypeOK, RunTypes
  <2>3. /\ runPc' \in {"d_input", "bye", "pack", "ask"} /\ available' \in Int /\ left' \in Int
        /\ packet' = <<>> /\ results' \subseteq Result
    BY <1>0, <1>5, <2>2 DEF RunSend, TypeOK, SessionTypes, RunTypes, PerPacket, Lesser
  <2>4. Part
    BY <1>0, <2>1, <2>3 DEF TypeOK, SessionTypes, RunTypes, QueueTypes, RunInv, InputWithinLimit, Working, GPUs, imageCount
  <2> QED BY <2>1, <2>4, RunFrame DEF SessionInv, TypeOK, QueueTypes
<1>6. CASE RunAsk
  <2>1. UNCHANGED <<request, client, available, packet, dying, outputQ, vectorQ, master, deal, pool, input, process, output>>
    BY <1>6 DEF RunAsk
  <2>2. imageCount \in Nat /\ Len(inputQ) \in Nat /\ nextImageToSend \in 0..imageCount /\ left \in Int /\ inputQ \in Seq(Label)
    BY <1>0 DEF TypeOK, SessionTypes, RunTypes, QueueTypes
  <2>3. /\ runPc' \in {"loop", "d_input", "receive"} /\ left' \in Int /\ endOfImageRequested' \in BOOLEAN
        /\ inputQ' = inputQ \/ inputQ' = Append(inputQ, End)
        /\ runPc' = "receive" => /\ left' > 0 /\ nextImageToSend + left' <= imageCount
                                 /\ Len(inputQ) + left' <= InputDepth /\ inputQ' = inputQ
    <3>a. Requested \in Int /\ Requested <= InputDepth - Len(inputQ)
      BY <2>2 DEF Requested, Lesser
    <3>1. CASE connected /\ ~endOfImageRequested /\ ~(Requested <= 0)
      <4>1. PICK count \in Replies(Requested):
                    /\ left' = (IF count > 0 THEN count ELSE 0)
                    /\ endOfImageRequested' = (count < 0)
                    /\ inputQ' = (IF count < 0 THEN Append(inputQ, End) ELSE inputQ)
                    /\ runPc' = (IF count > 0 THEN "receive" ELSE "loop")
        BY <1>6, <3>1, Zenon DEF RunAsk
      <4>2. count \in Int /\ (count > 0 => count <= InputDepth - Len(inputQ) /\ count <= imageCount - nextImageToSend)
        <5>1. count = -1 \/ count \in 0..Lesser(Requested, imageCount - nextImageToSend)
          BY <4>1 DEF Replies
        <5> QED BY <2>2, <3>a, <5>1 DEF Lesser
      <4> QED BY <2>2, <4>1, <4>2
    <3>2. CASE ~(connected /\ ~endOfImageRequested /\ ~(Requested <= 0))
      <4>1. /\ left' = left /\ endOfImageRequested' = endOfImageRequested /\ inputQ' = inputQ
            /\ runPc' = "loop" \/ runPc' = "d_input"
        <5>1. CASE endOfImageRequested
          BY <1>6, <5>1, Zenon DEF RunAsk
        <5>2. CASE ~endOfImageRequested /\ Requested <= 0
          <6>1. ~(Requested > 0)
            BY <3>a, <5>2
          <6> QED BY <1>6, <5>2, <6>1, Zenon DEF RunAsk
        <5>3. CASE ~endOfImageRequested /\ ~(Requested <= 0)
          BY <1>6, <3>2, <5>3, Zenon DEF RunAsk
        <5> QED BY <5>1, <5>2, <5>3
      <4> QED BY <1>0, <2>2, <4>1 DEF TypeOK, RunTypes
    <3> QED BY <3>1, <3>2
  <2>4. Append(inputQ, End) \in Seq(Label)
    BY <2>2, QueueStep DEF Label
  <2>5. InputWithinLimit'
    BY <1>0, <2>2, <2>3 DEF InputWithinLimit, End
  <2>6. RunInv'
    BY <2>1, <2>3 DEF RunInv, client, imageCount
  <2>7. Part
    BY <1>0, <2>1, <2>3, <2>4, <2>5, <2>6 DEF TypeOK, SessionTypes, RunTypes, QueueTypes, client, Working, GPUs, imageCount
  <2> QED BY <2>1, <2>7, RunFrame DEF SessionInv, TypeOK, QueueTypes
<1>7. CASE RunReceive
  <2>1. UNCHANGED <<request, connected, results, endOfImageRequested, available, packet, dying, outputQ, vectorQ, master, deal, pool, input, process, output>>
    BY <1>7 DEF RunReceive
  <2>2. /\ nextImageToSend \in Images /\ nextImageToSend < imageCount /\ inputQ \in Seq(Label)
        /\ left \in Int /\ imageCount \in Nat /\ left > 0 /\ nextImageToSend + left <= imageCount /\ Len(inputQ) + left <= InputDepth
    BY <1>0, <1>7 DEF RunReceive, TypeOK, SessionTypes, RunTypes, QueueTypes, RunInv, Images
  <2>3. Append(inputQ, nextImageToSend) \in Seq(Label)
    BY <2>2, QueueStep DEF Label
  <2>4. ASSUME connected PROVE Part
    <3>1. /\ inputQ' = Append(inputQ, nextImageToSend) /\ nextImageToSend' = nextImageToSend + 1 /\ left' = left - 1
          /\ runPc' \in {"receive", "loop"} /\ (runPc' = "receive" => left' > 0)
      BY <1>7, <2>4, <2>2 DEF RunReceive
    <3>2. InputWithinLimit'
      BY <1>0, <2>2, <3>1 DEF InputWithinLimit
    <3>3. RunInv'
      <4>1. imageCount' = imageCount
        BY <2>1 DEF imageCount
      <4>2. Len(inputQ') = Len(inputQ) + 1
        BY <2>2, <3>1
      <4>3. nextImageToSend' + left' = nextImageToSend + left /\ Len(inputQ') + left' = Len(inputQ) + left
        BY <2>2, <3>1, <4>2 DEF Images
      <4> QED BY <2>2, <3>1, <4>1, <4>3 DEF RunInv
    <3> QED BY <1>0, <2>1, <2>2, <2>3, <3>1, <3>2, <3>3 DEF TypeOK, SessionTypes, RunTypes, QueueTypes, Working, GPUs, imageCount, Images
  <2>5. ASSUME ~connected PROVE Part
    BY <1>0, <1>7, <2>1, <2>5 DEF RunReceive, TypeOK, SessionTypes, RunTypes, QueueTypes, RunInv, InputWithinLimit, Working, GPUs, imageCount
  <2>6. Part
    BY <2>4, <2>5
  <2> QED BY <2>1, <2>6, RunFrame DEF SessionInv, TypeOK, QueueTypes
<1> QED BY <1>1, <1>2, <1>3, <1>4, <1>5, <1>6, <1>7 DEF Run

------------------------------------------------------------------------------
(* The theorems.                                                            *)
LEMMA SessionInit == ASSUME Init PROVE SessionInv
<1> USE EngineAssumption
<1>1. SessionTypes
  BY DEF Init, SessionTypes, Request, imageCount
<1>2. RunTypes /\ MasterTypes
  <2>1. 1 \in Working /\ End \in Label /\ 0 \in 0..BatchSize - 1
    BY <1>1, WorkingDevices DEF Working, Label
  <2>2. <<>> \in Seq(Result)
    OBVIOUS
  <2>3. RunTypes
    <3>1. /\ runPc = "loop" /\ endOfImageRequested = FALSE /\ available = 0 /\ left = 0
          /\ packet = <<>> /\ dying = 1
      BY DEF Init
    <3>2. endOfImageRequested \in BOOLEAN
      BY <3>1
    <3>3. packet \in Seq(Result) /\ dying \in Working
      BY <2>1, <2>2, <3>1
    <3> QED BY <3>1, <3>2, <3>3 DEF RunTypes
  <2>4. MasterTypes
    <3>1. masterPc = "take" /\ image = End /\ gpu = 1 /\ inputCountInBatch = 0 /\ scan = 1
      BY DEF Init
    <3> QED BY <2>1, <3>1 DEF MasterTypes
  <2> QED BY <2>3, <2>4
<1>3. QueueTypes
  BY DEF Init, QueueTypes, PerDevice
<1>4. PoolTypes
  <2>1. AllBuffers \in Seq(Buffers) /\ End \in Label
    BY DEF AllBuffers, Buffers, Label
  <2> QED BY <2>1 DEF Init, PoolTypes, PerDevice
<1>5. DeviceTypes
  BY DEF Init, DeviceTypes, PerDevice
<1>6. RunInv /\ InputWithinLimit
  BY DEF Init, RunInv, InputWithinLimit
<1>7. InputInv /\ ProcessInv /\ OutputInv
  BY DEF Init, InputInv, ProcessInv, OutputInv, PerDevice
<1> QED BY <1>1, <1>2, <1>3, <1>4, <1>5, <1>6, <1>7 DEF SessionInv, TypeOK

LEMMA SessionStep == ASSUME SessionInv, [Next]_vars PROVE SessionInv'
<1>1. CASE Next
  BY <1>1, RunStep, MasterStep, ClientStep, InputStep, ProcessStep, OutputStep DEF Next
<1>2. CASE UNCHANGED vars
  <2>1. SessionTypes' /\ RunTypes' /\ MasterTypes' /\ QueueTypes'
    BY <1>2 DEF SessionInv, TypeOK, SessionTypes, RunTypes, MasterTypes, QueueTypes, vars, client, run, master, deal, Working, GPUs, imageCount
  <2>2. PoolTypes' /\ DeviceTypes'
    BY <1>2 DEF SessionInv, TypeOK, PoolTypes, DeviceTypes, vars, pool, input, process, output
  <2>3. RunInv' /\ InputWithinLimit' /\ InputInv' /\ ProcessInv' /\ OutputInv'
    BY <1>2 DEF SessionInv, RunInv, InputWithinLimit, InputInv, ProcessInv, OutputInv, vars, client, run, input, process, output, imageCount
  <2> QED BY <2>1, <2>2, <2>3 DEF SessionInv, TypeOK
<1> QED BY <1>1, <1>2

THEOREM SessionInvariant == Spec => []SessionInv
  BY SessionInit, SessionStep, PTL DEF Spec

\* Every variable of a session keeps its type: no thread reads the head of a
\* queue as something else, writes through a buffer it has given away, or
\* counts beyond the batch.
THEOREM TypeCorrect == Spec => []TypeOK
<1>1. SessionInv => TypeOK
  BY DEF SessionInv
<1> QED BY <1>1, SessionInvariant, PTL

\* However many images a client has, inputQ never holds an image behind
\* MAX_INPUT_QUEUE_DEPTH others.
THEOREM InputIsBounded == Spec => []InputWithinLimit
<1>1. SessionInv => InputWithinLimit
  BY DEF SessionInv
<1> QED BY <1>1, SessionInvariant, PTL
------------------------------------------------------------------------------
(* Where the buffers are.                                                   *)
\* A buffer is idle, with the thread x that will fill it, busy, or with the
\* thread y that empties it: in at most one of these places, and once.
Apart(idle, x, busy, y) ==
    /\ \A i, j \in DOMAIN idle: idle[i] = idle[j] => i = j
    /\ \A i, j \in DOMAIN busy: busy[i] = busy[j] => i = j
    /\ \A i \in DOMAIN idle, j \in DOMAIN busy: idle[i] # busy[j]
    /\ \A i \in DOMAIN idle: idle[i] # x /\ idle[i] # y
    /\ \A j \in DOMAIN busy: busy[j] = x \/ busy[j] = y => busy[j] = Null
    /\ x = y => x = Null

\* And no buffer is lost.
Somewhere(idle, x, busy, y) ==
    \A b \in Buffers: \/ b = x \/ b = y
                      \/ \E i \in DOMAIN idle: idle[i] = b
                      \/ \E j \in DOMAIN busy: busy[j] = b

\* The null buffer ends a queue of busy buffers, after its producer's last.
MarkedBy(busy, ended) == \A i \in DOMAIN busy: busy[i] = Null => i = Len(busy) /\ ended

\* A thread without work holds no buffer.
Holders(g) ==
    /\ inPc[g] \in {"take", "mark", "end"} => inBuf[g] = Null
    /\ procPc[g] \in {"take", "giveOutput", "mark", "end"} => procIn[g] = Null
    /\ procPc[g] \in {"take", "takeOutput", "mark", "end"} => procOut[g] = Null
    /\ outPc[g] \in {"take", "mark", "end"} => outBuf[g] = Null

BusyQueues(g) ==
    /\ MarkedBy(InBusy[g], inPc[g] = "end") /\ MarkedBy(OutBusy[g], procPc[g] = "end")
    /\ procPc[g] \in {"mark", "end"} => InBusy[g] = <<>> /\ inPc[g] = "end"

PoolsApart(g) ==
    /\ Apart(InIdle[g], inBuf[g], InBusy[g], procIn[g])
    /\ Apart(OutIdle[g], procOut[g], OutBusy[g], outBuf[g])

\* Until the destructor has released those of the device.
PoolsWhole(g) ==
    runPc # "gone" /\ g >= dying => /\ Somewhere(InIdle[g], inBuf[g], InBusy[g], procIn[g])
                                    /\ Somewhere(OutIdle[g], procOut[g], OutBusy[g], outBuf[g])

BufferInv == \A g \in Devices: Holders(g) /\ BusyQueues(g) /\ PoolsApart(g) /\ PoolsWhole(g)

\* A queue of one element is empty without it.
LEMMA LastOne ==
    ASSUME NEW S, NEW q \in Seq(S), Len(q) = 1
    PROVE  Tail(q) = <<>>
<1>1. Tail(q) \in Seq(S) /\ Len(Tail(q)) = 0
    OBVIOUS
<1>2. \A r \in Seq(S): r # <<>> => Len(r) \in Nat \ {0}
    OBVIOUS
<1> QED
    BY <1>1, <1>2

\* The six ways in which a buffer, or the mark, moves.
LEMMA PoolTakes ==
    ASSUME NEW idle \in Seq(Buffers), NEW busy \in Seq(Buffers \cup {Null}), NEW y \in Buffers \cup {Null},
           Apart(idle, Null, busy, y), idle # <<>>
    PROVE  /\ Apart(Tail(idle), Head(idle), busy, y)
           /\ Somewhere(idle, Null, busy, y) => Somewhere(Tail(idle), Head(idle), busy, y)
<1>1. /\ Head(idle) = idle[1] /\ Head(idle) \in Buffers /\ 1 \in DOMAIN idle
      /\ Len(Tail(idle)) = Len(idle) - 1
      /\ \A i \in DOMAIN Tail(idle): i + 1 \in DOMAIN idle /\ Tail(idle)[i] = idle[i + 1] /\ i + 1 # 1
    OBVIOUS
<1>2. Apart(Tail(idle), Head(idle), busy, y)
    <2>1. \A i, j \in DOMAIN Tail(idle): Tail(idle)[i] = Tail(idle)[j] => i = j
        BY <1>1 DEF Apart
    <2> QED
        BY <1>1, <2>1 DEF Apart
<1>3. Null \notin Buffers
    BY EngineAssumption DEF Buffers, Null
<1>4. ASSUME NEW b \in Buffers, NEW i \in DOMAIN idle, idle[i] = b
      PROVE  b = Head(idle) \/ \E k \in DOMAIN Tail(idle): Tail(idle)[k] = b
    <2>1. CASE i = 1
        BY <1>1, <1>4, <2>1
    <2>2. CASE i # 1
        <3>1. i - 1 \in DOMAIN Tail(idle) /\ Tail(idle)[i - 1] = b
            BY <1>1, <1>4, <2>2
        <3> QED
            BY <3>1
    <2> QED
        BY <2>1, <2>2
<1>5. Somewhere(idle, Null, busy, y) => Somewhere(Tail(idle), Head(idle), busy, y)
    BY <1>3, <1>4, Zenon DEF Somewhere
<1> QED
    BY <1>2, <1>5

LEMMA PoolGivesBack ==
    ASSUME NEW idle \in Seq(Buffers), NEW busy \in Seq(Buffers \cup {Null}),
           NEW x \in Buffers, NEW y \in Buffers \cup {Null}, Apart(idle, x, busy, y)
    PROVE  /\ Apart(Append(idle, x), Null, busy, y)
           /\ Somewhere(idle, x, busy, y) => Somewhere(Append(idle, x), Null, busy, y)
<1> DEFINE more == Append(idle, x)
<1>1. /\ Len(more) = Len(idle) + 1 /\ more[Len(idle) + 1] = x /\ Len(idle) + 1 \in DOMAIN more
      /\ \A i \in DOMAIN idle: i \in DOMAIN more /\ more[i] = idle[i]
      /\ \A i \in DOMAIN more: i \in DOMAIN idle \/ i = Len(idle) + 1
    OBVIOUS
<1>2. Null \notin Buffers /\ \A i \in DOMAIN more: more[i] \in Buffers
    BY <1>1, EngineAssumption DEF Buffers, Null
<1> HIDE DEF more
<1>3. Apart(more, Null, busy, y)
    <2>1. \A i \in DOMAIN more: (i \in DOMAIN idle /\ more[i] = idle[i]) \/ (i = Len(idle) + 1 /\ more[i] = x)
        BY <1>1
    <2>2. \A i, j \in DOMAIN more: more[i] = more[j] => i = j
        BY <2>1 DEF Apart
    <2>3. \A i \in DOMAIN more, j \in DOMAIN busy: more[i] # busy[j]
        BY <1>2, <2>1 DEF Apart
    <2>4. \A i \in DOMAIN more: more[i] # Null /\ more[i] # y
        BY <1>2, <2>1 DEF Apart
    <2>5. \A j \in DOMAIN busy: busy[j] = Null \/ busy[j] = y => busy[j] = Null
        BY DEF Apart
    <2> QED
        BY <2>2, <2>3, <2>4, <2>5 DEF Apart
<1>4. Somewhere(idle, x, busy, y) => Somewhere(more, Null, busy, y)
    BY <1>1, Zenon DEF Somewhere
<1> QED
    BY <1>3, <1>4 DEF more

LEMMA PoolHandsOver ==
    ASSUME NEW idle \in Seq(Buffers), NEW busy \in Seq(Buffers \cup {Null}),
           NEW x \in Buffers, NEW y \in Buffers \cup {Null}, Apart(idle, x, busy, y)
    PROVE  /\ Apart(idle, Null, Append(busy, x), y)
           /\ Somewhere(idle, x, busy, y) => Somewhere(idle, Null, Append(busy, x), y)
<1> DEFINE more == Append(busy, x)
<1>1. /\ Len(busy) + 1 \in DOMAIN more /\ more[Len(busy) + 1] = x
      /\ \A i \in DOMAIN busy: i \in DOMAIN more /\ more[i] = busy[i]
      /\ \A i \in DOMAIN more: i \in DOMAIN busy \/ i = Len(busy) + 1
    OBVIOUS
<1>2. Null \notin Buffers /\ \A i \in DOMAIN idle: idle[i] \in Buffers
    BY EngineAssumption DEF Buffers, Null
<1> HIDE DEF more
<1>3. Apart(idle, Null, more, y)
    <2>2. \A i, j \in DOMAIN more: more[i] = more[j] => i = j
        BY <1>1, <1>2 DEF Apart
    <2>3. \A i \in DOMAIN idle, j \in DOMAIN more: idle[i] # more[j]
        BY <1>1 DEF Apart
    <2>4. \A i \in DOMAIN idle: idle[i] # Null /\ idle[i] # y
        BY <1>2 DEF Apart
    <2>5. \A j \in DOMAIN more: more[j] = Null \/ more[j] = y => more[j] = Null
        BY <1>1 DEF Apart
    <2> QED
        BY <2>2, <2>3, <2>4, <2>5 DEF Apart
<1>4. Somewhere(idle, x, busy, y) => Somewhere(idle, Null, more, y)
    BY <1>1, Zenon DEF Somewhere
<1> QED
    BY <1>3, <1>4 DEF more

LEMMA PoolIsMarked ==
    ASSUME NEW idle \in Seq(Buffers), NEW busy \in Seq(Buffers \cup {Null}), NEW y \in Buffers \cup {Null},
           Apart(idle, Null, busy, y), \A i \in DOMAIN busy: busy[i] # Null
    PROVE  /\ Apart(idle, Null, Append(busy, Null), y)
           /\ Somewhere(idle, Null, busy, y) => Somewhere(idle, Null, Append(busy, Null), y)
<1> DEFINE more == Append(busy, Null)
<1>1. /\ more[Len(busy) + 1] = Null
      /\ \A i \in DOMAIN busy: i \in DOMAIN more /\ more[i] = busy[i]
      /\ \A i \in DOMAIN more: i \in DOMAIN busy \/ i = Len(busy) + 1
    OBVIOUS
<1>2. Null \notin Buffers /\ \A i \in DOMAIN idle: idle[i] \in Buffers
    BY EngineAssumption DEF Buffers, Null
<1> HIDE DEF more
<1>3. Apart(idle, Null, more, y)
    <2>2. \A i, j \in DOMAIN more: more[i] = more[j] => i = j
        BY <1>1 DEF Apart
    <2>3. \A i \in DOMAIN idle, j \in DOMAIN more: idle[i] # more[j]
        BY <1>1, <1>2 DEF Apart
    <2>4. \A i \in DOMAIN idle: idle[i] # Null /\ idle[i] # y
        BY <1>2 DEF Apart
    <2>5. \A j \in DOMAIN more: more[j] = Null \/ more[j] = y => more[j] = Null
        BY <1>1 DEF Apart
    <2>6. Null = y => Null = Null
        OBVIOUS
    <2> QED
        BY <2>2, <2>3, <2>4, <2>5 DEF Apart
<1>4. Somewhere(idle, Null, busy, y) => Somewhere(idle, Null, more, y)
    BY <1>1, Zenon DEF Somewhere
<1> QED
    BY <1>3, <1>4 DEF more

LEMMA PoolIsServed ==
    ASSUME NEW idle \in Seq(Buffers), NEW busy \in Seq(Buffers \cup {Null}), NEW x \in Buffers \cup {Null},
           Apart(idle, x, busy, Null), busy # <<>>
    PROVE  /\ Apart(idle, x, Tail(busy), Head(busy))
           /\ Somewhere(idle, x, busy, Null) => Somewhere(idle, x, Tail(busy), Head(busy))
<1>1. /\ Head(busy) = busy[1] /\ 1 \in DOMAIN busy
      /\ \A i \in DOMAIN Tail(busy): i + 1 \in DOMAIN busy /\ Tail(busy)[i] = busy[i + 1] /\ i + 1 # 1
    OBVIOUS
<1>2. Null \notin Buffers /\ \A i \in DOMAIN idle: idle[i] \in Buffers
    BY EngineAssumption DEF Buffers, Null
<1>3. Apart(idle, x, Tail(busy), Head(busy))
    <2>1. \A i, j \in DOMAIN Tail(busy): Tail(busy)[i] = Tail(busy)[j] => i = j
        BY <1>1 DEF Apart
    <2>2. \A i \in DOMAIN idle, j \in DOMAIN Tail(busy): idle[i] # Tail(busy)[j]
        BY <1>1 DEF Apart
    <2>3. \A i \in DOMAIN idle: idle[i] # x /\ idle[i] # Head(busy)
        BY <1>1 DEF Apart
    <2>4. \A j \in DOMAIN Tail(busy): Tail(busy)[j] = x \/ Tail(busy)[j] = Head(busy) => Tail(busy)[j] = Null
        BY <1>1 DEF Apart
    <2>5. x = Head(busy) => x = Null
        BY <1>1 DEF Apart
    <2> QED
        BY <2>1, <2>2, <2>3, <2>4, <2>5 DEF Apart
<1>4. ASSUME NEW b \in Buffers, NEW i \in DOMAIN busy, busy[i] = b
      PROVE  b = Head(busy) \/ \E k \in DOMAIN Tail(busy): Tail(busy)[k] = b
    <2>1. CASE i = 1
        BY <1>1, <1>4, <2>1
    <2>2. CASE i # 1
        <3>1. i - 1 \in DOMAIN Tail(busy) /\ Tail(busy)[i - 1] = b
            BY <1>1, <1>4, <2>2
        <3> QED
            BY <3>1
    <2> QED
        BY <2>1, <2>2
<1>5. Somewhere(idle, x, busy, Null) => Somewhere(idle, x, Tail(busy), Head(busy))
    BY <1>2, <1>4, Zenon DEF Somewhere
<1> QED
    BY <1>3, <1>5

LEMMA PoolIsReturned ==
    ASSUME NEW idle \in Seq(Buffers), NEW busy \in Seq(Buffers \cup {Null}),
           NEW x \in Buffers \cup {Null}, NEW y \in Buffers, Apart(idle, x, busy, y)
    PROVE  /\ Apart(Append(idle, y), x, busy, Null)
           /\ Somewhere(idle, x, busy, y) => Somewhere(Append(idle, y), x, busy, Null)
<1>1. Apart(idle, y, busy, x) /\ (Somewhere(idle, x, busy, y) => Somewhere(idle, y, busy, x))
    BY DEF Apart, Somewhere
<1>2. Apart(Append(idle, y), Null, busy, x) /\ (Somewhere(idle, y, busy, x) => Somewhere(Append(idle, y), Null, busy, x))
    BY <1>1, PoolGivesBack
<1> QED
    BY <1>1, <1>2 DEF Apart, Somewhere

\* The types on which the movement of buffers depends.
PoolState ==
    /\ InIdle \in [Devices -> Seq(Buffers)] /\ OutIdle \in [Devices -> Seq(Buffers)]
    /\ InBusy \in [Devices -> Seq(Buffers \cup {Null})] /\ OutBusy \in [Devices -> Seq(Buffers \cup {Null})]
    /\ inBuf \in [Devices -> Buffers \cup {Null}] /\ outBuf \in [Devices -> Buffers \cup {Null}]
    /\ procIn \in [Devices -> Buffers \cup {Null}] /\ procOut \in [Devices -> Buffers \cup {Null}]
    /\ DOMAIN inPc = Devices /\ DOMAIN procPc = Devices /\ DOMAIN outPc = Devices

LEMMA PoolStates == ASSUME SessionInv PROVE PoolState /\ Null \notin Buffers
    BY EngineAssumption DEF SessionInv, TypeOK, PoolTypes, DeviceTypes, PoolState, Null, Buffers

BuffersOf(g) == Holders(g) /\ BusyQueues(g) /\ PoolsApart(g) /\ PoolsWhole(g)

\* A step that moves no buffer of device h and starts no destruction of it.
LEMMA BuffersStay ==
    ASSUME NEW h \in Devices, BuffersOf(h),
           UNCHANGED <<InIdle[h], InBusy[h], OutIdle[h], OutBusy[h], inBuf[h], procIn[h], procOut[h], outBuf[h],
                       inPc[h], procPc[h], outPc[h]>>,
           runPc' # "gone" /\ h >= dying' => runPc # "gone" /\ h >= dying
    PROVE  BuffersOf(h)'
<1>1. Holders(h)'
    BY DEF BuffersOf, Holders
<1>2. BusyQueues(h)' /\ PoolsApart(h)'
    BY DEF BuffersOf, BusyQueues, PoolsApart
<1>3. PoolsWhole(h)'
    BY DEF BuffersOf, PoolsWhole
<1> QED
    BY <1>1, <1>2, <1>3 DEF BuffersOf

LEMMA BuffersOfInput ==
    ASSUME SessionInv, NEW g \in Devices, BuffersOf(g), InputCopy(g)
    PROVE  BuffersOf(g)'
<1>0. PoolState /\ Null \notin Buffers
    BY PoolStates
<1> USE DEF Goto
<1>a. UNCHANGED <<runPc, dying, OutIdle, OutBusy, procPc, procIn, procOut, outPc, outBuf>>
    BY DEF InputCopy, InputTake, InputFill, InputGive, InputMark, run, pool, process, output
<1>b. \A i \in DOMAIN InBusy[g]: InBusy[g][i] = Null => i = Len(InBusy[g]) /\ inPc[g] = "end"
    BY DEF BuffersOf, BusyQueues, MarkedBy
<1>1. CASE InputTake(g)
    <2>1. /\ inPc[g] = "take" /\ inPc'[g] = "fill" /\ inBuf[g] = Null /\ inBuf'[g] = Head(InIdle[g])
          /\ InIdle[g] # <<>> /\ InIdle'[g] = Tail(InIdle[g]) /\ InBusy' = InBusy
        BY <1>0, <1>1 DEF InputTake, Take, PoolState, BuffersOf, Holders
    <2>2. /\ Apart(Tail(InIdle[g]), Head(InIdle[g]), InBusy[g], procIn[g])
          /\ Somewhere(InIdle[g], Null, InBusy[g], procIn[g]) => Somewhere(Tail(InIdle[g]), Head(InIdle[g]), InBusy[g], procIn[g])
        BY <1>0, <2>1, PoolTakes DEF PoolState, BuffersOf, PoolsApart
    <2>3. Holders(g)'
        BY <1>a, <2>1 DEF BuffersOf, Holders
    <2>4. BusyQueues(g)'
        BY <1>a, <2>1 DEF BuffersOf, BusyQueues, MarkedBy
    <2>5. PoolsApart(g)' /\ PoolsWhole(g)'
        BY <1>a, <2>1, <2>2 DEF BuffersOf, PoolsApart, PoolsWhole
    <2> QED
        BY <2>3, <2>4, <2>5 DEF BuffersOf
<1>2. CASE InputFill(g)
    <2>1. inPc[g] = "fill" /\ inPc'[g] \in {"fill", "give", "giveLast"} /\ UNCHANGED <<InIdle, InBusy, inBuf>>
        BY <1>0, <1>2 DEF InputFill, PoolState, pool
    <2>2. Holders(g)'
        BY <1>a, <2>1 DEF BuffersOf, Holders
    <2>3. BusyQueues(g)'
        BY <1>a, <2>1 DEF BuffersOf, BusyQueues, MarkedBy
    <2>4. PoolsApart(g)' /\ PoolsWhole(g)'
        BY <1>a, <2>1 DEF BuffersOf, PoolsApart, PoolsWhole
    <2> QED
        BY <2>2, <2>3, <2>4 DEF BuffersOf
<1>3. CASE InputGive(g)
    <2>1. /\ inPc[g] \in {"give", "giveLast"} /\ inPc'[g] \in {"mark", "take"} /\ inBuf[g] \in Buffers /\ inBuf'[g] = Null
          /\ \/ InBusy'[g] = Append(InBusy[g], inBuf[g]) /\ InIdle'[g] = InIdle[g]
             \/ InIdle'[g] = Append(InIdle[g], inBuf[g]) /\ InBusy'[g] = InBusy[g]
        BY <1>0, <1>3 DEF InputGive, Put, PoolState, SessionInv, InputInv
    <2>2. /\ Apart(InIdle[g], Null, Append(InBusy[g], inBuf[g]), procIn[g])
          /\ Apart(Append(InIdle[g], inBuf[g]), Null, InBusy[g], procIn[g])
          /\ Somewhere(InIdle[g], inBuf[g], InBusy[g], procIn[g])
                => /\ Somewhere(InIdle[g], Null, Append(InBusy[g], inBuf[g]), procIn[g])
                   /\ Somewhere(Append(InIdle[g], inBuf[g]), Null, InBusy[g], procIn[g])
        BY <1>0, <2>1, PoolHandsOver, PoolGivesBack DEF PoolState, BuffersOf, PoolsApart
    <2>3. Holders(g)'
        BY <1>a, <2>1 DEF BuffersOf, Holders
    <2>4. BusyQueues(g)'
        <3>1. \A i \in DOMAIN InBusy[g]: InBusy[g][i] # Null
            BY <1>b, <2>1
        <3>2. \A i \in DOMAIN InBusy'[g]: InBusy'[g][i] # Null
            <4>1. InBusy[g] \in Seq(Buffers \cup {Null})
                BY <1>0 DEF PoolState
            <4>2. \A i \in DOMAIN Append(InBusy[g], inBuf[g]): Append(InBusy[g], inBuf[g])[i] # Null
                BY <1>0, <2>1, <3>1, <4>1
            <4> QED
                BY <2>1, <3>1, <4>2
        <3>3. procPc[g] \notin {"mark", "end"}
            BY <2>1 DEF BuffersOf, BusyQueues
        <3> QED
            BY <1>a, <3>2, <3>3 DEF BuffersOf, BusyQueues, MarkedBy
    <2>5. PoolsApart(g)' /\ PoolsWhole(g)'
        BY <1>a, <2>1, <2>2 DEF BuffersOf, PoolsApart, PoolsWhole
    <2> QED
        BY <2>3, <2>4, <2>5 DEF BuffersOf
<1>4. CASE InputMark(g)
    <2>1. /\ inPc[g] = "mark" /\ inPc'[g] = "end" /\ inBuf[g] = Null /\ inBuf'[g] = Null
          /\ InBusy'[g] = Append(InBusy[g], Null) /\ InIdle' = InIdle
        BY <1>0, <1>4 DEF InputMark, Put, PoolState, BuffersOf, Holders
    <2>2. \A i \in DOMAIN InBusy[g]: InBusy[g][i] # Null
        BY <1>b, <2>1
    <2>3. /\ Apart(InIdle[g], Null, Append(InBusy[g], Null), procIn[g])
          /\ Somewhere(InIdle[g], Null, InBusy[g], procIn[g]) => Somewhere(InIdle[g], Null, Append(InBusy[g], Null), procIn[g])
        BY <1>0, <2>1, <2>2, PoolIsMarked DEF PoolState, BuffersOf, PoolsApart
    <2>4. Holders(g)'
        BY <1>a, <2>1 DEF BuffersOf, Holders
    <2>5. BusyQueues(g)'
        <3>1. \A i \in DOMAIN InBusy'[g]: InBusy'[g][i] = Null => i = Len(InBusy'[g])
            BY <1>0, <2>1, <2>2 DEF PoolState
        <3>2. procPc[g] \notin {"mark", "end"}
            BY <2>1 DEF BuffersOf, BusyQueues
        <3> QED
            BY <1>a, <2>1, <3>1, <3>2 DEF BuffersOf, BusyQueues, MarkedBy
    <2>6. PoolsApart(g)' /\ PoolsWhole(g)'
        BY <1>a, <2>1, <2>3 DEF BuffersOf, PoolsApart, PoolsWhole
    <2> QED
        BY <2>4, <2>5, <2>6 DEF BuffersOf
<1> QED
    BY <1>1, <1>2, <1>3, <1>4 DEF InputCopy

LEMMA BuffersOfProcess ==
    ASSUME SessionInv, NEW g \in Devices, BuffersOf(g), Process(g)
    PROVE  BuffersOf(g)'
<1>0. PoolState /\ Null \notin Buffers
    BY PoolStates
<1> USE DEF Goto
<1>a. UNCHANGED <<runPc, dying, inPc, inBuf, outPc, outBuf>>
    BY DEF Process, ProcessTakeInput, ProcessTakeOutput, ProcessGraph, ProcessGive, run, input, output
<1>b. \A i \in DOMAIN OutBusy[g]: OutBusy[g][i] = Null => i = Len(OutBusy[g]) /\ procPc[g] = "end"
    BY DEF BuffersOf, BusyQueues, MarkedBy
<1>c. \A i \in DOMAIN InBusy[g]: InBusy[g][i] = Null => i = Len(InBusy[g]) /\ inPc[g] = "end"
    BY DEF BuffersOf, BusyQueues, MarkedBy
<1>1. CASE ProcessTakeInput(g)
    <2>1. /\ procPc[g] = "take" /\ InBusy[g] # <<>> /\ InBusy'[g] = Tail(InBusy[g])
          /\ procIn[g] = Null /\ procIn'[g] = Head(InBusy[g]) /\ procOut[g] = Null
          /\ procPc'[g] = (IF Head(InBusy[g]) = Null THEN "mark" ELSE "takeOutput")
          /\ UNCHANGED <<InIdle, OutIdle, OutBusy, procOut>>
        BY <1>0, <1>1 DEF ProcessTakeInput, Take, PoolState, BuffersOf, Holders
    <2>2. /\ Apart(InIdle[g], inBuf[g], Tail(InBusy[g]), Head(InBusy[g]))
          /\ Somewhere(InIdle[g], inBuf[g], InBusy[g], Null) => Somewhere(InIdle[g], inBuf[g], Tail(InBusy[g]), Head(InBusy[g]))
        BY <1>0, <2>1, PoolIsServed DEF PoolState, BuffersOf, PoolsApart
    <2>3. Holders(g)'
        BY <1>a, <2>1 DEF BuffersOf, Holders
    <2>4. BusyQueues(g)'
        <3>1. \A i \in DOMAIN Tail(InBusy[g]): /\ Tail(InBusy[g])[i] = InBusy[g][i + 1] /\ i + 1 \in DOMAIN InBusy[g]
                                               /\ i + 1 = Len(InBusy[g]) => i = Len(Tail(InBusy[g]))
            BY <1>0, <2>1 DEF PoolState
        <3>2. Head(InBusy[g]) = Null => Tail(InBusy[g]) = <<>> /\ inPc[g] = "end"
            <4>1. Head(InBusy[g]) = InBusy[g][1] /\ 1 \in DOMAIN InBusy[g]
                BY <1>0, <2>1 DEF PoolState
            <4>2. Len(InBusy[g]) = 1 => Tail(InBusy[g]) = <<>>
                BY <1>0, <2>1, LastOne DEF PoolState
            <4> QED
                BY <1>c, <4>1, <4>2
        <3>3. MarkedBy(InBusy[g], inPc[g] = "end")'
            BY <1>a, <1>c, <2>1, <3>1 DEF MarkedBy
        <3>4. MarkedBy(OutBusy[g], procPc[g] = "end")'
            BY <1>b, <2>1 DEF MarkedBy
        <3> QED
            BY <1>a, <2>1, <3>2, <3>3, <3>4 DEF BusyQueues
    <2>5. PoolsApart(g)' /\ PoolsWhole(g)'
        BY <1>a, <2>1, <2>2 DEF BuffersOf, PoolsApart, PoolsWhole
    <2> QED
        BY <2>3, <2>4, <2>5 DEF BuffersOf
<1>2. CASE ProcessTakeOutput(g)
    <2>1. /\ procPc[g] = "takeOutput" /\ procPc'[g] = "graph" /\ OutIdle[g] # <<>> /\ OutIdle'[g] = Tail(OutIdle[g])
          /\ procOut[g] = Null /\ procOut'[g] = Head(OutIdle[g]) /\ UNCHANGED <<InIdle, InBusy, OutBusy, procIn>>
        BY <1>0, <1>2 DEF ProcessTakeOutput, Take, PoolState, BuffersOf, Holders
    <2>2. /\ Apart(Tail(OutIdle[g]), Head(OutIdle[g]), OutBusy[g], outBuf[g])
          /\ Somewhere(OutIdle[g], Null, OutBusy[g], outBuf[g]) => Somewhere(Tail(OutIdle[g]), Head(OutIdle[g]), OutBusy[g], outBuf[g])
        BY <1>0, <2>1, PoolTakes DEF PoolState, BuffersOf, PoolsApart
    <2>3. Holders(g)'
        BY <1>a, <2>1 DEF BuffersOf, Holders
    <2>4. BusyQueues(g)'
        BY <1>a, <2>1 DEF BuffersOf, BusyQueues, MarkedBy
    <2>5. PoolsApart(g)' /\ PoolsWhole(g)'
        BY <1>a, <2>1, <2>2 DEF BuffersOf, PoolsApart, PoolsWhole
    <2> QED
        BY <2>3, <2>4, <2>5 DEF BuffersOf
<1>3. CASE ProcessGraph(g)
    <2>1. procPc[g] = "graph" /\ procPc'[g] = "giveInput" /\ UNCHANGED <<InIdle, InBusy, OutIdle, OutBusy, procIn, procOut>>
        BY <1>0, <1>3 DEF ProcessGraph, PoolState
    <2>2. Holders(g)'
        BY <1>a, <2>1 DEF BuffersOf, Holders
    <2>3. BusyQueues(g)'
        BY <1>a, <2>1 DEF BuffersOf, BusyQueues, MarkedBy
    <2>4. PoolsApart(g)' /\ PoolsWhole(g)'
        BY <1>a, <2>1 DEF BuffersOf, PoolsApart, PoolsWhole
    <2> QED
        BY <2>2, <2>3, <2>4 DEF BuffersOf
<1>4. CASE ProcessGive(g) /\ procPc[g] = "giveInput"
    <2>1. /\ procPc'[g] = "giveOutput" /\ procIn[g] \in Buffers /\ InIdle'[g] = Append(InIdle[g], procIn[g]) /\ procIn'[g] = Null
          /\ UNCHANGED <<InBusy, OutIdle, OutBusy, procOut>>
        BY <1>0, <1>4 DEF ProcessGive, Put, PoolState, SessionInv, ProcessInv
    <2>2. /\ Apart(Append(InIdle[g], procIn[g]), inBuf[g], InBusy[g], Null)
          /\ Somewhere(InIdle[g], inBuf[g], InBusy[g], procIn[g]) => Somewhere(Append(InIdle[g], procIn[g]), inBuf[g], InBusy[g], Null)
        BY <1>0, <2>1, PoolIsReturned DEF PoolState, BuffersOf, PoolsApart
    <2>3. Holders(g)'
        BY <1>4, <1>a, <2>1 DEF BuffersOf, Holders
    <2>4. BusyQueues(g)'
        BY <1>4, <1>a, <2>1 DEF BuffersOf, BusyQueues, MarkedBy
    <2>5. PoolsApart(g)' /\ PoolsWhole(g)'
        BY <1>a, <2>1, <2>2 DEF BuffersOf, PoolsApart, PoolsWhole
    <2> QED
        BY <2>3, <2>4, <2>5 DEF BuffersOf
<1>5. CASE ProcessGive(g) /\ procPc[g] = "giveOutput"
    <2>1. /\ procPc'[g] = "take" /\ procOut[g] \in Buffers /\ OutBusy'[g] = Append(OutBusy[g], procOut[g]) /\ procOut'[g] = Null
          /\ UNCHANGED <<InIdle, InBusy, OutIdle, procIn>>
        BY <1>0, <1>5 DEF ProcessGive, Put, PoolState, SessionInv, ProcessInv
    <2>2. /\ Apart(OutIdle[g], Null, Append(OutBusy[g], procOut[g]), outBuf[g])
          /\ Somewhere(OutIdle[g], procOut[g], OutBusy[g], outBuf[g]) => Somewhere(OutIdle[g], Null, Append(OutBusy[g], procOut[g]), outBuf[g])
        BY <1>0, <2>1, PoolHandsOver DEF PoolState, BuffersOf, PoolsApart
    <2>3. Holders(g)'
        BY <1>5, <1>a, <2>1 DEF BuffersOf, Holders
    <2>4. BusyQueues(g)'
        <3>1. \A i \in DOMAIN OutBusy[g]: OutBusy[g][i] # Null
            BY <1>5, <1>b
        <3>2. \A i \in DOMAIN OutBusy'[g]: OutBusy'[g][i] # Null
            BY <1>0, <2>1, <3>1 DEF PoolState
        <3> QED
            BY <1>a, <2>1, <3>2 DEF BuffersOf, BusyQueues, MarkedBy
    <2>5. PoolsApart(g)' /\ PoolsWhole(g)'
        BY <1>a, <2>1, <2>2 DEF BuffersOf, PoolsApart, PoolsWhole
    <2> QED
        BY <2>3, <2>4, <2>5 DEF BuffersOf
<1>6. CASE ProcessGive(g) /\ procPc[g] = "mark"
    <2>1. /\ procPc'[g] = "end" /\ procOut[g] = Null /\ OutBusy'[g] = Append(OutBusy[g], Null)
          /\ UNCHANGED <<InIdle, InBusy, OutIdle, procIn, procOut>>
        BY <1>0, <1>6 DEF ProcessGive, Put, PoolState, BuffersOf, Holders
    <2>2. \A i \in DOMAIN OutBusy[g]: OutBusy[g][i] # Null
        BY <1>6, <1>b
    <2>3. /\ Apart(OutIdle[g], Null, Append(OutBusy[g], Null), outBuf[g])
          /\ Somewhere(OutIdle[g], Null, OutBusy[g], outBuf[g]) => Somewhere(OutIdle[g], Null, Append(OutBusy[g], Null), outBuf[g])
        BY <1>0, <2>1, <2>2, PoolIsMarked DEF PoolState, BuffersOf, PoolsApart
    <2>4. Holders(g)'
        BY <1>6, <1>a, <2>1 DEF BuffersOf, Holders
    <2>5. BusyQueues(g)'
        <3>1. \A i \in DOMAIN OutBusy'[g]: OutBusy'[g][i] = Null => i = Len(OutBusy'[g])
            BY <1>0, <2>1, <2>2 DEF PoolState
        <3> QED
            BY <1>6, <1>a, <2>1, <3>1 DEF BuffersOf, BusyQueues, MarkedBy
    <2>6. PoolsApart(g)' /\ PoolsWhole(g)'
        BY <1>a, <2>1, <2>3 DEF BuffersOf, PoolsApart, PoolsWhole
    <2> QED
        BY <2>4, <2>5, <2>6 DEF BuffersOf
<1> QED
    BY <1>1, <1>2, <1>3, <1>4, <1>5, <1>6 DEF Process, ProcessGive

LEMMA BuffersOfOutput ==
    ASSUME SessionInv, NEW g \in Devices, BuffersOf(g), OutputCopy(g)
    PROVE  BuffersOf(g)'
<1>0. PoolState /\ Null \notin Buffers
    BY PoolStates
<1> USE DEF Goto
<1>a. UNCHANGED <<runPc, dying, inPc, inBuf, procPc, procIn, procOut, InIdle, InBusy>>
    BY DEF OutputCopy, OutputTake, OutputTag, OutputVector, OutputGive, OutputMark, run, pool, input, process
<1>b. \A i \in DOMAIN OutBusy[g]: OutBusy[g][i] = Null => i = Len(OutBusy[g]) /\ procPc[g] = "end"
    BY DEF BuffersOf, BusyQueues, MarkedBy
<1>1. CASE OutputTake(g)
    <2>1. /\ outPc[g] = "take" /\ OutBusy[g] # <<>> /\ OutBusy'[g] = Tail(OutBusy[g])
          /\ outBuf[g] = Null /\ outBuf'[g] = Head(OutBusy[g]) /\ OutIdle' = OutIdle
          /\ outPc'[g] = (IF Head(OutBusy[g]) = Null THEN "mark" ELSE "tag")
        BY <1>0, <1>1 DEF OutputTake, Take, PoolState, BuffersOf, Holders
    <2>2. /\ Apart(OutIdle[g], procOut[g], Tail(OutBusy[g]), Head(OutBusy[g]))
          /\ Somewhere(OutIdle[g], procOut[g], OutBusy[g], Null) => Somewhere(OutIdle[g], procOut[g], Tail(OutBusy[g]), Head(OutBusy[g]))
        BY <1>0, <2>1, PoolIsServed DEF PoolState, BuffersOf, PoolsApart
    <2>3. Holders(g)'
        BY <1>a, <2>1 DEF BuffersOf, Holders
    <2>4. BusyQueues(g)'
        <3>1. \A i \in DOMAIN Tail(OutBusy[g]): /\ Tail(OutBusy[g])[i] = OutBusy[g][i + 1] /\ i + 1 \in DOMAIN OutBusy[g]
                                                /\ i + 1 = Len(OutBusy[g]) => i = Len(Tail(OutBusy[g]))
            BY <1>0, <2>1 DEF PoolState
        <3>2. MarkedBy(OutBusy[g], procPc[g] = "end")'
            BY <1>a, <1>b, <2>1, <3>1 DEF MarkedBy
        <3> QED
            BY <1>a, <2>1, <3>2 DEF BuffersOf, BusyQueues, MarkedBy
    <2>5. PoolsApart(g)' /\ PoolsWhole(g)'
        BY <1>a, <2>1, <2>2 DEF BuffersOf, PoolsApart, PoolsWhole
    <2> QED
        BY <2>3, <2>4, <2>5 DEF BuffersOf
<1>2. CASE OutputTag(g) \/ OutputVector(g)
    <2>1. outPc[g] \notin {"take", "mark", "end"} /\ outPc'[g] \notin {"take", "mark", "end"} /\ UNCHANGED <<OutIdle, OutBusy, outBuf>>
        BY <1>0, <1>2 DEF OutputTag, OutputVector, PoolState, pool
    <2>2. Holders(g)'
        BY <1>a, <2>1 DEF BuffersOf, Holders
    <2>3. BusyQueues(g)'
        BY <1>a, <2>1 DEF BuffersOf, BusyQueues, MarkedBy
    <2>4. PoolsApart(g)' /\ PoolsWhole(g)'
        BY <1>a, <2>1 DEF BuffersOf, PoolsApart, PoolsWhole
    <2> QED
        BY <2>2, <2>3, <2>4 DEF BuffersOf
<1>3. CASE OutputGive(g)
    <2>1. outBuf[g] \in Buffers /\ OutIdle'[g] = Append(OutIdle[g], outBuf[g]) /\ outBuf'[g] = Null /\ OutBusy' = OutBusy
        BY <1>0, <1>3 DEF OutputGive, Put, PoolState, SessionInv, OutputInv
    <2>2. /\ Apart(Append(OutIdle[g], outBuf[g]), procOut[g], OutBusy[g], Null)
          /\ Somewhere(OutIdle[g], procOut[g], OutBusy[g], outBuf[g]) => Somewhere(Append(OutIdle[g], outBuf[g]), procOut[g], OutBusy[g], Null)
        BY <1>0, <2>1, PoolIsReturned DEF PoolState, BuffersOf, PoolsApart
    <2>3. Holders(g)'
        BY <1>a, <2>1 DEF BuffersOf, Holders
    <2>4. BusyQueues(g)'
        BY <1>a, <2>1 DEF BuffersOf, BusyQueues, MarkedBy
    <2>5. PoolsApart(g)' /\ PoolsWhole(g)'
        BY <1>a, <2>1, <2>2 DEF BuffersOf, PoolsApart, PoolsWhole
    <2> QED
        BY <2>3, <2>4, <2>5 DEF BuffersOf
<1>4. CASE OutputMark(g)
    <2>1. outPc[g] = "mark" /\ outPc'[g] = "end" /\ UNCHANGED <<OutIdle, OutBusy, outBuf>>
        BY <1>0, <1>4 DEF OutputMark, PoolState, pool
    <2>2. Holders(g)'
        BY <1>a, <2>1 DEF BuffersOf, Holders
    <2>3. BusyQueues(g)'
        BY <1>a, <2>1 DEF BuffersOf, BusyQueues, MarkedBy
    <2>4. PoolsApart(g)' /\ PoolsWhole(g)'
        BY <1>a, <2>1 DEF BuffersOf, PoolsApart, PoolsWhole
    <2> QED
        BY <2>2, <2>3, <2>4 DEF BuffersOf
<1> QED
    BY <1>1, <1>2, <1>3, <1>4 DEF OutputCopy

LEMMA BuffersStep == ASSUME SessionInv, BufferInv, [Next]_vars PROVE BufferInv'
<1>0. PoolState /\ \A h \in Devices: BuffersOf(h)
    BY PoolStates DEF BufferInv, BuffersOf
<1> SUFFICES ASSUME NEW h \in Devices PROVE BuffersOf(h)'
    BY Zenon DEF BufferInv, BuffersOf
<1>1. ASSUME NEW g \in Working, InputCopy(g) \/ Process(g) \/ OutputCopy(g)
      PROVE  BuffersOf(h)'
    <2>1. g \in Devices
        BY WorkingDevices DEF SessionInv, TypeOK
    <2>2. CASE h = g
        BY <1>0, <1>1, <2>1, <2>2, BuffersOfInput, BuffersOfProcess, BuffersOfOutput
    <2>3. CASE h # g
        <3>1. UNCHANGED <<runPc, dying>>
            BY <1>1 DEF InputCopy, InputTake, InputFill, InputGive, InputMark, Process, ProcessTakeInput, ProcessTakeOutput,
                        ProcessGraph, ProcessGive, OutputCopy, OutputTake, OutputTag, OutputVector, OutputGive, OutputMark, run
        <3>2. CASE InputCopy(g)
            BY <1>0, <2>1, <2>3, <3>1, <3>2, BuffersStay
               DEF InputCopy, InputTake, InputFill, InputGive, InputMark, PoolState, Goto, Put, Take, pool, process, output
        <3>3. CASE Process(g)
            BY <1>0, <2>1, <2>3, <3>1, <3>3, BuffersStay
               DEF Process, ProcessTakeInput, ProcessTakeOutput, ProcessGraph, ProcessGive, PoolState, Goto, Put, Take, input, output
        <3>4. CASE OutputCopy(g)
            BY <1>0, <2>1, <2>3, <3>1, <3>4, BuffersStay
               DEF OutputCopy, OutputTake, OutputTag, OutputVector, OutputGive, OutputMark, PoolState, Goto, Put, Take, pool, input, process
        <3> QED
            BY <1>1, <3>2, <3>3, <3>4
    <2> QED
        BY <2>2, <2>3
<1>2. ASSUME UNCHANGED <<pool, input, process, output>>, runPc' # "gone" => runPc # "gone" /\ dying' = dying
      PROVE  BuffersOf(h)'
    BY <1>0, <1>2, BuffersStay DEF pool, input, process, output
<1>3. CASE Master
    BY <1>2, <1>3 DEF Master, MasterTake, MasterTag, MasterImage, MasterScan, MasterMark, run
<1>4. CASE ClientCloses \/ UNCHANGED vars
    BY <1>2, <1>4 DEF ClientCloses, vars, run
<1>5. CASE DestroyFree
    <2>1. /\ runPc = "d_free" /\ dying \in Devices /\ dying \in Nat
          /\ runPc' # "gone" => dying' = dying + 1
          /\ InIdle'[dying] = <<>> /\ OutIdle'[dying] = <<>>
          /\ h # dying => InIdle'[h] = InIdle[h] /\ OutIdle'[h] = OutIdle[h]
          /\ UNCHANGED <<InBusy, OutBusy, input, process, output>>
        BY <1>0, <1>5, WorkingDevices DEF DestroyFree, PoolState, SessionInv, TypeOK, RunTypes, Devices
    <2>2. CASE h # dying
        <3>1. runPc' # "gone" /\ h >= dying' => h >= dying
            BY <2>1 DEF Devices
        <3> QED
            BY <1>0, <2>1, <2>2, <3>1, BuffersStay DEF input, process, output
    <2>3. CASE h = dying
        <3>1. Holders(h)'
            BY <1>0, <2>1 DEF BuffersOf, Holders, input, process, output
        <3>2. BusyQueues(h)'
            BY <1>0, <2>1 DEF BuffersOf, BusyQueues, MarkedBy, input, process, output
        <3>3. PoolsApart(h)'
            BY <1>0, <2>1, <2>3 DEF BuffersOf, PoolsApart, Apart, input, process, output
        <3>4. PoolsWhole(h)'
            BY <2>1, <2>3 DEF PoolsWhole
        <3> QED
            BY <3>1, <3>2, <3>3, <3>4 DEF BuffersOf
    <2> QED
        BY <2>2, <2>3
<1>6. CASE Run /\ ~DestroyFree
    <2>1. UNCHANGED <<pool, input, process, output>>
        BY <1>6 DEF Run, RunLoop, RunPack, RunVector, RunSend, RunAsk, RunReceive, RunBye,
                    Destroy, DestroyInput, DestroyJoinMaster, DestroyMark, DestroyJoin
    <2>2. dying' = dying /\ runPc # "gone"
        BY <1>6 DEF Run, RunLoop, RunPack, RunVector, RunSend, RunAsk, RunReceive, RunBye,
                    Destroy, DestroyInput, DestroyJoinMaster, DestroyMark, DestroyJoin
    <2> QED
        BY <1>2, <2>1, <2>2
<1> QED
    BY <1>1, <1>3, <1>4, <1>5, <1>6 DEF Next

LEMMA BuffersInit == ASSUME Init PROVE BufferInv
<1>1. /\ AllBuffers = [i \in Buffers |-> i] /\ DOMAIN AllBuffers = Buffers
      /\ \A i \in DOMAIN AllBuffers: AllBuffers[i] \in Buffers /\ AllBuffers[i] # Null
    BY EngineAssumption DEF AllBuffers, Buffers, Null
<1>2. Apart(AllBuffers, Null, <<>>, Null)
    BY <1>1 DEF Apart
<1>3. Somewhere(AllBuffers, Null, <<>>, Null)
    BY <1>1 DEF Somewhere
<1> QED
    BY <1>2, <1>3 DEF Init, BufferInv, Holders, BusyQueues, MarkedBy, PoolsApart, PoolsWhole, PerDevice

------------------------------------------------------------------------------
(* Where the ends are.                                                      *)
\* n images, and then only ends.
Cut(q, n) == n \in 0..Len(q) /\ \A p \in DOMAIN q: q[p] # End <=> p <= n
ImagesOf(q) == CHOOSE n \in 0..Len(q): Cut(q, n)
EndsLast(q) == Cut(q, ImagesOf(q))

Marking == masterPc \in {"markTag", "markImage", "end"}
InSession == runPc \in {"loop", "pack", "vector", "send", "sendLast", "ask", "receive", "bye"}
Joined == runPc \in {"d_tag", "d_image", "d_join", "d_free", "gone"}

\* run puts its end behind the client's last image, and master, who takes it,
\* takes no other; the destructor adds one, and others once master has ended.
\* What master has in hand when it ends is that end, or an empty image.
MasterEnds ==
    /\ EndsLast(inputQ)
    /\ Marking => IF image = End THEN ImagesOf(inputQ) = 0 ELSE image \in Empty
    /\ masterPc \in {"tag", "image"} => image # End
    /\ Joined => masterPc = "end"
    /\ InSession /\ ~endOfImageRequested => ImagesOf(inputQ) = Len(inputQ) /\ (Marking => image # End)
    /\ runPc = "receive" => ~endOfImageRequested
    /\ InSession /\ endOfImageRequested => nextImageToSend = imageCount

\* Master's ends, too, come last in the queues of a device, and the thread that
\* has taken one has left no image behind it.
EndsOf(g) ==
    /\ EndsLast(TagQ[g]) /\ EndsLast(ImageQ[g])
    /\ ~Marking => ImagesOf(TagQ[g]) = Len(TagQ[g]) /\ ImagesOf(ImageQ[g]) = Len(ImageQ[g])
    /\ inPc[g] \in {"giveLast", "mark", "end"} => Marking /\ ImagesOf(ImageQ[g]) = 0

Joining == runPc = "d_free" => inPc[dying] = "end" /\ procPc[dying] = "end" /\ outPc[dying] = "end"

EndInv == MasterEnds /\ Joining /\ \A g \in Devices: EndsOf(g)

LEMMA CutIsUnique ==
    ASSUME NEW q \in Seq(Label), NEW n, Cut(q, n)
    PROVE  ImagesOf(q) = n /\ EndsLast(q)
<1>1. ASSUME NEW m, Cut(q, m) PROVE m = n
    <2>1. m \in 0..Len(q) /\ n \in 0..Len(q) /\ DOMAIN q = 1..Len(q)
        BY <1>1 DEF Cut
    <2>2. CASE m < n
        <3>1. n \in DOMAIN q /\ n <= n /\ ~(n <= m)
            BY <2>1, <2>2
        <3> QED
            BY <1>1, <3>1 DEF Cut
    <2>3. CASE n < m
        <3>1. m \in DOMAIN q /\ m <= m /\ ~(m <= n)
            BY <2>1, <2>3
        <3> QED
            BY <1>1, <3>1 DEF Cut
    <2> QED
        BY <2>1, <2>2, <2>3
<1>2. n \in 0..Len(q)
    BY DEF Cut
<1>3. ImagesOf(q) = n
    BY <1>1, <1>2 DEF ImagesOf
<1> QED
    BY <1>3 DEF EndsLast

LEMMA EndsEmpty == EndsLast(<<>>) /\ ImagesOf(<<>>) = 0
<1>1. <<>> \in Seq(Label) /\ Cut(<<>>, 0)
    BY DEF Cut
<1> QED
    BY <1>1, CutIsUnique

\* What enqueue and dequeue do to a queue in which ends come last.
LEMMA ImageArrives ==
    ASSUME NEW q \in Seq(Label), NEW x \in Label, x # End, EndsLast(q), ImagesOf(q) = Len(q)
    PROVE  EndsLast(Append(q, x)) /\ ImagesOf(Append(q, x)) = Len(q) + 1 /\ Len(Append(q, x)) = Len(q) + 1
<1>1. Append(q, x) \in Seq(Label)
    OBVIOUS
<1>2. Cut(Append(q, x), Len(q) + 1)
    <2>1. Len(Append(q, x)) = Len(q) + 1
        OBVIOUS
    <2>2. \A p \in DOMAIN Append(q, x): Append(q, x)[p] # End
        BY DEF EndsLast, Cut
    <2> QED
        BY <1>1, <2>1, <2>2 DEF Cut
<1>3. Len(Append(q, x)) = Len(q) + 1
    OBVIOUS
<1> QED
    BY <1>1, <1>2, <1>3, CutIsUnique

LEMMA EndArrives ==
    ASSUME NEW q \in Seq(Label), EndsLast(q)
    PROVE  EndsLast(Append(q, End)) /\ ImagesOf(Append(q, End)) = ImagesOf(q)
<1>1. Append(q, End) \in Seq(Label) /\ Len(Append(q, End)) = Len(q) + 1
    BY DEF Label
<1>2. Cut(Append(q, End), ImagesOf(q))
    <2>1. ImagesOf(q) \in 0..Len(q)
        BY DEF EndsLast, Cut
    <2>2. \A p \in DOMAIN Append(q, End): Append(q, End)[p] = IF p <= Len(q) THEN q[p] ELSE End
        OBVIOUS
    <2>3. \A p \in DOMAIN Append(q, End): p <= Len(q) => p \in DOMAIN q
        BY <1>1
    <2>4. \A p \in DOMAIN Append(q, End): Append(q, End)[p] # End <=> p <= ImagesOf(q)
        BY <1>1, <2>1, <2>2, <2>3 DEF EndsLast, Cut
    <2> QED
        BY <1>1, <2>1, <2>4 DEF Cut
<1> QED
    BY <1>1, <1>2, CutIsUnique

LEMMA HeadLeaves ==
    ASSUME NEW q \in Seq(Label), EndsLast(q), q # <<>>
    PROVE  /\ EndsLast(Tail(q))
           /\ ImagesOf(Tail(q)) = IF Head(q) = End THEN 0 ELSE ImagesOf(q) - 1
           /\ Head(q) = End <=> ImagesOf(q) = 0
<1>1. /\ Tail(q) \in Seq(Label) /\ Len(Tail(q)) = Len(q) - 1 /\ Head(q) = q[1] /\ 1 \in DOMAIN q
      /\ \A p \in DOMAIN Tail(q): Tail(q)[p] = q[p + 1] /\ p + 1 \in DOMAIN q /\ p \in Nat
    OBVIOUS
<1>2. ImagesOf(q) \in 0..Len(q) /\ \A p \in DOMAIN q: q[p] # End <=> p <= ImagesOf(q)
    BY DEF EndsLast, Cut
<1>3. Head(q) = End <=> ImagesOf(q) = 0
    BY <1>1, <1>2
<1> DEFINE n == IF Head(q) = End THEN 0 ELSE ImagesOf(q) - 1
<1>4. n \in 0..Len(Tail(q))
    BY <1>1, <1>2, <1>3
<1>5. ASSUME NEW p \in DOMAIN Tail(q) PROVE Tail(q)[p] # End <=> p <= n
    <2>1. Tail(q)[p] # End <=> p + 1 <= ImagesOf(q)
        BY <1>1, <1>2
    <2>2. p \in Nat /\ p >= 1
        BY <1>1
    <2> QED
        BY <1>2, <1>3, <2>1, <2>2
<1>6. Cut(Tail(q), n)
    BY <1>4, <1>5 DEF Cut
<1> QED
    BY <1>1, <1>3, <1>6, CutIsUnique

\* A negative label is the end.
LEMMA EndIsNegative == \A x \in Label: x < 0 <=> x = End
    BY DEF Label, Images, End

QueueState ==
    /\ inputQ \in Seq(Label) /\ TagQ \in [Devices -> Seq(Label)] /\ ImageQ \in [Devices -> Seq(Label)]
    /\ image \in Label /\ gpu \in Devices /\ scan \in Devices /\ dying \in Devices
    /\ DOMAIN inPc = Devices /\ DOMAIN procPc = Devices /\ DOMAIN outPc = Devices
    /\ nextImageToSend \in Nat /\ nextImageToSend <= imageCount /\ imageCount \in Nat

LEMMA QueueStates == ASSUME SessionInv PROVE QueueState /\ End \in Label
<1>1. SessionTypes /\ RunTypes /\ MasterTypes /\ QueueTypes /\ DeviceTypes
    BY DEF SessionInv, TypeOK
<1>2. inputQ \in Seq(Label) /\ TagQ \in [Devices -> Seq(Label)] /\ ImageQ \in [Devices -> Seq(Label)]
    BY <1>1 DEF QueueTypes
<1>3. image \in Label /\ gpu \in Devices /\ scan \in Devices /\ dying \in Devices
    BY <1>1, WorkingDevices DEF MasterTypes, RunTypes
<1>4. DOMAIN inPc = Devices /\ DOMAIN procPc = Devices /\ DOMAIN outPc = Devices
    BY <1>1 DEF DeviceTypes
<1>5. nextImageToSend \in Nat /\ nextImageToSend <= imageCount /\ imageCount \in Nat
    BY <1>1, WorkingDevices DEF SessionTypes
<1> QED
    BY <1>2, <1>3, <1>4, <1>5 DEF QueueState, Label

LEMMA EndsStay ==
    ASSUME NEW h \in Devices, EndsOf(h), UNCHANGED <<TagQ[h], ImageQ[h], inPc[h]>>, Marking => Marking'
    PROVE  EndsOf(h)'
  BY DEF EndsOf

LEMMA MasterEndsStay ==
    ASSUME MasterEnds, UNCHANGED <<inputQ, masterPc, image, runPc, endOfImageRequested, nextImageToSend, request>>
    PROVE  MasterEnds'
  BY DEF MasterEnds, Marking, InSession, Joined, imageCount, Empty

LEMMA EndsOfMaster ==
    ASSUME SessionInv, EndInv, Master
    PROVE  EndInv'
<1>0. QueueState /\ End \in Label /\ MasterEnds /\ Joining /\ \A h \in Devices: EndsOf(h)
    BY QueueStates DEF EndInv
<1>a. UNCHANGED <<request, client, run, input, process, output>>
    BY DEF Master, MasterTake, MasterTag, MasterImage, MasterScan, MasterMark
<1>b. Joining'
    BY <1>0, <1>a DEF Joining, run, input, process, output
<1> SUFFICES ASSUME NEW h \in Devices PROVE MasterEnds' /\ EndsOf(h)'
    <2>1. gpu \in Devices
        BY <1>0 DEF QueueState
    <2> QED
        BY <1>b, <2>1, Zenon DEF EndInv
<1>1. CASE MasterTake
    <2>1. /\ masterPc = "take" /\ inputQ # <<>> /\ inputQ' = Tail(inputQ) /\ image' = Head(inputQ) /\ UNCHANGED deal
          /\ masterPc' = (IF Head(inputQ) = End \/ Head(inputQ) \in Empty THEN "markTag" ELSE "tag")
        <3>1. inputQ # <<>> /\ inputQ \in Seq(Label)
            BY <1>0, <1>1 DEF MasterTake, QueueState
        <3>2. Head(inputQ) \in Label
            BY <3>1, QueueStep
        <3> QED
            BY <1>1, <3>2, EndIsNegative DEF MasterTake
    <2>2. /\ EndsLast(Tail(inputQ)) /\ Len(Tail(inputQ)) = Len(inputQ) - 1 /\ Len(inputQ) \in Nat
          /\ ImagesOf(Tail(inputQ)) = IF Head(inputQ) = End THEN 0 ELSE ImagesOf(inputQ) - 1
          /\ Head(inputQ) = End <=> ImagesOf(inputQ) = 0
          /\ Len(inputQ) > 0
        BY <1>0, <2>1, HeadLeaves DEF QueueState, MasterEnds
    <2>3. MasterEnds'
        <3>1. ~Joined
            BY <1>0, <2>1 DEF MasterEnds
        <3>2. Marking' => Head(inputQ) = End \/ Head(inputQ) \in Empty
            BY <2>1 DEF Marking
        <3>3. InSession /\ ~endOfImageRequested => Head(inputQ) # End /\ ImagesOf(inputQ) = Len(inputQ)
            BY <1>0, <2>2 DEF MasterEnds
        <3>4. InSession' = InSession /\ Joined' = Joined /\ imageCount' = imageCount /\ Empty' = Empty
            BY <1>a DEF InSession, Joined, run, imageCount, Empty
        <3> QED
            BY <1>0, <1>a, <2>1, <2>2, <3>1, <3>2, <3>3, <3>4 DEF MasterEnds, run, client
    <2>4. EndsOf(h)'
        BY <1>0, <1>a, <2>1, EndsStay DEF Marking, deal, input
    <2> QED
        BY <2>3, <2>4
<1>2. CASE MasterTag
    <2>1. /\ masterPc = "tag" /\ masterPc' = "image" /\ TagQ' = Put(TagQ, gpu, image) /\ image # End
          /\ UNCHANGED <<inputQ, image, ImageQ>>
        BY <1>0, <1>2 DEF MasterTag, MasterEnds
    <2>2. MasterEnds'
        BY <1>0, <1>a, <2>1 DEF MasterEnds, Marking, InSession, Joined, run, client, imageCount, Empty
    <2>3. CASE h # gpu
        BY <1>0, <1>a, <2>1, <2>2, <2>3, EndsStay DEF Marking, Put, QueueState, input
    <2>4. CASE h = gpu
        <3>1. TagQ'[h] = Append(TagQ[h], image) /\ TagQ[h] \in Seq(Label) /\ ~Marking /\ ~Marking'
            BY <1>0, <2>1, <2>4 DEF Put, QueueState, Marking
        <3>2. /\ EndsLast(Append(TagQ[h], image)) /\ ImagesOf(Append(TagQ[h], image)) = Len(TagQ[h]) + 1
              /\ Len(Append(TagQ[h], image)) = Len(TagQ[h]) + 1
            <4>1. image \in Label /\ EndsLast(TagQ[h]) /\ ImagesOf(TagQ[h]) = Len(TagQ[h])
                BY <1>0, <3>1 DEF QueueState, EndsOf
            <4> QED
                BY <2>1, <3>1, <4>1, ImageArrives
        <3> QED
            BY <1>0, <1>a, <2>1, <2>2, <3>1, <3>2 DEF EndsOf, input
    <2> QED
        BY <2>2, <2>3, <2>4
<1>3. CASE MasterImage
    <2>1. /\ masterPc = "image" /\ masterPc' \in {"scan", "take"} /\ ImageQ' = Put(ImageQ, gpu, image) /\ image # End
          /\ UNCHANGED <<inputQ, image, TagQ>>
        BY <1>0, <1>3 DEF MasterImage, MasterEnds
    <2>2. MasterEnds'
        BY <1>0, <1>a, <2>1 DEF MasterEnds, Marking, InSession, Joined, run, client, imageCount, Empty
    <2>3. CASE h # gpu
        BY <1>0, <1>a, <2>1, <2>2, <2>3, EndsStay DEF Marking, Put, QueueState, input
    <2>4. CASE h = gpu
        <3>1. ImageQ'[h] = Append(ImageQ[h], image) /\ ImageQ[h] \in Seq(Label) /\ ~Marking /\ ~Marking'
            BY <1>0, <2>1, <2>4 DEF Put, QueueState, Marking
        <3>2. /\ EndsLast(Append(ImageQ[h], image)) /\ ImagesOf(Append(ImageQ[h], image)) = Len(ImageQ[h]) + 1
              /\ Len(Append(ImageQ[h], image)) = Len(ImageQ[h]) + 1
            <4>1. image \in Label /\ EndsLast(ImageQ[h]) /\ ImagesOf(ImageQ[h]) = Len(ImageQ[h])
                BY <1>0, <3>1 DEF QueueState, EndsOf
            <4> QED
                BY <2>1, <3>1, <4>1, ImageArrives
        <3> QED
            BY <1>0, <1>a, <2>1, <2>2, <3>1, <3>2 DEF EndsOf, input
    <2> QED
        BY <2>2, <2>3, <2>4
<1>4. CASE MasterScan
    <2>1. masterPc = "scan" /\ masterPc' \in {"scan", "take"} /\ UNCHANGED <<inputQ, image, TagQ, ImageQ>>
        BY <1>4 DEF MasterScan, deal
    <2>2. MasterEnds'
        BY <1>0, <1>a, <2>1 DEF MasterEnds, Marking, InSession, Joined, run, client, imageCount, Empty
    <2>3. EndsOf(h)'
        BY <1>0, <1>a, <2>1, EndsStay DEF Marking, input
    <2> QED
        BY <2>2, <2>3
<1>5. CASE MasterMark
    <2>1. /\ Marking /\ Marking' /\ masterPc \in {"markTag", "markImage"} /\ UNCHANGED <<inputQ, image>>
          /\ \/ TagQ' = Put(TagQ, scan, End) /\ ImageQ' = ImageQ
             \/ ImageQ' = Put(ImageQ, scan, End) /\ TagQ' = TagQ
        BY <1>5 DEF MasterMark, Marking
    <2>2. MasterEnds'
        <3>1. ~Joined
            BY <1>0, <2>1 DEF MasterEnds
        <3>2. masterPc' \notin {"tag", "image"}
            BY <2>1 DEF Marking
        <3> QED
            BY <1>0, <1>a, <2>1, <3>1, <3>2 DEF MasterEnds, InSession, Joined, run, client, imageCount, Empty
    <2>3. CASE h # scan
        BY <1>0, <1>a, <2>1, <2>2, <2>3, EndsStay DEF Put, QueueState, input
    <2>4. CASE h = scan
        <3>1. \/ TagQ'[h] = Append(TagQ[h], End) /\ ImageQ'[h] = ImageQ[h]
              \/ ImageQ'[h] = Append(ImageQ[h], End) /\ TagQ'[h] = TagQ[h]
            BY <1>0, <2>1, <2>4 DEF Put, QueueState
        <3>2. /\ EndsLast(Append(TagQ[h], End)) /\ ImagesOf(Append(TagQ[h], End)) = ImagesOf(TagQ[h])
              /\ EndsLast(Append(ImageQ[h], End)) /\ ImagesOf(Append(ImageQ[h], End)) = ImagesOf(ImageQ[h])
            BY <1>0, EndArrives DEF QueueState, EndsOf
        <3> QED
            BY <1>0, <1>a, <2>1, <2>2, <3>1, <3>2 DEF EndsOf, input
    <2> QED
        BY <2>2, <2>3, <2>4
<1> QED
    BY <1>1, <1>2, <1>3, <1>4, <1>5 DEF Master

LEMMA EndsOfThreads ==
    ASSUME SessionInv, BufferInv, EndInv, NEW g \in Working, InputCopy(g) \/ Process(g) \/ OutputCopy(g)
    PROVE  EndInv'
<1>0. QueueState /\ End \in Label /\ MasterEnds /\ Joining /\ \A h \in Devices: EndsOf(h)
    BY QueueStates DEF EndInv
<1>1. g \in Devices
    BY WorkingDevices DEF SessionInv, TypeOK
<1>2. UNCHANGED <<inputQ, master, run, client, request>>
    BY DEF InputCopy, InputTake, InputFill, InputGive, InputMark, Process, ProcessTakeInput, ProcessTakeOutput,
           ProcessGraph, ProcessGive, OutputCopy, OutputTake, OutputTag, OutputVector, OutputGive, OutputMark
<1>3. MasterEnds'
    BY <1>0, <1>2, MasterEndsStay DEF master, run, client
<1>4. Marking' = Marking
    BY <1>2 DEF master, Marking
<1>5. Joining'
    <2>1. ASSUME NEW h \in Devices, inPc[h] = "end" PROVE inPc'[h] = "end"
        BY <1>0, <1>1, <2>1 DEF InputCopy, InputTake, InputFill, InputGive, InputMark, Process, ProcessTakeInput, ProcessTakeOutput,
           ProcessGraph, ProcessGive, OutputCopy, OutputTake, OutputTag, OutputVector, OutputGive, OutputMark, input, Goto, QueueState
    <2>2. ASSUME NEW h \in Devices, procPc[h] = "end" PROVE procPc'[h] = "end"
        BY <1>0, <1>1, <2>2 DEF InputCopy, InputTake, InputFill, InputGive, InputMark, Process, ProcessTakeInput, ProcessTakeOutput,
           ProcessGraph, ProcessGive, OutputCopy, OutputTake, OutputTag, OutputVector, OutputGive, OutputMark, process, Goto, QueueState
    <2>3. ASSUME NEW h \in Devices, outPc[h] = "end" PROVE outPc'[h] = "end"
        BY <1>0, <1>1, <2>3 DEF InputCopy, InputTake, InputFill, InputGive, InputMark, Process, ProcessTakeInput, ProcessTakeOutput,
           ProcessGraph, ProcessGive, OutputCopy, OutputTake, OutputTag, OutputVector, OutputGive, OutputMark, output, Goto, QueueState
    <2> QED
        BY <1>0, <1>2, <2>1, <2>2, <2>3 DEF Joining, QueueState, run
<1> SUFFICES ASSUME NEW h \in Devices PROVE EndsOf(h)'
    BY <1>3, <1>5, Zenon DEF EndInv
<1>6. CASE InputFill(g)
    <2>1. /\ ImageQ[g] # <<>> /\ ImageQ' = Take(ImageQ, g) /\ TagQ' = TagQ /\ Head(ImageQ[g]) \in Label
          /\ inPc' = Goto(inPc, g, IF Head(ImageQ[g]) < 0 THEN "giveLast" ELSE IF Len(batch'[g]) = BatchSize THEN "give" ELSE "fill")
        <3>1. ImageQ[g] # <<>> /\ ImageQ[g] \in Seq(Label)
            BY <1>0, <1>1, <1>6 DEF InputFill, QueueState
        <3>2. Head(ImageQ[g]) \in Label
            BY <3>1, QueueStep
        <3> QED
            BY <1>6, <3>2 DEF InputFill
    <2>2. CASE h # g
        BY <1>0, <1>1, <1>4, <2>1, <2>2, EndsStay DEF Take, Goto, QueueState
    <2>3. CASE h = g
        <3>1. /\ ImageQ[h] # <<>> /\ ImageQ'[h] = Tail(ImageQ[h]) /\ TagQ'[h] = TagQ[h]
              /\ inPc'[h] \in {"giveLast", "mark", "end"} => Head(ImageQ[h]) = End
            BY <1>0, <1>1, <2>1, <2>3, EndIsNegative DEF Take, Goto, QueueState
        <3>2. /\ EndsLast(Tail(ImageQ[h])) /\ Len(Tail(ImageQ[h])) = Len(ImageQ[h]) - 1 /\ Len(ImageQ[h]) \in Nat /\ Len(ImageQ[h]) > 0
              /\ ImagesOf(Tail(ImageQ[h])) = IF Head(ImageQ[h]) = End THEN 0 ELSE ImagesOf(ImageQ[h]) - 1
              /\ Head(ImageQ[h]) = End <=> ImagesOf(ImageQ[h]) = 0
            BY <1>0, <3>1, HeadLeaves DEF QueueState, EndsOf
        <3> QED
            BY <1>0, <1>4, <3>1, <3>2 DEF EndsOf
    <2> QED
        BY <2>2, <2>3
<1>7. CASE OutputTag(g)
    <2>1. TagQ[g] # <<>> /\ TagQ' = Take(TagQ, g) /\ UNCHANGED <<ImageQ, inPc>>
        BY <1>7 DEF OutputTag, input
    <2>2. CASE h # g
        BY <1>0, <1>1, <1>4, <2>1, <2>2, EndsStay DEF Take, QueueState
    <2>3. CASE h = g
        <3>1. TagQ[h] # <<>> /\ TagQ'[h] = Tail(TagQ[h])
            BY <1>0, <1>1, <2>1, <2>3 DEF Take, QueueState
        <3>2. /\ EndsLast(Tail(TagQ[h])) /\ Len(Tail(TagQ[h])) = Len(TagQ[h]) - 1 /\ Len(TagQ[h]) \in Nat /\ Len(TagQ[h]) > 0
              /\ ImagesOf(Tail(TagQ[h])) = IF Head(TagQ[h]) = End THEN 0 ELSE ImagesOf(TagQ[h]) - 1
              /\ Head(TagQ[h]) = End <=> ImagesOf(TagQ[h]) = 0
            BY <1>0, <3>1, HeadLeaves DEF QueueState, EndsOf
        <3> QED
            BY <1>0, <1>4, <2>1, <3>1, <3>2 DEF EndsOf
    <2> QED
        BY <2>2, <2>3
<1>8. CASE InputTake(g) \/ InputGive(g) \/ InputMark(g)
    <2>1. UNCHANGED <<TagQ, ImageQ>> /\ \E l \in {"fill", "mark", "take", "end"}: inPc' = Goto(inPc, g, l)
                                                   /\ (l \in {"mark", "end"} => inPc[g] \in {"giveLast", "mark"})
        BY <1>8 DEF InputTake, InputGive, InputMark, deal
    <2>2. CASE h # g
        BY <1>0, <1>1, <1>4, <2>1, <2>2, EndsStay DEF Goto, QueueState
    <2>3. CASE h = g
        <3>1. inPc'[h] \in {"giveLast", "mark", "end"} => inPc[h] \in {"giveLast", "mark", "end"}
            BY <1>0, <1>1, <2>1, <2>3 DEF Goto, QueueState
        <3> QED
            BY <1>0, <1>4, <2>1, <3>1 DEF EndsOf
    <2> QED
        BY <2>2, <2>3
<1>9. CASE Process(g) \/ (OutputCopy(g) /\ ~OutputTag(g))
    <2>1. UNCHANGED <<TagQ, ImageQ, inPc>>
        BY <1>9 DEF Process, ProcessTakeInput, ProcessTakeOutput, ProcessGraph, ProcessGive,
                    OutputCopy, OutputTake, OutputVector, OutputGive, OutputMark, deal, input
    <2> QED
        BY <1>0, <1>4, <2>1, EndsStay
<1> QED
    BY <1>6, <1>7, <1>8, <1>9 DEF InputCopy

LEMMA EndsOfRun ==
    ASSUME SessionInv, EndInv, Run
    PROVE  EndInv'
<1>0. QueueState /\ End \in Label /\ MasterEnds /\ Joining /\ \A h \in Devices: EndsOf(h)
    BY QueueStates DEF EndInv
<1>1. ASSUME UNCHANGED <<request, nextImageToSend, endOfImageRequested, inputQ, master, deal, input, process, output>>,
             InSession' => InSession, Joined' => Joined, runPc' \notin {"receive", "d_free"}
      PROVE  EndInv'
    <2>1. MasterEnds'
        BY <1>0, <1>1 DEF MasterEnds, Marking, imageCount, Empty, master
    <2>2. ASSUME NEW h \in Devices PROVE EndsOf(h)'
        BY <1>0, <1>1, EndsStay DEF Marking, master, deal, input
    <2>3. Joining'
        BY <1>1 DEF Joining
    <2> QED
        BY <2>1, <2>2, <2>3, Zenon DEF EndInv
<1>2. CASE RunLoop \/ RunPack \/ RunVector \/ RunSend \/ RunBye
    <2>1. UNCHANGED <<request, nextImageToSend, endOfImageRequested, inputQ, master, deal, input, process, output>>
        BY <1>2 DEF RunLoop, RunPack, RunVector, RunSend, RunBye, client
    <2>2. InSession /\ ~Joined /\ ~Joined' /\ runPc' \notin {"receive", "d_free"}
        BY <1>2 DEF RunLoop, RunPack, RunVector, RunSend, RunBye, InSession, Joined
    <2> QED
        BY <1>1, <2>1, <2>2
<1>3. CASE RunReceive
    <2>1. /\ runPc = "receive" /\ runPc' \in {"receive", "loop", "d_input"} /\ ~endOfImageRequested /\ endOfImageRequested' = endOfImageRequested
          /\ UNCHANGED <<request, master, deal, input, process, output>>
          /\ \/ inputQ' = Append(inputQ, nextImageToSend)
             \/ inputQ' = inputQ /\ nextImageToSend' = nextImageToSend
        BY <1>0, <1>3 DEF RunReceive, MasterEnds
    <2>2. ImagesOf(inputQ) = Len(inputQ) /\ (Marking => image # End /\ image \in Empty) /\ EndsLast(inputQ) /\ nextImageToSend \in Label /\ nextImageToSend # End
        BY <1>0, <2>1 DEF MasterEnds, InSession, QueueState, Label, Images, End
    <2>3. /\ EndsLast(Append(inputQ, nextImageToSend)) /\ ImagesOf(Append(inputQ, nextImageToSend)) = Len(inputQ) + 1
          /\ Len(Append(inputQ, nextImageToSend)) = Len(inputQ) + 1
        BY <1>0, <2>2, ImageArrives DEF QueueState
    <2>4. EndsLast(inputQ') /\ ImagesOf(inputQ') = Len(inputQ') /\ (Marking' => image' # End /\ image' \in Empty')
        BY <2>1, <2>2, <2>3 DEF Marking, master, Empty
    <2>5. MasterEnds'
        BY <1>0, <2>1, <2>4 DEF MasterEnds, InSession, Joined, master
    <2>6. ASSUME NEW h \in Devices PROVE EndsOf(h)'
        BY <1>0, <2>1, EndsStay DEF Marking, master, deal, input
    <2>7. Joining'
        BY <2>1 DEF Joining
    <2> QED
        BY <2>5, <2>6, <2>7, Zenon DEF EndInv
<1>4. CASE RunAsk
    <2>1. UNCHANGED <<request, nextImageToSend, master, deal, input, process, output>> /\ runPc = "ask"
        BY <1>4 DEF RunAsk, client
    <2>2. \/ /\ UNCHANGED <<endOfImageRequested, inputQ>> /\ runPc' \in {"loop", "d_input"}
          \/ /\ ~endOfImageRequested /\ ~endOfImageRequested' /\ inputQ' = inputQ /\ runPc' \in {"loop", "receive"}
          \/ /\ ~endOfImageRequested /\ endOfImageRequested' /\ inputQ' = Append(inputQ, End) /\ runPc' = "loop"
             /\ nextImageToSend = imageCount
        <3>1. CASE connected /\ ~endOfImageRequested /\ Requested > 0
            <4>1. PICK count \in Replies(Requested):
                          /\ left' = (IF count > 0 THEN count ELSE 0)
                          /\ endOfImageRequested' = (count < 0)
                          /\ inputQ' = (IF count < 0 THEN Append(inputQ, End) ELSE inputQ)
                          /\ runPc' = (IF count > 0 THEN "receive" ELSE "loop")
                <5>1. ~(Requested <= 0)
                    <6>1. Requested \in Int
                        BY <1>0, EngineAssumption DEF Requested, Lesser, QueueState
                    <6> QED
                        BY <3>1, <6>1
                <5> QED
                    BY <1>4, <3>1, <5>1, Zenon DEF RunAsk
            <4>2. count \in Int /\ (count < 0 => nextImageToSend = imageCount)
                <5>1. Lesser(Requested, imageCount - nextImageToSend) \in Int
                    BY <1>0, EngineAssumption DEF Requested, Lesser, QueueState
                <5>2. count \in 0..Lesser(Requested, imageCount - nextImageToSend) \/ (count = -1 /\ nextImageToSend = imageCount)
                    BY <4>1 DEF Replies
                <5> QED
                    BY <5>1, <5>2
            <4>3. CASE count < 0
                <5>1. ~(count > 0)
                    BY <4>2, <4>3
                <5>2. endOfImageRequested'
                    BY <4>1, <4>3, Zenon
                <5> QED
                    BY <3>1, <4>1, <4>2, <4>3, <5>1, <5>2, Zenon
            <4>4. CASE ~(count < 0)
                BY <3>1, <4>1, <4>2, <4>4
            <4> QED
                BY <4>3, <4>4
        <3>2. CASE ~(connected /\ ~endOfImageRequested /\ Requested > 0)
            BY <1>4, <3>2, Zenon DEF RunAsk
        <3> QED
            BY <3>1, <3>2
    <2>3. EndsLast(Append(inputQ, End)) /\ ImagesOf(Append(inputQ, End)) = ImagesOf(inputQ)
        BY <1>0, EndArrives DEF QueueState, MasterEnds
    <2>4. Marking' = Marking /\ imageCount' = imageCount /\ Empty' = Empty /\ InSession /\ ~Joined'
        BY <2>1, <2>2 DEF Marking, imageCount, Empty, master, InSession, Joined
    <2>5. MasterEnds'
        <3>1. EndsLast(inputQ') /\ ImagesOf(inputQ') = ImagesOf(inputQ)
            BY <1>0, <2>2, <2>3 DEF MasterEnds
        <3>2. InSession' /\ ~endOfImageRequested' => inputQ' = inputQ /\ ~endOfImageRequested
            BY <2>2 
        <3>3. runPc' = "receive" => ~endOfImageRequested'
            BY <2>2
        <3>4. InSession' /\ endOfImageRequested' => nextImageToSend = imageCount
            BY <1>0, <2>2, <2>4 DEF MasterEnds
        <3> QED
            BY <1>0, <2>1, <2>4, <3>1, <3>2, <3>3, <3>4 DEF MasterEnds, master
    <2>6. ASSUME NEW h \in Devices PROVE EndsOf(h)'
        BY <1>0, <2>1, <2>4, EndsStay DEF deal, input
    <2>7. Joining'
        BY <2>2 DEF Joining
    <2> QED
        BY <2>5, <2>6, <2>7, Zenon DEF EndInv
<1>5. CASE DestroyInput
    <2>1. /\ inputQ' = Append(inputQ, End) /\ runPc' = "d_master" /\ UNCHANGED <<request, master, deal, input>>
        BY <1>5 DEF DestroyInput
    <2>2. EndsLast(Append(inputQ, End)) /\ ImagesOf(Append(inputQ, End)) = ImagesOf(inputQ)
        BY <1>0, EndArrives DEF QueueState, MasterEnds
    <2>3. MasterEnds'
        BY <1>0, <2>1, <2>2 DEF MasterEnds, Marking, InSession, Joined, master, Empty
    <2>4. ASSUME NEW h \in Devices PROVE EndsOf(h)'
        BY <1>0, <2>1, EndsStay DEF Marking, master, deal, input
    <2>5. Joining'
        BY <2>1 DEF Joining
    <2> QED
        BY <2>3, <2>4, <2>5, Zenon DEF EndInv
<1>6. CASE DestroyJoinMaster \/ DestroyJoin \/ DestroyFree
    <2>1. UNCHANGED <<request, inputQ, master, deal, input, process, output>> /\ Joined' /\ ~InSession' /\ runPc' # "receive"
          /\ (DestroyJoinMaster \/ Joined) /\ (runPc' = "d_free" => DestroyJoin)
        BY <1>6 DEF DestroyJoinMaster, DestroyJoin, DestroyFree, Joined, InSession
    <2>2. masterPc' = "end"
        BY <1>0, <2>1 DEF DestroyJoinMaster, MasterEnds, master
    <2>3. MasterEnds'
        BY <1>0, <2>1, <2>2 DEF MasterEnds, Marking, master, Empty
    <2>4. ASSUME NEW h \in Devices PROVE EndsOf(h)'
        BY <1>0, <2>1, EndsStay DEF Marking, master, deal, input
    <2>5. Joining'
        BY <2>1 DEF Joining, DestroyJoin, input, process, output
    <2> QED
        BY <2>3, <2>4, <2>5, Zenon DEF EndInv
<1>7. CASE DestroyMark
    <2>1. /\ Joined /\ Joined' /\ ~InSession' /\ runPc' \notin {"receive", "d_free"} /\ UNCHANGED <<request, inputQ, master, input>>
          /\ \/ TagQ' = Put(TagQ, dying, End) /\ ImageQ' = ImageQ
             \/ ImageQ' = Put(ImageQ, dying, End) /\ TagQ' = TagQ
        BY <1>7 DEF DestroyMark, Joined, InSession
    <2>2. MasterEnds'
        BY <1>0, <2>1 DEF MasterEnds, Marking, master, Empty
    <2>3. Joining'
        BY <2>1 DEF Joining
    <2>4. Marking /\ Marking'
        BY <1>0, <2>1 DEF MasterEnds, Marking, master
    <2>5. ASSUME NEW h \in Devices PROVE EndsOf(h)'
        <3>1. CASE h # dying
            BY <1>0, <2>1, <2>4, <3>1, EndsStay DEF Put, QueueState, input
        <3>2. CASE h = dying
            <4>1. \/ TagQ'[h] = Append(TagQ[h], End) /\ ImageQ'[h] = ImageQ[h]
                  \/ ImageQ'[h] = Append(ImageQ[h], End) /\ TagQ'[h] = TagQ[h]
                BY <1>0, <2>1, <3>2 DEF Put, QueueState
            <4>2. /\ EndsLast(Append(TagQ[h], End)) /\ ImagesOf(Append(TagQ[h], End)) = ImagesOf(TagQ[h])
                  /\ EndsLast(Append(ImageQ[h], End)) /\ ImagesOf(Append(ImageQ[h], End)) = ImagesOf(ImageQ[h])
                BY <1>0, EndArrives DEF QueueState, EndsOf
            <4> QED
                BY <1>0, <2>1, <2>4, <4>1, <4>2 DEF EndsOf, input
        <3> QED
            BY <3>1, <3>2
    <2> QED
        BY <2>2, <2>3, <2>5, Zenon DEF EndInv
<1> QED
    BY <1>2, <1>3, <1>4, <1>5, <1>6, <1>7 DEF Run, Destroy

LEMMA EndsStep == ASSUME SessionInv, BufferInv, EndInv, [Next]_vars PROVE EndInv'
<1>1. ASSUME UNCHANGED <<request, nextImageToSend, run, inputQ, master, deal, input, process, output>> PROVE EndInv'
    <2>1. MasterEnds'
        BY <1>1, MasterEndsStay DEF EndInv, master, run
    <2>2. Joining'
        BY <1>1 DEF EndInv, Joining, run, input, process, output
    <2>3. ASSUME NEW h \in Devices PROVE EndsOf(h)'
        BY <1>1, EndsStay DEF EndInv, Marking, master, deal, input
    <2> QED
        BY <2>1, <2>2, <2>3, Zenon DEF EndInv
<1>2. CASE ClientCloses \/ UNCHANGED vars
    BY <1>1, <1>2 DEF ClientCloses, vars, client
<1> QED
    BY <1>2, EndsOfRun, EndsOfMaster, EndsOfThreads DEF Next

LEMMA EndsInit == ASSUME Init PROVE EndInv
<1>1. MasterEnds
    BY EndsEmpty DEF Init, MasterEnds, Marking, InSession, Joined
<1>2. \A g \in Devices: EndsOf(g)
    BY EndsEmpty DEF Init, EndsOf, PerDevice
<1> QED
    BY <1>1, <1>2 DEF EndInv, Joining, Init

------------------------------------------------------------------------------
(* What is under way on a device.                                           *)
Times(k) == k * BatchSize
Filled(busy) == IF busy # <<>> /\ busy[Len(busy)] = Null THEN Len(busy) - 1 ELSE Len(busy)

\* The batches between the input thread and the output thread, oldest first:
\* those in OutBusy, the one that workDeviceProcess holds, those in InBusy.
Held(g) == IF procPc[g] \in {"takeOutput", "graph", "giveInput", "giveOutput"} THEN 1 ELSE 0
Flying(g) == Filled(OutBusy[g]) + Held(g) + Filled(InBusy[g])

\* The slots the output thread still has to read; the image whose tag master has
\* put into TagQ and which is not yet in ImageQ.
Rest(g) == IF outPc[g] \in {"tag", "vector"} THEN BatchSize - outputCount[g] ELSE 0
Between(g) == IF masterPc = "image" /\ gpu = g THEN 1 ELSE 0
Tags(g) == ImagesOf(TagQ[g])

\* There is a tag for every image under way.  Batches are full, except the last
\* one before the end.
CountOf(g) ==
    /\ inPc[g] = "give" => Len(batch[g]) = BatchSize
    /\ inPc[g] \notin {"mark", "end"} =>
          Tags(g) = Rest(g) + Times(Flying(g)) + Len(batch[g]) + ImagesOf(ImageQ[g]) + Between(g)
    /\ inPc[g] \in {"mark", "end"} =>
          /\ batch[g] = <<>>
          /\ Flying(g) = 0 => Tags(g) <= Rest(g)
          /\ Flying(g) > 0 => /\ Rest(g) + Times(Flying(g) - 1) < Tags(g)
                              /\ Tags(g) <= Rest(g) + Times(Flying(g))
    /\ outPc[g] \in {"giveLast", "mark", "end"} =>
          inPc[g] \in {"mark", "end"} /\ Flying(g) = 0 /\ Tags(g) = 0

CountInv == \A g \in Devices: CountOf(g)

LEMMA TimesFacts ==
    ASSUME NEW k \in Nat
    PROVE  /\ Times(k) \in Nat /\ Times(0) = 0 /\ Times(1) = BatchSize /\ BatchSize \in Nat \ {0}
           /\ Times(k + 1) = Times(k) + BatchSize
           /\ k > 0 => Times(k) = Times(k - 1) + BatchSize
<1>1. BatchSize \in Nat \ {0}
    BY EngineAssumption
<1>2. /\ k * BatchSize \in Nat /\ 0 * BatchSize = 0 /\ 1 * BatchSize = BatchSize
      /\ (k + 1) * BatchSize = k * BatchSize + BatchSize
      /\ k * BatchSize = (k - 1) * BatchSize + BatchSize
    BY <1>1
<1> QED
    BY <1>1, <1>2 DEF Times

\* What enqueue and dequeue do to the number of batches in a queue.
LEMMA FilledFacts ==
    ASSUME NEW q \in Seq(Buffers \cup {Null}), \A i \in DOMAIN q: q[i] = Null => i = Len(q)
    PROVE  /\ Filled(q) \in 0..Len(q) /\ \A i \in 1..Filled(q): i \in DOMAIN q /\ q[i] # Null
           /\ \A i \in DOMAIN q: q[i] # Null => i <= Filled(q)
           /\ (\A i \in DOMAIN q: q[i] # Null) =>
                 /\ \A b \in Buffers: Filled(Append(q, b)) = Filled(q) + 1
                 /\ Filled(q) = Len(q) /\ Filled(Append(q, Null)) = Filled(q)
           /\ q # <<>> =>
                 /\ Head(q) = Null => Filled(q) = 0 /\ Filled(Tail(q)) = 0
                 /\ Head(q) # Null => Filled(q) > 0 /\ Filled(Tail(q)) = Filled(q) - 1
<1>1. Null \notin Buffers
    BY EngineAssumption DEF Buffers, Null
<1>2. q # <<>> => Len(q) \in DOMAIN q
    OBVIOUS
<1>3. /\ Filled(q) \in 0..Len(q) /\ \A i \in 1..Filled(q): i \in DOMAIN q /\ q[i] # Null
      /\ \A i \in DOMAIN q: q[i] # Null => i <= Filled(q)
    BY <1>2 DEF Filled
<1>4. ASSUME \A i \in DOMAIN q: q[i] # Null
      PROVE  /\ \A b \in Buffers: Filled(Append(q, b)) = Filled(q) + 1
             /\ Filled(q) = Len(q) /\ Filled(Append(q, Null)) = Filled(q)
    <2>1. Filled(q) = Len(q)
        BY <1>2, <1>4 DEF Filled
    <2>2. ASSUME NEW b \in Buffers \cup {Null}
          PROVE  /\ Append(q, b) # <<>> /\ Len(Append(q, b)) = Len(q) + 1 /\ Len(q) \in Nat
                 /\ Append(q, b)[Len(Append(q, b))] = b
        <3>1. Len(Append(q, b)) = Len(q) + 1 /\ Append(q, b)[Len(q) + 1] = b /\ Len(q) \in Nat
            OBVIOUS
        <3>2. Len(<<>>) = 0
            OBVIOUS
        <3> QED
            BY <3>1, <3>2
    <2>3. \A b \in Buffers: Filled(Append(q, b)) = Len(q) + 1
        BY <1>1, <2>2 DEF Filled
    <2>4. Filled(Append(q, Null)) = Len(q)
        BY <2>2 DEF Filled
    <2> QED
        BY <2>1, <2>3, <2>4
<1>5. ASSUME q # <<>>
      PROVE  /\ Head(q) = Null => Filled(q) = 0 /\ Filled(Tail(q)) = 0
             /\ Head(q) # Null => Filled(q) > 0 /\ Filled(Tail(q)) = Filled(q) - 1
    <2>1. /\ Head(q) = q[1] /\ 1 \in DOMAIN q /\ Len(q) \in Nat /\ Tail(q) \in Seq(Buffers \cup {Null}) /\ Len(Tail(q)) = Len(q) - 1
          /\ \A i \in DOMAIN Tail(q): Tail(q)[i] = q[i + 1]
        BY <1>5
    <2>2. CASE Len(q) = 1
        <3>1. Tail(q) = <<>>
            BY <2>2, LastOne
        <3>2. Filled(<<>>) = 0
            BY DEF Filled
        <3>3. Filled(q) = IF Head(q) = Null THEN 0 ELSE 1
            BY <1>5, <2>1, <2>2 DEF Filled
        <3>4. Filled(Tail(q)) = 0
            BY <3>1, <3>2, Zenon
        <3> QED
            BY <3>3, <3>4
    <2>3. CASE Len(q) # 1
        <3>1. Tail(q) # <<>> /\ Tail(q)[Len(Tail(q))] = q[Len(q)] /\ Head(q) # Null
            <4>1. Len(q) - 1 \in DOMAIN Tail(q) /\ Len(Tail(q)) = Len(q) - 1
                BY <2>1, <2>3
            <4>2. Tail(q)[Len(q) - 1] = q[Len(q)] /\ Tail(q) # <<>>
                BY <2>1, <2>3, <4>1
            <4> QED
                BY <2>1, <2>3, <4>1, <4>2
        <3> QED
            BY <1>5, <2>1, <2>3, <3>1 DEF Filled
    <2> QED
        BY <2>2, <2>3
<1> QED
    BY <1>3, <1>4, <1>5

\* What is true of the queues of busy buffers of a device.
BusyState(g) ==
    /\ InBusy[g] \in Seq(Buffers \cup {Null}) /\ OutBusy[g] \in Seq(Buffers \cup {Null})
    /\ \A i \in DOMAIN InBusy[g]: InBusy[g][i] = Null => i = Len(InBusy[g])
    /\ \A i \in DOMAIN OutBusy[g]: OutBusy[g][i] = Null => i = Len(OutBusy[g])
    /\ inPc[g] # "end" => \A i \in DOMAIN InBusy[g]: InBusy[g][i] # Null
    /\ procPc[g] # "end" => \A i \in DOMAIN OutBusy[g]: OutBusy[g][i] # Null
    /\ procPc[g] \in {"mark", "end"} => InBusy[g] = <<>> /\ inPc[g] = "end"

LEMMA BusyStates ==
    ASSUME SessionInv, BufferInv, NEW g \in Devices
    PROVE  BusyState(g) /\ Flying(g) \in Nat /\ Filled(InBusy[g]) \in Nat /\ Filled(OutBusy[g]) \in Nat /\ Held(g) \in {0, 1}
<1>1. BusyState(g)
    <2>1. InBusy[g] \in Seq(Buffers \cup {Null}) /\ OutBusy[g] \in Seq(Buffers \cup {Null})
        BY DEF SessionInv, TypeOK, PoolTypes
    <2> QED
        BY <2>1 DEF BufferInv, BusyQueues, MarkedBy, BusyState
<1>2. Filled(InBusy[g]) \in 0..Len(InBusy[g]) /\ Filled(OutBusy[g]) \in 0..Len(OutBusy[g])
    BY <1>1, FilledFacts DEF BusyState
<1>3. Len(InBusy[g]) \in Nat /\ Len(OutBusy[g]) \in Nat
    BY <1>1 DEF BusyState
<1> QED
    BY <1>1, <1>2, <1>3 DEF Flying, Held

\* How the number of batches under way changes.
LEMMA InputFlies ==
    ASSUME SessionInv, BufferInv, NEW g \in Devices, InputCopy(g)
    PROVE  /\ ~InputGive(g) => Flying(g)' = Flying(g)
           /\ InputGive(g) => Flying(g)' = IF Len(batch[g]) > 0 THEN Flying(g) + 1 ELSE Flying(g)
<1>0. PoolState /\ BusyState(g) /\ Filled(InBusy[g]) \in Nat /\ Filled(OutBusy[g]) \in Nat
    BY PoolStates, BusyStates
<1>1. UNCHANGED <<procPc, OutBusy>>
    BY DEF InputCopy, InputTake, InputFill, InputGive, InputMark, process, pool
<1>2. CASE InputTake(g) \/ InputFill(g)
    BY <1>1, <1>2 DEF InputTake, InputFill, InputGive, Flying, Held, pool
<1>3. CASE InputGive(g)
    <2>1. /\ inPc[g] \in {"give", "giveLast"} /\ inBuf[g] \in Buffers
          /\ InBusy'[g] = IF Len(batch[g]) > 0 THEN Append(InBusy[g], inBuf[g]) ELSE InBusy[g]
        BY <1>0, <1>3 DEF InputGive, Put, PoolState, SessionInv, InputInv
    <2>2. Filled(Append(InBusy[g], inBuf[g])) = Filled(InBusy[g]) + 1
        BY <1>0, <2>1, FilledFacts DEF BusyState
    <2> QED
        BY <1>0, <1>1, <1>3, <2>1, <2>2 DEF Flying, Held
<1>4. CASE InputMark(g)
    <2>1. inPc[g] = "mark" /\ InBusy'[g] = Append(InBusy[g], Null)
        BY <1>0, <1>4 DEF InputMark, Put, PoolState
    <2>2. Filled(Append(InBusy[g], Null)) = Filled(InBusy[g])
        BY <1>0, <2>1, FilledFacts DEF BusyState
    <2> QED
        BY <1>1, <2>1, <2>2 DEF InputGive, Flying, Held
<1> QED
    BY <1>2, <1>3, <1>4 DEF InputCopy

LEMMA ProcessFlies ==
    ASSUME SessionInv, BufferInv, NEW g \in Devices, Process(g)
    PROVE  Flying(g)' = Flying(g)
<1>0. PoolState /\ BusyState(g) /\ Filled(InBusy[g]) \in Nat /\ Filled(OutBusy[g]) \in Nat /\ Null \notin Buffers
    BY PoolStates, BusyStates
<1>1. CASE ProcessTakeInput(g)
    <2>1. /\ procPc[g] = "take" /\ InBusy[g] # <<>> /\ InBusy'[g] = Tail(InBusy[g]) /\ OutBusy' = OutBusy
          /\ procPc'[g] = (IF Head(InBusy[g]) = Null THEN "mark" ELSE "takeOutput")
        BY <1>0, <1>1 DEF ProcessTakeInput, Take, PoolState, Goto
    <2>2. /\ Head(InBusy[g]) = Null => Filled(InBusy[g]) = 0 /\ Filled(Tail(InBusy[g])) = 0
          /\ Head(InBusy[g]) # Null => Filled(InBusy[g]) > 0 /\ Filled(Tail(InBusy[g])) = Filled(InBusy[g]) - 1
        BY <1>0, <2>1, FilledFacts DEF BusyState
    <2> QED
        BY <1>0, <2>1, <2>2 DEF Flying, Held
<1>2. CASE ProcessTakeOutput(g) \/ ProcessGraph(g)
    BY <1>0, <1>2 DEF ProcessTakeOutput, ProcessGraph, Flying, Held, Goto, PoolState
<1>3. CASE ProcessGive(g)
    <2>1. CASE procPc[g] = "giveInput"
        BY <1>0, <1>3, <2>1 DEF ProcessGive, Flying, Held, Goto, PoolState
    <2>2. CASE procPc[g] = "giveOutput"
        <3>1. procPc'[g] = "take" /\ procOut[g] \in Buffers /\ OutBusy'[g] = Append(OutBusy[g], procOut[g]) /\ InBusy' = InBusy
            BY <1>0, <1>3, <2>2 DEF ProcessGive, Put, PoolState, SessionInv, ProcessInv, Goto
        <3>2. Filled(Append(OutBusy[g], procOut[g])) = Filled(OutBusy[g]) + 1
            BY <1>0, <2>2, <3>1, FilledFacts DEF BusyState
        <3> QED
            BY <1>0, <2>2, <3>1, <3>2 DEF Flying, Held
    <2>3. CASE procPc[g] = "mark"
        <3>1. procPc'[g] = "end" /\ OutBusy'[g] = Append(OutBusy[g], Null) /\ InBusy' = InBusy
            BY <1>0, <1>3, <2>3 DEF ProcessGive, Put, PoolState, Goto
        <3>2. Filled(Append(OutBusy[g], Null)) = Filled(OutBusy[g])
            BY <1>0, <2>3, FilledFacts DEF BusyState
        <3> QED
            BY <1>0, <2>3, <3>1, <3>2 DEF Flying, Held
    <2> QED
        BY <1>3, <2>1, <2>2, <2>3 DEF ProcessGive
<1> QED
    BY <1>1, <1>2, <1>3 DEF Process

LEMMA OutputFlies ==
    ASSUME SessionInv, BufferInv, NEW g \in Devices, OutputCopy(g)
    PROVE  /\ ~OutputTake(g) => Flying(g)' = Flying(g)
           /\ OutputTake(g) =>
                 /\ Head(OutBusy[g]) # Null => Flying(g) > 0 /\ Flying(g)' = Flying(g) - 1
                 /\ Head(OutBusy[g]) = Null => inPc[g] = "end" /\ Flying(g) = 0 /\ Flying(g)' = 0
<1>0. PoolState /\ BusyState(g) /\ Filled(InBusy[g]) \in Nat /\ Filled(OutBusy[g]) \in Nat /\ Held(g) \in {0, 1}
    BY PoolStates, BusyStates
<1>1. UNCHANGED <<procPc, InBusy>> /\ (~OutputTake(g) => OutBusy' = OutBusy)
    BY DEF OutputCopy, OutputTake, OutputTag, OutputVector, OutputGive, OutputMark, process, pool
<1>2. CASE ~OutputTake(g)
    BY <1>1, <1>2 DEF Flying, Held
<1>3. CASE OutputTake(g)
    <2>1. OutBusy[g] # <<>> /\ OutBusy'[g] = Tail(OutBusy[g])
        BY <1>0, <1>3 DEF OutputTake, Take, PoolState
    <2>2. /\ Head(OutBusy[g]) = Null => Filled(OutBusy[g]) = 0 /\ Filled(Tail(OutBusy[g])) = 0
          /\ Head(OutBusy[g]) # Null => Filled(OutBusy[g]) > 0 /\ Filled(Tail(OutBusy[g])) = Filled(OutBusy[g]) - 1
        BY <1>0, <2>1, FilledFacts DEF BusyState
    <2>3. CASE Head(OutBusy[g]) # Null
        <3>1. Held(g)' = Held(g)
            BY <1>1 DEF Held
        <3> QED
            BY <1>0, <1>1, <1>3, <2>1, <2>2, <2>3, <3>1 DEF Flying
    <2>4. CASE Head(OutBusy[g]) = Null
        <3>1. 1 \in DOMAIN OutBusy[g] /\ OutBusy[g][1] = Null
            BY <1>0, <2>1, <2>4 DEF BusyState
        <3>2. procPc[g] = "end" /\ InBusy[g] = <<>> /\ inPc[g] = "end"
            BY <1>0, <3>1 DEF BusyState
        <3>3. Filled(InBusy[g]) = 0 /\ Held(g) = 0 /\ Held(g)' = 0
            BY <1>1, <3>2 DEF Filled, Held
        <3> QED
            BY <1>0, <1>1, <1>3, <2>1, <2>2, <2>4, <3>2, <3>3 DEF Flying
    <2> QED
        BY <2>3, <2>4
<1> QED
    BY <1>2, <1>3

LEMMA CountStays ==
    ASSUME NEW h \in Devices, CountOf(h),
           UNCHANGED <<outPc[h], outputCount[h], inPc[h], batch[h]>>,
           Flying(h)' = Flying(h), Between(h)' = Between(h),
           ImagesOf(TagQ'[h]) = ImagesOf(TagQ[h]), ImagesOf(ImageQ'[h]) = ImagesOf(ImageQ[h])
    PROVE  CountOf(h)'
<1>1. Tags(h)' = Tags(h) /\ Rest(h)' = Rest(h)
    BY DEF Tags, Rest
<1> QED
    BY <1>1 DEF CountOf

\* The numbers are numbers.
LEMMA CountTypes ==
    ASSUME SessionInv, BufferInv, EndInv, NEW g \in Devices
    PROVE  /\ Flying(g) \in Nat /\ Rest(g) \in 0..BatchSize /\ Between(g) \in {0, 1}
           /\ Tags(g) \in 0..Len(TagQ[g]) /\ ImagesOf(ImageQ[g]) \in 0..Len(ImageQ[g])
           /\ TagQ[g] \in Seq(Label) /\ ImageQ[g] \in Seq(Label) /\ batch[g] \in Seq(Images)
           /\ outPc[g] = "tag" => outputCount[g] < BatchSize
           /\ outputCount[g] \in 0..BatchSize
           /\ BatchSize \in Nat \ {0}
<1>1. TagQ[g] \in Seq(Label) /\ ImageQ[g] \in Seq(Label)
    BY QueueStates DEF QueueState
<1>2. Tags(g) \in 0..Len(TagQ[g]) /\ ImagesOf(ImageQ[g]) \in 0..Len(ImageQ[g])
    BY DEF EndInv, EndsOf, EndsLast, Cut, Tags
<1>3. outputCount[g] \in 0..BatchSize /\ batch[g] \in Seq(Images)
    BY DEF SessionInv, TypeOK, DeviceTypes
<1>4. outPc[g] = "tag" => outputCount[g] < BatchSize
    BY DEF SessionInv, OutputInv
<1>5. BatchSize \in Nat \ {0}
    BY EngineAssumption
<1>6. Rest(g) \in 0..BatchSize
    BY <1>3, <1>5 DEF Rest
<1> QED
    BY <1>1, <1>2, <1>3, <1>4, <1>5, <1>6, BusyStates DEF Between

LEMMA CountOfMaster ==
    ASSUME SessionInv, BufferInv, EndInv, Master, NEW h \in Devices, CountOf(h)
    PROVE  CountOf(h)'
<1>0. QueueState /\ End \in Label /\ MasterEnds /\ EndsOf(h)
    BY QueueStates DEF EndInv
<1>a. UNCHANGED <<pool, input, process, output>>
    BY DEF Master, MasterTake, MasterTag, MasterImage, MasterScan, MasterMark
<1>b. UNCHANGED <<outPc[h], outputCount[h], inPc[h], batch[h]>> /\ Flying(h)' = Flying(h) /\ Rest(h)' = Rest(h)
    BY <1>a DEF pool, input, process, output, Flying, Held, Rest
<1>t. /\ Rest(h) \in Nat /\ Between(h) \in {0, 1} /\ Tags(h) \in Nat /\ ImagesOf(ImageQ[h]) \in Nat
      /\ Len(batch[h]) \in Nat /\ Times(Flying(h)) \in Nat
    <2>1. /\ Flying(h) \in Nat /\ Rest(h) \in Nat /\ Between(h) \in {0, 1} /\ Tags(h) \in Nat /\ ImagesOf(ImageQ[h]) \in Nat
          /\ Len(batch[h]) \in Nat
        BY CountTypes
    <2> QED
        BY <2>1, TimesFacts
<1>s. Len(batch[h])' = Len(batch[h]) /\ Times(Flying(h)') = Times(Flying(h))
    BY <1>b
<1>1. CASE MasterTake \/ MasterScan
    <2>1. UNCHANGED <<TagQ, ImageQ>> /\ Between(h)' = Between(h)
        BY <1>1 DEF MasterTake, MasterScan, deal, Between
    <2> QED
        BY <1>b, <2>1, CountStays
<1>2. CASE MasterTag
    <2>1. /\ ~Marking /\ image # End /\ TagQ' = Put(TagQ, gpu, image) /\ ImageQ' = ImageQ
          /\ Between(h) = 0 /\ Between(h)' = IF gpu = h THEN 1 ELSE 0
        BY <1>0, <1>2 DEF MasterTag, MasterEnds, Marking, Between
    <2>2. CASE h # gpu
        BY <1>0, <1>b, <2>1, <2>2, CountStays DEF Put, QueueState
    <2>3. CASE h = gpu
        <3>1. /\ TagQ'[h] = Append(TagQ[h], image) /\ ImagesOf(TagQ[h]) = Len(TagQ[h])
              /\ ImagesOf(Append(TagQ[h], image)) = Len(TagQ[h]) + 1
            BY <1>0, <2>1, <2>3, ImageArrives DEF Put, QueueState, EndsOf
        <3>2. Tags(h)' = Tags(h) + 1 /\ Between(h)' = Between(h) + 1 /\ ImagesOf(ImageQ[h])' = ImagesOf(ImageQ[h])
            BY <2>1, <2>3, <3>1 DEF Tags
        <3>3. inPc[h] \notin {"mark", "end"}
            BY <1>0, <2>1 DEF EndsOf
        <3>4. Tags(h) = Rest(h) + Times(Flying(h)) + Len(batch[h]) + ImagesOf(ImageQ[h]) + Between(h)
            BY <3>3 DEF CountOf
        <3>5. Tags(h)' = Rest(h)' + Times(Flying(h)') + Len(batch[h])' + ImagesOf(ImageQ[h])' + Between(h)'
            BY <1>b, <1>t, <1>s, <3>2, <3>4
        <3> QED
            BY <1>b, <3>3, <3>5 DEF CountOf
    <2> QED
        BY <2>2, <2>3
<1>3. CASE MasterImage
    <2>1. /\ ~Marking /\ image # End /\ ImageQ' = Put(ImageQ, gpu, image) /\ TagQ' = TagQ
          /\ Between(h)' = 0 /\ Between(h) = IF gpu = h THEN 1 ELSE 0
        BY <1>0, <1>3 DEF MasterImage, MasterEnds, Marking, Between
    <2>2. CASE h # gpu
        BY <1>0, <1>b, <2>1, <2>2, CountStays DEF Put, QueueState
    <2>3. CASE h = gpu
        <3>1. /\ ImageQ'[h] = Append(ImageQ[h], image) /\ ImagesOf(ImageQ[h]) = Len(ImageQ[h])
              /\ ImagesOf(Append(ImageQ[h], image)) = Len(ImageQ[h]) + 1
            BY <1>0, <2>1, <2>3, ImageArrives DEF Put, QueueState, EndsOf
        <3>2. Tags(h)' = Tags(h) /\ Between(h) = 1 /\ Between(h)' = 0 /\ ImagesOf(ImageQ[h])' = ImagesOf(ImageQ[h]) + 1
            BY <2>1, <2>3, <3>1 DEF Tags
        <3>3. inPc[h] \notin {"mark", "end"}
            BY <1>0, <2>1 DEF EndsOf
        <3>4. Tags(h) = Rest(h) + Times(Flying(h)) + Len(batch[h]) + ImagesOf(ImageQ[h]) + Between(h)
            BY <3>3 DEF CountOf
        <3>5. Tags(h)' = Rest(h)' + Times(Flying(h)') + Len(batch[h])' + ImagesOf(ImageQ[h])' + Between(h)'
            BY <1>b, <1>t, <1>s, <3>2, <3>4
        <3> QED
            BY <1>b, <3>3, <3>5 DEF CountOf
    <2> QED
        BY <2>2, <2>3
<1>4. CASE MasterMark
    <2>1. /\ Between(h) = 0 /\ Between(h)' = 0
          /\ \/ TagQ' = Put(TagQ, scan, End) /\ ImageQ' = ImageQ
             \/ ImageQ' = Put(ImageQ, scan, End) /\ TagQ' = TagQ
        BY <1>4 DEF MasterMark, Between
    <2>2. ImagesOf(TagQ'[h]) = ImagesOf(TagQ[h]) /\ ImagesOf(ImageQ'[h]) = ImagesOf(ImageQ[h])
        BY <1>0, <2>1, EndArrives DEF Put, QueueState, EndsOf
    <2> QED
        BY <1>b, <2>1, <2>2, CountStays
<1> QED
    BY <1>1, <1>2, <1>3, <1>4 DEF Master

LEMMA CountOfInput ==
    ASSUME SessionInv, BufferInv, EndInv, NEW g \in Devices, CountOf(g), InputCopy(g)
    PROVE  CountOf(g)'
<1>0. /\ QueueState /\ End \in Label /\ EndsOf(g) /\ PoolState
      /\ DOMAIN batch = Devices /\ InputInv
    BY QueueStates, PoolStates DEF EndInv, SessionInv, TypeOK, DeviceTypes
<1>a. UNCHANGED <<TagQ, master, output>>
    BY DEF InputCopy, InputTake, InputFill, InputGive, InputMark, deal
<1>b. UNCHANGED <<outPc[g], outputCount[g]>> /\ Tags(g)' = Tags(g) /\ Rest(g)' = Rest(g) /\ Between(g)' = Between(g)
    BY <1>a DEF master, output, Tags, Rest, Between
<1>t. /\ Flying(g) \in Nat /\ Rest(g) \in 0..BatchSize /\ Between(g) \in {0, 1} /\ Tags(g) \in Nat /\ ImagesOf(ImageQ[g]) \in Nat
      /\ Len(batch[g]) \in Nat /\ BatchSize \in Nat \ {0}
    BY CountTypes
<1>1. CASE InputTake(g) \/ InputMark(g)
    <2>1. Flying(g)' = Flying(g) /\ UNCHANGED <<ImageQ, batch>>
        BY <1>1, InputFlies DEF InputTake, InputMark, InputGive, deal, InputCopy
    <2>2. \/ inPc[g] = "take" /\ inPc'[g] = "fill"
          \/ inPc[g] = "mark" /\ inPc'[g] = "end"
        BY <1>0, <1>1 DEF InputTake, InputMark, Goto, QueueState
    <2> QED
        BY <1>b, <2>1, <2>2 DEF CountOf
<1>2. CASE InputFill(g)
    <2>1. /\ inPc[g] = "fill" /\ ImageQ[g] # <<>> /\ ImageQ'[g] = Tail(ImageQ[g]) /\ Head(ImageQ[g]) \in Label
          /\ batch'[g] = IF Head(ImageQ[g]) < 0 THEN batch[g] ELSE Append(batch[g], Head(ImageQ[g]))
          /\ inPc'[g] = IF Head(ImageQ[g]) < 0 THEN "giveLast" ELSE IF Len(batch'[g]) = BatchSize THEN "give" ELSE "fill"
        <3>1. ImageQ[g] # <<>> /\ ImageQ[g] \in Seq(Label)
            BY <1>0, <1>2 DEF InputFill, QueueState
        <3>2. Head(ImageQ[g]) \in Label
            BY <3>1, QueueStep
        <3> QED
            BY <1>0, <1>2, <3>1, <3>2 DEF InputFill, Take, Put, Goto, QueueState
    <2>2. Flying(g)' = Flying(g)
        BY <1>2, <2>1, InputFlies DEF InputGive, InputCopy
    <2>3. /\ ImagesOf(Tail(ImageQ[g])) = IF Head(ImageQ[g]) = End THEN 0 ELSE ImagesOf(ImageQ[g]) - 1
          /\ Head(ImageQ[g]) = End <=> ImagesOf(ImageQ[g]) = 0
        BY <1>0, <2>1, HeadLeaves DEF QueueState, EndsOf
    <2>4. Head(ImageQ[g]) < 0 <=> Head(ImageQ[g]) = End
        BY <2>1, EndIsNegative
    <2>5. /\ Len(batch[g])' = IF Head(ImageQ[g]) = End THEN Len(batch[g]) ELSE Len(batch[g]) + 1
          /\ ImagesOf(ImageQ[g])' = IF Head(ImageQ[g]) = End THEN ImagesOf(ImageQ[g]) ELSE ImagesOf(ImageQ[g]) - 1
        BY <2>1, <2>3, <2>4, CountTypes
    <2>6. inPc'[g] \notin {"mark", "end"} /\ inPc[g] \notin {"mark", "end"} /\ (inPc'[g] = "give" => Len(batch'[g]) = BatchSize)
        BY <2>1
    <2>7. Tags(g)' = Rest(g)' + Times(Flying(g)') + Len(batch[g])' + ImagesOf(ImageQ[g])' + Between(g)'
        <3>1. Tags(g) = Rest(g) + Times(Flying(g)) + Len(batch[g]) + ImagesOf(ImageQ[g]) + Between(g)
            BY <2>6 DEF CountOf
        <3>2. Times(Flying(g)) \in Nat /\ Times(Flying(g)') = Times(Flying(g))
            BY <1>t, <2>2, TimesFacts
        <3>3. CASE Head(ImageQ[g]) = End
            BY <1>b, <2>5, <3>1, <3>2, <3>3
        <3>4. CASE Head(ImageQ[g]) # End
            <4>1. Len(batch[g])' = Len(batch[g]) + 1 /\ ImagesOf(ImageQ[g])' = ImagesOf(ImageQ[g]) - 1
                BY <2>5, <3>4
            <4>2. Tags(g)' = Tags(g) /\ Rest(g)' = Rest(g) /\ Between(g)' = Between(g)
                BY <1>b
            <4>3. Rest(g) \in Nat /\ Between(g) \in Nat /\ Len(batch[g]) \in Nat /\ ImagesOf(ImageQ[g]) \in Nat
                BY <1>t
            <4>4. Tags(g) = Rest(g) + Times(Flying(g)) + (Len(batch[g]) + 1) + (ImagesOf(ImageQ[g]) - 1) + Between(g)
                <5> DEFINE a == Rest(g) + Times(Flying(g))
                           c == Len(batch[g])
                           d == ImagesOf(ImageQ[g])
                           e == Between(g)
                <5>1. a \in Nat /\ c \in Nat /\ d \in Nat /\ e \in Nat
                    BY <3>2, <4>3
                <5> HIDE DEF a, c, d, e
                <5>2. a + c + d + e = a + (c + 1) + (d - 1) + e
                    BY <5>1
                <5> QED
                    BY <3>1, <5>2 DEF a, c, d, e
            <4> QED
                BY <3>2, <4>1, <4>2, <4>4
        <3> QED
            BY <3>3, <3>4
    <2>8. Len(batch'[g]) = Len(batch[g])'
        OBVIOUS
    <2> QED
        BY <1>b, <2>6, <2>7 DEF CountOf
<1>3. CASE InputGive(g)
    <2>1. /\ inPc[g] \in {"give", "giveLast"} /\ batch'[g] = <<>> /\ ImageQ' = ImageQ
          /\ inPc'[g] = IF inPc[g] = "giveLast" THEN "mark" ELSE "take"
        BY <1>0, <1>3 DEF InputGive, Goto, QueueState, deal
    <2>2. Flying(g)' = IF Len(batch[g]) > 0 THEN Flying(g) + 1 ELSE Flying(g)
        BY <1>3, InputFlies DEF InputCopy
    <2>3. /\ Tags(g) = Rest(g) + Times(Flying(g)) + Len(batch[g]) + ImagesOf(ImageQ[g]) + Between(g)
          /\ outPc[g] \notin {"giveLast", "mark", "end"}
          /\ inPc[g] = "give" => Len(batch[g]) = BatchSize
        BY <2>1 DEF CountOf
    <2>4. Len(batch[g]) <= BatchSize
        BY <1>0 DEF InputInv
    <2>5. /\ Times(Flying(g)) \in Nat /\ Times(Flying(g) + 1) = Times(Flying(g)) + BatchSize
          /\ Flying(g) > 0 => Times(Flying(g)) = Times(Flying(g) - 1) + BatchSize /\ Times(Flying(g) - 1) \in Nat
          /\ Times(0) = 0
        <3>1. Flying(g) > 0 => Flying(g) - 1 \in Nat
            BY <1>t
        <3>2. Times(Flying(g)) \in Nat /\ Times(0) = 0
            BY <1>t, TimesFacts
        <3>3. Times(Flying(g) + 1) = Times(Flying(g)) + BatchSize
            <4>1. Flying(g) + 1 \in Nat /\ Flying(g) + 1 > 0 /\ (Flying(g) + 1) - 1 = Flying(g)
                BY <1>t
            <4> QED
                BY <4>1, TimesFacts
        <3>4. Flying(g) > 0 => Times(Flying(g)) = Times(Flying(g) - 1) + BatchSize /\ Times(Flying(g) - 1) \in Nat
            BY <1>t, <3>1, TimesFacts
        <3> QED
            BY <3>2, <3>3, <3>4
    <2>6. CASE inPc[g] = "give"
        <3>1. Flying(g)' = Flying(g) + 1 /\ inPc'[g] = "take" /\ Len(batch'[g]) = 0 /\ Len(batch[g]) = BatchSize
            BY <1>t, <2>1, <2>2, <2>3, <2>6
        <3>2. Tags(g)' = Rest(g)' + Times(Flying(g)') + Len(batch'[g]) + ImagesOf(ImageQ'[g]) + Between(g)'
            BY <1>b, <1>t, <2>1, <2>3, <2>5, <3>1
        <3> QED
            BY <1>b, <2>3, <3>1, <3>2 DEF CountOf
    <2>7. CASE inPc[g] = "giveLast"
        <3>1. inPc'[g] = "mark" /\ ImagesOf(ImageQ[g]) = 0 /\ Between(g) = 0
            BY <1>0, <2>1, <2>7 DEF EndsOf, Between, Marking
        <3>2. Tags(g)' = Rest(g)' + Times(Flying(g)) + Len(batch[g])
            BY <1>b, <1>t, <2>3, <2>5, <3>1
        <3>3. /\ Flying(g)' = 0 => Tags(g)' <= Rest(g)'
              /\ Flying(g)' > 0 => Rest(g)' + Times(Flying(g)' - 1) < Tags(g)' /\ Tags(g)' <= Rest(g)' + Times(Flying(g)')
            <4>1. CASE Len(batch[g]) > 0
                <5>1. Flying(g)' = Flying(g) + 1 /\ Flying(g)' - 1 = Flying(g)
                    BY <1>t, <2>2, <4>1
                <5> QED
                    BY <1>b, <1>t, <2>4, <2>5, <3>2, <4>1, <5>1
            <4>2. CASE Len(batch[g]) = 0
                <5>1. Flying(g)' = Flying(g)
                    BY <2>2, <4>2
                <5>2. Tags(g)' = Rest(g)' + Times(Flying(g))
                    BY <1>b, <1>t, <2>5, <3>2, <4>2
                <5>3. CASE Flying(g) = 0
                    BY <1>b, <1>t, <2>5, <5>1, <5>2, <5>3
                <5>4. CASE Flying(g) > 0
                    <6>1. Times(Flying(g)' - 1) = Times(Flying(g) - 1) /\ Times(Flying(g)') = Times(Flying(g))
                        BY <5>1
                    <6>2. Times(Flying(g) - 1) < Times(Flying(g))
                        BY <1>t, <2>5, <5>4
                    <6>3. Rest(g)' \in Int /\ Times(Flying(g) - 1) \in Int /\ Times(Flying(g)) \in Int
                        BY <1>b, <1>t, <2>5, <5>4
                    <6>4. \A r, s, t \in Int: s < t => r + s < r + t /\ r + t <= r + t
                        OBVIOUS
                    <6>5. Rest(g)' + Times(Flying(g)' - 1) < Tags(g)' /\ Tags(g)' <= Rest(g)' + Times(Flying(g)')
                        BY <5>2, <6>1, <6>2, <6>3, <6>4
                    <6>6. Flying(g)' > 0
                        BY <5>1, <5>4
                    <6> QED
                        BY <6>5, <6>6
                <5> QED
                    BY <1>t, <5>3, <5>4
            <4> QED
                BY <1>t, <4>1, <4>2
        <3> QED
            BY <1>b, <2>1, <2>3, <3>1, <3>3 DEF CountOf
    <2> QED
        BY <2>1, <2>6, <2>7
<1> QED
    BY <1>1, <1>2, <1>3 DEF InputCopy

LEMMA CountOfOutput ==
    ASSUME SessionInv, BufferInv, EndInv, NEW g \in Devices, CountOf(g), OutputCopy(g)
    PROVE  CountOf(g)'
<1>0. QueueState /\ End \in Label /\ EndsOf(g) /\ PoolState /\ DOMAIN outputCount = Devices
    BY QueueStates, PoolStates DEF EndInv, SessionInv, TypeOK, DeviceTypes
<1>a. UNCHANGED <<ImageQ, master, input>>
    BY DEF OutputCopy, OutputTake, OutputTag, OutputVector, OutputGive, OutputMark, deal
<1>b. UNCHANGED <<inPc[g], batch[g]>> /\ Between(g)' = Between(g) /\ ImagesOf(ImageQ[g])' = ImagesOf(ImageQ[g])
      /\ Len(batch[g])' = Len(batch[g])
    BY <1>a DEF master, input, Between
<1>t. /\ Flying(g) \in Nat /\ Rest(g) \in 0..BatchSize /\ Between(g) \in {0, 1} /\ Tags(g) \in Nat /\ ImagesOf(ImageQ[g]) \in Nat
      /\ Len(batch[g]) \in Nat /\ BatchSize \in Nat \ {0} /\ outputCount[g] \in 0..BatchSize
    BY CountTypes
<1>m. /\ Times(Flying(g)) \in Nat /\ Times(0) = 0 /\ Times(1) = BatchSize
      /\ Flying(g) > 0 => Times(Flying(g)) = Times(Flying(g) - 1) + BatchSize /\ Times(Flying(g) - 1) \in Nat
      /\ Flying(g) > 1 => Times(Flying(g) - 1) = Times(Flying(g) - 2) + BatchSize /\ Times(Flying(g) - 2) \in Nat
    <2>1. Times(Flying(g)) \in Nat /\ Times(0) = 0 /\ Times(1) = BatchSize
        BY <1>t, TimesFacts
    <2>2. Flying(g) > 0 => Times(Flying(g)) = Times(Flying(g) - 1) + BatchSize /\ Times(Flying(g) - 1) \in Nat
        <3>1. Flying(g) > 0 => Flying(g) - 1 \in Nat
            BY <1>t
        <3> QED
            BY <1>t, <3>1, TimesFacts
    <2>3. Flying(g) > 1 => Times(Flying(g) - 1) = Times(Flying(g) - 2) + BatchSize /\ Times(Flying(g) - 2) \in Nat
        <3>1. Flying(g) > 1 => Flying(g) - 1 \in Nat /\ Flying(g) - 2 \in Nat /\ Flying(g) - 1 > 0 /\ (Flying(g) - 1) - 1 = Flying(g) - 2
            BY <1>t
        <3> QED
            BY <3>1, TimesFacts
    <2> QED
        BY <2>1, <2>2, <2>3
<1>1. CASE OutputTake(g)
    <2>1. /\ outPc[g] = "take" /\ outPc'[g] = (IF Head(OutBusy[g]) = Null THEN "mark" ELSE "tag")
          /\ outputCount'[g] = 0 /\ TagQ' = TagQ
        BY <1>0, <1>1 DEF OutputTake, Goto, QueueState, deal
    <2>2. Rest(g) = 0 /\ Tags(g)' = Tags(g)
        BY <2>1 DEF Rest, Tags
    <2>3. CASE Head(OutBusy[g]) = Null
        <3>1. inPc[g] = "end" /\ Flying(g) = 0 /\ Flying(g)' = 0 /\ Rest(g)' = 0 /\ Tags(g) = 0
            <4>1. inPc[g] = "end" /\ Flying(g) = 0 /\ Flying(g)' = 0
                BY <1>1, <2>3, OutputFlies DEF OutputCopy
            <4>2. Rest(g)' = 0
                BY <2>1, <2>3 DEF Rest
            <4>3. Tags(g) <= Rest(g)
                BY <4>1 DEF CountOf
            <4> QED
                BY <1>t, <2>2, <4>1, <4>2, <4>3
        <3>2. batch'[g] = <<>>
            BY <1>b, <3>1 DEF CountOf
        <3> QED
            BY <1>b, <2>1, <2>2, <3>1, <3>2 DEF CountOf
    <2>4. CASE Head(OutBusy[g]) # Null
        <3>1. Flying(g) > 0 /\ Flying(g)' = Flying(g) - 1 /\ Rest(g)' = BatchSize /\ outPc'[g] = "tag"
            <4>1. Flying(g) > 0 /\ Flying(g)' = Flying(g) - 1
                BY <1>1, <2>4, OutputFlies DEF OutputCopy
            <4>2. Rest(g)' = BatchSize - 0
                BY <2>1, <2>4 DEF Rest
            <4> QED
                BY <1>t, <2>1, <2>4, <4>1, <4>2
        <3>2. inPc[g] \notin {"mark", "end"} =>
                 Tags(g)' = Rest(g)' + Times(Flying(g)') + Len(batch[g])' + ImagesOf(ImageQ[g])' + Between(g)'
            <4>1. Rest(g)' + Times(Flying(g)') = Rest(g) + Times(Flying(g))
                BY <1>t, <1>m, <2>2, <3>1
            <4> QED
                BY <1>b, <1>t, <1>m, <2>2, <3>1, <4>1 DEF CountOf
        <3>3. ASSUME inPc[g] \in {"mark", "end"}
              PROVE  /\ Flying(g)' = 0 => Tags(g)' <= Rest(g)'
                     /\ Flying(g)' > 0 => /\ Rest(g)' + Times(Flying(g)' - 1) < Tags(g)'
                                          /\ Tags(g)' <= Rest(g)' + Times(Flying(g)')
            <4>1. Times(Flying(g) - 1) < Tags(g) /\ Tags(g) <= Times(Flying(g))
                <5>1. Rest(g) + Times(Flying(g) - 1) < Tags(g) /\ Tags(g) <= Rest(g) + Times(Flying(g))
                    BY <3>1, <3>3 DEF CountOf
                <5> QED
                    BY <1>t, <1>m, <2>2, <3>1, <5>1
            <4>2. Tags(g)' <= Rest(g)' + Times(Flying(g)') /\ (Flying(g)' = 0 => Tags(g)' <= Rest(g)')
                BY <1>t, <1>m, <2>2, <3>1, <4>1
            <4>3. ASSUME Flying(g)' > 0 PROVE Rest(g)' + Times(Flying(g)' - 1) < Tags(g)'
                <5>1. Flying(g) > 1 /\ Flying(g)' - 1 = Flying(g) - 2
                    BY <1>t, <3>1, <4>3
                <5>2. Times(Flying(g)' - 1) = Times(Flying(g) - 2)
                    BY <5>1
                <5> QED
                    BY <1>t, <1>m, <2>2, <3>1, <4>1, <5>1, <5>2
            <4> QED
                BY <4>2, <4>3
        <3> QED
            BY <1>b, <3>1, <3>2, <3>3 DEF CountOf
    <2> QED
        BY <2>3, <2>4
<1>2. CASE OutputTag(g)
    <2>1. /\ outPc[g] = "tag" /\ TagQ[g] # <<>> /\ TagQ'[g] = Tail(TagQ[g]) /\ Head(TagQ[g]) \in Label
          /\ Head(TagQ[g]) = End => outPc'[g] = "giveLast"
          /\ Head(TagQ[g]) # End => /\ outPc'[g] \in {"tag", "vector", "give"} /\ outputCount'[g] = outputCount[g] + 1
                                    /\ outPc'[g] = "give" => outputCount[g] + 1 = BatchSize
        <3>1. TagQ[g] # <<>> /\ TagQ[g] \in Seq(Label)
            BY <1>0, <1>2 DEF OutputTag, QueueState
        <3>2. Head(TagQ[g]) \in Label /\ (Head(TagQ[g]) < 0 <=> Head(TagQ[g]) = End)
            BY <3>1, QueueStep, EndIsNegative
        <3> QED
            BY <1>0, <1>2, <3>1, <3>2 DEF OutputTag, Take, Goto, QueueState
    <2>2. Flying(g)' = Flying(g)
        BY <1>2, <2>1, OutputFlies DEF OutputTake, OutputCopy
    <2>3. /\ Tags(g)' = IF Head(TagQ[g]) = End THEN 0 ELSE Tags(g) - 1
          /\ Head(TagQ[g]) = End <=> Tags(g) = 0
        BY <1>0, <2>1, HeadLeaves DEF QueueState, EndsOf, Tags
    <2>4. Rest(g) = BatchSize - outputCount[g] /\ Rest(g) > 0
        BY <1>t, <2>1, CountTypes DEF Rest
    <2>5. CASE Head(TagQ[g]) = End
        <3>1. Tags(g) = 0 /\ Tags(g)' = 0 /\ outPc'[g] = "giveLast" /\ Rest(g)' = 0
            BY <2>1, <2>3, <2>5 DEF Rest
        <3>2. inPc[g] \in {"mark", "end"}
            <4>1. inPc[g] \notin {"mark", "end"} =>
                     Tags(g) = Rest(g) + Times(Flying(g)) + Len(batch[g]) + ImagesOf(ImageQ[g]) + Between(g)
                BY DEF CountOf
            <4>2. /\ Rest(g) \in Nat /\ Rest(g) > 0 /\ Tags(g) = 0 /\ Times(Flying(g)) \in Nat
                  /\ Len(batch[g]) \in Nat /\ ImagesOf(ImageQ[g]) \in Nat /\ Between(g) \in Nat
                BY <1>t, <1>m, <2>4, <3>1
            <4>3. Tags(g) # Rest(g) + Times(Flying(g)) + Len(batch[g]) + ImagesOf(ImageQ[g]) + Between(g)
                BY <4>2
            <4> QED
                BY <4>1, <4>3
        <3>3. Flying(g) = 0
            <4>1. CASE Flying(g) > 0
                <5>1. Rest(g) + Times(Flying(g) - 1) < Tags(g)
                    BY <3>2, <4>1 DEF CountOf
                <5> QED
                    BY <1>t, <1>m, <2>4, <3>1, <4>1, <5>1
            <4> QED
                BY <1>t, <4>1
        <3> QED
            BY <1>b, <2>2, <3>1, <3>2, <3>3 DEF CountOf
    <2>6. CASE Head(TagQ[g]) # End
        <3>1. Tags(g)' = Tags(g) - 1 /\ Rest(g)' = Rest(g) - 1 /\ outPc'[g] \in {"tag", "vector", "give"}
            <4>1. Tags(g)' = Tags(g) - 1 /\ outPc'[g] \in {"tag", "vector", "give"} /\ outputCount'[g] = outputCount[g] + 1
                BY <2>1, <2>3, <2>6
            <4>2. CASE outPc'[g] \in {"tag", "vector"}
                <5>1. Rest(g)' = BatchSize - (outputCount[g] + 1)
                    BY <4>1, <4>2 DEF Rest
                <5> QED
                    BY <1>t, <2>4, <4>1, <5>1
            <4>3. CASE outPc'[g] = "give"
                <5>1. Rest(g)' = 0 /\ outputCount[g] + 1 = BatchSize
                    BY <2>1, <2>6, <4>3 DEF Rest
                <5> QED
                    BY <1>t, <2>4, <4>1, <5>1
            <4> QED
                BY <4>1, <4>2, <4>3
        <3>2. inPc[g] \notin {"mark", "end"} =>
                 Tags(g)' = Rest(g)' + Times(Flying(g)') + Len(batch[g])' + ImagesOf(ImageQ[g])' + Between(g)'
            <4>1. inPc[g] \notin {"mark", "end"} =>
                     Tags(g) = Rest(g) + Times(Flying(g)) + Len(batch[g]) + ImagesOf(ImageQ[g]) + Between(g)
                BY DEF CountOf
            <4>2. Times(Flying(g)') = Times(Flying(g))
                BY <2>2
            <4>3. Times(Flying(g)) \in Nat
                BY <1>m
            <4>4. /\ Len(batch[g])' = Len(batch[g]) /\ ImagesOf(ImageQ[g])' = ImagesOf(ImageQ[g]) /\ Between(g)' = Between(g)
                  /\ Rest(g)' = Rest(g) - 1 /\ Tags(g)' = Tags(g) - 1
                BY <1>b, <3>1
            <4>5. Rest(g) \in Nat /\ Between(g) \in Nat /\ Len(batch[g]) \in Nat /\ ImagesOf(ImageQ[g]) \in Nat
                BY <1>t
            <4>6. inPc[g] \notin {"mark", "end"} =>
                     Tags(g) - 1 = (Rest(g) - 1) + Times(Flying(g)) + Len(batch[g]) + ImagesOf(ImageQ[g]) + Between(g)
                BY <4>1, <4>3, <4>5
            <4> QED
                BY <4>2, <4>4, <4>6
        <3>3. ASSUME inPc[g] \in {"mark", "end"}
              PROVE  /\ Flying(g)' = 0 => Tags(g)' <= Rest(g)'
                     /\ Flying(g)' > 0 => /\ Rest(g)' + Times(Flying(g)' - 1) < Tags(g)'
                                          /\ Tags(g)' <= Rest(g)' + Times(Flying(g)')
            <4>1. /\ Flying(g) = 0 => Tags(g) <= Rest(g)
                  /\ Flying(g) > 0 => Rest(g) + Times(Flying(g) - 1) < Tags(g) /\ Tags(g) <= Rest(g) + Times(Flying(g))
                BY <3>3 DEF CountOf
            <4>2. Rest(g) \in Nat /\ Tags(g) \in Nat /\ Times(Flying(g)) \in Nat /\ (Flying(g) > 0 => Times(Flying(g) - 1) \in Nat)
                BY <1>t, <1>m
            <4>3. /\ Flying(g) = 0 => Tags(g) - 1 <= Rest(g) - 1
                  /\ Flying(g) > 0 => /\ (Rest(g) - 1) + Times(Flying(g) - 1) < Tags(g) - 1
                                      /\ Tags(g) - 1 <= (Rest(g) - 1) + Times(Flying(g))
                BY <4>1, <4>2
            <4> QED
                BY <2>2, <3>1, <4>3
        <3> QED
            BY <1>b, <2>2, <3>1, <3>2, <3>3 DEF CountOf
    <2> QED
        BY <2>5, <2>6
<1>3. CASE OutputVector(g) \/ OutputGive(g) \/ OutputMark(g)
    <2>1. /\ UNCHANGED <<TagQ, outputCount>>
          /\ \/ outPc[g] = "vector" /\ (outPc'[g] = IF outputCount[g] = BatchSize THEN "give" ELSE "tag")
             \/ outPc[g] = "give" /\ outPc'[g] = "take"
             \/ outPc[g] = "giveLast" /\ outPc'[g] = "mark"
             \/ outPc[g] = "mark" /\ outPc'[g] = "end"
        BY <1>0, <1>3 DEF OutputVector, OutputGive, OutputMark, deal, Goto, QueueState
    <2>2. Flying(g)' = Flying(g)
        <3>1. ~OutputTake(g)
            BY <2>1 DEF OutputTake
        <3> QED
            BY <3>1, OutputFlies
    <2>3. Tags(g)' = Tags(g) /\ Rest(g)' = Rest(g)
        BY <1>t, <2>1 DEF Tags, Rest
    <2> QED
        BY <1>b, <2>1, <2>2, <2>3 DEF CountOf
<1> QED
    BY <1>1, <1>2, <1>3 DEF OutputCopy

LEMMA CountOfProcess ==
    ASSUME SessionInv, BufferInv, NEW g \in Devices, CountOf(g), Process(g)
    PROVE  CountOf(g)'
<1>1. UNCHANGED <<master, deal, input, output>>
    BY DEF Process, ProcessTakeInput, ProcessTakeOutput, ProcessGraph, ProcessGive
<1> QED
    BY <1>1, ProcessFlies, CountStays DEF master, deal, input, output, Between

LEMMA CountStep == ASSUME SessionInv, BufferInv, EndInv, CountInv, [Next]_vars PROVE CountInv'
<1>0. QueueState /\ PoolState /\ (\A h \in Devices: CountOf(h) /\ EndsOf(h)) /\ End \in Label
      /\ DOMAIN batch = Devices /\ DOMAIN outputCount = Devices
    BY QueueStates, PoolStates DEF CountInv, EndInv, SessionInv, TypeOK, DeviceTypes
<1> SUFFICES ASSUME NEW h \in Devices PROVE CountOf(h)'
    BY Zenon DEF CountInv
<1>1. ASSUME NEW g \in Working, InputCopy(g) \/ Process(g) \/ OutputCopy(g)
      PROVE  CountOf(h)'
    <2>1. g \in Devices
        BY WorkingDevices DEF SessionInv, TypeOK
    <2>2. CASE h = g
        BY <1>0, <1>1, <2>1, <2>2, CountOfInput, CountOfProcess, CountOfOutput
    <2>3. CASE h # g
        <3>1. /\ UNCHANGED <<outPc[h], outputCount[h], inPc[h], batch[h], procPc[h]>>
              /\ UNCHANGED <<InBusy[h], OutBusy[h], TagQ[h], ImageQ[h], master>>
            <4>1. CASE InputCopy(g)
                <5>1. UNCHANGED <<TagQ, OutBusy, master, process, output>>
                    BY <4>1 DEF InputCopy, InputTake, InputFill, InputGive, InputMark, deal, pool
                <5>2. inPc'[h] = inPc[h] /\ batch'[h] = batch[h]
                    BY <1>0, <2>1, <2>3, <4>1 DEF InputCopy, InputTake, InputFill, InputGive, InputMark, PoolState, Goto, Put
                <5>3. InBusy'[h] = InBusy[h] /\ ImageQ'[h] = ImageQ[h]
                    BY <1>0, <2>1, <2>3, <4>1 DEF InputCopy, InputTake, InputFill, InputGive, InputMark, PoolState, QueueState,
                                                  Put, Take, pool, deal
                <5> QED
                    BY <5>1, <5>2, <5>3 DEF process, output
            <4>2. CASE Process(g)
                BY <1>0, <2>1, <2>3, <4>2 DEF Process, ProcessTakeInput, ProcessTakeOutput, ProcessGraph, ProcessGive, PoolState,
                                              Goto, Put, Take, input, output, deal
            <4>3. CASE OutputCopy(g)
                <5>1. UNCHANGED <<ImageQ, InBusy, master, input, process>>
                    BY <4>3 DEF OutputCopy, OutputTake, OutputTag, OutputVector, OutputGive, OutputMark, deal, pool
                <5>2. outPc'[h] = outPc[h] /\ outputCount'[h] = outputCount[h]
                    BY <1>0, <2>1, <2>3, <4>3 DEF OutputCopy, OutputTake, OutputTag, OutputVector, OutputGive, OutputMark, PoolState, Goto
                <5>3. OutBusy'[h] = OutBusy[h]
                    BY <1>0, <2>1, <2>3, <4>3 DEF OutputCopy, OutputTake, OutputTag, OutputVector, OutputGive, OutputMark, PoolState, Take, pool
                <5>4. TagQ'[h] = TagQ[h]
                    BY <1>0, <2>1, <2>3, <4>3 DEF OutputCopy, OutputTake, OutputTag, OutputVector, OutputGive, OutputMark, QueueState, Take, deal
                <5> QED
                    BY <5>1, <5>2, <5>3, <5>4 DEF input, process
            <4> QED
                BY <1>1, <4>1, <4>2, <4>3
        <3>2. Flying(h)' = Flying(h) /\ Between(h)' = Between(h)
            BY <3>1 DEF Flying, Held, Between, master
        <3> QED
            BY <1>0, <3>1, <3>2, CountStays
    <2> QED
        BY <2>2, <2>3
<1>2. ASSUME UNCHANGED <<master, input, process, output, InBusy, OutBusy>>,
             ImagesOf(TagQ'[h]) = ImagesOf(TagQ[h]), ImagesOf(ImageQ'[h]) = ImagesOf(ImageQ[h])
      PROVE  CountOf(h)'
    <2>1. Flying(h)' = Flying(h) /\ Between(h)' = Between(h)
        BY <1>2 DEF Flying, Held, Between, master, process
    <2> QED
        BY <1>0, <1>2, <2>1, CountStays DEF input, output
<1>3. CASE Run /\ ~DestroyMark
    BY <1>2, <1>3 DEF Run, RunLoop, RunPack, RunVector, RunSend, RunAsk, RunReceive, RunBye,
                      Destroy, DestroyInput, DestroyJoinMaster, DestroyJoin, DestroyFree, deal, pool
<1>4. CASE DestroyMark
    <2>1. UNCHANGED <<master, input, process, output, InBusy, OutBusy>>
          /\ \/ TagQ' = Put(TagQ, dying, End) /\ ImageQ' = ImageQ
             \/ ImageQ' = Put(ImageQ, dying, End) /\ TagQ' = TagQ
        BY <1>4 DEF DestroyMark, pool
    <2>2. ImagesOf(TagQ'[h]) = ImagesOf(TagQ[h]) /\ ImagesOf(ImageQ'[h]) = ImagesOf(ImageQ[h])
        BY <1>0, <2>1, EndArrives DEF Put, QueueState, EndsOf
    <2> QED
        BY <1>2, <2>1, <2>2
<1>5. CASE ClientCloses \/ UNCHANGED vars
    BY <1>2, <1>5 DEF ClientCloses, vars, deal, pool
<1> QED
    BY <1>0, <1>1, <1>3, <1>4, <1>5, CountOfMaster DEF Next

LEMMA CountInit == ASSUME Init PROVE CountInv
<1>1. Filled(<<>>) = 0 /\ ImagesOf(<<>>) = 0 /\ Times(0) = 0 /\ Len(<<>>) = 0
    BY EndsEmpty, EngineAssumption DEF Filled, Times
<1> SUFFICES ASSUME NEW g \in Devices PROVE CountOf(g)
    BY DEF CountInv
<1>2. Flying(g) = 0 /\ Rest(g) = 0 /\ Between(g) = 0 /\ Tags(g) = 0 /\ ImagesOf(ImageQ[g]) = 0 /\ Len(batch[g]) = 0
      /\ inPc[g] = "take" /\ outPc[g] = "take"
    BY <1>1 DEF Init, Flying, Held, Rest, Between, Tags, PerDevice
<1> QED
    BY <1>1, <1>2 DEF CountOf

------------------------------------------------------------------------------
(* The order of arrival.                                                    *)
\* The client's images are numbered in the order in which it sends them, and
\* wait in that order; master, who has taken those before the ones that wait,
\* keeps the number of the last, and stops at the first that is empty.
Waiting == ImagesOf(inputQ)
Arriving ==
    /\ \A i \in 1..Waiting: inputQ[i] = nextImageToSend - Waiting + i - 1
    /\ image = End \/ image = nextImageToSend - Waiting - 1
    /\ \A e \in Empty: e < nextImageToSend - Waiting => Marking /\ image = e

LEMMA ArrivingTypes ==
    ASSUME SessionInv, EndInv
    PROVE  /\ inputQ \in Seq(Label) /\ EndsLast(inputQ) /\ Waiting \in 0..Len(inputQ) /\ Waiting \in Int
           /\ nextImageToSend \in Nat /\ imageCount \in Nat /\ nextImageToSend <= imageCount
           /\ Empty \subseteq Nat /\ Len(inputQ) \in Nat
<1>1. inputQ \in Seq(Label) /\ nextImageToSend \in Nat /\ imageCount \in Nat /\ nextImageToSend <= imageCount
    BY QueueStates DEF QueueState
<1>2. EndsLast(inputQ)
    BY DEF EndInv, MasterEnds
<1>3. Waiting \in 0..Len(inputQ) /\ Len(inputQ) \in Nat
    BY <1>1, <1>2 DEF EndsLast, Cut, Waiting
<1>4. Empty \subseteq Nat
    BY DEF SessionInv, TypeOK, SessionTypes, Request, Empty
<1> QED
    BY <1>1, <1>2, <1>3, <1>4

\* A step that leaves the images that wait, and the number of those taken, alone.
LEMMA ArrivingStays ==
    ASSUME Arriving, UNCHANGED <<nextImageToSend, inputQ, image, request>>, Marking => Marking'
    PROVE  Arriving'
    BY DEF Arriving, Waiting, Empty

LEMMA ArrivingOfMaster == ASSUME SessionInv, EndInv, Arriving, Master PROVE Arriving'
<1>0. UNCHANGED <<nextImageToSend, request>> /\ Empty' = Empty
    BY DEF Master, MasterTake, MasterTag, MasterImage, MasterScan, MasterMark, client, Empty
<1>t. /\ inputQ \in Seq(Label) /\ EndsLast(inputQ) /\ Waiting \in 0..Len(inputQ) /\ Waiting \in Int
      /\ nextImageToSend \in Nat /\ Empty \subseteq Nat /\ Len(inputQ) \in Nat
    BY ArrivingTypes
<1>1. CASE MasterTake
    <2>1. /\ masterPc = "take" /\ inputQ # <<>> /\ inputQ' = Tail(inputQ) /\ image' = Head(inputQ)
          /\ masterPc' = IF image' < 0 \/ image' \in Empty THEN "markTag" ELSE "tag"
        BY <1>1 DEF MasterTake
    <2>2. /\ Waiting' = IF image' = End THEN 0 ELSE Waiting - 1
          /\ image' = End <=> Waiting = 0
          /\ Head(inputQ) = inputQ[1]
        <3>1. /\ ImagesOf(Tail(inputQ)) = IF Head(inputQ) = End THEN 0 ELSE ImagesOf(inputQ) - 1
              /\ Head(inputQ) = End <=> ImagesOf(inputQ) = 0
            BY <1>t, <2>1, HeadLeaves
        <3>2. Head(inputQ) = inputQ[1]
            BY <1>t, <2>1
        <3> QED
            BY <2>1, <3>1, <3>2 DEF Waiting
    <2>3. \A e \in Empty: ~(e < nextImageToSend - Waiting)
        BY <2>1 DEF Arriving, Marking
    <2>4. CASE image' = End
        <3>1. Waiting' = 0 /\ Waiting = 0
            BY <2>2, <2>4
        <3>2. \A i \in 1..0: FALSE
            OBVIOUS
        <3> QED
            BY <1>0, <2>3, <2>4, <3>1, <3>2 DEF Arriving
    <2>5. CASE image' # End
        <3>1. Waiting' = Waiting - 1 /\ Waiting > 0
            BY <1>t, <2>2, <2>5
        <3>2. \A i \in 1..Waiting: inputQ[i] = nextImageToSend - Waiting + i - 1
            BY DEF Arriving
        <3>3. image' = nextImageToSend' - Waiting' - 1 /\ image' = nextImageToSend - Waiting
            BY <1>t, <1>0, <2>1, <2>2, <3>1, <3>2
        <3>4. ASSUME NEW i \in 1..Waiting' PROVE inputQ'[i] = nextImageToSend' - Waiting' + i - 1
            <4>1. i \in Int /\ i + 1 \in 1..Waiting /\ i + 1 \in 1..Len(inputQ)
                BY <1>t, <3>1
            <4>2. inputQ'[i] = inputQ[i + 1]
                BY <1>t, <2>1, <4>1
            <4> QED
                BY <1>t, <1>0, <3>1, <3>2, <4>1, <4>2
        <3>5. ASSUME NEW e \in Empty', e < nextImageToSend' - Waiting' PROVE Marking' /\ image' = e
            <4>1. e \in Empty /\ e \in Nat /\ ~(e < nextImageToSend - Waiting)
                BY <1>t, <1>0, <2>3
            <4>2. e = nextImageToSend - Waiting
                BY <1>t, <1>0, <3>1, <3>5, <4>1
            <4> QED
                BY <2>1, <3>3, <4>1, <4>2 DEF Marking
        <3> QED
            BY <3>3, <3>4, <3>5 DEF Arriving
    <2> QED
        BY <2>4, <2>5
<1>2. CASE MasterTag \/ MasterImage \/ MasterScan \/ MasterMark
    <2>1. UNCHANGED <<inputQ, image>> /\ (Marking => Marking')
        BY <1>2 DEF MasterTag, MasterImage, MasterScan, MasterMark, Marking
    <2> QED
        BY <1>0, <2>1, ArrivingStays
<1> QED
    BY <1>1, <1>2 DEF Master

LEMMA ArrivingOfRun == ASSUME SessionInv, EndInv, Arriving, Run PROVE Arriving'
<1>0. UNCHANGED <<image, masterPc, request>> /\ Empty' = Empty /\ Marking' = Marking
    BY DEF Run, RunLoop, RunPack, RunVector, RunSend, RunAsk, RunReceive, RunBye, Destroy,
           DestroyInput, DestroyJoinMaster, DestroyMark, DestroyJoin, DestroyFree, master, Empty, Marking
<1>t. /\ inputQ \in Seq(Label) /\ EndsLast(inputQ) /\ Waiting \in 0..Len(inputQ) /\ Waiting \in Int
      /\ nextImageToSend \in Nat /\ Len(inputQ) \in Nat
    BY ArrivingTypes
<1>1. ASSUME UNCHANGED <<inputQ, nextImageToSend>> PROVE Arriving'
    BY <1>0, <1>1, ArrivingStays
<1>2. ASSUME nextImageToSend' = nextImageToSend, inputQ' = Append(inputQ, End) PROVE Arriving'
    <2>1. Waiting' = Waiting
        BY <1>t, <1>2, EndArrives DEF Waiting
    <2>2. \A i \in 1..Waiting: inputQ'[i] = inputQ[i]
        BY <1>t, <1>2
    <2> QED
        BY <1>0, <1>2, <2>1, <2>2 DEF Arriving
<1>3. CASE RunLoop \/ RunPack \/ RunVector \/ RunSend \/ RunBye \/ DestroyJoinMaster \/ DestroyMark \/ DestroyJoin \/ DestroyFree
    <2>1. UNCHANGED <<inputQ, nextImageToSend>>
        BY <1>3 DEF RunLoop, RunPack, RunVector, RunSend, RunBye, DestroyJoinMaster, DestroyMark, DestroyJoin, DestroyFree, client
    <2> QED
        BY <1>1, <2>1
<1>4. CASE RunAsk \/ DestroyInput
    <2>1. nextImageToSend' = nextImageToSend /\ (inputQ' = inputQ \/ inputQ' = Append(inputQ, End))
        BY <1>4 DEF RunAsk, DestroyInput, client
    <2> QED
        BY <1>1, <1>2, <2>1
<1>5. CASE RunReceive /\ inputQ' # inputQ
    <2>1. /\ runPc = "receive" /\ inputQ' = Append(inputQ, nextImageToSend) /\ nextImageToSend' = nextImageToSend + 1
        BY <1>5 DEF RunReceive
    <2>2. ImagesOf(inputQ) = Len(inputQ)
        BY <2>1 DEF EndInv, MasterEnds, InSession
    <2>3. Waiting' = Waiting + 1 /\ Waiting = Len(inputQ)
        <3>1. nextImageToSend \in Label /\ nextImageToSend # End
            BY <1>t DEF Label, Images, End
        <3> QED
            BY <1>t, <2>1, <2>2, <3>1, ImageArrives DEF Waiting
    <2>4. nextImageToSend' - Waiting' = nextImageToSend - Waiting
        BY <1>t, <2>1, <2>3
    <2>5. ASSUME NEW i \in 1..Waiting' PROVE inputQ'[i] = nextImageToSend' - Waiting' + i - 1
        <3>1. CASE i <= Waiting
            <4>1. i \in 1..Waiting /\ inputQ'[i] = inputQ[i]
                BY <1>t, <2>1, <2>3, <3>1
            <4> QED
                BY <2>4, <4>1 DEF Arriving
        <3>2. CASE i = Waiting + 1
            <4>1. inputQ'[i] = nextImageToSend
                BY <1>t, <2>1, <2>3, <3>2
            <4> QED
                BY <1>t, <2>4, <3>2, <4>1
        <3> QED
            BY <1>t, <2>3, <3>1, <3>2
    <2> QED
        BY <1>0, <2>4, <2>5 DEF Arriving
<1>6. CASE RunReceive /\ inputQ' = inputQ
    <2>1. nextImageToSend' = nextImageToSend
        <3>1. Append(inputQ, nextImageToSend) # inputQ
            <4>1. Len(Append(inputQ, nextImageToSend)) = Len(inputQ) + 1
                BY <1>t
            <4> QED
                BY <1>t, <4>1
        <3> QED
            BY <1>6, <3>1 DEF RunReceive
    <2> QED
        BY <1>1, <1>6, <2>1
<1> QED
    BY <1>3, <1>4, <1>5, <1>6 DEF Run, Destroy

LEMMA ArrivingStep == ASSUME SessionInv, EndInv, Arriving, [Next]_vars PROVE Arriving'
<1>1. ASSUME UNCHANGED <<nextImageToSend, inputQ, image, masterPc, request>> PROVE Arriving'
    BY <1>1, ArrivingStays DEF Marking
<1>2. CASE ClientCloses \/ UNCHANGED vars
    BY <1>1, <1>2 DEF ClientCloses, vars, client, master
<1>3. ASSUME NEW g \in Working, InputCopy(g) \/ Process(g) \/ OutputCopy(g) PROVE Arriving'
    BY <1>1, <1>3 DEF InputCopy, InputTake, InputFill, InputGive, InputMark, Process, ProcessTakeInput, ProcessTakeOutput,
           ProcessGraph, ProcessGive, OutputCopy, OutputTake, OutputTag, OutputVector, OutputGive, OutputMark, client, master
<1> QED
    BY <1>2, <1>3, ArrivingOfMaster, ArrivingOfRun DEF Next

LEMMA ArrivingInit == ASSUME Init PROVE Arriving
<1>1. nextImageToSend = 0 /\ inputQ = <<>> /\ image = End /\ Waiting = 0 /\ Empty \subseteq Nat
    BY EndsEmpty, EngineAssumption DEF Init, Waiting, Empty, Request
<1>2. \A e \in Nat: ~(e < 0 - 0)
    OBVIOUS
<1>3. \A i \in 1..0: FALSE
    OBVIOUS
<1> QED
    BY <1>1, <1>2, <1>3 DEF Arriving

\* What the threads of a device keep of the images and the buffers, together.
ReturnInv == SessionInv /\ BufferInv /\ EndInv /\ CountInv /\ Arriving

\* The images that master leaves in inputQ are none of those it has to serve.
LEMMA NoneIsLeft == ASSUME ReturnInv, Marking PROVE \A i \in DOMAIN inputQ: inputQ[i] \notin Served
<1> SUFFICES ASSUME NEW i \in DOMAIN inputQ, inputQ[i] \in Served PROVE FALSE
    OBVIOUS
<1>1. /\ inputQ \in Seq(Label) /\ EndsLast(inputQ) /\ Waiting \in 0..Len(inputQ) /\ Waiting \in Int
      /\ nextImageToSend \in Nat /\ imageCount \in Nat /\ Empty \subseteq Nat /\ Len(inputQ) \in Nat
    BY ArrivingTypes DEF ReturnInv
<1>2. inputQ[i] \in 0..imageCount - 1 /\ \A e \in Empty: inputQ[i] < e
    BY DEF Served
<1>3. inputQ[i] # End
    BY <1>1, <1>2 DEF End
<1>4. i \in 1..Waiting /\ i \in Int
    <2>1. i <= Waiting /\ i \in 1..Len(inputQ)
        BY <1>1, <1>3 DEF EndsLast, Cut, Waiting
    <2> QED
        BY <1>1, <2>1
<1>5. image # End /\ image \in Empty
    <2>1. Waiting # 0
        BY <1>1, <1>4
    <2> QED
        BY <2>1 DEF ReturnInv, EndInv, MasterEnds, Waiting
<1>6. image = nextImageToSend - Waiting - 1 /\ inputQ[i] = nextImageToSend - Waiting + i - 1
    BY <1>4, <1>5 DEF ReturnInv, Arriving
<1>7. inputQ[i] < image
    BY <1>2, <1>5
<1> QED
    BY <1>1, <1>4, <1>6, <1>7

LEMMA NothingIsLeft == ASSUME ReturnInv PROVE NothingLeaked
<1> SUFFICES ASSUME runPc = "d_free"
             PROVE  /\ Range(InIdle[dying]) = Buffers /\ Range(OutIdle[dying]) = Buffers
                    /\ \A i \in DOMAIN ImageQ[dying]: ImageQ[dying][i] = End
                    /\ \A i \in DOMAIN inputQ: inputQ[i] \notin Served
    BY Zenon DEF NothingLeaked
<1>1. /\ dying \in Devices /\ dying \in Nat
      /\ inPc[dying] = "end" /\ procPc[dying] = "end" /\ outPc[dying] = "end"
    <2>1. dying \in Working /\ Working \subseteq Devices
        BY WorkingDevices DEF ReturnInv, SessionInv, TypeOK, RunTypes
    <2>2. inPc[dying] = "end" /\ procPc[dying] = "end" /\ outPc[dying] = "end"
        BY DEF ReturnInv, EndInv, Joining
    <2> QED
        BY <2>1, <2>2, EngineAssumption DEF Devices
<1>2. /\ inBuf[dying] = Null /\ procIn[dying] = Null /\ procOut[dying] = Null /\ outBuf[dying] = Null
      /\ InBusy[dying] = <<>>
      /\ Somewhere(InIdle[dying], inBuf[dying], InBusy[dying], procIn[dying])
      /\ Somewhere(OutIdle[dying], procOut[dying], OutBusy[dying], outBuf[dying])
    BY <1>1 DEF ReturnInv, BufferInv, Holders, BusyQueues, PoolsWhole
<1>3. PoolState /\ Null \notin Buffers /\ QueueState
    BY PoolStates, QueueStates DEF ReturnInv
<1>4. \A j \in DOMAIN OutBusy[dying]: OutBusy[dying][j] = Null
    <2>1. Flying(dying) = 0 /\ Filled(OutBusy[dying]) \in Nat /\ Held(dying) \in Nat /\ Filled(InBusy[dying]) \in Nat
        BY <1>1, BusyStates DEF ReturnInv, CountInv, CountOf, Held
    <2>2. Filled(OutBusy[dying]) = 0
        BY <2>1 DEF Flying
    <2>3. OutBusy[dying] \in Seq(Buffers \cup {Null})
        BY <1>1, <1>3 DEF PoolState
    <2> QED
        BY <2>2, <2>3 DEF Filled
<1>5. Range(InIdle[dying]) = Buffers
    <2>1. \A i \in DOMAIN InIdle[dying]: InIdle[dying][i] \in Buffers
        BY <1>1, <1>3 DEF PoolState
    <2>2. \A b \in Buffers: \E i \in DOMAIN InIdle[dying]: InIdle[dying][i] = b
        BY <1>2, <1>3 DEF Somewhere
    <2> QED
        BY <2>1, <2>2 DEF Range
<1>6. Range(OutIdle[dying]) = Buffers
    <2>1. \A i \in DOMAIN OutIdle[dying]: OutIdle[dying][i] \in Buffers
        BY <1>1, <1>3 DEF PoolState
    <2>2. \A b \in Buffers: \E i \in DOMAIN OutIdle[dying]: OutIdle[dying][i] = b
        BY <1>2, <1>3, <1>4 DEF Somewhere
    <2> QED
        BY <2>1, <2>2 DEF Range
<1>7. \A i \in DOMAIN ImageQ[dying]: ImageQ[dying][i] = End
    <2>1. Cut(ImageQ[dying], 0)
        BY <1>1 DEF ReturnInv, EndInv, EndsOf, EndsLast
    <2>2. ImageQ[dying] \in Seq(Label)
        BY <1>1, <1>3 DEF QueueState
    <2> QED
        BY <2>1, <2>2 DEF Cut
<1>8. \A i \in DOMAIN inputQ: inputQ[i] \notin Served
    <2>1. Marking
        BY DEF ReturnInv, EndInv, MasterEnds, Joined, Marking
    <2> QED
        BY <2>1, NoneIsLeft
<1> QED
    BY <1>5, <1>6, <1>7, <1>8

LEMMA ReturnInvariant == Init /\ [][Next]_vars => []ReturnInv
<1>1. Init => ReturnInv
    BY SessionInit, BuffersInit, EndsInit, CountInit, ArrivingInit DEF ReturnInv
<1>2. ReturnInv /\ [Next]_vars => ReturnInv'
    BY SessionStep, BuffersStep, EndsStep, CountStep, ArrivingStep DEF ReturnInv
<1> QED
    BY <1>1, <1>2, PTL

\* However the session ended, and with the threads interleaved in any way, the
\* destructor of the engine finds every buffer of a device in the idle queues
\* whose members it releases, that device's ImageQ keeps no image, and inputQ none
\* but those behind an empty file, at which master ends: no thread ends with a
\* buffer in hand or a batch in its queue.
THEOREM NothingIsLeaked == Spec => []NothingLeaked
    BY ReturnInvariant, NothingIsLeft, PTL DEF Spec
------------------------------------------------------------------------------
(* One device.                                                              *)
\* Of the nextImageToSend images that the client has sent, those before Dealt have
\* had their tags put into TagQ, those before Answered have a result, and the
\* results of those before Packed have left outputQ, of those before Received the
\* server.  The image that master has taken last is not dealt, or never.
NotDealt == masterPc = "tag" \/ (Marking /\ image # End)
Dealt == nextImageToSend - Waiting - (IF NotDealt THEN 1 ELSE 0)
Answers == IF outPc[1] = "end" /\ outputQ # <<>> THEN Len(outputQ) - 1 ELSE Len(outputQ)
Answered == Dealt - Tags(1)
Packed == Answered - Answers
Received == Packed - Len(packet)

\* Numbers wait in order everywhere.
Tagged == \A p \in 1..Tags(1): TagQ[1][p] = Answered + p - 1
Queued == \A i \in 1..Answers: outputQ[i][1] = Packed + i - 1
Delivered ==
    /\ \A i \in DOMAIN packet: packet[i][1] = Received + i - 1
    /\ Received >= 0 /\ {r[1] : r \in results} = 0..Received - 1

\* The end of the answers comes last, and stops run.
EndOfAnswers ==
    /\ \A i \in DOMAIN outputQ: outputQ[i][1] = End <=> outPc[1] = "end" /\ i = Len(outputQ)
    /\ outPc[1] = "end" /\ runPc \notin {"sendLast", "bye"} => outputQ # <<>>
    /\ runPc \in {"sendLast", "bye"} => outPc[1] = "end" /\ outputQ = <<>>
    /\ runPc = "bye" => packet = <<>>

OneDevice == Tagged /\ Queued /\ Delivered /\ EndOfAnswers
OneDeviceInv == GPUs = 1 /\ InSession => OneDevice

\* What the steps of the output thread, and those of run, do to these numbers.
OutputMoves ==
    /\ Packed' = Packed
    /\ \/ Answered' = Answered /\ (OutputTag(1) => Head(TagQ[1]) = End)
       \/ OutputTag(1) /\ Head(TagQ[1]) # End /\ Head(TagQ[1]) = Answered /\ Answered' = Answered + 1
RunMoves ==
    /\ Answered' = Answered
    /\ \/ Packed' = Packed /\ (outputQ' # outputQ => RunPack /\ Head(outputQ)[1] = End)
       \/ RunPack /\ Head(outputQ)[1] # End /\ Head(outputQ)[1] = Packed /\ Packed' = Packed + 1 /\ Packed < Answered

LEMMA OneTypes ==
    ASSUME ReturnInv, GPUs = 1
    PROVE  /\ Working = {1} /\ 1 \in Devices /\ gpu = 1 /\ scan = 1
           /\ inputQ \in Seq(Label) /\ TagQ \in [Devices -> Seq(Label)] /\ TagQ[1] \in Seq(Label)
           /\ outputQ \in Seq(Result) /\ packet \in Seq(Result) /\ results \subseteq Result
           /\ EndsLast(inputQ) /\ EndsLast(TagQ[1]) /\ Waiting \in 0..Len(inputQ) /\ Tags(1) \in 0..Len(TagQ[1])
           /\ nextImageToSend \in Nat /\ DOMAIN outPc = Devices
           /\ Dealt \in Int /\ Answers \in 0..Len(outputQ)
<1>1. Working = {1} /\ 1 \in Devices /\ gpu = 1 /\ scan = 1
    <2>1. Working = {1}
        BY DEF Working
    <2> QED
        BY <2>1, WorkingDevices DEF ReturnInv, SessionInv, TypeOK, MasterTypes
<1>2. QueueState
    BY QueueStates DEF ReturnInv
<1>3. outputQ \in Seq(Result) /\ packet \in Seq(Result) /\ results \subseteq Result
    BY DEF ReturnInv, SessionInv, TypeOK, QueueTypes, RunTypes, SessionTypes
<1>4. EndsLast(inputQ) /\ EndsLast(TagQ[1])
    BY <1>1 DEF ReturnInv, EndInv, MasterEnds, EndsOf
<1>5. Waiting \in 0..Len(inputQ) /\ Tags(1) \in 0..Len(TagQ[1])
    BY <1>4 DEF EndsLast, Cut, Waiting, Tags
<1>6. inputQ \in Seq(Label) /\ TagQ[1] \in Seq(Label) /\ TagQ \in [Devices -> Seq(Label)] /\ nextImageToSend \in Nat /\ DOMAIN outPc = Devices
    BY <1>1, <1>2 DEF QueueState
<1>7. Dealt \in Int
    <2>1. Waiting \in Int
        BY <1>5, <1>6
    <2> QED
        BY <1>6, <2>1 DEF Dealt
<1>8. Answers \in 0..Len(outputQ)
    <2>1. Len(outputQ) \in Nat /\ (outputQ # <<>> => Len(outputQ) > 0)
        BY <1>3
    <2> QED
        BY <2>1 DEF Answers
<1> QED
    BY <1>1, <1>3, <1>4, <1>5, <1>6, <1>7, <1>8

\* A part of the way that a step does not touch.
LEMMA DealtStays ==
    ASSUME UNCHANGED <<nextImageToSend, inputQ, image, masterPc>>
    PROVE  Dealt' = Dealt
    BY DEF Dealt, NotDealt, Marking, Waiting

LEMMA TaggedStays ==
    ASSUME Tagged, TagQ'[1] = TagQ[1], Dealt' = Dealt
    PROVE  Tagged' /\ Answered' = Answered
<1>1. Tags(1)' = Tags(1)
    BY DEF Tags
<1>2. Answered' = Answered
    BY <1>1 DEF Answered
<1> QED
    BY <1>1, <1>2 DEF Tagged

LEMMA QueuedStays ==
    ASSUME Queued, outputQ' = outputQ, outPc'[1] = "end" <=> outPc[1] = "end", Answered' = Answered
    PROVE  Queued' /\ Packed' = Packed
<1>1. Answers' = Answers
    BY DEF Answers
<1>2. Packed' = Packed
    BY <1>1 DEF Packed
<1> QED
    BY <1>1, <1>2 DEF Queued

LEMMA DeliveredStays ==
    ASSUME Delivered, UNCHANGED <<packet, results>>, Packed' = Packed
    PROVE  Delivered'
<1>1. Received' = Received
    BY DEF Received
<1> QED
    BY <1>1 DEF Delivered

LEMMA EndOfAnswersStays ==
    ASSUME EndOfAnswers, outputQ' = outputQ, outPc'[1] = "end" <=> outPc[1] = "end",
           \/ UNCHANGED <<runPc, packet>>
           \/ runPc \notin {"sendLast", "bye"} /\ runPc' \notin {"sendLast", "bye"}
    PROVE  EndOfAnswers'
    BY DEF EndOfAnswers

LEMMA OneDeviceOfMaster ==
    ASSUME ReturnInv, GPUs = 1, OneDevice, Master
    PROVE  OneDevice' /\ Answered' = Answered /\ Packed' = Packed
<1>0. UNCHANGED <<client, run, outputQ, output>>
    BY DEF Master, MasterTake, MasterTag, MasterImage, MasterScan, MasterMark
<1>a. UNCHANGED <<nextImageToSend, packet, results, outPc, runPc>>
    BY <1>0 DEF client, run, output
<1>b. ASSUME Answered' = Answered, Tagged' PROVE OneDevice' /\ Answered' = Answered /\ Packed' = Packed
    BY <1>0, <1>a, <1>b, QueuedStays, DeliveredStays, EndOfAnswersStays DEF OneDevice
<1>t. /\ gpu = 1 /\ scan = 1 /\ 1 \in Devices /\ inputQ \in Seq(Label) /\ TagQ[1] \in Seq(Label) /\ EndsLast(inputQ) /\ EndsLast(TagQ[1])
      /\ Waiting \in 0..Len(inputQ) /\ Tags(1) \in 0..Len(TagQ[1]) /\ nextImageToSend \in Nat /\ Dealt \in Int
      /\ TagQ \in [Devices -> Seq(Label)] /\ Waiting \in Int /\ Tags(1) \in Int /\ End \in Label
    BY OneTypes, QueueStates DEF ReturnInv
<1>1. CASE MasterTake
    <2>1. /\ masterPc = "take" /\ inputQ # <<>> /\ inputQ' = Tail(inputQ) /\ image' = Head(inputQ) /\ TagQ' = TagQ
          /\ masterPc' = IF image' < 0 \/ image' \in Empty THEN "markTag" ELSE "tag"
        BY <1>1 DEF MasterTake, deal
    <2>2. /\ Waiting' = IF image' = End THEN 0 ELSE Waiting - 1
          /\ image' = End <=> Waiting = 0
          /\ image' = End => image' < 0
        <3>1. /\ ImagesOf(Tail(inputQ)) = IF Head(inputQ) = End THEN 0 ELSE ImagesOf(inputQ) - 1
              /\ Head(inputQ) = End <=> ImagesOf(inputQ) = 0
            BY <1>t, <2>1, HeadLeaves
        <3> QED
            BY <2>1, <3>1 DEF Waiting, End
    <2>3. ~NotDealt
        BY <2>1 DEF NotDealt, Marking
    <2>4. Dealt' = Dealt
        <3>1. CASE image' = End
            <4>1. Waiting' = 0 /\ Waiting = 0 /\ ~NotDealt'
                BY <2>1, <2>2, <3>1 DEF NotDealt, Marking
            <4> QED
                BY <1>a, <2>3, <4>1 DEF Dealt
        <3>2. CASE image' # End
            <4>1. Waiting' = Waiting - 1 /\ NotDealt'
                BY <2>1, <2>2, <3>2 DEF NotDealt, Marking
            <4> QED
                BY <1>t, <1>a, <2>3, <4>1 DEF Dealt
        <3> QED
            BY <3>1, <3>2
    <2> QED
        BY <1>b, <2>1, <2>4, TaggedStays DEF OneDevice
<1>2. CASE MasterTag
    <2>1. /\ masterPc = "tag" /\ masterPc' = "image" /\ TagQ'[1] = Append(TagQ[1], image) /\ UNCHANGED <<inputQ, image>>
          /\ image # End /\ image \in Label /\ ImagesOf(TagQ[1]) = Len(TagQ[1])
        BY <1>t, <1>2, QueueStates DEF MasterTag, Put, ReturnInv, EndInv, MasterEnds, EndsOf, Marking, QueueState
    <2>2. Waiting' = Waiting /\ Dealt' = Dealt + 1 /\ Dealt = nextImageToSend - Waiting - 1
        BY <1>a, <1>t, <2>1 DEF Waiting, Dealt, NotDealt, Marking
    <2>3. Tags(1)' = Tags(1) + 1 /\ Tags(1) = Len(TagQ[1])
        BY <1>t, <2>1, ImageArrives DEF Tags
    <2>4. Answered' = Answered
        BY <1>t, <2>2, <2>3 DEF Answered
    <2>6. ASSUME NEW p \in 1..Tags(1)' PROVE TagQ'[1][p] = Answered' + p - 1
        <3>1. CASE p <= Tags(1)
            <4>1. p \in 1..Tags(1) /\ TagQ'[1][p] = TagQ[1][p]
                BY <1>t, <2>1, <2>3, <3>1
            <4> QED
                BY <2>4, <4>1 DEF OneDevice, Tagged
        <3>2. CASE p = Tags(1) + 1
            <4>1. TagQ'[1][p] = image
                BY <1>t, <2>1, <2>3, <3>2
            <4>2. image = Dealt
                BY <2>1, <2>2 DEF ReturnInv, Arriving
            <4> QED
                BY <1>t, <2>4, <3>2, <4>1, <4>2 DEF Answered
        <3> QED
            BY <1>t, <2>3, <3>1, <3>2
    <2>7. Tagged'
        BY <2>6 DEF Tagged
    <2> QED
        BY <1>b, <2>4, <2>7
<1>3. CASE MasterImage \/ MasterScan
    <2>1. /\ UNCHANGED <<inputQ, image, TagQ>> /\ masterPc \in {"image", "scan"} /\ masterPc' \in {"scan", "take"}
        BY <1>3 DEF MasterImage, MasterScan, deal
    <2>2. Dealt' = Dealt
        BY <1>a, <2>1 DEF Dealt, NotDealt, Marking, Waiting
    <2> QED
        BY <1>b, <2>1, <2>2, TaggedStays DEF OneDevice
<1>4. CASE MasterMark
    <2>1. /\ UNCHANGED <<inputQ, image>> /\ masterPc \in {"markTag", "markImage"} /\ masterPc' \in {"markTag", "markImage", "end"}
          /\ TagQ'[1] = TagQ[1] \/ TagQ'[1] = Append(TagQ[1], End)
        BY <1>t, <1>4 DEF MasterMark, Put
    <2>2. Dealt' = Dealt
        BY <1>a, <2>1 DEF Dealt, NotDealt, Marking, Waiting
    <2>3. CASE TagQ'[1] = TagQ[1]
        BY <1>b, <2>2, <2>3, TaggedStays DEF OneDevice
    <2>4. CASE TagQ'[1] = Append(TagQ[1], End)
        <3>1. Tags(1)' = Tags(1)
            BY <1>t, <2>4, EndArrives DEF Tags
        <3>2. Answered' = Answered
            BY <2>2, <3>1 DEF Answered
        <3>3. \A p \in 1..Tags(1): TagQ'[1][p] = TagQ[1][p]
            BY <1>t, <2>4
        <3>4. Tagged'
            BY <3>1, <3>2, <3>3 DEF OneDevice, Tagged
        <3> QED
            BY <1>b, <2>2, <3>2, <3>4
    <2> QED
        BY <2>1, <2>3, <2>4
<1> QED
    BY <1>1, <1>2, <1>3, <1>4 DEF Master

LEMMA OneDeviceOfInput ==
    ASSUME OneDevice, NEW g \in Devices, InputCopy(g) \/ Process(g)
    PROVE  OneDevice' /\ Answered' = Answered /\ Packed' = Packed
<1>1. UNCHANGED <<client, run, inputQ, outputQ, master, TagQ, output>>
    BY DEF InputCopy, InputTake, InputFill, InputGive, InputMark,
           Process, ProcessTakeInput, ProcessTakeOutput, ProcessGraph, ProcessGive, deal
<1>2. UNCHANGED <<nextImageToSend, inputQ, image, masterPc, TagQ, outputQ, outPc, packet, results, runPc>>
    BY <1>1 DEF client, run, master, output
<1> QED
    BY <1>2, DealtStays, TaggedStays, QueuedStays, DeliveredStays, EndOfAnswersStays DEF OneDevice

LEMMA OneDeviceOfOutput ==
    ASSUME ReturnInv, GPUs = 1, OneDevice, OutputCopy(1)
    PROVE  OneDevice' /\ OutputMoves
<1>0. UNCHANGED <<client, run, inputQ, master>>
    BY DEF OutputCopy, OutputTake, OutputTag, OutputVector, OutputGive, OutputMark
<1>a. UNCHANGED <<nextImageToSend, image, masterPc, packet, results, runPc>>
    BY <1>0 DEF client, run, master
<1>t. /\ 1 \in Devices /\ TagQ \in [Devices -> Seq(Label)] /\ TagQ[1] \in Seq(Label) /\ EndsLast(TagQ[1])
      /\ outputQ \in Seq(Result) /\ DOMAIN outPc = Devices
      /\ Tags(1) \in 0..Len(TagQ[1]) /\ Dealt \in Int /\ Tags(1) \in Int
      /\ Answers \in 0..Len(outputQ) /\ Answers \in Int
    BY OneTypes
<1>b. Dealt' = Dealt
    BY <1>0, <1>a, DealtStays
<1>1. CASE OutputTake(1) \/ OutputVector(1) \/ OutputGive(1)
    <2>1. UNCHANGED <<TagQ, outputQ>> /\ outPc[1] # "end" /\ outPc'[1] # "end" /\ ~OutputTag(1)
        BY <1>t, <1>1 DEF OutputTake, OutputVector, OutputGive, OutputTag, Goto, deal
    <2> QED
        BY <1>a, <1>b, <2>1, TaggedStays, QueuedStays, DeliveredStays, EndOfAnswersStays DEF OneDevice, OutputMoves
<1>2. CASE OutputTag(1)
    <2>1. /\ outPc[1] = "tag" /\ TagQ[1] # <<>> /\ TagQ'[1] = Tail(TagQ[1]) /\ Head(TagQ[1]) \in Label
          /\ Head(TagQ[1]) = TagQ[1][1] /\ (Head(TagQ[1]) < 0 <=> Head(TagQ[1]) = End)
        <3>1. outPc[1] = "tag" /\ TagQ[1] # <<>> /\ TagQ'[1] = Tail(TagQ[1])
            BY <1>t, <1>2 DEF OutputTag, Take
        <3>2. Head(TagQ[1]) \in Label /\ Head(TagQ[1]) = TagQ[1][1]
            BY <1>t, <3>1
        <3> QED
            BY <3>1, <3>2, EndIsNegative
    <2>2. /\ Tags(1)' = IF Head(TagQ[1]) = End THEN 0 ELSE Tags(1) - 1
          /\ Head(TagQ[1]) = End <=> Tags(1) = 0
        BY <1>t, <2>1, HeadLeaves DEF Tags
    <2>3. CASE Head(TagQ[1]) = End
        <3>1. outputQ' = outputQ /\ outPc'[1] # "end" /\ Tags(1)' = 0 /\ Tags(1) = 0
            BY <1>t, <1>2, <2>1, <2>2, <2>3 DEF OutputTag, Goto
        <3>2. Answered' = Answered
            BY <1>b, <3>1 DEF Answered
        <3>3. Tagged'
            BY <3>1 DEF Tagged
        <3> QED
            BY <1>a, <1>b, <2>1, <2>3, <3>1, <3>2, <3>3, QueuedStays, DeliveredStays, EndOfAnswersStays DEF OneDevice, OutputMoves
    <2>4. CASE Head(TagQ[1]) # End
        <3>1. PICK x : outputQ' = Append(outputQ, <<Head(TagQ[1]), x>>)
            BY <1>2, <2>1, <2>4 DEF OutputTag
        <3>2. outPc'[1] # "end" /\ Tags(1)' = Tags(1) - 1 /\ Tags(1) > 0
            <4>1. outPc'[1] # "end"
                BY <1>t, <1>2, <2>1, <2>4 DEF OutputTag, Goto
            <4> QED
                BY <1>t, <2>2, <2>4, <4>1
        <3>3. Answered' = Answered + 1 /\ Answered \in Int
            BY <1>t, <1>b, <3>2 DEF Answered
        <3>4. Head(TagQ[1]) = Answered
            <4>1. \A p \in 1..Tags(1): TagQ[1][p] = Answered + p - 1
                BY DEF OneDevice, Tagged
            <4> QED
                BY <1>t, <2>1, <3>2, <3>3, <4>1
        <3>5. Tagged'
            <4> SUFFICES ASSUME NEW p \in 1..Tags(1)' PROVE TagQ'[1][p] = Answered' + p - 1
                BY DEF Tagged
            <4>1. p \in Int /\ p + 1 \in 1..Tags(1) /\ p + 1 \in 1..Len(TagQ[1])
                BY <1>t, <3>2
            <4>2. TagQ'[1][p] = TagQ[1][p + 1]
                BY <1>t, <2>1, <4>1
            <4>3. TagQ[1][p + 1] = Answered + (p + 1) - 1
                BY <4>1 DEF OneDevice, Tagged
            <4> QED
                BY <3>3, <4>1, <4>2, <4>3
        <3>6. Len(outputQ') = Len(outputQ) + 1 /\ Answers = Len(outputQ) /\ Answers' = Len(outputQ) + 1
            <4>1. Len(outputQ') = Len(outputQ) + 1
                BY <1>t, <3>1
            <4> QED
                BY <2>1, <3>2, <4>1 DEF Answers
        <3>7. Packed' = Packed /\ Packed \in Int /\ Answered = Packed + Len(outputQ)
            <4>1. Len(outputQ) \in Int
                BY <1>t
            <4> QED
                BY <3>3, <3>6, <4>1 DEF Packed
        <3>8. /\ \A i \in 1..Len(outputQ): outputQ'[i] = outputQ[i]
              /\ outputQ'[Len(outputQ) + 1][1] = Answered
              /\ DOMAIN outputQ' = 1..Len(outputQ) + 1 /\ DOMAIN outputQ = 1..Len(outputQ) /\ Len(outputQ) \in Nat
            <4>1. \A i \in 1..Len(outputQ): outputQ'[i] = outputQ[i]
                BY <1>t, <3>1
            <4>2. outputQ'[Len(outputQ) + 1] = <<Head(TagQ[1]), x>>
                BY <1>t, <3>1
            <4>3. DOMAIN outputQ' = 1..Len(outputQ) + 1 /\ DOMAIN outputQ = 1..Len(outputQ) /\ Len(outputQ) \in Nat
                BY <1>t, <3>1
            <4> QED
                BY <3>4, <4>1, <4>2, <4>3
        <3>9. Queued'
            <4> SUFFICES ASSUME NEW i \in 1..Answers' PROVE outputQ'[i][1] = Packed' + i - 1
                BY DEF Queued
            <4>1. CASE i \in 1..Len(outputQ)
                BY <3>6, <3>7, <3>8, <4>1 DEF OneDevice, Queued
            <4>2. CASE i = Len(outputQ) + 1
                BY <3>7, <3>8, <4>2
            <4> QED
                BY <3>6, <3>8, <4>1, <4>2
        <3>10. EndOfAnswers'
            <4>1. \A i \in DOMAIN outputQ': outputQ'[i][1] # End
                <5> SUFFICES ASSUME NEW i \in DOMAIN outputQ' PROVE outputQ'[i][1] # End
                    OBVIOUS
                <5>1. CASE i \in 1..Len(outputQ)
                    BY <2>1, <3>8, <5>1 DEF OneDevice, EndOfAnswers
                <5>2. CASE i = Len(outputQ) + 1
                    BY <2>4, <3>4, <3>8, <5>2
                <5> QED
                    BY <3>8, <5>1, <5>2
            <4>2. runPc' \notin {"sendLast", "bye"}
                BY <1>a, <2>1 DEF OneDevice, EndOfAnswers
            <4> QED
                BY <3>2, <4>1, <4>2 DEF EndOfAnswers
        <3> QED
            BY <1>2, <1>a, <1>b, <2>4, <3>3, <3>4, <3>5, <3>7, <3>9, <3>10, DeliveredStays DEF OneDevice, OutputMoves
    <2> QED
        BY <2>3, <2>4
<1>3. CASE OutputMark(1)
    <2>1. /\ outPc[1] = "mark" /\ outPc'[1] = "end" /\ outputQ' = Append(outputQ, <<End, End>>) /\ TagQ' = TagQ
        BY <1>t, <1>3 DEF OutputMark, Goto, deal
    <2>2. /\ \A i \in 1..Len(outputQ): outputQ'[i] = outputQ[i]
          /\ outputQ'[Len(outputQ) + 1] = <<End, End>> /\ outputQ' # <<>> /\ Len(outputQ') = Len(outputQ) + 1
          /\ DOMAIN outputQ' = 1..Len(outputQ) + 1 /\ DOMAIN outputQ = 1..Len(outputQ) /\ Len(outputQ) \in Nat
        BY <1>t, <2>1
    <2>3. Answered' = Answered /\ Tagged'
        BY <1>b, <2>1, TaggedStays DEF OneDevice
    <2>4. Answers = Len(outputQ) /\ Answers' = Len(outputQ)
        <3>1. (Len(outputQ) + 1) - 1 = Len(outputQ)
            BY <2>2
        <3>2. Answers = Len(outputQ)
            BY <2>1 DEF Answers
        <3>3. Answers' = Len(outputQ') - 1
            BY <2>1, <2>2 DEF Answers
        <3> QED
            BY <2>2, <3>1, <3>2, <3>3
    <2>5. Packed' = Packed /\ ~OutputTag(1)
        BY <2>1, <2>3, <2>4 DEF Packed, OutputTag
    <2>6. Queued'
        BY <2>2, <2>4, <2>5 DEF OneDevice, Queued
    <2>7. EndOfAnswers'
        <3>1. \A i \in DOMAIN outputQ': outputQ'[i][1] = End <=> i = Len(outputQ')
            <4> SUFFICES ASSUME NEW i \in DOMAIN outputQ' PROVE outputQ'[i][1] = End <=> i = Len(outputQ')
                OBVIOUS
            <4>1. CASE i \in 1..Len(outputQ)
                <5>1. outputQ'[i][1] # End
                    BY <2>1, <2>2, <4>1 DEF OneDevice, EndOfAnswers
                <5> QED
                    BY <2>2, <4>1, <5>1
            <4>2. CASE i = Len(outputQ) + 1
                BY <2>2, <4>2
            <4> QED
                BY <2>2, <4>1, <4>2
        <3>2. runPc' \notin {"sendLast", "bye"}
            BY <1>a, <2>1 DEF OneDevice, EndOfAnswers
        <3> QED
            BY <2>1, <2>2, <3>1, <3>2 DEF EndOfAnswers
    <2> QED
        BY <1>a, <1>b, <2>3, <2>5, <2>6, <2>7, DeliveredStays DEF OneDevice, OutputMoves
<1> QED
    BY <1>1, <1>2, <1>3 DEF OutputCopy

LEMMA OneDeviceOfRun ==
    ASSUME ReturnInv, GPUs = 1, InSession', OneDevice, Run \/ ClientCloses
    PROVE  OneDevice' /\ RunMoves
<1>0. /\ UNCHANGED <<image, masterPc, TagQ, outPc>>
    BY DEF Run, RunLoop, RunPack, RunVector, RunSend, RunAsk, RunReceive, RunBye, ClientCloses, InSession, Destroy,
           DestroyInput, DestroyJoinMaster, DestroyMark, DestroyJoin, DestroyFree, master, deal, output
<1>t. /\ inputQ \in Seq(Label) /\ EndsLast(inputQ) /\ Waiting \in 0..Len(inputQ) /\ Waiting \in Int /\ nextImageToSend \in Nat
      /\ outputQ \in Seq(Result) /\ packet \in Seq(Result) /\ results \subseteq Result
      /\ Answers \in 0..Len(outputQ) /\ Answers \in Int /\ Dealt \in Int /\ Tags(1) \in Int /\ Len(packet) \in Nat
    BY OneTypes
<1>n. Packed \in Int /\ Received \in Int
    BY <1>t DEF Packed, Received, Answered
<1>1. CASE RunLoop \/ ClientCloses
    <2>1. UNCHANGED <<nextImageToSend, inputQ, outputQ, packet, results>>
          /\ \/ runPc' = runPc
             \/ runPc = "loop" /\ runPc' \in {"pack", "ask"}
        BY <1>1 DEF RunLoop, ClientCloses, client, run
    <2> QED
        BY <1>0, <2>1, DealtStays, TaggedStays, QueuedStays, DeliveredStays, EndOfAnswersStays DEF OneDevice, RunMoves
<1>2. CASE RunPack
    <2>1. /\ runPc = "pack" /\ outputQ # <<>> /\ outputQ' = Tail(outputQ) /\ UNCHANGED <<nextImageToSend, inputQ, results>>
          /\ Head(outputQ)[1] < 0 => runPc' = "sendLast" /\ packet' = packet
          /\ ~(Head(outputQ)[1] < 0) => packet' = Append(packet, Head(outputQ)) /\ runPc' \in {"vector", "pack", "send"}
        BY <1>2 DEF RunPack, client
    <2>2. /\ Head(outputQ) = outputQ[1] /\ outputQ[1] \in Result /\ Len(outputQ) \in Nat /\ Len(outputQ) >= 1
          /\ Len(outputQ') = Len(outputQ) - 1 /\ DOMAIN outputQ' = 1..Len(outputQ) - 1 /\ DOMAIN outputQ = 1..Len(outputQ)
          /\ \A i \in 1..Len(outputQ) - 1: outputQ'[i] = outputQ[i + 1]
          /\ outputQ' = <<>> <=> Len(outputQ) = 1
        <3>1. outputQ' \in Seq(Result) /\ Len(outputQ) \in Nat /\ Len(outputQ) >= 1 /\ Len(outputQ') = Len(outputQ) - 1
            BY <1>t, <2>1
        <3>2. outputQ' = <<>> <=> Len(outputQ) = 1
            <4>1. \A r \in Seq(Result): r # <<>> => Len(r) \in Nat \ {0}
                OBVIOUS
            <4> QED
                BY <3>1, <4>1
        <3> QED
            BY <1>t, <2>1, <3>1, <3>2
    <2>3. outputQ[1][1] < 0 <=> outputQ[1][1] = End
        <3>1. outputQ[1][1] \in Label
            BY <2>2 DEF Result
        <3> QED
            BY <3>1, EndIsNegative
    <2>a. Tagged' /\ Answered' = Answered
        BY <1>0, <2>1, DealtStays, TaggedStays DEF OneDevice
    <2>e. \A i \in DOMAIN outputQ: outputQ[i][1] = End <=> outPc[1] = "end" /\ i = Len(outputQ)
        BY DEF OneDevice, EndOfAnswers
    <2>4. CASE outputQ[1][1] = End
        <3>1. outPc[1] = "end" /\ Len(outputQ) = 1 /\ outputQ' = <<>> /\ runPc' = "sendLast" /\ packet' = packet
            BY <2>1, <2>2, <2>3, <2>4, <2>e
        <3>2. Answers = 0 /\ Answers' = 0
            <4>1. Answers = Len(outputQ) - 1
                BY <2>1, <3>1 DEF Answers
            <4>2. Answers' = Len(outputQ')
                BY <3>1 DEF Answers
            <4> QED
                BY <2>2, <3>1, <4>1, <4>2
        <3>3. Packed' = Packed
            BY <2>a, <3>2 DEF Packed
        <3>4. Queued'
            BY <3>2 DEF Queued
        <3>5. EndOfAnswers'
            BY <1>0, <3>1 DEF EndOfAnswers
        <3> QED
            BY <1>2, <2>1, <2>2, <2>4, <2>a, <3>1, <3>3, <3>4, <3>5, DeliveredStays DEF OneDevice, RunMoves
    <2>5. CASE outputQ[1][1] # End
        <3>1. packet' = Append(packet, outputQ[1]) /\ runPc' \in {"vector", "pack", "send"}
            BY <2>1, <2>2, <2>3, <2>5
        <3>2. outPc[1] = "end" => Len(outputQ) > 1
            BY <2>2, <2>5, <2>e
        <3>3. Answers' = Answers - 1 /\ Answers >= 1
            <4>1. CASE outPc[1] = "end"
                <5>1. Answers = Len(outputQ) - 1 /\ Answers' = Len(outputQ') - 1
                    <6>1. outputQ' # <<>> /\ outPc'[1] = "end"
                        BY <1>0, <2>2, <3>2, <4>1
                    <6> QED
                        BY <2>1, <4>1, <6>1 DEF Answers
                <5> QED
                    BY <2>2, <3>2, <4>1, <5>1
            <4>2. CASE outPc[1] # "end"
                <5>1. Answers = Len(outputQ) /\ Answers' = Len(outputQ')
                    BY <1>0, <4>2 DEF Answers
                <5> QED
                    BY <2>2, <5>1
            <4> QED
                BY <4>1, <4>2
        <3>4. Packed' = Packed + 1
            <4>1. Answered \in Int
                BY <1>t DEF Answered
            <4> QED
                BY <1>t, <2>a, <3>3, <4>1 DEF Packed
        <3>5. Queued'
            <4> SUFFICES ASSUME NEW i \in 1..Answers' PROVE outputQ'[i][1] = Packed' + i - 1
                BY DEF Queued
            <4>1. i \in Int /\ i + 1 \in 1..Answers /\ i \in 1..Len(outputQ) - 1
                BY <1>t, <2>2, <3>3
            <4>2. outputQ'[i] = outputQ[i + 1]
                BY <2>2, <4>1
            <4>3. outputQ[i + 1][1] = Packed + (i + 1) - 1
                BY <4>1 DEF OneDevice, Queued
            <4> QED
                BY <1>n, <3>4, <4>1, <4>2, <4>3
        <3>6. /\ \A i \in 1..Len(packet): packet'[i] = packet[i]
              /\ packet'[Len(packet) + 1] = outputQ[1] /\ Len(packet') = Len(packet) + 1
              /\ DOMAIN packet' = 1..Len(packet) + 1 /\ DOMAIN packet = 1..Len(packet)
            BY <1>t, <2>2, <3>1
        <3>7. Received' = Received
            BY <1>t, <1>n, <3>4, <3>6 DEF Received
        <3>8. outputQ[1][1] = Packed
            <4>1. 1 \in 1..Answers
                BY <1>t, <3>3
            <4>2. outputQ[1][1] = Packed + 1 - 1
                BY <4>1 DEF OneDevice, Queued
            <4> QED
                BY <1>n, <4>2
        <3>9. Delivered'
            <4>1. ASSUME NEW i \in DOMAIN packet' PROVE packet'[i][1] = Received' + i - 1
                <5>1. CASE i \in 1..Len(packet)
                    BY <3>6, <3>7, <5>1 DEF OneDevice, Delivered
                <5>2. CASE i = Len(packet) + 1
                    <6>1. Packed = Received + Len(packet)
                        BY <1>t, <1>n DEF Received
                    <6>2. packet'[i][1] = Packed
                        BY <3>6, <3>8, <5>2
                    <6> QED
                        BY <1>t, <1>n, <3>7, <5>2, <6>1, <6>2
                <5> QED
                    BY <1>t, <3>6, <5>1, <5>2
            <4> QED
                BY <2>1, <3>7, <4>1 DEF OneDevice, Delivered
        <3>10. EndOfAnswers'
            <4>1. ASSUME NEW i \in DOMAIN outputQ' PROVE outputQ'[i][1] = End <=> outPc'[1] = "end" /\ i = Len(outputQ')
                <5>1. i \in 1..Len(outputQ) - 1 /\ i \in Int /\ i + 1 \in DOMAIN outputQ
                    BY <2>2
                <5>2. outputQ'[i] = outputQ[i + 1] /\ (i + 1 = Len(outputQ) <=> i = Len(outputQ'))
                    BY <2>2, <5>1
                <5>3. outputQ[i + 1][1] = End <=> outPc[1] = "end" /\ i + 1 = Len(outputQ)
                    BY <2>e, <5>1
                <5> QED
                    BY <1>0, <5>2, <5>3
            <4>2. outPc'[1] = "end" => outputQ' # <<>>
                BY <1>0, <2>2, <3>2
            <4> QED
                BY <3>1, <4>1, <4>2 DEF EndOfAnswers
        <3>11. Packed < Answered
            BY <1>t, <1>n, <2>a, <3>3 DEF Packed, Answered
        <3> QED
            BY <1>2, <2>2, <2>5, <2>a, <3>4, <3>5, <3>8, <3>9, <3>10, <3>11 DEF OneDevice, RunMoves
    <2> QED
        BY <2>4, <2>5
<1>3. CASE RunVector
    <2>1. /\ UNCHANGED <<nextImageToSend, inputQ, outputQ, results>> /\ runPc = "vector" /\ runPc' \in {"pack", "send"}
          /\ packet' = [packet EXCEPT ![Len(packet)][2] = Head(vectorQ)]
        BY <1>3 DEF RunVector, client
    <2>2. Tagged' /\ Queued' /\ Answered' = Answered /\ Packed' = Packed /\ EndOfAnswers'
        BY <1>0, <2>1, DealtStays, TaggedStays, QueuedStays, EndOfAnswersStays DEF OneDevice
    <2>3. DOMAIN packet' = DOMAIN packet /\ Len(packet') = Len(packet)
        <3>1. packet' \in Seq(Result)
            <4>1. (ReturnInv)'
                BY <1>3, SessionStep, BuffersStep, EndsStep, CountStep, ArrivingStep DEF ReturnInv, Next, Run
            <4> QED
                BY <4>1 DEF ReturnInv, SessionInv, TypeOK, RunTypes
        <3>2. DOMAIN packet' = DOMAIN packet
            BY <2>1
        <3> QED
            BY <1>t, <3>1, <3>2
    <2>4. \A i \in DOMAIN packet: packet'[i][1] = packet[i][1]
        <3> SUFFICES ASSUME NEW i \in DOMAIN packet PROVE packet'[i][1] = packet[i][1]
            OBVIOUS
        <3>1. packet[i] \in Label \X Label
            BY <1>t DEF Result
        <3> QED
            BY <2>1, <3>1
    <2>5. Received' = Received
        BY <2>2, <2>3 DEF Received
    <2>6. Delivered'
        BY <2>1, <2>3, <2>4, <2>5 DEF OneDevice, Delivered
    <2> QED
        BY <2>1, <2>2, <2>6 DEF OneDevice, RunMoves
<1>4. CASE RunSend
    <2>1. /\ UNCHANGED <<nextImageToSend, inputQ, outputQ>> /\ packet' = <<>>
          /\ results' = results \cup {packet[i] : i \in DOMAIN packet}
          /\ \/ runPc = "sendLast" /\ runPc' = "bye"
             \/ runPc = "send" /\ runPc' \in {"pack", "ask"}
        <3>1. runPc' # "d_input"
            BY DEF InSession
        <3>2. ~(packet # <<>> /\ ~connected)
            BY <1>4, <3>1 DEF RunSend
        <3>3. /\ UNCHANGED <<nextImageToSend, inputQ, outputQ>> /\ packet' = <<>>
              /\ results' = results \cup {packet[i] : i \in DOMAIN packet}
            BY <1>4, <3>2 DEF RunSend
        <3>4. runPc \in {"send", "sendLast"} /\ runPc' = IF runPc = "sendLast" THEN "bye" ELSE IF available' > 0 THEN "pack" ELSE "ask"
            BY <1>4, <3>2 DEF RunSend
        <3> QED
            BY <3>3, <3>4
    <2>2. Tagged' /\ Queued' /\ Answered' = Answered /\ Packed' = Packed
        BY <1>0, <2>1, DealtStays, TaggedStays, QueuedStays DEF OneDevice
    <2>3. EndOfAnswers'
        BY <1>0, <2>1 DEF OneDevice, EndOfAnswers
    <2>4. Received' = Packed /\ Packed = Received + Len(packet)
        <3>1. Received' = Packed - 0
            BY <2>1, <2>2 DEF Received
        <3> QED
            BY <1>t, <1>n, <3>1 DEF Received
    <2>5. {r[1] : r \in results'} = 0..Packed - 1
        <3>1. \A r \in results: r[1] \in 0..Received - 1
            BY DEF OneDevice, Delivered
        <3>2. \A n \in 0..Received - 1: \E r \in results: r[1] = n
            BY DEF OneDevice, Delivered
        <3>3. \A i \in DOMAIN packet: packet[i][1] = Received + i - 1 /\ i \in 1..Len(packet)
            BY <1>t DEF OneDevice, Delivered
        <3>4. Received >= 0
            BY DEF OneDevice, Delivered
        <3>5. ASSUME NEW r \in results' PROVE r[1] \in 0..Packed - 1
            <4>1. CASE r \in results
                BY <1>t, <1>n, <2>4, <3>1, <4>1
            <4>2. ASSUME NEW i \in DOMAIN packet, r = packet[i] PROVE r[1] \in 0..Packed - 1
                BY <1>t, <1>n, <2>4, <3>3, <3>4, <4>2
            <4> QED
                BY <2>1, <4>1, <4>2
        <3>6. ASSUME NEW n \in 0..Packed - 1 PROVE \E r \in results': r[1] = n
            <4>1. CASE n < Received
                <5>1. n \in 0..Received - 1
                    BY <1>n, <4>1
                <5> QED
                    BY <2>1, <3>2, <5>1
            <4>2. CASE ~(n < Received)
                <5>1. n - Received + 1 \in DOMAIN packet /\ n - Received + 1 \in Int
                    BY <1>t, <1>n, <2>4, <4>2
                <5>2. packet[n - Received + 1][1] = Received + (n - Received + 1) - 1
                    BY <3>3, <5>1
                <5>3. packet[n - Received + 1][1] = n
                    BY <1>n, <5>2
                <5> QED
                    BY <2>1, <5>1, <5>3
            <4> QED
                BY <4>1, <4>2
        <3> QED
            BY <3>5, <3>6
    <2>6. Delivered'
        <3>1. Packed >= 0
            BY <1>t, <1>n, <2>4 DEF OneDevice, Delivered
        <3> QED
            BY <2>1, <2>4, <2>5, <3>1 DEF Delivered
    <2> QED
        BY <2>1, <2>2, <2>3, <2>6 DEF OneDevice, RunMoves
<1>5. CASE RunAsk
    <2>1. /\ UNCHANGED <<nextImageToSend, outputQ, packet, results>> /\ runPc = "ask" /\ runPc' \in {"loop", "receive"}
          /\ inputQ' = inputQ \/ inputQ' = Append(inputQ, End)
        <3>1. runPc' # "d_input"
            BY DEF InSession
        <3> QED
            BY <1>5, <3>1 DEF RunAsk, client
    <2>2. Dealt' = Dealt
        <3>1. CASE inputQ' = inputQ
            BY <1>0, <2>1, <3>1, DealtStays
        <3>2. CASE inputQ' = Append(inputQ, End)
            <4>1. Waiting' = Waiting
                BY <1>t, <3>2, EndArrives DEF Waiting
            <4> QED
                BY <1>0, <2>1, <4>1 DEF Dealt, NotDealt, Marking
        <3> QED
            BY <2>1, <3>1, <3>2
    <2> QED
        BY <1>0, <2>1, <2>2, TaggedStays, QueuedStays, DeliveredStays, EndOfAnswersStays DEF OneDevice, RunMoves
<1>6. CASE RunReceive
    <2>1. /\ UNCHANGED <<outputQ, packet, results>> /\ runPc = "receive" /\ runPc' \in {"loop", "receive"}
          /\ inputQ' = Append(inputQ, nextImageToSend) /\ nextImageToSend' = nextImageToSend + 1
        <3>1. runPc' # "d_input"
            BY DEF InSession
        <3> QED
            BY <1>6, <3>1 DEF RunReceive
    <2>2. ImagesOf(inputQ) = Len(inputQ)
        BY <2>1 DEF ReturnInv, EndInv, MasterEnds, InSession
    <2>3. Waiting' = Waiting + 1 /\ Waiting = Len(inputQ)
        <3>1. nextImageToSend \in Label /\ nextImageToSend # End
            BY <1>t DEF Label, Images, End
        <3> QED
            BY <1>t, <2>1, <2>2, <3>1, ImageArrives DEF Waiting
    <2>4. Dealt' = Dealt /\ nextImageToSend' - Waiting' = nextImageToSend - Waiting
        <3>1. nextImageToSend' - Waiting' = nextImageToSend - Waiting
            BY <1>t, <2>1, <2>3
        <3> QED
            BY <1>0, <3>1 DEF Dealt, NotDealt, Marking
    <2> QED
        BY <1>0, <2>1, <2>4, TaggedStays, QueuedStays, DeliveredStays, EndOfAnswersStays DEF OneDevice, RunMoves
<1>7. ~RunBye /\ ~Destroy
    BY DEF RunBye, Destroy, DestroyInput, DestroyJoinMaster, DestroyMark, DestroyJoin, DestroyFree, InSession
<1> QED
    BY <1>1, <1>2, <1>3, <1>4, <1>5, <1>6, <1>7 DEF Run

LEMMA SessionBefore ==
    ASSUME GPUs' = 1, InSession', [Next]_vars
    PROVE  GPUs = 1 /\ InSession /\ request' = request
<1>1. request' = request
    <2>1. CASE Run
        BY <2>1 DEF Run, RunLoop, RunPack, RunVector, RunSend, RunAsk, RunReceive, RunBye, Destroy,
                    DestroyInput, DestroyJoinMaster, DestroyMark, DestroyJoin, DestroyFree
    <2>2. CASE ClientCloses \/ Master \/ UNCHANGED vars
        BY <2>2 DEF vars, ClientCloses, Master, MasterTake, MasterTag, MasterImage, MasterScan, MasterMark
    <2>3. CASE \E g \in Working: InputCopy(g) \/ Process(g) \/ OutputCopy(g)
        BY <2>3 DEF InputCopy, InputTake, InputFill, InputGive, InputMark,
                    Process, ProcessTakeInput, ProcessTakeOutput, ProcessGraph, ProcessGive,
                    OutputCopy, OutputTake, OutputTag, OutputVector, OutputGive, OutputMark
    <2> QED
        BY <2>1, <2>2, <2>3 DEF Next
<1>2. runPc' # runPc => InSession
    <2>1. CASE Run
        <3>1. CASE RunLoop \/ RunPack \/ RunVector \/ RunSend \/ RunAsk \/ RunReceive \/ RunBye
            BY <3>1 DEF RunLoop, RunPack, RunVector, RunSend, RunAsk, RunReceive, RunBye, InSession
        <3>2. CASE Destroy
            <4>1. runPc' \in {"d_master", "d_tag", "d_image", "d_join", "d_free", "gone"} \/ InSession
                BY <3>2 DEF Destroy, DestroyInput, DestroyJoinMaster, DestroyMark, DestroyJoin, DestroyFree, InSession
            <4> QED
                BY <4>1 DEF InSession
        <3> QED
            BY <2>1, <3>1, <3>2 DEF Run
    <2>2. CASE ClientCloses \/ Master \/ UNCHANGED vars
        BY <2>2 DEF vars, run, ClientCloses, Master, MasterTake, MasterTag, MasterImage, MasterScan, MasterMark
    <2>3. CASE \E g \in Working: InputCopy(g) \/ Process(g) \/ OutputCopy(g)
        BY <2>3 DEF run, InputCopy, InputTake, InputFill, InputGive, InputMark,
                    Process, ProcessTakeInput, ProcessTakeOutput, ProcessGraph, ProcessGive,
                    OutputCopy, OutputTake, OutputTag, OutputVector, OutputGive, OutputMark
    <2> QED
        BY <2>1, <2>2, <2>3 DEF Next
<1> QED
    BY <1>1, <1>2 DEF GPUs, InSession

LEMMA OneDeviceStep == ASSUME ReturnInv, OneDeviceInv, [Next]_vars PROVE OneDeviceInv'
<1> SUFFICES ASSUME GPUs' = 1, InSession' PROVE OneDevice'
    BY DEF OneDeviceInv
<1>1. GPUs = 1 /\ InSession
    BY SessionBefore
<1>2. OneDevice /\ Working = {1} /\ 1 \in Devices
    BY <1>1, OneTypes DEF OneDeviceInv
<1>3. CASE UNCHANGED vars
    <2>1. UNCHANGED <<nextImageToSend, inputQ, image, masterPc, TagQ, outputQ, outPc, packet, results, runPc>>
        BY <1>3 DEF vars, client, run, master, deal, output
    <2> QED
        BY <1>2, <2>1, DealtStays, TaggedStays, QueuedStays, DeliveredStays, EndOfAnswersStays DEF OneDevice
<1>4. CASE Next
    <2>1. Run \/ ClientCloses \/ Master \/ InputCopy(1) \/ Process(1) \/ OutputCopy(1)
        BY <1>2, <1>4 DEF Next
    <2> QED
        BY <1>1, <1>2, <2>1, OneDeviceOfRun, OneDeviceOfMaster, OneDeviceOfInput, OneDeviceOfOutput
<1> QED
    BY <1>3, <1>4

LEMMA OneDeviceInit == ASSUME Init PROVE OneDeviceInv
<1> SUFFICES ASSUME GPUs = 1 PROVE OneDevice
    BY DEF OneDeviceInv
<1>1. ImagesOf(<<>>) = 0 /\ 1 \in Devices /\ Len(<<>>) = 0
    BY EndsEmpty, EngineAssumption DEF Devices
<1>2. /\ nextImageToSend = 0 /\ inputQ = <<>> /\ outputQ = <<>> /\ packet = <<>> /\ results = {} /\ runPc = "loop"
      /\ masterPc = "take" /\ TagQ[1] = <<>> /\ outPc[1] = "take"
    BY <1>1 DEF Init, PerDevice
<1>3. Waiting = 0 /\ Dealt = 0 /\ Answers = 0 /\ Tags(1) = 0
    BY <1>1, <1>2 DEF Waiting, Dealt, NotDealt, Marking, Answers, Tags
<1>4. Packed = 0 /\ Received = 0
    BY <1>1, <1>2, <1>3 DEF Answered, Packed, Received
<1> QED
    BY <1>2, <1>3, <1>4 DEF OneDevice, Tagged, Queued, Delivered, EndOfAnswers

LEMMA AllIsAnswered == ASSUME ReturnInv, OneDeviceInv PROVE OneDeviceAnswersAll
<1> SUFFICES ASSUME GPUs = 1, runPc = "bye" PROVE {r[1] : r \in results} = Served
    BY DEF OneDeviceAnswersAll
<1>1. OneDevice /\ 1 \in Devices
    BY OneTypes DEF OneDeviceInv, InSession
<1>2. outPc[1] = "end" /\ outputQ = <<>> /\ packet = <<>>
    BY <1>1 DEF OneDevice, EndOfAnswers
<1>3. inPc[1] \in {"mark", "end"} /\ Tags(1) = 0
    BY <1>1, <1>2 DEF ReturnInv, CountInv, CountOf
<1>4. Marking
    BY <1>1, <1>3 DEF ReturnInv, EndInv, EndsOf
<1>5. /\ Waiting \in Nat /\ nextImageToSend \in Nat /\ imageCount \in Nat /\ nextImageToSend <= imageCount
      /\ Empty \subseteq Nat
    BY ArrivingTypes DEF ReturnInv
<1>6. Dealt \in Int /\ Served = 0..Dealt - 1
    <2>1. CASE image = End
        <3>1. Waiting = 0 /\ nextImageToSend = imageCount /\ ~NotDealt
            BY <1>4, <2>1 DEF ReturnInv, EndInv, MasterEnds, InSession, Waiting, Marking, NotDealt
        <3>2. Dealt = imageCount
            BY <1>5, <3>1 DEF Dealt
        <3>3. \A e \in Empty: ~(e < imageCount - 0)
            <4>1. \A e \in Empty: e # End
                BY <1>5 DEF End
            <4> QED
                BY <2>1, <3>1, <4>1 DEF ReturnInv, Arriving
        <3>4. \A t \in 0..imageCount - 1: \A e \in Empty: t < e
            BY <1>5, <3>3
        <3> QED
            BY <1>5, <3>2, <3>4 DEF Served
    <2>2. CASE image # End
        <3>1. image \in Empty /\ image = nextImageToSend - Waiting - 1 /\ NotDealt
            BY <1>4, <2>2 DEF ReturnInv, EndInv, MasterEnds, Arriving, NotDealt
        <3>2. Dealt = image /\ image \in Nat
            BY <1>5, <3>1 DEF Dealt
        <3>3. \A e \in Empty: ~(e < image)
            <4>1. \A e \in Empty: e < nextImageToSend - Waiting => e = image
                BY DEF ReturnInv, Arriving
            <4> QED
                BY <1>5, <3>1, <3>2, <4>1
        <3>4. \A t \in Int: t \in 0..image - 1 <=> t \in 0..imageCount - 1 /\ \A e \in Empty: t < e
            BY <1>5, <3>1, <3>2, <3>3
        <3> QED
            BY <1>5, <3>2, <3>4 DEF Served
    <2> QED
        BY <2>1, <2>2
<1>7. Received = Dealt
    <2>1. Answers = 0 /\ Len(packet) = 0
        BY <1>2 DEF Answers
    <2> QED
        BY <1>3, <1>6, <2>1 DEF Received, Packed, Answered
<1> QED
    BY <1>1, <1>6, <1>7 DEF OneDevice, Delivered

\* INFCOM_CMD_DONE of a session on one device means what it says, up to the first
\* empty file: whatever the interleaving of the threads, and however full the last
\* batch was, the client has by then received a result for each of its images, or
\* for each of those before the empty one, and for no other.
THEOREM OneDeviceCompletes == Spec => []OneDeviceAnswersAll
<1>1. Init => OneDeviceInv
    BY OneDeviceInit
<1>2. ReturnInv /\ OneDeviceInv /\ [Next]_vars => OneDeviceInv'
    BY OneDeviceStep
<1>3. ReturnInv /\ OneDeviceInv => OneDeviceAnswersAll
    BY AllIsAnswered
<1> QED
    BY <1>1, <1>2, <1>3, ReturnInvariant, PTL DEF Spec
------------------------------------------------------------------------------
(* The order of the tags.                                                   *)
\* The first n members of q, from the one behind the first f on, are the first
\* len members of m.
Reads(q, n, f, m, len) == \A s \in 1..len: 0 < f + s /\ f + s <= n => q[f + s] = m[s]
Matches(g, f, m, len) == Reads(TagQ[g], Tags(g), f, m, len)

\* What the batch that workDeviceProcess holds has its images in.
HeldMem(g) == IF procPc[g] \in {"takeOutput", "graph"} THEN inMem[g][procIn[g]] ELSE outMem[g][procOut[g]]

\* The tags in TagQ are those of the images under way, in their order: what is
\* left of the batch that the output thread reads, the batches in OutBusy, the
\* one being processed, those in InBusy, the one being filled, those in ImageQ.
Read(g) == outPc[g] \in {"tag", "vector"} => Matches(g, -outputCount[g], outMem[g][outBuf[g]], BatchSize)
Done(g) ==
    \A k \in 1..Filled(OutBusy[g]): Matches(g, Rest(g) + Times(k - 1), outMem[g][OutBusy[g][k]], BatchSize)
Processed(g) == Held(g) = 1 => Matches(g, Rest(g) + Times(Filled(OutBusy[g])), HeldMem(g), BatchSize)
Loaded(g) ==
    \A k \in 1..Filled(InBusy[g]):
        Matches(g, Rest(g) + Times(Filled(OutBusy[g]) + Held(g) + k - 1), inMem[g][InBusy[g][k]], BatchSize)
Batched(g) == Matches(g, Rest(g) + Times(Flying(g)), batch[g], Len(batch[g]))
Announced(g) == Matches(g, Rest(g) + Times(Flying(g)) + Len(batch[g]), ImageQ[g], ImagesOf(ImageQ[g]))
Latest(g) == Between(g) = 1 => TagQ[g][Tags(g)] = image

OrderOf(g) ==
    Read(g) /\ Done(g) /\ Processed(g) /\ Loaded(g) /\ Batched(g) /\ Announced(g) /\ Latest(g)
OrderInv == \A g \in Devices: OrderOf(g)

\* How a match follows the queue and the memory.
LEMMA ReadsNothing ==
    ASSUME NEW q, NEW n, NEW f \in Int, NEW m, NEW len \in Int, len <= 0 \/ n = 0
    PROVE  Reads(q, n, f, m, len)
    BY DEF Reads

LEMMA ReadsLonger ==
    ASSUME NEW q \in Seq(Label), NEW x, NEW n \in 0..Len(q), NEW f \in Int, NEW m, NEW len \in Int, Reads(q, n, f, m, len)
    PROVE  Reads(Append(q, x), n, f, m, len)
<1> SUFFICES ASSUME NEW s \in 1..len, 0 < f + s, f + s <= n PROVE Append(q, x)[f + s] = m[s]
    BY DEF Reads
<1>1. f + s \in 1..Len(q)
    OBVIOUS
<1>2. \A i \in 1..Len(q): Append(q, x)[i] = q[i]
    OBVIOUS
<1>3. q[f + s] = m[s]
    BY DEF Reads
<1> QED
    BY <1>1, <1>2, <1>3

LEMMA ReadsBefore ==
    ASSUME NEW q \in Seq(Label), NEW x, NEW f \in Int, NEW m, NEW len \in Int,
           Reads(q, Len(q), f, m, len), f + len <= Len(q)
    PROVE  Reads(Append(q, x), Len(q) + 1, f, m, len)
<1> SUFFICES ASSUME NEW s \in 1..len, 0 < f + s PROVE Append(q, x)[f + s] = m[s]
    BY DEF Reads
<1>1. f + s \in 1..Len(q) /\ f + s <= Len(q)
    OBVIOUS
<1>2. \A i \in 1..Len(q): Append(q, x)[i] = q[i]
    OBVIOUS
<1>3. q[f + s] = m[s]
    BY <1>1 DEF Reads
<1> QED
    BY <1>1, <1>2, <1>3

LEMMA ReadsBehind ==
    ASSUME NEW q \in Seq(Label), q # <<>>, NEW n \in 0..Len(q), NEW f \in Int, NEW m, NEW len \in Int, Reads(q, n, f, m, len)
    PROVE  Reads(Tail(q), n - 1, f - 1, m, len)
<1> SUFFICES ASSUME NEW s \in 1..len, 0 < (f - 1) + s, (f - 1) + s <= n - 1 PROVE Tail(q)[(f - 1) + s] = m[s]
    BY DEF Reads
<1>1. f + s \in Int /\ (f - 1) + s \in 1..Len(q) - 1 /\ ((f - 1) + s) + 1 = f + s /\ 0 < f + s /\ f + s <= n
    OBVIOUS
<1>2. \A i \in 1..Len(q) - 1: Tail(q)[i] = q[i + 1]
    OBVIOUS
<1>3. q[f + s] = m[s]
    BY <1>1 DEF Reads
<1>4. Tail(q)[(f - 1) + s] = q[((f - 1) + s) + 1]
    BY <1>1, <1>2
<1> QED
    BY <1>1, <1>3, <1>4

LEMMA ReadsMore ==
    ASSUME NEW r \in Seq(Label), NEW x \in Label, NEW q, NEW n \in Int, NEW f \in Int,
           Reads(q, n, f, r, Len(r)), f + Len(r) + 1 <= n => q[f + Len(r) + 1] = x
    PROVE  Reads(q, n, f, Append(r, x), Len(r) + 1)
<1> SUFFICES ASSUME NEW s \in 1..Len(r) + 1, 0 < f + s, f + s <= n PROVE q[f + s] = Append(r, x)[s]
    BY DEF Reads
<1>1. CASE s \in 1..Len(r)
    <2>1. Append(r, x)[s] = r[s]
        BY <1>1
    <2>2. q[f + s] = r[s]
        BY <1>1 DEF Reads
    <2> QED
        BY <2>1, <2>2
<1>2. CASE s = Len(r) + 1
    <2>1. Append(r, x)[s] = x /\ f + s = f + Len(r) + 1
        BY <1>2
    <2> QED
        BY <2>1
<1> QED
    BY <1>1, <1>2

LEMMA ReadsFewer ==
    ASSUME NEW r \in Seq(Label), r # <<>>, NEW len \in 0..Len(r), NEW q, NEW n \in Int, NEW f \in Int, Reads(q, n, f, r, len)
    PROVE  Reads(q, n, f + 1, Tail(r), len - 1)
<1> SUFFICES ASSUME NEW s \in 1..len - 1, 0 < (f + 1) + s, (f + 1) + s <= n PROVE q[(f + 1) + s] = Tail(r)[s]
    BY DEF Reads
<1>1. s + 1 \in 1..len /\ (f + 1) + s = f + (s + 1) /\ s \in 1..Len(r) - 1
    OBVIOUS
<1>2. Tail(r)[s] = r[s + 1]
    BY <1>1
<1>3. q[f + (s + 1)] = r[s + 1]
    BY <1>1 DEF Reads
<1> QED
    BY <1>1, <1>2, <1>3

LEMMA TimesOrder == ASSUME NEW a \in Nat, NEW b \in Nat, a <= b PROVE Times(a) <= Times(b)
<1>1. BatchSize \in Nat /\ b - a \in Nat
    BY EngineAssumption
<1>2. (b - a) * BatchSize \in Nat
    BY <1>1
<1>3. b * BatchSize = (b - a) * BatchSize + a * BatchSize /\ a * BatchSize \in Nat
    BY <1>1
<1> QED
    BY <1>2, <1>3 DEF Times

\* The numbers of a device, once more, and where its batches are.
LEMMA OrderTypes ==
    ASSUME ReturnInv, NEW g \in Devices
    PROVE  /\ Rest(g) \in Nat /\ Flying(g) \in Nat /\ Times(Flying(g)) \in Nat /\ BatchSize \in Nat \ {0}
           /\ Filled(InBusy[g]) \in Nat /\ Filled(OutBusy[g]) \in Nat /\ Held(g) \in {0, 1}
           /\ TagQ[g] \in Seq(Label) /\ ImageQ[g] \in Seq(Label) /\ batch[g] \in Seq(Images)
           /\ Tags(g) \in 0..Len(TagQ[g]) /\ ImagesOf(ImageQ[g]) \in 0..Len(ImageQ[g])
           /\ Between(g) \in {0, 1} /\ outputCount[g] \in 0..BatchSize
           /\ QueueState /\ PoolState /\ Null \notin Buffers /\ End \in Label /\ BusyState(g)
           /\ CountOf(g) /\ EndsOf(g)
<1>1. /\ Rest(g) \in 0..BatchSize /\ Flying(g) \in Nat /\ BatchSize \in Nat \ {0}
      /\ TagQ[g] \in Seq(Label) /\ ImageQ[g] \in Seq(Label) /\ batch[g] \in Seq(Images)
      /\ Tags(g) \in 0..Len(TagQ[g]) /\ ImagesOf(ImageQ[g]) \in 0..Len(ImageQ[g])
      /\ Between(g) \in {0, 1} /\ outputCount[g] \in 0..BatchSize
    BY CountTypes DEF ReturnInv
<1>2. BusyState(g) /\ Filled(InBusy[g]) \in Nat /\ Filled(OutBusy[g]) \in Nat /\ Held(g) \in {0, 1}
    BY BusyStates DEF ReturnInv
<1>3. Times(Flying(g)) \in Nat
    BY <1>1, TimesFacts
<1>4. QueueState /\ PoolState /\ Null \notin Buffers /\ End \in Label
    BY QueueStates, PoolStates DEF ReturnInv
<1>5. CountOf(g) /\ EndsOf(g)
    BY DEF ReturnInv, CountInv, EndInv
<1> QED
    BY <1>1, <1>2, <1>3, <1>4, <1>5

\* The position of a batch is a number, and the batch lies before those after it.
LEMMA Positions ==
    ASSUME ReturnInv, NEW g \in Devices
    PROVE  /\ Rest(g) + Times(Flying(g)) \in Nat
           /\ \A k \in 1..Filled(OutBusy[g]): /\ k \in Nat /\ k - 1 \in Nat /\ Rest(g) + Times(k - 1) \in Nat
                                               /\ Rest(g) + Times(k - 1) + BatchSize <= Rest(g) + Times(Flying(g))
           /\ Rest(g) + Times(Filled(OutBusy[g])) \in Nat
           /\ Held(g) = 1 => Rest(g) + Times(Filled(OutBusy[g])) + BatchSize <= Rest(g) + Times(Flying(g))
           /\ \A k \in 1..Filled(InBusy[g]):
                 /\ k \in Nat /\ Filled(OutBusy[g]) + Held(g) + k - 1 \in Nat
                 /\ Rest(g) + Times(Filled(OutBusy[g]) + Held(g) + k - 1) \in Nat
                 /\ Rest(g) + Times(Filled(OutBusy[g]) + Held(g) + k - 1) + BatchSize <= Rest(g) + Times(Flying(g))
<1>t. /\ Rest(g) \in Nat /\ Flying(g) \in Nat /\ Filled(InBusy[g]) \in Nat /\ Filled(OutBusy[g]) \in Nat /\ Held(g) \in {0, 1}
      /\ BatchSize \in Nat
    BY OrderTypes
<1>f. Flying(g) = Filled(OutBusy[g]) + Held(g) + Filled(InBusy[g])
    BY DEF Flying
<1>1. ASSUME NEW j \in Nat, j + 1 <= Flying(g)
      PROVE  Rest(g) + Times(j) \in Nat /\ Rest(g) + Times(j) + BatchSize <= Rest(g) + Times(Flying(g))
    <2>1. Times(j) \in Nat /\ Times(j + 1) = Times(j) + BatchSize /\ Times(Flying(g)) \in Nat
        BY <1>t, TimesFacts
    <2>2. Times(j + 1) <= Times(Flying(g))
        BY <1>t, <1>1, TimesOrder
    <2> QED
        BY <1>t, <2>1, <2>2
<1>2. \A k \in 1..Filled(OutBusy[g]): k \in Nat /\ k - 1 \in Nat /\ (k - 1) + 1 <= Flying(g)
    BY <1>t, <1>f
<1>3. Held(g) = 1 => Filled(OutBusy[g]) + 1 <= Flying(g)
    BY <1>t, <1>f
<1>4. \A k \in 1..Filled(InBusy[g]): /\ k \in Nat /\ Filled(OutBusy[g]) + Held(g) + k - 1 \in Nat
                                     /\ (Filled(OutBusy[g]) + Held(g) + k - 1) + 1 <= Flying(g)
    BY <1>t, <1>f
<1>5. Rest(g) + Times(Filled(OutBusy[g])) \in Nat /\ Rest(g) + Times(Flying(g)) \in Nat
    <2>1. Times(Filled(OutBusy[g])) \in Nat /\ Times(Flying(g)) \in Nat
        BY <1>t, TimesFacts
    <2> QED
        BY <1>t, <2>1
<1> QED
    BY <1>t, <1>1, <1>2, <1>3, <1>4, <1>5

\* A step that touches neither the images of device h nor their tags.
LEMMA OrderStays ==
    ASSUME NEW h \in Devices, OrderOf(h),
           UNCHANGED <<outPc[h], outputCount[h], outBuf[h], outMem[h], OutBusy[h], procPc[h], procIn[h], procOut[h],
                       inMem[h], InBusy[h], batch[h], ImageQ[h], TagQ[h]>>,
           Between(h)' = 1 => Between(h) = 1 /\ image' = image
    PROVE  OrderOf(h)'
<1>1. Rest(h)' = Rest(h) /\ Tags(h)' = Tags(h) /\ Held(h)' = Held(h) /\ Flying(h)' = Flying(h) /\ HeldMem(h)' = HeldMem(h)
    BY DEF Rest, Tags, Held, Flying, HeldMem
<1>2. Read(h)' /\ Done(h)' /\ Processed(h)' /\ Loaded(h)'
    BY <1>1 DEF OrderOf, Read, Done, Processed, Loaded, Matches
<1>3. Batched(h)' /\ Announced(h)' /\ Latest(h)'
    BY <1>1 DEF OrderOf, Batched, Announced, Latest, Matches
<1> QED
    BY <1>2, <1>3 DEF OrderOf

\* An end that arrives in one of the queues of device h changes no image's place.
LEMMA OrderAtEnd ==
    ASSUME ReturnInv, NEW h \in Devices, OrderOf(h),
           UNCHANGED <<outPc[h], outputCount[h], outBuf[h], outMem[h], OutBusy[h], procPc[h], procIn[h], procOut[h],
                       inMem[h], InBusy[h], batch[h]>>,
           Between(h)' = 0,
           \/ TagQ'[h] = TagQ[h] /\ ImageQ'[h] = ImageQ[h]
           \/ TagQ'[h] = Append(TagQ[h], End) /\ ImageQ'[h] = ImageQ[h]
           \/ TagQ'[h] = TagQ[h] /\ ImageQ'[h] = Append(ImageQ[h], End)
    PROVE  OrderOf(h)'
<1>b. /\ Rest(h)' = Rest(h) /\ Held(h)' = Held(h) /\ Flying(h)' = Flying(h) /\ HeldMem(h)' = HeldMem(h)
      /\ Filled(OutBusy[h])' = Filled(OutBusy[h]) /\ Filled(InBusy[h])' = Filled(InBusy[h]) /\ Len(batch[h])' = Len(batch[h])
    BY DEF Rest, Held, Flying, HeldMem
<1>t. /\ Rest(h) \in Nat /\ Times(Flying(h)) \in Nat /\ BatchSize \in Nat \ {0}
      /\ TagQ[h] \in Seq(Label) /\ ImageQ[h] \in Seq(Label) /\ Len(batch[h]) \in Nat
      /\ Tags(h) \in 0..Len(TagQ[h]) /\ ImagesOf(ImageQ[h]) \in 0..Len(ImageQ[h]) /\ outputCount[h] \in 0..BatchSize
      /\ EndsOf(h)
    BY OrderTypes
<1>1. CASE TagQ'[h] = TagQ[h] /\ ImageQ'[h] = ImageQ[h]
    BY <1>1, OrderStays
<1>2. CASE TagQ'[h] = Append(TagQ[h], End) /\ ImageQ'[h] = ImageQ[h]
    <2>1. Tags(h)' = Tags(h)
        BY <1>t, <1>2, EndArrives DEF Tags, EndsOf
    <2>2. \A m: \A f, len \in Int: Matches(h, f, m, len) => Reads(TagQ'[h], Tags(h)', f, m, len)
        BY <1>t, <1>2, <2>1, ReadsLonger DEF Matches
    <2>3. Read(h)'
        <3>1. -outputCount[h] \in Int /\ BatchSize \in Int
            BY <1>t
        <3> QED
            BY <1>t, <2>2, <3>1 DEF OrderOf, Read, Matches
    <2>4. Done(h)'
        <3>1. BatchSize \in Int /\ \A k \in 1..Filled(OutBusy[h]): Rest(h) + Times(k - 1) \in Int
            BY <1>t, Positions
        <3> QED
            BY <1>b, <2>2, <3>1 DEF OrderOf, Done, Matches
    <2>5. Processed(h)'
        <3>1. BatchSize \in Int /\ Rest(h) + Times(Filled(OutBusy[h])) \in Int
            BY <1>t, Positions
        <3> QED
            BY <1>b, <2>2, <3>1 DEF OrderOf, Processed, Matches
    <2>6. Loaded(h)'
        <3>1. BatchSize \in Int /\ \A k \in 1..Filled(InBusy[h]): Rest(h) + Times(Filled(OutBusy[h]) + Held(h) + k - 1) \in Int
            BY <1>t, Positions
        <3> QED
            BY <1>b, <2>2, <3>1 DEF OrderOf, Loaded, Matches
    <2>7. Batched(h)' /\ Announced(h)'
        <3>1. /\ Rest(h) + Times(Flying(h)) \in Int /\ Len(batch[h]) \in Int
              /\ Rest(h) + Times(Flying(h)) + Len(batch[h]) \in Int /\ ImagesOf(ImageQ[h]) \in Int
            BY <1>t
        <3>2. Batched(h)'
            BY <1>b, <2>2, <3>1 DEF OrderOf, Batched, Matches
        <3>3. Announced(h)'
            BY <1>b, <1>2, <2>2, <3>1 DEF OrderOf, Announced, Matches
        <3> QED
            BY <3>2, <3>3
    <2> QED
        BY <2>3, <2>4, <2>5, <2>6, <2>7 DEF OrderOf, Latest
<1>3. CASE TagQ'[h] = TagQ[h] /\ ImageQ'[h] = Append(ImageQ[h], End)
    <2>1. Tags(h)' = Tags(h)
        BY <1>3 DEF Tags
    <2>2. Read(h)' /\ Done(h)' /\ Processed(h)' /\ Loaded(h)' /\ Batched(h)'
        BY <1>b, <1>3, <2>1 DEF OrderOf, Read, Done, Processed, Loaded, Batched, Matches
    <2>3. ImagesOf(ImageQ[h])' = ImagesOf(ImageQ[h])
        BY <1>t, <1>3, EndArrives DEF EndsOf
    <2>4. \A i \in 1..ImagesOf(ImageQ[h]): ImageQ'[h][i] = ImageQ[h][i]
        <3>1. \A i \in 1..Len(ImageQ[h]): Append(ImageQ[h], End)[i] = ImageQ[h][i]
            BY <1>t
        <3> QED
            BY <1>t, <1>3, <3>1
    <2>5. Announced(h)'
        BY <1>b, <1>3, <2>1, <2>3, <2>4 DEF OrderOf, Announced, Matches, Reads
    <2> QED
        BY <2>2, <2>5 DEF OrderOf, Latest
<1> QED
    BY <1>1, <1>2, <1>3

LEMMA OrderOfMaster ==
    ASSUME ReturnInv, NEW h \in Devices, OrderOf(h), Master
    PROVE  OrderOf(h)'
<1>a. UNCHANGED <<outPc[h], outputCount[h], outBuf[h], outMem[h], OutBusy[h], procPc[h], procIn[h], procOut[h],
                  inPc[h], inMem[h], InBusy[h], batch[h]>>
    BY DEF Master, MasterTake, MasterTag, MasterImage, MasterScan, MasterMark, pool, input, process, output
<1>b. /\ Rest(h)' = Rest(h) /\ Held(h)' = Held(h) /\ Flying(h)' = Flying(h) /\ HeldMem(h)' = HeldMem(h)
      /\ Filled(OutBusy[h])' = Filled(OutBusy[h]) /\ Filled(InBusy[h])' = Filled(InBusy[h]) /\ Len(batch[h])' = Len(batch[h])
    BY <1>a DEF Rest, Held, Flying, HeldMem
<1>t. /\ Rest(h) \in Nat /\ Flying(h) \in Nat /\ Times(Flying(h)) \in Nat /\ BatchSize \in Nat \ {0}
      /\ TagQ[h] \in Seq(Label) /\ ImageQ[h] \in Seq(Label) /\ batch[h] \in Seq(Images) /\ Len(batch[h]) \in Nat
      /\ Tags(h) \in 0..Len(TagQ[h]) /\ ImagesOf(ImageQ[h]) \in 0..Len(ImageQ[h]) /\ ImagesOf(ImageQ[h]) \in Nat
      /\ Between(h) \in {0, 1} /\ outputCount[h] \in 0..BatchSize /\ QueueState /\ End \in Label
      /\ CountOf(h) /\ EndsOf(h) /\ MasterEnds
    BY OrderTypes DEF ReturnInv, EndInv
<1>1. CASE MasterTake \/ MasterScan
    <2>1. UNCHANGED <<TagQ, ImageQ>> /\ Between(h)' = 0
        BY <1>1 DEF MasterTake, MasterScan, deal, Between
    <2> QED
        BY <1>a, <2>1, OrderStays
<1>2. CASE MasterTag
    <2>1. /\ ~Marking /\ image # End /\ image' = image /\ TagQ' = Put(TagQ, gpu, image) /\ ImageQ' = ImageQ
          /\ Between(h) = 0 /\ Between(h)' = IF gpu = h THEN 1 ELSE 0
        BY <1>t, <1>2 DEF MasterTag, MasterEnds, Marking, Between
    <2>2. CASE h # gpu
        <3>1. TagQ'[h] = TagQ[h] /\ Between(h)' = 0
            BY <1>t, <2>1, <2>2 DEF Put, QueueState
        <3> QED
            BY <1>a, <2>1, <3>1, OrderStays
    <2>3. CASE h = gpu
        <3>1. /\ TagQ'[h] = Append(TagQ[h], image) /\ Tags(h) = Len(TagQ[h]) /\ Tags(h)' = Len(TagQ[h]) + 1
              /\ image \in Label
            BY <1>t, <2>1, <2>3, ImageArrives DEF Put, QueueState, EndsOf, Tags
        <3>2. Tags(h) = Rest(h) + Times(Flying(h)) + Len(batch[h]) + ImagesOf(ImageQ[h]) + 0
            <4>1. inPc[h] \notin {"mark", "end"}
                BY <1>t, <2>1 DEF EndsOf
            <4> QED
                BY <1>t, <2>1, <4>1 DEF CountOf
        <3>3. \A m: \A f, len \in Int: Matches(h, f, m, len) /\ f + len <= Tags(h)
                                              => Reads(TagQ'[h], Tags(h)', f, m, len)
            BY <1>t, <3>1, ReadsBefore DEF Matches
        <3>4. Read(h)'
            <4> SUFFICES ASSUME outPc[h] \in {"tag", "vector"}
                         PROVE  Reads(TagQ'[h], Tags(h)', -outputCount[h], outMem[h][outBuf[h]], BatchSize)
                BY <1>a DEF Read, Matches
            <4>1. Rest(h) = BatchSize - outputCount[h]
                BY DEF Rest
            <4>2. -outputCount[h] \in Int /\ BatchSize \in Int /\ -outputCount[h] + BatchSize <= Tags(h)
                <5>1. outputCount[h] \in Int /\ BatchSize \in Int
                    BY <1>t
                <5>2. Rest(h) <= Tags(h)
                    BY <1>t, <3>2
                <5> QED
                    BY <4>1, <5>1, <5>2
            <4>3. Matches(h, -outputCount[h], outMem[h][outBuf[h]], BatchSize)
                BY DEF OrderOf, Read
            <4> QED
                BY <3>3, <4>2, <4>3
        <3>5. Done(h)'
            <4> SUFFICES ASSUME NEW k \in 1..Filled(OutBusy[h])
                         PROVE  Reads(TagQ'[h], Tags(h)', Rest(h) + Times(k - 1), outMem[h][OutBusy[h][k]], BatchSize)
                BY <1>a, <1>b DEF Done, Matches
            <4>1. Rest(h) + Times(k - 1) \in Int /\ BatchSize \in Int /\ Rest(h) + Times(k - 1) + BatchSize <= Rest(h) + Times(Flying(h))
                BY <1>t, Positions
            <4>2. Rest(h) + Times(k - 1) + BatchSize <= Tags(h)
                <5>1. Rest(h) + Times(k - 1) + BatchSize \in Int /\ Rest(h) + Times(Flying(h)) \in Int /\ Tags(h) \in Int
                    <6>1. Rest(h) \in Int /\ Times(Flying(h)) \in Int /\ Tags(h) \in Int
                        BY <1>t
                    <6>2. \A a, b \in Int: a + b \in Int
                        OBVIOUS
                    <6> QED
                        BY <4>1, <6>1, <6>2
                <5>2. Rest(h) + Times(Flying(h)) <= Tags(h)
                    BY <1>t, <3>2
                <5>3. \A a, b, c \in Int: a <= b /\ b <= c => a <= c
                    OBVIOUS
                <5> QED
                    BY <4>1, <5>1, <5>2, <5>3
            <4>3. Matches(h, Rest(h) + Times(k - 1), outMem[h][OutBusy[h][k]], BatchSize)
                BY DEF OrderOf, Done
            <4> QED
                BY <3>3, <4>1, <4>2, <4>3
        <3>6. Processed(h)'
            <4> SUFFICES ASSUME Held(h) = 1
                         PROVE  Reads(TagQ'[h], Tags(h)', Rest(h) + Times(Filled(OutBusy[h])), HeldMem(h), BatchSize)
                BY <1>a, <1>b DEF Processed, Matches
            <4>1. /\ Rest(h) + Times(Filled(OutBusy[h])) \in Int /\ BatchSize \in Int
                  /\ Rest(h) + Times(Filled(OutBusy[h])) + BatchSize <= Rest(h) + Times(Flying(h))
                BY <1>t, Positions
            <4>2. Rest(h) + Times(Filled(OutBusy[h])) + BatchSize <= Tags(h)
                <5>1. Rest(h) + Times(Filled(OutBusy[h])) + BatchSize \in Int
                      /\ Rest(h) + Times(Flying(h)) \in Int /\ Tags(h) \in Int
                    BY <1>t, <4>1
                <5>2. Rest(h) + Times(Flying(h)) <= Tags(h)
                    BY <1>t, <3>2
                <5>3. \A a, b, c \in Int: a <= b /\ b <= c => a <= c
                    OBVIOUS
                <5> QED
                    BY <4>1, <5>1, <5>2, <5>3
            <4>3. Matches(h, Rest(h) + Times(Filled(OutBusy[h])), HeldMem(h), BatchSize)
                BY DEF OrderOf, Processed
            <4> QED
                BY <3>3, <4>1, <4>2, <4>3
        <3>7. Loaded(h)'
            <4> SUFFICES ASSUME NEW k \in 1..Filled(InBusy[h])
                         PROVE  Reads(TagQ'[h], Tags(h)', Rest(h) + Times(Filled(OutBusy[h]) + Held(h) + k - 1),
                                      inMem[h][InBusy[h][k]], BatchSize)
                BY <1>a, <1>b DEF Loaded, Matches
            <4>1. /\ Rest(h) + Times(Filled(OutBusy[h]) + Held(h) + k - 1) \in Int /\ BatchSize \in Int
                  /\ Rest(h) + Times(Filled(OutBusy[h]) + Held(h) + k - 1) + BatchSize <= Rest(h) + Times(Flying(h))
                BY <1>t, Positions
            <4>2. Rest(h) + Times(Filled(OutBusy[h]) + Held(h) + k - 1) + BatchSize <= Tags(h)
                <5>1. Rest(h) + Times(Filled(OutBusy[h]) + Held(h) + k - 1) + BatchSize \in Int
                      /\ Rest(h) + Times(Flying(h)) \in Int /\ Tags(h) \in Int
                    BY <1>t, <4>1
                <5>2. Rest(h) + Times(Flying(h)) <= Tags(h)
                    BY <1>t, <3>2
                <5>3. \A a, b, c \in Int: a <= b /\ b <= c => a <= c
                    OBVIOUS
                <5> QED
                    BY <4>1, <5>1, <5>2, <5>3
            <4>3. Matches(h, Rest(h) + Times(Filled(OutBusy[h]) + Held(h) + k - 1), inMem[h][InBusy[h][k]], BatchSize)
                BY DEF OrderOf, Loaded
            <4> QED
                BY <3>3, <4>1, <4>2, <4>3
        <3>8. Batched(h)'
            <4>1. /\ Rest(h) + Times(Flying(h)) \in Int /\ Len(batch[h]) \in Int
                  /\ Rest(h) + Times(Flying(h)) + Len(batch[h]) <= Tags(h)
                BY <1>t, <3>2
            <4>2. Matches(h, Rest(h) + Times(Flying(h)), batch[h], Len(batch[h]))
                BY DEF OrderOf, Batched
            <4>3. Reads(TagQ'[h], Tags(h)', Rest(h) + Times(Flying(h)), batch[h], Len(batch[h]))
                BY <3>3, <4>1, <4>2
            <4> QED
                BY <1>a, <1>b, <4>3 DEF Batched, Matches
        <3>9. Announced(h)'
            <4>1. /\ Rest(h) + Times(Flying(h)) + Len(batch[h]) \in Int /\ ImagesOf(ImageQ[h]) \in Int
                  /\ Rest(h) + Times(Flying(h)) + Len(batch[h]) + ImagesOf(ImageQ[h]) <= Tags(h)
                BY <1>t, <3>2
            <4>2. Matches(h, Rest(h) + Times(Flying(h)) + Len(batch[h]), ImageQ[h], ImagesOf(ImageQ[h]))
                BY DEF OrderOf, Announced
            <4>3. Reads(TagQ'[h], Tags(h)', Rest(h) + Times(Flying(h)) + Len(batch[h]), ImageQ[h], ImagesOf(ImageQ[h]))
                BY <3>3, <4>1, <4>2
            <4> QED
                BY <1>a, <1>b, <2>1, <4>3 DEF Announced, Matches
        <3>10. Latest(h)'
            <4>1. TagQ'[h][Tags(h)'] = image
                BY <1>t, <3>1
            <4> QED
                BY <2>1, <4>1 DEF Latest
        <3> QED
            BY <3>4, <3>5, <3>6, <3>7, <3>8, <3>9, <3>10 DEF OrderOf
    <2> QED
        BY <2>2, <2>3
<1>r. ASSUME TagQ'[h] = TagQ[h], Announced(h)', Latest(h)' PROVE OrderOf(h)'
    <2>1. Tags(h)' = Tags(h)
        BY <1>r DEF Tags
    <2>2. Read(h)' /\ Done(h)' /\ Processed(h)' /\ Loaded(h)' /\ Batched(h)'
        BY <1>a, <1>b, <1>r, <2>1 DEF OrderOf, Read, Done, Processed, Loaded, Batched, Matches
    <2> QED
        BY <1>r, <2>2 DEF OrderOf
<1>3. CASE MasterImage
    <2>1. /\ ~Marking /\ image # End /\ ImageQ' = Put(ImageQ, gpu, image) /\ TagQ' = TagQ
          /\ Between(h)' = 0 /\ Between(h) = IF gpu = h THEN 1 ELSE 0
        BY <1>t, <1>3 DEF MasterImage, MasterEnds, Marking, Between
    <2>2. CASE h # gpu
        <3>1. ImageQ'[h] = ImageQ[h]
            BY <1>t, <2>1, <2>2 DEF Put, QueueState
        <3> QED
            BY <1>a, <2>1, <3>1, OrderStays
    <2>3. CASE h = gpu
        <3>1. /\ ImageQ'[h] = Append(ImageQ[h], image) /\ ImagesOf(ImageQ[h]) = Len(ImageQ[h])
              /\ ImagesOf(ImageQ[h])' = Len(ImageQ[h]) + 1 /\ image \in Label
            BY <1>t, <2>1, <2>3, ImageArrives DEF Put, QueueState, EndsOf
        <3>2. Tags(h) = Rest(h) + Times(Flying(h)) + Len(batch[h]) + ImagesOf(ImageQ[h]) + 1
            <4>1. inPc[h] \notin {"mark", "end"}
                BY <1>t, <2>1 DEF EndsOf
            <4> QED
                BY <1>t, <2>1, <2>3, <4>1 DEF CountOf
        <3>3. TagQ[h][Tags(h)] = image
            BY <2>1, <2>3 DEF OrderOf, Latest
        <3> DEFINE f == Rest(h) + Times(Flying(h)) + Len(batch[h])
        <3>4. f \in Int /\ Tags(h) \in Int /\ f + Len(ImageQ[h]) + 1 = Tags(h)
            BY <1>t, <3>1, <3>2
        <3>5. Reads(TagQ[h], Tags(h), f, ImageQ[h], Len(ImageQ[h]))
            BY <3>1 DEF OrderOf, Announced, Matches
        <3> HIDE DEF f
        <3>6. Reads(TagQ[h], Tags(h), f, Append(ImageQ[h], image), Len(ImageQ[h]) + 1)
            BY <1>t, <3>1, <3>3, <3>4, <3>5, ReadsMore
        <3>7. Tags(h)' = Tags(h) /\ TagQ'[h] = TagQ[h]
            BY <2>1 DEF Tags
        <3>8. Announced(h)'
            BY <1>a, <1>b, <3>1, <3>6, <3>7 DEF Announced, Matches, f
        <3> QED
            BY <1>r, <2>1, <3>7, <3>8 DEF Latest
    <2> QED
        BY <2>2, <2>3
<1>4. CASE MasterMark
    <2>1. /\ Between(h) = 0 /\ Between(h)' = 0 /\ scan \in Devices
          /\ \/ TagQ' = Put(TagQ, scan, End) /\ ImageQ' = ImageQ
             \/ ImageQ' = Put(ImageQ, scan, End) /\ TagQ' = TagQ
        BY <1>t, <1>4 DEF MasterMark, Between, QueueState
    <2>2. \/ TagQ'[h] = TagQ[h] /\ ImageQ'[h] = ImageQ[h]
          \/ TagQ'[h] = Append(TagQ[h], End) /\ ImageQ'[h] = ImageQ[h]
          \/ TagQ'[h] = TagQ[h] /\ ImageQ'[h] = Append(ImageQ[h], End)
        BY <1>t, <2>1 DEF Put, QueueState
    <2> QED
        BY <1>a, <2>1, <2>2, OrderAtEnd
<1> QED
    BY <1>1, <1>2, <1>3, <1>4 DEF Master

\* The threads of decoding cover the batch, if they divide it.
Divides == DecThreads = 0 \/ BatchSize % DecThreads = 0

LEMMA AllDecoded == ASSUME Divides, NEW n \in 1..BatchSize PROVE Decoded(n) = 1..n
<1>1. CASE DecThreads = 0
    BY <1>1 DEF Decoded
<1>2. CASE DecThreads # 0
    <2>1. DecThreads \in Nat /\ DecThreads > 0 /\ BatchSize \in Nat /\ DecThreads <= BatchSize /\ n \in Nat
        BY <1>2, EngineAssumption
    <2>2. CASE n < BatchSize
        <3> DEFINE sub == (n + DecThreads - 1) \div DecThreads
                   numT == (n + sub - 1) \div sub
        <3>1. sub \in Nat /\ sub > 0
            <4>1. n + DecThreads - 1 >= DecThreads /\ n + DecThreads - 1 \in Nat
                BY <2>1
            <4> QED
                BY <2>1, <4>1
        <3>2. sub * numT >= n
            <4> HIDE DEF sub
            <4>1. n + sub - 1 \in Nat
                BY <2>1, <3>1
            <4>2. (n + sub - 1) = sub * ((n + sub - 1) \div sub) + ((n + sub - 1) % sub) /\ (n + sub - 1) % sub \in 0..sub - 1
                BY <3>1, <4>1
            <4>3. (n + sub - 1) \div sub \in Int /\ sub * ((n + sub - 1) \div sub) \in Int
                BY <3>1, <4>1
            <4> QED
                BY <2>1, <3>1, <4>2, <4>3
        <3>3. Decoded(n) = {k \in 1..n : k <= sub * numT}
            BY <1>2, <2>2 DEF Decoded
        <3>4. sub * numT \in Int
            BY <2>1, <3>1
        <3> HIDE DEF sub, numT
        <3>5. \A k \in 1..n: k <= sub * numT
            BY <2>1, <3>2, <3>4
        <3> QED
            BY <3>3, <3>5
    <2>3. CASE ~(n < BatchSize)
        <3>1. (BatchSize \div DecThreads) * DecThreads = BatchSize
            <4>1. BatchSize = DecThreads * (BatchSize \div DecThreads) + (BatchSize % DecThreads) /\ BatchSize % DecThreads = 0
                BY <1>2, <2>1 DEF Divides
            <4>2. BatchSize \div DecThreads \in Int
                BY <2>1
            <4> QED
                BY <2>1, <4>1, <4>2
        <3>2. Decoded(n) = {k \in 1..n : k <= (BatchSize \div DecThreads) * DecThreads}
            BY <1>2, <2>3 DEF Decoded
        <3>3. \A k \in 1..n: k <= BatchSize
            BY <2>1
        <3> QED
            BY <3>1, <3>2, <3>3
    <2> QED
        BY <2>2, <2>3
<1> QED
    BY <1>1, <1>2

LEMMA OrderOfInput ==
    ASSUME ReturnInv, Divides, NEW g \in Devices, OrderOf(g), InputCopy(g)
    PROVE  OrderOf(g)'
<1>a. UNCHANGED <<TagQ, outPc[g], outputCount[g], outBuf[g], outMem[g], OutBusy[g], procPc[g], procIn[g], procOut[g], image, master>>
    BY DEF InputCopy, InputTake, InputFill, InputGive, InputMark, pool, process, output, deal, master
<1>b. /\ Rest(g)' = Rest(g) /\ Held(g)' = Held(g) /\ Filled(OutBusy[g])' = Filled(OutBusy[g])
      /\ Tags(g)' = Tags(g) /\ Between(g)' = Between(g)
    BY <1>a DEF Rest, Held, Tags, Between, master
<1>t. /\ Rest(g) \in Nat /\ Flying(g) \in Nat /\ Times(Flying(g)) \in Nat /\ BatchSize \in Nat \ {0}
      /\ ImageQ[g] \in Seq(Label) /\ batch[g] \in Seq(Images) /\ Len(batch[g]) \in Nat
      /\ Tags(g) \in Nat /\ ImagesOf(ImageQ[g]) \in 0..Len(ImageQ[g]) /\ ImagesOf(ImageQ[g]) \in Nat
      /\ Between(g) \in {0, 1} /\ QueueState /\ PoolState /\ Null \notin Buffers /\ BusyState(g)
      /\ CountOf(g) /\ EndsOf(g)
      /\ Filled(InBusy[g]) \in Nat /\ Filled(OutBusy[g]) \in Nat /\ Held(g) \in {0, 1}
    <2>1. Tags(g) \in 0..Len(TagQ[g]) /\ TagQ[g] \in Seq(Label) /\ ImageQ[g] \in Seq(Label) /\ batch[g] \in Seq(Images)
          /\ ImagesOf(ImageQ[g]) \in 0..Len(ImageQ[g])
        BY OrderTypes
    <2>2. Tags(g) \in Nat /\ ImagesOf(ImageQ[g]) \in Nat /\ Len(batch[g]) \in Nat
        BY <2>1
    <2> QED
        BY <2>2, OrderTypes
<1>c. Read(g)' /\ Done(g)' /\ Latest(g)'
    BY <1>a, <1>b DEF OrderOf, Read, Done, Latest, Matches
<1>k. \A k \in 1..Filled(InBusy[g]): k \in DOMAIN InBusy[g] /\ InBusy[g][k] # Null
    BY <1>t, FilledFacts DEF BusyState
<1>m. DOMAIN inMem = Devices /\ DOMAIN inMem[g] = Buffers /\ \A b \in Buffers: DOMAIN inMem[g][b] = Slots
    BY DEF ReturnInv, SessionInv, TypeOK, PoolTypes
<1>1. CASE InputTake(g)
    <2>1. UNCHANGED <<inMem[g], InBusy[g], batch[g], ImageQ[g]>>
        BY <1>1 DEF InputTake, deal
    <2> QED
        BY <1>a, <1>b, <2>1, OrderStays
<1>2. CASE InputFill(g)
    <2>1. /\ inPc[g] = "fill" /\ ImageQ[g] # <<>> /\ ImageQ'[g] = Tail(ImageQ[g])
          /\ UNCHANGED <<inMem[g], InBusy[g], InBusy>>
          /\ Head(ImageQ[g]) < 0 => batch'[g] = batch[g]
          /\ ~(Head(ImageQ[g]) < 0) => batch'[g] = Append(batch[g], Head(ImageQ[g]))
        <3>1. DOMAIN batch = Devices
            BY DEF ReturnInv, SessionInv, TypeOK, DeviceTypes
        <3> QED
            BY <1>2, <1>t, <3>1 DEF InputFill, Take, Put, QueueState, pool
    <2>2. /\ Head(ImageQ[g]) \in Label /\ Head(ImageQ[g]) = ImageQ[g][1]
          /\ Head(ImageQ[g]) < 0 <=> Head(ImageQ[g]) = End
          /\ Head(ImageQ[g]) = End => ImagesOf(ImageQ[g])' = 0
          /\ Head(ImageQ[g]) # End => ImagesOf(ImageQ[g])' = ImagesOf(ImageQ[g]) - 1 /\ ImagesOf(ImageQ[g]) > 0
        <3>1. Head(ImageQ[g]) \in Label /\ Head(ImageQ[g]) = ImageQ[g][1]
            BY <1>t, <2>1
        <3>2. /\ ImagesOf(Tail(ImageQ[g])) = IF Head(ImageQ[g]) = End THEN 0 ELSE ImagesOf(ImageQ[g]) - 1
              /\ Head(ImageQ[g]) = End <=> ImagesOf(ImageQ[g]) = 0
            BY <1>t, <2>1, HeadLeaves DEF EndsOf
        <3> QED
            BY <1>t, <2>1, <3>1, <3>2, EndIsNegative
    <2>3. Flying(g)' = Flying(g) /\ HeldMem(g)' = HeldMem(g)
        BY <1>a, <2>1 DEF Flying, Held, HeldMem
    <2>4. Processed(g)' /\ Loaded(g)'
        BY <1>a, <1>b, <2>1, <2>3 DEF OrderOf, Processed, Loaded, Matches
    <2> DEFINE f == Rest(g) + Times(Flying(g))
               c == Len(batch[g])
    <2>5. f \in Int /\ c \in Int /\ f' = f
        BY <1>b, <1>t, <2>3
    <2>6. Reads(TagQ[g], Tags(g), f, batch[g], c) /\ Reads(TagQ[g], Tags(g), f + c, ImageQ[g], ImagesOf(ImageQ[g]))
        BY DEF OrderOf, Batched, Announced, Matches
    <2>7. CASE Head(ImageQ[g]) = End
        <3>1. batch'[g] = batch[g]
            BY <2>1, <2>2, <2>7
        <3>2. Batched(g)'
            BY <1>a, <1>b, <2>3, <3>1 DEF OrderOf, Batched, Matches
        <3>3. Reads(TagQ[g], Tags(g), f + c, Tail(ImageQ[g]), 0)
            BY <2>5, ReadsNothing
        <3>4. Announced(g)'
            BY <1>a, <1>b, <2>1, <2>2, <2>3, <2>7, <3>1, <3>3 DEF Announced, Matches
        <3> QED
            BY <1>c, <2>4, <3>2, <3>4 DEF OrderOf
    <2>8. CASE Head(ImageQ[g]) # End
        <3>1. /\ batch'[g] = Append(batch[g], Head(ImageQ[g])) /\ Head(ImageQ[g]) \in Images
              /\ ImagesOf(ImageQ[g])' = ImagesOf(ImageQ[g]) - 1 /\ ImagesOf(ImageQ[g]) > 0
            BY <2>1, <2>2, <2>8 DEF Label
        <3>2. Len(batch[g])' = c + 1
            BY <1>t, <3>1
        <3>3. f + c + 1 <= Tags(g) => TagQ[g][f + c + 1] = Head(ImageQ[g])
            <4>1. 1 \in 1..ImagesOf(ImageQ[g])
                BY <1>t, <3>1
            <4>2. f \in Nat /\ c \in Nat
                <5>1. Rest(g) \in Nat /\ Times(Flying(g)) \in Nat /\ batch[g] \in Seq(Images)
                    BY <1>t
                <5>2. Rest(g) + Times(Flying(g)) \in Nat
                    BY <5>1
                <5> QED
                    BY <5>1, <5>2
            <4> HIDE DEF f, c
            <4>3. 0 < (f + c) + 1
                BY <4>2
            <4> QED
                BY <2>2, <2>5, <2>6, <4>1, <4>3 DEF Reads
        <3> HIDE DEF f
        <3>4. Reads(TagQ[g], Tags(g), f, Append(batch[g], Head(ImageQ[g])), c + 1)
            <4>1. batch[g] \in Seq(Label) /\ Head(ImageQ[g]) \in Label /\ Tags(g) \in Int
                BY <1>t, <2>2 DEF Label
            <4>2. f + Len(batch[g]) + 1 <= Tags(g) => TagQ[g][f + Len(batch[g]) + 1] = Head(ImageQ[g])
                BY <3>3
            <4> QED
                BY <2>5, <2>6, <4>1, <4>2, ReadsMore
        <3>5. Reads(TagQ[g], Tags(g), (f + c) + 1, Tail(ImageQ[g]), ImagesOf(ImageQ[g]) - 1)
            <4>1. ImageQ[g] \in Seq(Label) /\ ImageQ[g] # <<>> /\ ImagesOf(ImageQ[g]) \in 0..Len(ImageQ[g]) /\ Tags(g) \in Int
                BY <1>t, <2>1
            <4>2. f + c \in Int
                BY <2>5
            <4> HIDE DEF c
            <4> QED
                BY <2>6, <4>1, <4>2, ReadsFewer
        <3>6. (f + c) + 1 = f + (c + 1)
            BY <2>5
        <3>7. Batched(g)'
            <4>1. Matches(g, f, batch[g], Len(batch[g]))'
                BY <1>a, <1>b, <2>5, <3>1, <3>2, <3>4 DEF Matches
            <4> QED
                BY <4>1 DEF Batched, f
        <3>8. Announced(g)'
            <4>1. Reads(TagQ[g], Tags(g), f + (c + 1), Tail(ImageQ[g]), ImagesOf(ImageQ[g]) - 1)
                BY <3>5, <3>6
            <4>2. Matches(g, f + Len(batch[g]), ImageQ[g], ImagesOf(ImageQ[g]))'
                BY <1>a, <1>b, <2>1, <2>5, <3>1, <3>2, <4>1 DEF Matches
            <4> QED
                BY <4>2 DEF Announced, f
        <3> QED
            BY <1>c, <2>4, <3>7, <3>8 DEF OrderOf
    <2> QED
        BY <2>7, <2>8
<1>3. CASE InputGive(g)
    <2>1. /\ inPc[g] \in {"give", "giveLast"} /\ batch'[g] = <<>> /\ ImageQ' = ImageQ /\ inBuf[g] \in Buffers
          /\ Len(batch[g]) <= BatchSize
        <3>1. DOMAIN batch = Devices /\ Len(batch[g]) <= BatchSize
            BY DEF ReturnInv, SessionInv, InputInv, TypeOK, DeviceTypes
        <3> QED
            BY <1>3, <3>1 DEF InputGive, deal, ReturnInv, SessionInv, InputInv
    <2>2. Reads(TagQ[g], Tags(g), Rest(g) + Times(Flying(g)), batch[g], Len(batch[g]))
          /\ Reads(TagQ[g], Tags(g), Rest(g) + Times(Flying(g)) + Len(batch[g]), ImageQ[g], ImagesOf(ImageQ[g]))
        BY DEF OrderOf, Batched, Announced, Matches
    <2>3. ImagesOf(ImageQ[g])' = ImagesOf(ImageQ[g]) /\ Len(batch[g])' = 0
        BY <2>1
    <2>4. Batched(g)'
        <3>1. Flying(g)' \in Nat /\ Rest(g)' + Times(Flying(g)') \in Int
            <4>1. Flying(g)' \in Nat
                BY <1>3, <1>t, InputFlies DEF InputCopy, ReturnInv
            <4>2. Times(Flying(g)') \in Nat
                BY <4>1, TimesFacts
            <4> QED
                BY <1>b, <1>t, <4>1, <4>2
        <3>2. Reads(TagQ'[g], Tags(g)', Rest(g)' + Times(Flying(g)'), batch'[g], 0)
            BY <3>1, ReadsNothing
        <3> QED
            BY <2>3, <3>2 DEF Batched, Matches
    <2>5. CASE Len(batch[g]) = 0
        <3>1. inMem' = inMem /\ InBusy' = InBusy
            BY <1>3, <2>5 DEF InputGive
        <3>2. Flying(g)' = Flying(g) /\ HeldMem(g)' = HeldMem(g)
            BY <1>a, <3>1 DEF Flying, Held, HeldMem
        <3>3. Processed(g)' /\ Loaded(g)'
            BY <1>a, <1>b, <3>1, <3>2 DEF OrderOf, Processed, Loaded, Matches
        <3>4. Announced(g)'
            BY <1>a, <1>b, <2>1, <2>3, <2>5, <3>2 DEF OrderOf, Announced, Matches
        <3> QED
            BY <1>c, <2>4, <3>3, <3>4 DEF OrderOf
    <2>6. CASE Len(batch[g]) # 0
        <3>1. /\ InBusy'[g] = Append(InBusy[g], inBuf[g])
              /\ \A b \in Buffers: b # inBuf[g] => inMem'[g][b] = inMem[g][b]
              /\ \A k \in Slots: k \in Decoded(Len(batch[g])) => inMem'[g][inBuf[g]][k] = batch[g][k]
            <4>1. Len(batch[g]) > 0
                BY <1>t, <2>6
            <4>2. InBusy'[g] = Append(InBusy[g], inBuf[g])
                BY <1>3, <1>t, <4>1 DEF InputGive, Put, PoolState
            <4>3. inMem' = [inMem EXCEPT ![g][inBuf[g]] = [k \in Slots |-> IF k \in Decoded(Len(batch[g])) THEN batch[g][k] ELSE @[k]]]
                BY <1>3, <2>6 DEF InputGive
            <4>4. \A b \in Buffers: b # inBuf[g] => inMem'[g][b] = inMem[g][b]
                BY <1>m, <4>3
            <4>5. inMem'[g][inBuf[g]] = [k \in Slots |-> IF k \in Decoded(Len(batch[g])) THEN batch[g][k] ELSE inMem[g][inBuf[g]][k]]
                BY <1>m, <2>1, <4>3
            <4> QED
                BY <4>2, <4>4, <4>5
        <3>2. Flying(g)' = Flying(g) + 1 /\ Filled(InBusy[g])' = Filled(InBusy[g]) + 1 /\ Filled(InBusy[g]) = Len(InBusy[g])
            <4>1. Flying(g)' = Flying(g) + 1
                BY <1>3, <1>t, <2>6, InputFlies DEF InputCopy, ReturnInv
            <4>2. Filled(Append(InBusy[g], inBuf[g])) = Filled(InBusy[g]) + 1 /\ Filled(InBusy[g]) = Len(InBusy[g])
                BY <1>t, <2>1, FilledFacts DEF BusyState
            <4> QED
                BY <3>1, <4>1, <4>2
        <3>3. Apart(InIdle[g], inBuf[g], InBusy[g], procIn[g])
            BY DEF ReturnInv, BufferInv, PoolsApart
        <3>4. Processed(g)'
            <4> SUFFICES ASSUME Held(g) = 1 PROVE HeldMem(g)' = HeldMem(g)
                BY <1>a, <1>b DEF OrderOf, Processed, Matches
            <4>1. procPc[g] \in {"takeOutput", "graph"} => procIn[g] \in Buffers /\ procIn[g] # inBuf[g]
                BY <1>t, <2>1, <3>3 DEF ReturnInv, SessionInv, ProcessInv, Apart
            <4> QED
                BY <1>a, <3>1, <4>1 DEF HeldMem
        <3>5. Loaded(g)'
            <4> SUFFICES ASSUME NEW k \in 1..Filled(InBusy[g]) + 1
                         PROVE  Reads(TagQ[g], Tags(g), Rest(g) + Times(Filled(OutBusy[g]) + Held(g) + k - 1),
                                      inMem'[g][InBusy'[g][k]], BatchSize)
                BY <1>a, <1>b, <3>2 DEF Loaded, Matches
            <4>1. CASE k \in 1..Filled(InBusy[g])
                <5>1. k \in DOMAIN InBusy[g] /\ InBusy'[g][k] = InBusy[g][k] /\ InBusy[g][k] \in Buffers
                    BY <1>k, <1>t, <3>1, <4>1 DEF BusyState
                <5>2. InBusy[g][k] # inBuf[g]
                    BY <1>t, <2>1, <3>3, <5>1 DEF Apart
                <5>3. inMem'[g][InBusy'[g][k]] = inMem[g][InBusy[g][k]]
                    BY <3>1, <5>1, <5>2
                <5> QED
                    BY <4>1, <5>3 DEF OrderOf, Loaded, Matches
            <4>2. CASE k = Filled(InBusy[g]) + 1
                <5>1. InBusy'[g][k] = inBuf[g]
                    BY <1>t, <3>1, <3>2, <4>2 DEF BusyState
                <5>2. Filled(OutBusy[g]) + Held(g) + k - 1 = Flying(g)
                    BY <1>t, <4>2 DEF Flying
                <5> SUFFICES ASSUME NEW s \in 1..BatchSize, 0 < Rest(g) + Times(Flying(g)) + s, Rest(g) + Times(Flying(g)) + s <= Tags(g)
                             PROVE  TagQ[g][Rest(g) + Times(Flying(g)) + s] = inMem'[g][inBuf[g]][s]
                    BY <5>1, <5>2 DEF Reads
                <5>3. s \in 1..Len(batch[g])
                    <6>1. CASE inPc[g] = "give"
                        BY <1>t, <6>1 DEF CountOf
                    <6>2. CASE inPc[g] = "giveLast"
                        <7>1. ImagesOf(ImageQ[g]) = 0 /\ Between(g) = 0
                            BY <1>t, <6>2 DEF EndsOf, Between, Marking
                        <7>2. Tags(g) = Rest(g) + Times(Flying(g)) + Len(batch[g]) + 0 + 0
                            BY <1>t, <6>2, <7>1 DEF CountOf
                        <7> QED
                            BY <1>t, <7>2
                    <6> QED
                        BY <2>1, <6>1, <6>2
                <5>4. Decoded(Len(batch[g])) = 1..Len(batch[g])
                    <6>1. Len(batch[g]) \in 1..BatchSize
                        <7>1. Len(batch[g]) \in Nat /\ BatchSize \in Nat
                            BY <1>t
                        <7> QED
                            BY <2>1, <2>6, <7>1
                    <6> QED
                        BY <6>1, AllDecoded
                <5>5. inMem'[g][inBuf[g]][s] = batch[g][s]
                    BY <3>1, <5>3, <5>4 DEF Slots
                <5>6. TagQ[g][Rest(g) + Times(Flying(g)) + s] = batch[g][s]
                    BY <2>2, <5>3 DEF Reads
                <5> QED
                    BY <5>5, <5>6
            <4> QED
                BY <1>t, <4>1, <4>2
        <3>6. Announced(g)'
            <4>1. CASE inPc[g] = "give"
                <5>1. Len(batch[g]) = BatchSize
                    BY <1>t, <4>1 DEF CountOf
                <5>2. Times(Flying(g) + 1) = Times(Flying(g)) + BatchSize
                    BY <1>t, TimesFacts
                <5>3. Rest(g)' + Times(Flying(g)') + Len(batch[g])' = Rest(g) + Times(Flying(g)) + Len(batch[g])
                    <6>1. Rest(g)' + Times(Flying(g)') + Len(batch[g])' = Rest(g) + (Times(Flying(g)) + BatchSize) + 0
                        BY <1>b, <2>3, <3>2, <5>2
                    <6> QED
                        BY <1>t, <5>1, <6>1
                <5> QED
                    BY <1>a, <1>b, <2>1, <2>2, <2>3, <5>3 DEF Announced, Matches
            <4>2. CASE inPc[g] = "giveLast"
                <5>1. ImagesOf(ImageQ[g])' = 0
                    BY <1>t, <2>3, <4>2 DEF EndsOf
                <5>2. Rest(g)' + Times(Flying(g)') + Len(batch[g])' \in Int
                    <6>1. Times(Flying(g) + 1) \in Nat
                        <7>1. Times(Flying(g) + 1) = Times(Flying(g)) + BatchSize
                            BY <1>t, TimesFacts
                        <7> QED
                            BY <1>t, <7>1
                    <6> QED
                        BY <1>b, <1>t, <2>3, <3>2, <6>1
                <5>3. Reads(TagQ'[g], Tags(g)', Rest(g)' + Times(Flying(g)') + Len(batch[g])', ImageQ'[g], 0)
                    BY <5>2, ReadsNothing
                <5> QED
                    BY <5>1, <5>3 DEF Announced, Matches
            <4> QED
                BY <2>1, <4>1, <4>2
        <3> QED
            BY <1>c, <2>4, <3>4, <3>5, <3>6 DEF OrderOf
    <2> QED
        BY <2>5, <2>6
<1>4. CASE InputMark(g)
    <2>1. inPc[g] = "mark" /\ InBusy'[g] = Append(InBusy[g], Null) /\ UNCHANGED <<inMem[g], ImageQ[g], batch[g]>>
        BY <1>4, <1>t DEF InputMark, Put, PoolState, deal
    <2>2. Filled(InBusy[g])' = Filled(InBusy[g]) /\ Filled(InBusy[g]) = Len(InBusy[g])
        BY <1>t, <2>1, FilledFacts DEF BusyState
    <2>3. Flying(g)' = Flying(g) /\ HeldMem(g)' = HeldMem(g)
        BY <1>a, <2>1, <2>2 DEF Flying, Held, HeldMem
    <2>4. \A k \in 1..Filled(InBusy[g]): InBusy'[g][k] = InBusy[g][k]
        <3>1. \A k \in 1..Len(InBusy[g]): Append(InBusy[g], Null)[k] = InBusy[g][k]
            BY <1>t DEF BusyState
        <3> QED
            BY <2>1, <2>2, <3>1
    <2>5. Processed(g)' /\ Batched(g)' /\ Announced(g)'
        BY <1>a, <1>b, <2>1, <2>3 DEF OrderOf, Processed, Batched, Announced, Matches
    <2>6. Loaded(g)'
        BY <1>a, <1>b, <2>1, <2>2, <2>4 DEF OrderOf, Loaded, Matches
    <2> QED
        BY <1>c, <2>5, <2>6 DEF OrderOf
<1> QED
    BY <1>1, <1>2, <1>3, <1>4 DEF InputCopy

LEMMA OrderOfProcess ==
    ASSUME ReturnInv, NEW g \in Devices, OrderOf(g), Process(g)
    PROVE  OrderOf(g)'
<1>a. UNCHANGED <<TagQ, ImageQ, batch, outPc, outputCount, outBuf, inMem, image, master>>
    BY DEF Process, ProcessTakeInput, ProcessTakeOutput, ProcessGraph, ProcessGive, deal, output, input, master
<1>b. /\ Rest(g)' = Rest(g) /\ Tags(g)' = Tags(g) /\ Between(g)' = Between(g) /\ Flying(g)' = Flying(g)
    <2>1. Rest(g)' = Rest(g) /\ Tags(g)' = Tags(g) /\ Between(g)' = Between(g)
        BY <1>a DEF Rest, Tags, Between, master
    <2> QED
        BY <2>1, ProcessFlies DEF ReturnInv
<1>t. /\ QueueState /\ PoolState /\ Null \notin Buffers /\ BusyState(g)
      /\ Filled(InBusy[g]) \in Nat /\ Filled(OutBusy[g]) \in Nat /\ Held(g) \in {0, 1} /\ Rest(g) \in Nat
    BY OrderTypes
<1>c. Batched(g)' /\ Announced(g)' /\ Latest(g)'
    BY <1>a, <1>b DEF OrderOf, Batched, Announced, Latest, Matches
<1>k. /\ \A k \in 1..Filled(InBusy[g]): k \in DOMAIN InBusy[g] /\ InBusy[g][k] # Null
      /\ \A k \in 1..Filled(OutBusy[g]): k \in DOMAIN OutBusy[g] /\ OutBusy[g][k] # Null
    BY <1>t, FilledFacts DEF BusyState
<1>m. DOMAIN outMem = Devices /\ DOMAIN outMem[g] = Buffers
    BY DEF ReturnInv, SessionInv, TypeOK, PoolTypes
<1>1. CASE ProcessTakeInput(g)
    <2>1. /\ procPc[g] = "take" /\ InBusy[g] # <<>> /\ InBusy'[g] = Tail(InBusy[g]) /\ OutBusy' = OutBusy /\ outMem' = outMem
          /\ procPc'[g] = (IF Head(InBusy[g]) = Null THEN "mark" ELSE "takeOutput") /\ procIn'[g] = Head(InBusy[g])
        BY <1>t, <1>1 DEF ProcessTakeInput, Take, PoolState, Goto
    <2>2. /\ Head(InBusy[g]) = Null => Filled(InBusy[g]) = 0 /\ Filled(InBusy[g])' = 0
          /\ Head(InBusy[g]) # Null => Filled(InBusy[g]) > 0 /\ Filled(InBusy[g])' = Filled(InBusy[g]) - 1
        BY <1>t, <2>1, FilledFacts DEF BusyState
    <2>3. Held(g) = 0 /\ Filled(OutBusy[g])' = Filled(OutBusy[g])
        BY <2>1 DEF Held
    <2>4. Read(g)' /\ Done(g)'
        BY <1>a, <1>b, <2>1 DEF OrderOf, Read, Done, Matches
    <2>5. CASE Head(InBusy[g]) = Null
        <3>1. Held(g)' = 0
            BY <2>1, <2>5 DEF Held
        <3>2. Processed(g)'
            BY <3>1 DEF Processed
        <3>3. Loaded(g)'
            BY <2>2, <2>5 DEF Loaded
        <3> QED
            BY <1>c, <2>4, <3>2, <3>3 DEF OrderOf
    <2>6. CASE Head(InBusy[g]) # Null
        <3>1. Held(g)' = 1 /\ HeldMem(g)' = inMem[g][Head(InBusy[g])]
            BY <1>a, <2>1, <2>6 DEF Held, HeldMem
        <3>2. Head(InBusy[g]) = InBusy[g][1] /\ \A k \in 1..Len(InBusy[g]) - 1: InBusy'[g][k] = InBusy[g][k + 1]
            BY <1>t, <2>1 DEF BusyState
        <3>3. Filled(InBusy[g]) \in 0..Len(InBusy[g])
            BY <1>t, FilledFacts DEF BusyState
        <3>4. \A k \in 1..Filled(InBusy[g]):
                  Reads(TagQ[g], Tags(g), Rest(g) + Times(Filled(OutBusy[g]) + 0 + k - 1), inMem[g][InBusy[g][k]], BatchSize)
            BY <2>3 DEF OrderOf, Loaded, Matches
        <3>5. Processed(g)'
            <4>1. 1 \in 1..Filled(InBusy[g]) /\ Filled(OutBusy[g]) + 0 + 1 - 1 = Filled(OutBusy[g])
                BY <1>t, <2>2, <2>6
            <4>2. Reads(TagQ[g], Tags(g), Rest(g) + Times(Filled(OutBusy[g])), inMem[g][InBusy[g][1]], BatchSize)
                BY <3>4, <4>1
            <4> QED
                BY <1>a, <1>b, <2>3, <3>1, <3>2, <4>2 DEF Processed, Matches
        <3>6. Loaded(g)'
            <4> SUFFICES ASSUME NEW k \in 1..Filled(InBusy[g]) - 1
                         PROVE  Reads(TagQ[g], Tags(g), Rest(g) + Times(Filled(OutBusy[g]) + 1 + k - 1), inMem[g][InBusy'[g][k]], BatchSize)
                BY <1>a, <1>b, <2>2, <2>3, <2>6, <3>1 DEF Loaded, Matches
            <4>1. k + 1 \in 1..Filled(InBusy[g]) /\ k \in 1..Len(InBusy[g]) - 1
                  /\ Filled(OutBusy[g]) + 0 + (k + 1) - 1 = Filled(OutBusy[g]) + 1 + k - 1
                BY <1>t, <3>3
            <4>2. InBusy'[g][k] = InBusy[g][k + 1]
                BY <3>2, <4>1
            <4>3. Reads(TagQ[g], Tags(g), Rest(g) + Times(Filled(OutBusy[g]) + 0 + (k + 1) - 1), inMem[g][InBusy[g][k + 1]], BatchSize)
                BY <3>4, <4>1
            <4> QED
                BY <4>1, <4>2, <4>3
        <3> QED
            BY <1>c, <2>4, <3>5, <3>6 DEF OrderOf
    <2> QED
        BY <2>5, <2>6
<1>2. CASE ProcessTakeOutput(g)
    <2>1. /\ procPc[g] = "takeOutput" /\ procPc'[g] = "graph" /\ UNCHANGED <<InBusy, OutBusy, outMem, procIn>>
        BY <1>t, <1>2 DEF ProcessTakeOutput, PoolState, Goto
    <2>2. Held(g)' = Held(g) /\ HeldMem(g)' = HeldMem(g)
        BY <1>a, <2>1 DEF Held, HeldMem
    <2>3. Read(g)' /\ Done(g)' /\ Processed(g)' /\ Loaded(g)'
        BY <1>a, <1>b, <2>1, <2>2 DEF OrderOf, Read, Done, Processed, Loaded, Matches
    <2> QED
        BY <1>c, <2>3 DEF OrderOf
<1>3. CASE ProcessGraph(g)
    <2>1. /\ procPc[g] = "graph" /\ procPc'[g] = "giveInput" /\ UNCHANGED <<InBusy, OutBusy, procIn, procOut>>
          /\ procOut[g] \in Buffers
        BY <1>t, <1>3 DEF ProcessGraph, PoolState, Goto, ReturnInv, SessionInv, ProcessInv
    <2>2. outMem'[g][procOut[g]] = inMem[g][procIn[g]] /\ \A b \in Buffers: b # procOut[g] => outMem'[g][b] = outMem[g][b]
        BY <1>m, <1>3, <2>1 DEF ProcessGraph
    <2>3. Held(g)' = Held(g) /\ HeldMem(g)' = HeldMem(g)
        BY <1>a, <2>1, <2>2 DEF Held, HeldMem
    <2>4. Apart(OutIdle[g], procOut[g], OutBusy[g], outBuf[g])
        BY DEF ReturnInv, BufferInv, PoolsApart
    <2>5. Read(g)'
        <3>1. outPc[g] \in {"tag", "vector"} => outBuf[g] \in Buffers /\ outBuf[g] # procOut[g]
            BY <1>t, <2>1, <2>4 DEF Apart, ReturnInv, SessionInv, OutputInv
        <3> QED
            BY <1>a, <1>b, <2>2, <3>1 DEF OrderOf, Read, Matches
    <2>6. Done(g)'
        <3>1. \A k \in 1..Filled(OutBusy[g]): OutBusy[g][k] \in Buffers /\ OutBusy[g][k] # procOut[g]
            BY <1>k, <1>t, <2>1, <2>4 DEF Apart, BusyState
        <3> QED
            BY <1>a, <1>b, <2>1, <2>2, <3>1 DEF OrderOf, Done, Matches
    <2>7. Processed(g)' /\ Loaded(g)'
        BY <1>a, <1>b, <2>1, <2>3 DEF OrderOf, Processed, Loaded, Matches
    <2> QED
        BY <1>c, <2>5, <2>6, <2>7 DEF OrderOf
<1>4. CASE ProcessGive(g)
    <2>0. outMem' = outMem /\ InBusy' = InBusy
        BY <1>4 DEF ProcessGive
    <2>1. Read(g)'
        BY <1>a, <1>b, <2>0 DEF OrderOf, Read, Matches
    <2>2. CASE procPc[g] = "giveInput"
        <3>1. procPc'[g] = "giveOutput" /\ UNCHANGED <<OutBusy, procOut>>
            BY <1>t, <1>4, <2>2 DEF ProcessGive, Goto, PoolState
        <3>2. Held(g)' = Held(g) /\ HeldMem(g)' = HeldMem(g)
            BY <2>0, <2>2, <3>1 DEF Held, HeldMem
        <3>3. Done(g)' /\ Processed(g)' /\ Loaded(g)'
            BY <1>a, <1>b, <2>0, <3>1, <3>2 DEF OrderOf, Done, Processed, Loaded, Matches
        <3> QED
            BY <1>c, <2>1, <3>3 DEF OrderOf
    <2>3. CASE procPc[g] = "giveOutput"
        <3>1. procPc'[g] = "take" /\ procOut[g] \in Buffers /\ OutBusy'[g] = Append(OutBusy[g], procOut[g])
            BY <1>t, <1>4, <2>3 DEF ProcessGive, Put, PoolState, ReturnInv, SessionInv, ProcessInv, Goto
        <3>2. Filled(OutBusy[g])' = Filled(OutBusy[g]) + 1 /\ Filled(OutBusy[g]) = Len(OutBusy[g])
            <4>1. OutBusy[g] \in Seq(Buffers \cup {Null}) /\ \A i \in DOMAIN OutBusy[g]: OutBusy[g][i] # Null
                BY <1>t, <2>3 DEF BusyState
            <4>2. \A b \in Buffers: Filled(Append(OutBusy[g], b)) = Filled(OutBusy[g]) + 1
                BY <4>1, FilledFacts
            <4>3. Filled(OutBusy[g]) = Len(OutBusy[g])
                BY <4>1, FilledFacts
            <4> QED
                BY <3>1, <4>2, <4>3 DEF Filled
        <3>3. Held(g) = 1 /\ Held(g)' = 0 /\ HeldMem(g) = outMem[g][procOut[g]]
            BY <2>3, <3>1 DEF Held, HeldMem
        <3>4. Processed(g)'
            BY <3>3 DEF Processed
        <3>5. Done(g)'
            <4> SUFFICES ASSUME NEW k \in 1..Filled(OutBusy[g]) + 1
                         PROVE  Reads(TagQ[g], Tags(g), Rest(g) + Times(k - 1), outMem[g][OutBusy'[g][k]], BatchSize)
                BY <1>a, <1>b, <2>0, <3>2 DEF Done, Matches
            <4>1. CASE k \in 1..Filled(OutBusy[g])
                <5>1. OutBusy'[g][k] = OutBusy[g][k]
                    BY <1>t, <3>1, <3>2, <4>1 DEF BusyState
                <5> QED
                    BY <4>1, <5>1 DEF OrderOf, Done, Matches
            <4>2. CASE k = Filled(OutBusy[g]) + 1
                <5>1. OutBusy'[g][k] = procOut[g] /\ k - 1 = Filled(OutBusy[g])
                    BY <1>t, <3>1, <3>2, <4>2 DEF BusyState
                <5>2. Reads(TagQ[g], Tags(g), Rest(g) + Times(Filled(OutBusy[g])), outMem[g][procOut[g]], BatchSize)
                    BY <3>3 DEF OrderOf, Processed, Matches
                <5> QED
                    BY <5>1, <5>2
            <4> QED
                BY <1>t, <4>1, <4>2
        <3>6. Loaded(g)'
            <4>0. \A n, i \in Nat: \A k \in 1..i: (n + 1) + 0 + k - 1 = n + 1 + k - 1
                OBVIOUS
            <4>1. \A k \in 1..Filled(InBusy[g]): (Filled(OutBusy[g]) + 1) + 0 + k - 1 = Filled(OutBusy[g]) + 1 + k - 1
                BY <1>t, <4>0
            <4>2. \A k \in 1..Filled(InBusy[g]):
                      Reads(TagQ[g], Tags(g), Rest(g) + Times(Filled(OutBusy[g]) + 1 + k - 1), inMem[g][InBusy[g][k]], BatchSize)
                BY <3>3 DEF OrderOf, Loaded, Matches
            <4> QED
                BY <1>a, <1>b, <2>0, <3>2, <3>3, <4>1, <4>2 DEF Loaded, Matches
        <3> QED
            BY <1>c, <2>1, <3>4, <3>5, <3>6 DEF OrderOf
    <2>4. CASE procPc[g] = "mark"
        <3>1. procPc'[g] = "end" /\ OutBusy'[g] = Append(OutBusy[g], Null)
            BY <1>t, <1>4, <2>4 DEF ProcessGive, Put, PoolState, Goto
        <3>2. Filled(OutBusy[g])' = Filled(OutBusy[g]) /\ Filled(OutBusy[g]) = Len(OutBusy[g])
            BY <1>t, <2>4, <3>1, FilledFacts DEF BusyState
        <3>3. Held(g) = 0 /\ Held(g)' = 0
            BY <2>4, <3>1 DEF Held
        <3>4. \A k \in 1..Filled(OutBusy[g]): OutBusy'[g][k] = OutBusy[g][k]
            <4>1. \A k \in 1..Len(OutBusy[g]): Append(OutBusy[g], Null)[k] = OutBusy[g][k]
                BY <1>t DEF BusyState
            <4> QED
                BY <3>1, <3>2, <4>1
        <3>5. Done(g)'
            BY <1>a, <1>b, <2>0, <3>2, <3>4 DEF OrderOf, Done, Matches
        <3>6. Processed(g)' /\ Loaded(g)'
            BY <1>a, <1>b, <2>0, <3>2, <3>3 DEF OrderOf, Processed, Loaded, Matches
        <3> QED
            BY <1>c, <2>1, <3>5, <3>6 DEF OrderOf
    <2> QED
        BY <1>4, <2>2, <2>3, <2>4 DEF ProcessGive
<1> QED
    BY <1>1, <1>2, <1>3, <1>4 DEF Process

LEMMA OrderOfOutput ==
    ASSUME ReturnInv, NEW g \in Devices, OrderOf(g), OutputCopy(g)
    PROVE  OrderOf(g)'
<1>a. UNCHANGED <<ImageQ, batch, procPc, procIn, procOut, inMem, outMem, InBusy, image, master, inPc>>
    BY DEF OutputCopy, OutputTake, OutputTag, OutputVector, OutputGive, OutputMark, deal, pool, process, input, master
<1>b. /\ Held(g)' = Held(g) /\ HeldMem(g)' = HeldMem(g) /\ Between(g)' = Between(g)
    BY <1>a DEF Held, HeldMem, Between, master
<1>t. /\ QueueState /\ PoolState /\ BusyState(g) /\ CountOf(g) /\ EndsOf(g) /\ TagQ[g] \in Seq(Label) /\ Tags(g) \in 0..Len(TagQ[g])
      /\ Filled(InBusy[g]) \in Nat /\ Filled(OutBusy[g]) \in Nat /\ Held(g) \in {0, 1} /\ Rest(g) \in Nat /\ Flying(g) \in Nat
      /\ BatchSize \in Nat \ {0} /\ outputCount[g] \in 0..BatchSize /\ Tags(g) \in Nat /\ Times(Flying(g)) \in Nat
      /\ batch[g] \in Seq(Images) /\ ImagesOf(ImageQ[g]) \in Nat /\ Between(g) \in {0, 1}
    <2>1. Tags(g) \in 0..Len(TagQ[g]) /\ TagQ[g] \in Seq(Label) /\ ImageQ[g] \in Seq(Label) /\ ImagesOf(ImageQ[g]) \in 0..Len(ImageQ[g])
        BY OrderTypes
    <2>2. Tags(g) \in Nat /\ ImagesOf(ImageQ[g]) \in Nat
        BY <2>1
    <2> QED
        BY <2>2, OrderTypes
<1>d. DOMAIN outputCount = Devices
    BY DEF ReturnInv, SessionInv, TypeOK, DeviceTypes
\* Without tags there is nothing to match.
<1>n. ASSUME Tags(g)' = 0, Between(g)' = 0, Rest(g)' \in Int, outputCount'[g] \in Int, Flying(g)' = 0, Filled(OutBusy[g])' = 0,
             Held(g) = 0, Filled(InBusy[g]) = 0
      PROVE  OrderOf(g)'
    <2>1. \A q, m, n, len: \A f \in Int: n = 0 /\ len \in Int => Reads(q, n, f, m, len)
        BY ReadsNothing
    <2>2. Read(g)'
        <3>1. -outputCount'[g] \in Int /\ BatchSize \in Int
            BY <1>n, <1>t
        <3> QED
            BY <1>n, <2>1, <3>1 DEF Read, Matches
    <2>3. Done(g)' /\ Processed(g)' /\ Loaded(g)' /\ Latest(g)'
        BY <1>a, <1>b, <1>n DEF Done, Processed, Loaded, Latest
    <2>4. Batched(g)' /\ Announced(g)'
        <3>1. Rest(g)' + Times(Flying(g)') \in Int
            <4>1. Times(0) \in Nat
                BY TimesFacts
            <4> QED
                BY <1>n, <4>1
        <3>2. Len(batch'[g]) \in Int /\ ImagesOf(ImageQ'[g]) \in Int
            BY <1>a, <1>t
        <3>3. Rest(g)' + Times(Flying(g)') + Len(batch'[g]) \in Int
            BY <3>1, <3>2
        <3> QED
            BY <1>n, <2>1, <3>1, <3>2, <3>3 DEF Batched, Announced, Matches
    <2> QED
        BY <2>2, <2>3, <2>4 DEF OrderOf
<1>1. CASE OutputTake(g)
    <2>1. /\ outPc[g] = "take" /\ OutBusy[g] # <<>> /\ OutBusy'[g] = Tail(OutBusy[g]) /\ outBuf'[g] = Head(OutBusy[g])
          /\ outPc'[g] = (IF Head(OutBusy[g]) = Null THEN "mark" ELSE "tag")
          /\ outputCount'[g] = 0 /\ TagQ' = TagQ
        BY <1>d, <1>t, <1>1 DEF OutputTake, Take, Goto, PoolState, deal
    <2>2. Rest(g) = 0 /\ Tags(g)' = Tags(g)
        BY <2>1 DEF Rest, Tags
    <2>3. /\ Head(OutBusy[g]) = Null => Filled(OutBusy[g]) = 0 /\ Filled(OutBusy[g])' = 0
          /\ Head(OutBusy[g]) # Null => Filled(OutBusy[g]) > 0 /\ Filled(OutBusy[g])' = Filled(OutBusy[g]) - 1
        BY <1>t, <2>1, FilledFacts DEF BusyState
    <2>4. CASE Head(OutBusy[g]) = Null
        <3>1. inPc[g] = "end" /\ Flying(g) = 0 /\ Flying(g)' = 0
            BY <1>1, <2>4, OutputFlies DEF OutputCopy, ReturnInv
        <3>2. Tags(g) = 0 /\ Between(g) = 0 /\ Rest(g)' = 0
            <4>1. Tags(g) <= Rest(g)
                BY <1>t, <3>1 DEF CountOf
            <4>2. Between(g) = 0
                BY <1>t, <3>1 DEF EndsOf, Between, Marking
            <4>3. Rest(g)' = 0
                BY <2>1, <2>4 DEF Rest
            <4> QED
                BY <1>t, <2>2, <4>1, <4>2, <4>3
        <3>3. Held(g) = 0 /\ Filled(InBusy[g]) = 0
            BY <1>t, <3>1 DEF Flying
        <3> QED
            BY <1>b, <1>n, <2>1, <2>2, <2>3, <2>4, <3>1, <3>2, <3>3
    <2>5. CASE Head(OutBusy[g]) # Null
        <3>1. Flying(g) > 0 /\ Flying(g)' = Flying(g) - 1 /\ Rest(g)' = BatchSize /\ outPc'[g] = "tag"
            <4>1. Rest(g)' = BatchSize - 0
                BY <2>1, <2>5 DEF Rest
            <4>2. Flying(g) > 0 /\ Flying(g)' = Flying(g) - 1
                BY <1>1, <2>5, OutputFlies DEF OutputCopy, ReturnInv
            <4> QED
                BY <1>t, <2>1, <2>5, <4>1, <4>2
        <3>2. Head(OutBusy[g]) = OutBusy[g][1] /\ \A k \in 1..Len(OutBusy[g]) - 1: OutBusy'[g][k] = OutBusy[g][k + 1]
            BY <1>t, <2>1 DEF BusyState
        <3>3. Filled(OutBusy[g]) \in 0..Len(OutBusy[g])
            BY <1>t, FilledFacts DEF BusyState
        <3>4. ASSUME NEW j \in Nat PROVE BatchSize + Times(j) = 0 + Times(j + 1) /\ 0 + Times(j) = Times(j) /\ Times(j) \in Nat
            <4>1. Times(j) \in Nat /\ Times(j + 1) = Times(j) + BatchSize
                BY TimesFacts
            <4> QED
                BY <1>t, <4>1
        <3>5. \A k \in 1..Filled(OutBusy[g]): Reads(TagQ[g], Tags(g), 0 + Times(k - 1), outMem[g][OutBusy[g][k]], BatchSize)
            BY <2>2 DEF OrderOf, Done, Matches
        <3>6. Read(g)'
            <4>1. 1 \in 1..Filled(OutBusy[g]) /\ 1 - 1 = 0
                BY <1>t, <2>3, <2>5
            <4>2. Times(0) = 0
                BY TimesFacts
            <4>3. Reads(TagQ[g], Tags(g), 0 + 0, outMem[g][OutBusy[g][1]], BatchSize)
                BY <3>5, <4>1, <4>2
            <4>4. -outputCount'[g] = 0 + 0
                <5>1. \A x \in Int: x <= 0 /\ x >= 0 => -x = 0 + 0
                    OBVIOUS
                <5>2. outputCount'[g] \in Int /\ outputCount'[g] <= 0 /\ outputCount'[g] >= 0
                    BY <2>1
                <5> QED
                    BY <5>1, <5>2
            <4> QED
                BY <1>a, <2>1, <2>2, <3>2, <4>3, <4>4 DEF Read, Matches
        <3>7. Done(g)'
            <4> SUFFICES ASSUME NEW k \in 1..Filled(OutBusy[g]) - 1
                         PROVE  Reads(TagQ[g], Tags(g), BatchSize + Times(k - 1), outMem[g][OutBusy'[g][k]], BatchSize)
                BY <1>a, <2>1, <2>2, <2>3, <2>5, <3>1 DEF Done, Matches
            <4>1. k + 1 \in 1..Filled(OutBusy[g]) /\ k \in 1..Len(OutBusy[g]) - 1 /\ k - 1 \in Nat /\ (k - 1) + 1 = (k + 1) - 1
                BY <1>t, <3>3
            <4>2. BatchSize + Times(k - 1) = 0 + Times((k + 1) - 1)
                BY <3>4, <4>1
            <4>3. Reads(TagQ[g], Tags(g), 0 + Times((k + 1) - 1), outMem[g][OutBusy[g][k + 1]], BatchSize)
                BY <3>5, <4>1
            <4>4. OutBusy'[g][k] = OutBusy[g][k + 1]
                BY <3>2, <4>1
            <4> QED
                BY <4>2, <4>3, <4>4
        <3>8. Processed(g)'
            <4> SUFFICES ASSUME Held(g) = 1
                         PROVE  Reads(TagQ[g], Tags(g), BatchSize + Times(Filled(OutBusy[g]) - 1), HeldMem(g), BatchSize)
                BY <1>b, <2>1, <2>2, <2>3, <2>5, <3>1 DEF Processed, Matches
            <4>1. Filled(OutBusy[g]) - 1 \in Nat /\ (Filled(OutBusy[g]) - 1) + 1 = Filled(OutBusy[g])
                BY <1>t, <2>3, <2>5
            <4>2. BatchSize + Times(Filled(OutBusy[g]) - 1) = 0 + Times(Filled(OutBusy[g]))
                BY <3>4, <4>1
            <4>3. Reads(TagQ[g], Tags(g), 0 + Times(Filled(OutBusy[g])), HeldMem(g), BatchSize)
                BY <2>2 DEF OrderOf, Processed, Matches
            <4> QED
                BY <4>2, <4>3
        <3>9. Loaded(g)'
            <4> SUFFICES ASSUME NEW k \in 1..Filled(InBusy[g])
                         PROVE  Reads(TagQ[g], Tags(g), BatchSize + Times((Filled(OutBusy[g]) - 1) + Held(g) + k - 1),
                                      inMem[g][InBusy[g][k]], BatchSize)
                BY <1>a, <1>b, <2>1, <2>2, <2>3, <2>5, <3>1 DEF Loaded, Matches
            <4>1. /\ (Filled(OutBusy[g]) - 1) + Held(g) + k - 1 \in Nat
                  /\ ((Filled(OutBusy[g]) - 1) + Held(g) + k - 1) + 1 = Filled(OutBusy[g]) + Held(g) + k - 1
                <5>1. Filled(OutBusy[g]) \in Nat /\ Filled(OutBusy[g]) > 0 /\ Held(g) \in Nat /\ Filled(InBusy[g]) \in Nat
                    BY <1>t, <2>3, <2>5
                <5>2. \A n, h, i \in Nat: n > 0 => \A j \in 1..i: (n - 1) + h + j - 1 \in Nat /\ ((n - 1) + h + j - 1) + 1 = n + h + j - 1
                    OBVIOUS
                <5> QED
                    BY <5>1, <5>2
            <4>2. BatchSize + Times((Filled(OutBusy[g]) - 1) + Held(g) + k - 1) = 0 + Times(Filled(OutBusy[g]) + Held(g) + k - 1)
                BY <3>4, <4>1
            <4>3. Reads(TagQ[g], Tags(g), 0 + Times(Filled(OutBusy[g]) + Held(g) + k - 1), inMem[g][InBusy[g][k]], BatchSize)
                BY <2>2 DEF OrderOf, Loaded, Matches
            <4> QED
                BY <4>2, <4>3
        <3>10. Batched(g)' /\ Announced(g)'
            <4>1. Rest(g)' + Times(Flying(g)') = Rest(g) + Times(Flying(g))
                <5>1. Flying(g) - 1 \in Nat /\ (Flying(g) - 1) + 1 = Flying(g)
                    BY <1>t, <3>1
                <5> QED
                    BY <2>2, <3>1, <3>4, <5>1
            <4> QED
                BY <1>a, <2>1, <2>2, <4>1 DEF OrderOf, Batched, Announced, Matches
        <3>11. Latest(g)'
            BY <1>a, <1>b, <2>1, <2>2 DEF OrderOf, Latest
        <3> QED
            BY <3>6, <3>7, <3>8, <3>9, <3>10, <3>11 DEF OrderOf
    <2> QED
        BY <2>4, <2>5
<1>f. ASSUME ~OutputTake(g)
      PROVE  Flying(g)' = Flying(g) /\ OutBusy' = OutBusy
    <2>1. Flying(g)' = Flying(g)
        BY <1>f, OutputFlies DEF ReturnInv
    <2> QED
        BY <1>f, <2>1 DEF OutputCopy, OutputTag, OutputVector, OutputGive, OutputMark, pool
<1>2. CASE OutputTag(g)
    <2>1. /\ outPc[g] = "tag" /\ TagQ[g] # <<>> /\ TagQ'[g] = Tail(TagQ[g]) /\ Head(TagQ[g]) \in Label
          /\ outBuf' = outBuf
          /\ Head(TagQ[g]) = End => outPc'[g] = "giveLast" /\ outputCount' = outputCount
          /\ Head(TagQ[g]) # End => /\ outPc'[g] \in {"tag", "vector", "give"} /\ outputCount'[g] = outputCount[g] + 1
                                    /\ outPc'[g] = "give" => outputCount[g] + 1 = BatchSize
        <3>1. TagQ[g] # <<>> /\ TagQ[g] \in Seq(Label)
            BY <1>t, <1>2 DEF OutputTag, QueueState
        <3>2. Head(TagQ[g]) \in Label /\ (Head(TagQ[g]) < 0 <=> Head(TagQ[g]) = End)
            BY <3>1, QueueStep, EndIsNegative
        <3> QED
            BY <1>d, <1>t, <1>2, <3>1, <3>2 DEF OutputTag, Take, Goto, QueueState
    <2>2. /\ Tags(g)' = IF Head(TagQ[g]) = End THEN 0 ELSE Tags(g) - 1
          /\ Head(TagQ[g]) = End <=> Tags(g) = 0
        BY <1>t, <2>1, HeadLeaves DEF QueueState, EndsOf, Tags
    <2>3. Flying(g)' = Flying(g) /\ OutBusy' = OutBusy
        BY <1>f, <2>1 DEF OutputTake
    <2>4. Rest(g) = BatchSize - outputCount[g] /\ Rest(g) > 0
        BY <1>t, <2>1 DEF Rest, ReturnInv, SessionInv, OutputInv
    <2>5. CASE Head(TagQ[g]) = End
        <3>1. Tags(g) = 0 /\ Tags(g)' = 0 /\ outPc'[g] = "giveLast" /\ Rest(g)' = 0 /\ outputCount'[g] \in Int
            BY <1>t, <2>1, <2>2, <2>5 DEF Rest
        <3>2. CountOf(g)'
            BY <1>t, CountOfOutput DEF ReturnInv
        <3>3. inPc[g] \in {"mark", "end"} /\ Flying(g) = 0
            BY <1>a, <2>3, <3>1, <3>2 DEF CountOf
        <3>4. Between(g) = 0
            BY <1>t, <3>3 DEF EndsOf, Between, Marking
        <3>5. Held(g) = 0 /\ Filled(InBusy[g]) = 0 /\ Filled(OutBusy[g]) = 0
            BY <1>t, <3>3 DEF Flying
        <3> QED
            BY <1>b, <1>n, <2>3, <3>1, <3>3, <3>4, <3>5
    <2>6. CASE Head(TagQ[g]) # End
        <3>1. Tags(g)' = Tags(g) - 1 /\ Tags(g) > 0 /\ Rest(g)' = Rest(g) - 1
            <4>1. Tags(g)' = Tags(g) - 1 /\ Tags(g) > 0
                BY <1>t, <2>2, <2>6
            <4>2. CASE outPc'[g] \in {"tag", "vector"}
                <5>1. Rest(g)' = BatchSize - (outputCount[g] + 1)
                    BY <2>1, <2>6, <4>2 DEF Rest
                <5> QED
                    BY <1>t, <2>4, <4>1, <5>1
            <4>3. CASE outPc'[g] = "give"
                <5>1. Rest(g)' = 0 /\ outputCount[g] + 1 = BatchSize
                    BY <2>1, <2>6, <4>3 DEF Rest
                <5> QED
                    BY <1>t, <2>4, <4>1, <5>1
            <4> QED
                BY <2>1, <2>6, <4>2, <4>3
        <3>2. \A m: \A f, len \in Int: Matches(g, f, m, len) => Reads(TagQ'[g], Tags(g)', f - 1, m, len)
            BY <1>t, <2>1, <3>1, ReadsBehind DEF Matches
        <3>3. \A x \in Int: (Rest(g) - 1) + x = (Rest(g) + x) - 1
            BY <1>t
        <3>4. Read(g)'
            <4> SUFFICES ASSUME outPc'[g] \in {"tag", "vector"}
                         PROVE  Reads(TagQ'[g], Tags(g)', -(outputCount[g] + 1), outMem[g][outBuf[g]], BatchSize)
                BY <1>a, <2>1, <2>6 DEF Read, Matches
            <4>1. -outputCount[g] \in Int /\ BatchSize \in Int /\ -(outputCount[g] + 1) = -outputCount[g] - 1
                BY <1>t
            <4>2. Matches(g, -outputCount[g], outMem[g][outBuf[g]], BatchSize)
                BY <2>1 DEF OrderOf, Read
            <4>3. Reads(TagQ'[g], Tags(g)', -outputCount[g] - 1, outMem[g][outBuf[g]], BatchSize)
                BY <3>2, <4>1, <4>2
            <4> QED
                BY <4>1, <4>3
        <3>5. Done(g)'
            <4> SUFFICES ASSUME NEW k \in 1..Filled(OutBusy[g])
                         PROVE  Reads(TagQ'[g], Tags(g)', (Rest(g) - 1) + Times(k - 1), outMem[g][OutBusy[g][k]], BatchSize)
                BY <1>a, <2>3, <3>1 DEF Done, Matches
            <4>1. Rest(g) + Times(k - 1) \in Int /\ BatchSize \in Int /\ Times(k - 1) \in Int
                <5>1. k - 1 \in Nat
                    BY <1>t
                <5> QED
                    BY <1>t, <5>1, Positions, TimesFacts
            <4>2. Matches(g, Rest(g) + Times(k - 1), outMem[g][OutBusy[g][k]], BatchSize)
                BY DEF OrderOf, Done
            <4>3. Reads(TagQ'[g], Tags(g)', (Rest(g) + Times(k - 1)) - 1, outMem[g][OutBusy[g][k]], BatchSize)
                BY <3>2, <4>1, <4>2
            <4> QED
                BY <3>3, <4>1, <4>3
        <3>6. Processed(g)'
            <4> SUFFICES ASSUME Held(g) = 1
                         PROVE  Reads(TagQ'[g], Tags(g)', (Rest(g) - 1) + Times(Filled(OutBusy[g])), HeldMem(g), BatchSize)
                BY <1>b, <2>3, <3>1 DEF Processed, Matches
            <4>1. Rest(g) + Times(Filled(OutBusy[g])) \in Int /\ BatchSize \in Int /\ Times(Filled(OutBusy[g])) \in Int
                BY <1>t, Positions, TimesFacts
            <4>2. Matches(g, Rest(g) + Times(Filled(OutBusy[g])), HeldMem(g), BatchSize)
                BY DEF OrderOf, Processed
            <4>3. Reads(TagQ'[g], Tags(g)', (Rest(g) + Times(Filled(OutBusy[g]))) - 1, HeldMem(g), BatchSize)
                BY <3>2, <4>1, <4>2
            <4> QED
                BY <3>3, <4>1, <4>3
        <3>7. Loaded(g)'
            <4> SUFFICES ASSUME NEW k \in 1..Filled(InBusy[g])
                         PROVE  Reads(TagQ'[g], Tags(g)', (Rest(g) - 1) + Times(Filled(OutBusy[g]) + Held(g) + k - 1),
                                      inMem[g][InBusy[g][k]], BatchSize)
                BY <1>a, <1>b, <2>3, <3>1 DEF Loaded, Matches
            <4>1. /\ Rest(g) + Times(Filled(OutBusy[g]) + Held(g) + k - 1) \in Int /\ BatchSize \in Int
                  /\ Times(Filled(OutBusy[g]) + Held(g) + k - 1) \in Int
                <5>1. Filled(OutBusy[g]) + Held(g) + k - 1 \in Nat
                    <6>1. Filled(OutBusy[g]) \in Nat /\ Held(g) \in Nat /\ k \in Nat /\ k >= 1
                        BY <1>t
                    <6>2. \A a, b, c \in Nat: c >= 1 => a + b + c - 1 \in Nat
                        OBVIOUS
                    <6> QED
                        BY <6>1, <6>2
                <5> QED
                    BY <1>t, <5>1, Positions, TimesFacts
            <4>2. Matches(g, Rest(g) + Times(Filled(OutBusy[g]) + Held(g) + k - 1), inMem[g][InBusy[g][k]], BatchSize)
                BY DEF OrderOf, Loaded
            <4>3. Reads(TagQ'[g], Tags(g)', (Rest(g) + Times(Filled(OutBusy[g]) + Held(g) + k - 1)) - 1,
                        inMem[g][InBusy[g][k]], BatchSize)
                BY <3>2, <4>1, <4>2
            <4> QED
                BY <3>3, <4>1, <4>3
        <3>8. Batched(g)'
            <4>1. Rest(g) + Times(Flying(g)) \in Int /\ Times(Flying(g)) \in Int /\ Len(batch[g]) \in Int
                BY <1>t
            <4>2. Matches(g, Rest(g) + Times(Flying(g)), batch[g], Len(batch[g]))
                BY DEF OrderOf, Batched
            <4>3. Reads(TagQ'[g], Tags(g)', (Rest(g) + Times(Flying(g))) - 1, batch[g], Len(batch[g]))
                BY <3>2, <4>1, <4>2
            <4>4. Rest(g)' + Times(Flying(g)') = (Rest(g) + Times(Flying(g))) - 1
                BY <2>3, <3>1, <3>3, <4>1
            <4> QED
                BY <1>a, <4>3, <4>4 DEF Batched, Matches
        <3>9. Announced(g)'
            <4> DEFINE x == Times(Flying(g)) + Len(batch[g])
            <4>1. Rest(g) + Times(Flying(g)) + Len(batch[g]) \in Int /\ ImagesOf(ImageQ[g]) \in Int
                BY <1>t
            <4>2. Matches(g, Rest(g) + Times(Flying(g)) + Len(batch[g]), ImageQ[g], ImagesOf(ImageQ[g]))
                BY DEF OrderOf, Announced
            <4>3. Reads(TagQ'[g], Tags(g)', (Rest(g) + Times(Flying(g)) + Len(batch[g])) - 1, ImageQ[g], ImagesOf(ImageQ[g]))
                BY <3>2, <4>1, <4>2
            <4>4. Rest(g)' + Times(Flying(g)') + Len(batch[g]) = (Rest(g) + Times(Flying(g)) + Len(batch[g])) - 1
                BY <1>t, <2>3, <3>1
            <4> QED
                BY <1>a, <4>3, <4>4 DEF Announced, Matches
        <3>10. Latest(g)'
            <4> SUFFICES ASSUME Between(g) = 1 PROVE TagQ'[g][Tags(g)'] = image
                BY <1>a, <1>b DEF Latest
            <4>1. inPc[g] \notin {"mark", "end"}
                BY <1>t DEF EndsOf, Between, Marking
            <4>2. Tags(g) = Rest(g) + Times(Flying(g)) + Len(batch[g]) + ImagesOf(ImageQ[g]) + 1
                BY <1>t, <4>1 DEF CountOf
            <4>3. Tags(g) > 1 /\ Tags(g) - 1 \in 1..Len(TagQ[g]) - 1 /\ (Tags(g) - 1) + 1 = Tags(g)
                <5>1. Len(batch[g]) \in Nat /\ Len(TagQ[g]) \in Nat
                    BY <1>t
                <5>2. Tags(g) > 1
                    <6>1. \A r, t, l, i \in Nat: r > 0 => r + t + l + i + 1 > 1
                        OBVIOUS
                    <6>2. Rest(g) \in Nat /\ Times(Flying(g)) \in Nat /\ ImagesOf(ImageQ[g]) \in Nat /\ Rest(g) > 0
                        BY <1>t, <2>4
                    <6> QED
                        BY <4>2, <5>1, <6>1, <6>2
                <5>3. Tags(g) \in 0..Len(TagQ[g])
                    BY <1>t
                <5>4. \A m, n \in Nat: m \in 0..n /\ m > 1 => m - 1 \in 1..n - 1 /\ (m - 1) + 1 = m
                    OBVIOUS
                <5> QED
                    BY <5>1, <5>2, <5>3, <5>4
            <4>4. \A i \in 1..Len(TagQ[g]) - 1: TagQ'[g][i] = TagQ[g][i + 1]
                BY <1>t, <2>1
            <4>5. TagQ'[g][Tags(g) - 1] = TagQ[g][(Tags(g) - 1) + 1]
                BY <4>3, <4>4
            <4>6. TagQ[g][Tags(g)] = image
                BY DEF OrderOf, Latest
            <4> QED
                BY <3>1, <4>3, <4>5, <4>6
        <3> QED
            BY <3>4, <3>5, <3>6, <3>7, <3>8, <3>9, <3>10 DEF OrderOf
    <2> QED
        BY <2>5, <2>6
<1>3. CASE OutputVector(g) \/ OutputGive(g) \/ OutputMark(g)
    <2>1. /\ UNCHANGED <<TagQ, outputCount>> /\ (OutputVector(g) => outBuf' = outBuf)
          /\ \/ OutputVector(g) /\ outPc[g] = "vector" /\ (outPc'[g] = IF outputCount[g] = BatchSize THEN "give" ELSE "tag")
             \/ outPc[g] \in {"give", "giveLast", "mark"} /\ outPc'[g] \in {"take", "mark", "end"}
        BY <1>t, <1>3 DEF OutputVector, OutputGive, OutputMark, deal, Goto, PoolState
    <2>2. Flying(g)' = Flying(g) /\ OutBusy' = OutBusy
        <3>1. ~OutputTake(g)
            BY <2>1 DEF OutputTake
        <3> QED
            BY <1>f, <3>1
    <2>3. Tags(g)' = Tags(g) /\ Rest(g)' = Rest(g)
        BY <1>t, <2>1 DEF Tags, Rest
    <2>4. Read(g)'
        BY <1>a, <2>1, <2>3 DEF OrderOf, Read, Matches
    <2>5. Done(g)' /\ Processed(g)' /\ Loaded(g)'
        BY <1>a, <1>b, <2>1, <2>2, <2>3 DEF OrderOf, Done, Processed, Loaded, Matches
    <2>6. Batched(g)' /\ Announced(g)' /\ Latest(g)'
        BY <1>a, <1>b, <2>1, <2>2, <2>3 DEF OrderOf, Batched, Announced, Latest, Matches
    <2> QED
        BY <2>4, <2>5, <2>6 DEF OrderOf
<1> QED
    BY <1>1, <1>2, <1>3 DEF OutputCopy

\* A step of device g leaves the others as they are.
LEMMA OrderOfOthers ==
    ASSUME ReturnInv, NEW g \in Devices, NEW h \in Devices, h # g, OrderOf(h), InputCopy(g) \/ Process(g) \/ OutputCopy(g)
    PROVE  OrderOf(h)'
<1>0. QueueState /\ PoolState /\ DOMAIN batch = Devices /\ DOMAIN outputCount = Devices
    BY QueueStates, PoolStates DEF ReturnInv, SessionInv, TypeOK, DeviceTypes
<1>m. DOMAIN inMem = Devices /\ DOMAIN outMem = Devices /\ DOMAIN inBuf = Devices /\ DOMAIN outBuf = Devices
      /\ DOMAIN procIn = Devices /\ DOMAIN procOut = Devices
    BY DEF ReturnInv, SessionInv, TypeOK, DeviceTypes, PoolTypes
<1>1. /\ UNCHANGED <<outPc[h], outputCount[h], outBuf[h], outMem[h], OutBusy[h], procPc[h], procIn[h], procOut[h]>>
      /\ UNCHANGED <<inMem[h], InBusy[h], batch[h], ImageQ[h], TagQ[h], master>>
    <2>1. CASE InputCopy(g)
        <3>1. UNCHANGED <<TagQ, OutBusy, outMem, master, process, output>>
            BY <2>1 DEF InputCopy, InputTake, InputFill, InputGive, InputMark, deal, pool
        <3>2. batch'[h] = batch[h] /\ inMem'[h] = inMem[h]
            BY <1>0, <1>m, <2>1 DEF InputCopy, InputTake, InputFill, InputGive, InputMark, Put, pool
        <3>3. InBusy'[h] = InBusy[h] /\ ImageQ'[h] = ImageQ[h]
            BY <1>0, <2>1 DEF InputCopy, InputTake, InputFill, InputGive, InputMark, PoolState, QueueState, Put, Take, pool, deal
        <3> QED
            BY <3>1, <3>2, <3>3 DEF process, output
    <2>2. CASE Process(g)
        <3>1. UNCHANGED <<TagQ, ImageQ, inMem, master, input, output>>
            BY <2>2 DEF Process, ProcessTakeInput, ProcessTakeOutput, ProcessGraph, ProcessGive, deal
        <3>2. procPc'[h] = procPc[h] /\ procIn'[h] = procIn[h] /\ procOut'[h] = procOut[h] /\ outMem'[h] = outMem[h]
            BY <1>0, <1>m, <2>2 DEF Process, ProcessTakeInput, ProcessTakeOutput, ProcessGraph, ProcessGive, PoolState, Goto
        <3>3. InBusy'[h] = InBusy[h] /\ OutBusy'[h] = OutBusy[h]
            BY <1>0, <2>2 DEF Process, ProcessTakeInput, ProcessTakeOutput, ProcessGraph, ProcessGive, PoolState, Put, Take
        <3> QED
            BY <3>1, <3>2, <3>3 DEF input, output
    <2>3. CASE OutputCopy(g)
        <3>1. UNCHANGED <<ImageQ, InBusy, inMem, outMem, master, input, process>>
            BY <2>3 DEF OutputCopy, OutputTake, OutputTag, OutputVector, OutputGive, OutputMark, deal, pool
        <3>2. outPc'[h] = outPc[h] /\ outputCount'[h] = outputCount[h] /\ outBuf'[h] = outBuf[h]
            BY <1>0, <1>m, <2>3 DEF OutputCopy, OutputTake, OutputTag, OutputVector, OutputGive, OutputMark, PoolState, Goto
        <3>3. OutBusy'[h] = OutBusy[h] /\ TagQ'[h] = TagQ[h]
            BY <1>0, <2>3 DEF OutputCopy, OutputTake, OutputTag, OutputVector, OutputGive, OutputMark, PoolState, QueueState, Take, pool, deal
        <3> QED
            BY <3>1, <3>2, <3>3 DEF input, process
    <2> QED
        BY <2>1, <2>2, <2>3
<1>2. Between(h)' = Between(h) /\ image' = image
    BY <1>1 DEF Between, master
<1> QED
    BY <1>1, <1>2, OrderStays

LEMMA OrderStep == ASSUME Divides, ReturnInv, OrderInv, [Next]_vars PROVE OrderInv'
<1>0. QueueState /\ PoolState /\ (\A h \in Devices: OrderOf(h))
    BY QueueStates, PoolStates DEF OrderInv, ReturnInv
<1> SUFFICES ASSUME NEW h \in Devices PROVE OrderOf(h)'
    BY Zenon DEF OrderInv
<1>1. ASSUME NEW g \in Working, InputCopy(g) \/ Process(g) \/ OutputCopy(g)
      PROVE  OrderOf(h)'
    <2>1. g \in Devices
        BY WorkingDevices DEF ReturnInv, SessionInv, TypeOK
    <2>2. CASE h = g
        BY <1>0, <1>1, <2>1, <2>2, OrderOfInput, OrderOfProcess, OrderOfOutput
    <2>3. CASE h # g
        BY <1>0, <1>1, <2>1, <2>3, OrderOfOthers
    <2> QED
        BY <2>2, <2>3
<1>2. ASSUME UNCHANGED <<master, InBusy, OutBusy, inMem, outMem, input, process, output>>, TagQ'[h] = TagQ[h], ImageQ'[h] = ImageQ[h]
      PROVE  OrderOf(h)'
    <2>1. Between(h)' = Between(h) /\ image' = image
        BY <1>2 DEF Between, master
    <2>2. UNCHANGED <<outPc[h], outputCount[h], outBuf[h], outMem[h], OutBusy[h], procPc[h], procIn[h], procOut[h],
                      inMem[h], InBusy[h], batch[h], ImageQ[h], TagQ[h]>>
        BY <1>2 DEF input, process, output
    <2> QED
        BY <1>0, <2>1, <2>2, OrderStays
<1>3. CASE Run /\ ~DestroyMark
    BY <1>2, <1>3 DEF Run, RunLoop, RunPack, RunVector, RunSend, RunAsk, RunReceive, RunBye,
                      Destroy, DestroyInput, DestroyJoinMaster, DestroyJoin, DestroyFree, deal, pool
<1>4. CASE DestroyMark
    <2>1. UNCHANGED <<master, InBusy, OutBusy, inMem, outMem, input, process, output>>
          /\ \/ TagQ' = Put(TagQ, dying, End) /\ ImageQ' = ImageQ
             \/ ImageQ' = Put(ImageQ, dying, End) /\ TagQ' = TagQ
        BY <1>4 DEF DestroyMark, pool
    <2>2. Between(h)' = 0
        <3>1. masterPc = "end" /\ masterPc' = masterPc
            BY <1>4 DEF DestroyMark, ReturnInv, EndInv, MasterEnds, Joined, master
        <3> QED
            BY <3>1 DEF Between
    <2>3. UNCHANGED <<outPc[h], outputCount[h], outBuf[h], outMem[h], OutBusy[h], procPc[h], procIn[h], procOut[h],
                      inMem[h], InBusy[h], batch[h]>>
        BY <2>1 DEF input, process, output
    <2>4. \/ TagQ'[h] = TagQ[h] /\ ImageQ'[h] = ImageQ[h]
          \/ TagQ'[h] = Append(TagQ[h], End) /\ ImageQ'[h] = ImageQ[h]
          \/ TagQ'[h] = TagQ[h] /\ ImageQ'[h] = Append(ImageQ[h], End)
        BY <1>0, <2>1 DEF Put, QueueState
    <2> QED
        BY <1>0, <2>2, <2>3, <2>4, OrderAtEnd
<1>5. CASE ClientCloses \/ UNCHANGED vars
    BY <1>2, <1>5 DEF ClientCloses, vars, deal, pool
<1> QED
    BY <1>0, <1>1, <1>3, <1>4, <1>5, OrderOfMaster DEF Next

LEMMA OrderInit == ASSUME Init PROVE OrderInv
<1>1. Filled(<<>>) = 0 /\ ImagesOf(<<>>) = 0 /\ Len(<<>>) = 0
    BY EndsEmpty DEF Filled
<1> SUFFICES ASSUME NEW g \in Devices PROVE OrderOf(g)
    BY DEF OrderInv
<1>2. /\ outPc[g] = "take" /\ procPc[g] = "take" /\ masterPc = "take" /\ InBusy[g] = <<>> /\ OutBusy[g] = <<>>
      /\ batch[g] = <<>> /\ ImageQ[g] = <<>>
    BY DEF Init, PerDevice
<1>3. Read(g) /\ Done(g) /\ Processed(g) /\ Loaded(g) /\ Latest(g)
    BY <1>1, <1>2 DEF Read, Done, Processed, Held, Loaded, Latest, Between
<1>4. Batched(g) /\ Announced(g)
    BY <1>1, <1>2 DEF Batched, Announced, Matches, Reads
<1> QED
    BY <1>3, <1>4 DEF OrderOf
------------------------------------------------------------------------------
(* Tags and results.                                                        *)
\* q has every member of W from a on and before b, in order, and nothing else.
Lists(q, a, b, W) ==
    /\ \A i, j \in DOMAIN q: i < j => q[i] < q[j]
    /\ \A i \in DOMAIN q: a <= q[i] /\ q[i] < b /\ q[i] \in W
    /\ \A t \in W: a <= t /\ t < b => \E i \in DOMAIN q: q[i] = t

\* On one device, the images whose vectors are in vectorQ: those from First on
\* and before Behind that have one.
WithVector == {t \in Images: HasVector(t)}
First == IF runPc = "vector" THEN Packed - 1 ELSE Packed
Behind == IF outPc[1] = "vector" THEN Answered - 1 ELSE Answered

Vectors ==
    /\ First <= Behind /\ Lists(vectorQ, First, Behind, WithVector)
    /\ runPc = "vector" => First \in WithVector
    /\ outPc[1] = "vector" => Behind \in WithVector /\ outMem[1][outBuf[1]][outputCount[1]] = Behind
VectorInv == GPUs = 1 /\ InSession => Vectors

\* A result bears the tag of its image from the output thread to the client.
Together(q) == \A i \in DOMAIN q: q[i][1] = q[i][2]
MatchInv ==
    /\ runPc = "vector" => mode # "top1"
    /\ Together(outputQ)
    /\ Separate => Together(packet)
    /\ TagMatchesResult

LEMMA ListsMore ==
    ASSUME NEW q \in Seq(Label), NEW a \in Int, NEW b \in Int, NEW W, W \subseteq Int, Lists(q, a, b, W), a <= b
    PROVE  /\ b \in W => Lists(Append(q, b), a, b + 1, W)
           /\ b \notin W => Lists(q, a, b + 1, W)
<1>0. \A i \in DOMAIN q: q[i] \in Int
    BY DEF Label, Images, End
<1>1. ASSUME b \in W
      PROVE  Lists(Append(q, b), a, b + 1, W)
    <2>1. /\ DOMAIN Append(q, b) = 1..Len(q) + 1 /\ DOMAIN q = 1..Len(q) /\ Len(q) \in Nat
          /\ Append(q, b)[Len(q) + 1] = b /\ \A i \in 1..Len(q): Append(q, b)[i] = q[i]
        OBVIOUS
    <2>2. ASSUME NEW i \in 1..Len(q) + 1, NEW j \in 1..Len(q) + 1, i < j PROVE Append(q, b)[i] < Append(q, b)[j]
        <3>1. i \in 1..Len(q) /\ Append(q, b)[i] = q[i]
            BY <2>1, <2>2
        <3>2. CASE j \in 1..Len(q)
            BY <2>1, <2>2, <3>1, <3>2 DEF Lists
        <3>3. CASE j = Len(q) + 1
            BY <2>1, <3>1, <3>3 DEF Lists
        <3> QED
            BY <2>1, <3>2, <3>3
    <2>3. ASSUME NEW i \in 1..Len(q) + 1 PROVE a <= Append(q, b)[i] /\ Append(q, b)[i] < b + 1 /\ Append(q, b)[i] \in W
        <3>1. CASE i \in 1..Len(q)
            <4>1. a <= q[i] /\ q[i] < b /\ q[i] \in W /\ q[i] \in Int /\ Append(q, b)[i] = q[i]
                BY <1>0, <2>1, <3>1 DEF Lists
            <4> QED
                BY <4>1
        <3>2. CASE i = Len(q) + 1
            BY <1>1, <2>1, <3>2
        <3> QED
            BY <2>1, <3>1, <3>2
    <2>4. ASSUME NEW t \in W, a <= t, t < b + 1 PROVE \E i \in 1..Len(q) + 1: Append(q, b)[i] = t
        <3>1. CASE t = b
            BY <2>1, <3>1
        <3>2. CASE t < b
            <4>1. PICK i \in DOMAIN q: q[i] = t
                BY <2>4, <3>2 DEF Lists
            <4> QED
                BY <2>1, <4>1
        <3>3. t \in Int
            OBVIOUS
        <3> QED
            BY <2>4, <3>1, <3>2, <3>3
    <2> QED
        BY <2>1, <2>2, <2>3, <2>4 DEF Lists
<1>2. ASSUME b \notin W
      PROVE  Lists(q, a, b + 1, W)
    <2>1. \A t \in W: t < b + 1 => t < b
        BY <1>2
    <2>2. \A i \in DOMAIN q: q[i] < b => q[i] < b + 1
        BY <1>0
    <2> QED
        BY <2>1, <2>2 DEF Lists
<1> QED
    BY <1>1, <1>2

LEMMA ListsFewer ==
    ASSUME NEW q \in Seq(Label), NEW a \in Int, NEW b \in Int, NEW W, W \subseteq Int, Lists(q, a, b, W)
    PROVE  /\ a \in W /\ q # <<>> => Head(q) = a /\ a < b /\ Lists(Tail(q), a + 1, b, W)
           /\ a \notin W => Lists(q, a + 1, b, W)
<1>0. \A i \in DOMAIN q: q[i] \in Int
    BY DEF Label, Images, End
<1>1. ASSUME a \in W, q # <<>>
      PROVE  Head(q) = a /\ a < b /\ Lists(Tail(q), a + 1, b, W)
    <2>1. /\ Head(q) = q[1] /\ 1 \in DOMAIN q /\ DOMAIN q = 1..Len(q) /\ Len(q) \in Nat /\ Len(q) >= 1
          /\ DOMAIN Tail(q) = 1..Len(q) - 1 /\ \A i \in 1..Len(q) - 1: Tail(q)[i] = q[i + 1]
        BY <1>1
    <2>2. a <= q[1] /\ q[1] < b /\ q[1] \in Int
        BY <1>0, <2>1 DEF Lists
    <2>3. a < b
        BY <2>2
    <2>4. PICK k \in DOMAIN q: q[k] = a
        BY <1>1, <2>3 DEF Lists
    <2>5. q[1] = a
        <3>1. CASE k = 1
            BY <2>4, <3>1
        <3>2. CASE k # 1
            <4>1. 1 < k
                BY <2>1, <2>4, <3>2
            <4>2. q[1] < q[k]
                BY <2>1, <2>4, <4>1 DEF Lists
            <4> QED
                BY <2>2, <2>4, <4>2
        <3> QED
            BY <3>1, <3>2
    <2>6. ASSUME NEW i \in 1..Len(q) - 1, NEW j \in 1..Len(q) - 1, i < j PROVE Tail(q)[i] < Tail(q)[j]
        <3>1. i + 1 \in DOMAIN q /\ j + 1 \in DOMAIN q /\ i + 1 < j + 1
            BY <2>1, <2>6
        <3> QED
            BY <2>1, <3>1 DEF Lists
    <2>7. ASSUME NEW i \in 1..Len(q) - 1 PROVE a + 1 <= Tail(q)[i] /\ Tail(q)[i] < b /\ Tail(q)[i] \in W
        <3>1. i + 1 \in DOMAIN q /\ 1 < i + 1
            BY <2>1
        <3>2. q[1] < q[i + 1] /\ q[i + 1] < b /\ q[i + 1] \in W /\ q[i + 1] \in Int
            BY <1>0, <2>1, <3>1 DEF Lists
        <3> QED
            BY <2>1, <2>5, <3>2
    <2>8. ASSUME NEW t \in W, a + 1 <= t, t < b PROVE \E i \in 1..Len(q) - 1: Tail(q)[i] = t
        <3>1. t \in Int
            OBVIOUS
        <3>2. PICK i \in DOMAIN q: q[i] = t
            BY <2>8, <3>1 DEF Lists
        <3>3. i # 1
            BY <2>5, <2>8, <3>1, <3>2
        <3>4. i - 1 \in 1..Len(q) - 1 /\ (i - 1) + 1 = i
            BY <2>1, <3>2, <3>3
        <3> QED
            BY <2>1, <3>2, <3>4
    <2> QED
        BY <2>1, <2>3, <2>5, <2>6, <2>7, <2>8 DEF Lists
<1>2. ASSUME a \notin W
      PROVE  Lists(q, a + 1, b, W)
    <2>1. \A t \in W: a + 1 <= t => a <= t
        OBVIOUS
    <2>2. \A i \in DOMAIN q: a <= q[i] /\ q[i] \in W => a + 1 <= q[i]
        BY <1>0, <1>2
    <2> QED
        BY <2>1, <2>2 DEF Lists
<1> QED
    BY <1>1, <1>2

\* The slot that the output thread reads next has the image of the next tag.
LEMMA NextSlot ==
    ASSUME ReturnInv, NEW g \in Devices, OrderOf(g), outPc[g] = "tag", TagQ[g] # <<>>, Head(TagQ[g]) # End
    PROVE  outMem[g][outBuf[g]][outputCount[g] + 1] = Head(TagQ[g])
<1>1. TagQ[g] \in Seq(Label) /\ Tags(g) \in 0..Len(TagQ[g]) /\ outputCount[g] \in 0..BatchSize /\ BatchSize \in Nat /\ EndsOf(g)
    BY OrderTypes
<1>2. Tags(g) >= 1 /\ Head(TagQ[g]) = TagQ[g][1]
    <2>1. Tags(g) # 0
        BY <1>1, HeadLeaves DEF EndsOf, Tags
    <2> QED
        BY <1>1, <2>1
<1>3. outputCount[g] < BatchSize
    BY DEF ReturnInv, SessionInv, OutputInv
<1>4. outputCount[g] + 1 \in 1..BatchSize /\ -outputCount[g] + (outputCount[g] + 1) = 1
    BY <1>1, <1>3
<1>5. \A s \in 1..BatchSize: 0 < -outputCount[g] + s /\ -outputCount[g] + s <= Tags(g) =>
          TagQ[g][-outputCount[g] + s] = outMem[g][outBuf[g]][s]
    BY DEF OrderOf, Read, Matches, Reads
<1>6. 0 < -outputCount[g] + (outputCount[g] + 1) /\ -outputCount[g] + (outputCount[g] + 1) <= Tags(g)
    BY <1>1, <1>2, <1>4
<1>7. TagQ[g][-outputCount[g] + (outputCount[g] + 1)] = outMem[g][outBuf[g]][outputCount[g] + 1]
    BY <1>4, <1>5, <1>6
<1> QED
    BY <1>2, <1>4, <1>7

LEMMA VectorTypes ==
    ASSUME ReturnInv, GPUs = 1
    PROVE  /\ Answered \in Int /\ Packed \in Int /\ First \in Int /\ Behind \in Int /\ Packed <= Answered
           /\ vectorQ \in Seq(Label) /\ WithVector \subseteq Int
<1>1. Dealt \in Int /\ Tags(1) \in Int /\ Answers \in Nat
    <2>1. Dealt \in Int /\ TagQ[1] \in Seq(Label) /\ Tags(1) \in 0..Len(TagQ[1]) /\ outputQ \in Seq(Result) /\ Answers \in 0..Len(outputQ)
        BY OneTypes
    <2> QED
        BY <2>1
<1>2. Answered \in Int
    BY <1>1 DEF Answered
<1>3. Packed \in Int /\ Packed <= Answered
    BY <1>1, <1>2 DEF Packed
<1>4. First \in Int /\ Behind \in Int
    BY <1>2, <1>3 DEF First, Behind
<1>5. vectorQ \in Seq(Label) /\ WithVector \subseteq Int
    BY DEF WithVector, Images, ReturnInv, SessionInv, TypeOK, QueueTypes
<1> QED
    BY <1>2, <1>3, <1>4, <1>5

LEMMA VectorsStay ==
    ASSUME Vectors, UNCHANGED <<request, vectorQ>>, Packed' = Packed, Answered' = Answered,
           runPc' = "vector" <=> runPc = "vector", outPc'[1] = "vector" <=> outPc[1] = "vector",
           outPc[1] = "vector" => outMem'[1][outBuf'[1]][outputCount'[1]] = outMem[1][outBuf[1]][outputCount[1]]
    PROVE  Vectors'
<1>1. WithVector' = WithVector
    BY DEF WithVector, HasVector, mode
<1>2. First' = First /\ Behind' = Behind
    BY DEF First, Behind
<1> QED
    BY <1>1, <1>2 DEF Vectors, Lists

LEMMA VectorsOfOutput ==
    ASSUME ReturnInv, GPUs = 1, OneDevice, OrderOf(1), Vectors, OutputCopy(1)
    PROVE  Vectors'
<1>0. UNCHANGED <<request, run, outMem>>
    BY DEF OutputCopy, OutputTake, OutputTag, OutputVector, OutputGive, OutputMark, pool
<1>m. OutputMoves
    BY OneDeviceOfOutput
<1>t. /\ Answered \in Int /\ Packed \in Int /\ First \in Int /\ Behind \in Int /\ Packed <= Answered
      /\ vectorQ \in Seq(Label) /\ WithVector \subseteq Int
      /\ 1 \in Devices /\ DOMAIN outPc = Devices /\ DOMAIN outputCount = Devices /\ TagQ[1] \in Seq(Label)
    BY VectorTypes, OneTypes DEF ReturnInv, SessionInv, TypeOK, DeviceTypes
<1>w. WithVector' = WithVector /\ runPc' = runPc /\ Packed' = Packed /\ First' = First
    <2>1. WithVector' = WithVector
        BY <1>0 DEF WithVector, HasVector, mode
    <2>2. runPc' = runPc /\ Packed' = Packed
        BY <1>0, <1>m DEF run, OutputMoves
    <2> QED
        BY <2>1, <2>2 DEF First
<1>f. First <= Behind /\ Lists(vectorQ, First, Behind, WithVector) /\ (runPc = "vector" => First \in WithVector)
    BY DEF Vectors
<1>1. CASE OutputTake(1) \/ OutputGive(1) \/ OutputMark(1)
    <2>1. vectorQ' = vectorQ /\ outPc[1] # "vector" /\ outPc'[1] # "vector" /\ ~OutputTag(1)
        BY <1>t, <1>1 DEF OutputTake, OutputGive, OutputMark, OutputTag, Goto
    <2>2. Answered' = Answered
        BY <1>m, <2>1 DEF OutputMoves
    <2> QED
        BY <1>0, <1>w, <2>1, <2>2, VectorsStay
<1>2. CASE OutputTag(1)
    <2>1. outPc[1] = "tag" /\ TagQ[1] # <<>> /\ vectorQ' = vectorQ /\ outBuf' = outBuf
        BY <1>2 DEF OutputTag
    <2>2. Head(TagQ[1]) \in Label /\ (Head(TagQ[1]) < 0 <=> Head(TagQ[1]) = End)
        <3>1. Head(TagQ[1]) \in Label
            BY <1>t, <2>1
        <3> QED
            BY <3>1, EndIsNegative
    <2>3. CASE Head(TagQ[1]) = End
        <3>1. outPc'[1] = "giveLast"
            BY <1>t, <1>2, <2>2, <2>3 DEF OutputTag, Goto
        <3>2. Answered' = Answered
            BY <1>m, <2>3 DEF OutputMoves
        <3> QED
            BY <1>0, <1>w, <2>1, <3>1, <3>2, VectorsStay
    <2>4. CASE Head(TagQ[1]) # End
        <3>1. Head(TagQ[1]) = Answered /\ Answered' = Answered + 1
            BY <1>2, <1>m, <2>4 DEF OutputMoves
        <3>2. /\ outputCount'[1] = outputCount[1] + 1
              /\ HasVector(Answered) => outPc'[1] = "vector"
              /\ ~HasVector(Answered) => outPc'[1] # "vector"
            BY <1>t, <1>2, <2>2, <2>4, <3>1 DEF OutputTag, Goto
        <3>3. Answered \in Images /\ (HasVector(Answered) <=> Answered \in WithVector)
            BY <2>2, <2>4, <3>1 DEF WithVector, Label
        <3>4. Behind = Answered
            BY <2>1 DEF Behind
        <3>5. outMem'[1][outBuf'[1]][outputCount'[1]] = Answered
            BY <1>0, <1>t, <2>1, <2>4, <3>1, <3>2, NextSlot
        <3>6. CASE HasVector(Answered)
            <4>1. Behind' = Behind
                BY <1>t, <3>1, <3>2, <3>4, <3>6 DEF Behind
            <4> QED
                BY <1>f, <1>w, <2>1, <3>3, <3>4, <3>5, <3>6, <4>1 DEF Vectors, Lists
        <3>7. CASE ~HasVector(Answered)
            <4>1. Behind' = Behind + 1 /\ outPc'[1] # "vector"
                BY <3>1, <3>2, <3>4, <3>7 DEF Behind
            <4>2. Lists(vectorQ, First, Behind + 1, WithVector)
                BY <1>f, <1>t, <3>3, <3>4, <3>7, ListsMore
            <4>3. First <= Behind + 1
                BY <1>f, <1>t
            <4> QED
                BY <1>f, <1>w, <2>1, <4>1, <4>2, <4>3 DEF Vectors, Lists
        <3> QED
            BY <3>6, <3>7
    <2> QED
        BY <2>3, <2>4
<1>3. CASE OutputVector(1)
    <2>1. outPc[1] = "vector" /\ outPc'[1] # "vector" /\ ~OutputTag(1)
        BY <1>t, <1>3 DEF OutputVector, OutputTag, Goto
    <2>2. Behind \in WithVector /\ vectorQ' = Append(vectorQ, Behind)
        BY <1>3, <2>1 DEF Vectors, OutputVector
    <2>3. Behind' = Behind + 1
        <3>1. Behind = Answered - 1 /\ Behind' = Answered' /\ Answered' = Answered
            BY <1>m, <2>1 DEF Behind, OutputMoves
        <3> QED
            BY <1>t, <3>1
    <2>4. Lists(Append(vectorQ, Behind), First, Behind + 1, WithVector)
        BY <1>f, <1>t, <2>2, ListsMore
    <2>5. First <= Behind + 1
        BY <1>f, <1>t
    <2> QED
        BY <1>f, <1>w, <2>1, <2>2, <2>3, <2>4, <2>5 DEF Vectors, Lists
<1> QED
    BY <1>1, <1>2, <1>3 DEF OutputCopy

LEMMA VectorsOfRun ==
    ASSUME ReturnInv, GPUs = 1, InSession', OneDevice, Vectors, Run \/ ClientCloses
    PROVE  Vectors'
<1>0. UNCHANGED <<request, outMem, output>>
    BY DEF Run, RunLoop, RunPack, RunVector, RunSend, RunAsk, RunReceive, RunBye, ClientCloses, InSession, Destroy,
           DestroyInput, DestroyJoinMaster, DestroyMark, DestroyJoin, DestroyFree, pool
<1>m. RunMoves
    BY OneDeviceOfRun
<1>t. /\ Answered \in Int /\ Packed \in Int /\ First \in Int /\ Behind \in Int /\ Packed <= Answered
      /\ vectorQ \in Seq(Label) /\ WithVector \subseteq Int /\ outputQ \in Seq(Result)
    BY VectorTypes, OneTypes
<1>w. /\ WithVector' = WithVector /\ outPc' = outPc /\ Answered' = Answered /\ Behind' = Behind
      /\ outMem'[1][outBuf'[1]][outputCount'[1]] = outMem[1][outBuf[1]][outputCount[1]]
    <2>1. WithVector' = WithVector
        BY <1>0 DEF WithVector, HasVector, mode
    <2>2. outPc' = outPc /\ Answered' = Answered
        BY <1>0, <1>m DEF output, RunMoves
    <2> QED
        BY <1>0, <2>1, <2>2 DEF Behind, output
<1>f. /\ First <= Behind /\ Lists(vectorQ, First, Behind, WithVector) /\ (runPc = "vector" => First \in WithVector)
      /\ outPc[1] = "vector" => Behind \in WithVector /\ outMem[1][outBuf[1]][outputCount[1]] = Behind
    BY DEF Vectors
<1>1. CASE RunLoop \/ RunSend \/ RunAsk \/ RunReceive \/ RunBye \/ Destroy \/ ClientCloses
    <2>1. vectorQ' = vectorQ /\ outputQ' = outputQ /\ (runPc' = "vector" <=> runPc = "vector")
        BY <1>1 DEF RunLoop, RunSend, RunAsk, RunReceive, RunBye, ClientCloses, run, Destroy,
                    DestroyInput, DestroyJoinMaster, DestroyMark, DestroyJoin, DestroyFree
    <2>2. Packed' = Packed
        <3>1. ~RunPack
            <4>1. ASSUME RunPack PROVE FALSE
                <5>1. outputQ # <<>> /\ outputQ' = Tail(outputQ)
                    BY <4>1 DEF RunPack
                <5>2. Len(Tail(outputQ)) = Len(outputQ) - 1 /\ Len(outputQ) \in Nat
                    BY <1>t, <5>1
                <5> QED
                    BY <2>1, <5>1, <5>2
            <4> QED
                BY <4>1
        <3> QED
            BY <1>m, <3>1 DEF RunMoves
    <2> QED
        BY <1>0, <1>w, <2>1, <2>2, VectorsStay
<1>2. CASE RunPack
    <2>1. runPc = "pack" /\ outputQ # <<>> /\ vectorQ' = vectorQ /\ outputQ' = Tail(outputQ)
        BY <1>2 DEF RunPack
    <2>2. Head(outputQ)[1] \in Label /\ (Head(outputQ)[1] < 0 <=> Head(outputQ)[1] = End)
        <3>1. Head(outputQ) \in Result
            BY <1>t, <2>1
        <3>2. Head(outputQ)[1] \in Label
            BY <3>1 DEF Result
        <3> QED
            BY <3>2, EndIsNegative
    <2>3. First = Packed
        BY <2>1 DEF First
    <2>4. CASE Packed' = Packed
        <3>1. Head(outputQ)[1] = End
            <4>1. Len(Tail(outputQ)) = Len(outputQ) - 1 /\ Len(outputQ) \in Nat
                BY <1>t, <2>1
            <4>2. outputQ' # outputQ
                <5> SUFFICES ASSUME Tail(outputQ) = outputQ PROVE FALSE
                    BY <2>1
                <5>1. Len(outputQ) = Len(outputQ) - 1 /\ Len(outputQ) \in Int
                    BY <4>1
                <5> QED
                    BY <5>1
            <4>3. Packed + 1 # Packed
                BY <1>t
            <4> QED
                BY <1>m, <2>4, <4>2, <4>3 DEF RunMoves
        <3>2. runPc' # "vector"
            BY <1>2, <2>2, <3>1 DEF RunPack
        <3> QED
            BY <1>0, <1>w, <2>1, <2>4, <3>2, VectorsStay
    <2>5. CASE Head(outputQ)[1] # End /\ Head(outputQ)[1] = Packed /\ Packed' = Packed + 1 /\ Packed < Answered
        <3>1. Packed \in Images /\ (HasVector(Packed) <=> Packed \in WithVector)
            BY <2>2, <2>5 DEF Label, WithVector
        <3>2. IF HasVector(Packed) THEN runPc' = "vector" ELSE runPc' # "vector"
            BY <1>2, <2>2, <2>5 DEF RunPack
        <3>3. CASE HasVector(Packed)
            <4>1. First' = First
                BY <1>t, <2>3, <2>5, <3>2, <3>3 DEF First
            <4> QED
                BY <1>f, <1>w, <2>1, <2>3, <3>1, <3>3, <4>1 DEF Vectors, Lists
        <3>4. CASE ~HasVector(Packed)
            <4>1. First' = First + 1 /\ runPc' # "vector"
                BY <2>3, <2>5, <3>2, <3>4 DEF First
            <4>2. Lists(vectorQ, First + 1, Behind, WithVector)
                BY <1>f, <1>t, <2>3, <3>1, <3>4, ListsFewer
            <4>3. First # Behind
                <5>1. CASE outPc[1] = "vector"
                    BY <1>f, <2>3, <3>1, <3>4, <5>1
                <5>2. CASE outPc[1] # "vector"
                    BY <1>t, <2>3, <2>5, <5>2 DEF Behind
                <5> QED
                    BY <5>1, <5>2
            <4>4. First + 1 <= Behind
                BY <1>f, <1>t, <4>3
            <4> QED
                BY <1>f, <1>w, <2>1, <4>1, <4>2, <4>4 DEF Vectors, Lists
        <3> QED
            BY <3>3, <3>4
    <2> QED
        BY <1>2, <1>m, <2>1, <2>4, <2>5 DEF RunMoves
<1>3. CASE RunVector
    <2>1. runPc = "vector" /\ runPc' # "vector" /\ vectorQ # <<>> /\ vectorQ' = Tail(vectorQ) /\ outputQ' = outputQ
        BY <1>3 DEF RunVector
    <2>2. Packed' = Packed
        <3>1. ~RunPack
            BY <2>1 DEF RunPack
        <3> QED
            BY <1>m, <3>1 DEF RunMoves
    <2>3. First' = First + 1
        <3>1. First = Packed - 1 /\ First' = Packed'
            BY <2>1 DEF First
        <3> QED
            BY <1>t, <2>2, <3>1
    <2>4. First < Behind /\ Lists(Tail(vectorQ), First + 1, Behind, WithVector)
        BY <1>f, <1>t, <2>1, ListsFewer
    <2>5. First + 1 <= Behind
        BY <1>t, <2>4
    <2> QED
        BY <1>f, <1>w, <2>1, <2>3, <2>4, <2>5 DEF Vectors, Lists
<1> QED
    BY <1>1, <1>2, <1>3 DEF Run

LEMMA VectorsStep ==
    ASSUME ReturnInv, OneDeviceInv, OrderInv, VectorInv, [Next]_vars
    PROVE  VectorInv'
<1> SUFFICES ASSUME GPUs' = 1, InSession' PROVE Vectors'
    BY DEF VectorInv
<1>1. GPUs = 1 /\ InSession
    BY SessionBefore
<1>2. OneDevice /\ Vectors /\ OrderOf(1) /\ Working = {1} /\ 1 \in Devices
    BY <1>1, OneTypes DEF OneDeviceInv, VectorInv, OrderInv
<1>3. CASE UNCHANGED vars
    <2>1. UNCHANGED <<nextImageToSend, inputQ, image, masterPc, TagQ, outputQ>>
        BY <1>3 DEF vars, client, master, deal
    <2>2. UNCHANGED <<request, vectorQ, runPc, outPc, outMem, outBuf, outputCount>>
        BY <1>3 DEF vars, run, output, pool
    <2>3. Answered' = Answered /\ Packed' = Packed
        BY <1>2, <2>1, <2>2, DealtStays, TaggedStays, QueuedStays DEF OneDevice
    <2> QED
        BY <1>2, <2>2, <2>3, VectorsStay
<1>4. CASE Master
    <2>1. UNCHANGED <<request, vectorQ, runPc, outPc, outMem, outBuf, outputCount>>
        BY <1>4 DEF Master, MasterTake, MasterTag, MasterImage, MasterScan, MasterMark, run, output, pool
    <2> QED
        BY <1>1, <1>2, <1>4, <2>1, OneDeviceOfMaster, VectorsStay
<1>5. CASE InputCopy(1)
    <2>1. UNCHANGED <<request, vectorQ, runPc, outPc, outMem, outBuf, outputCount>>
        BY <1>5 DEF InputCopy, InputTake, InputFill, InputGive, InputMark, run, output, pool
    <2> QED
        BY <1>2, <1>5, <2>1, OneDeviceOfInput, VectorsStay
<1>6. CASE Process(1)
    <2>1. UNCHANGED <<request, vectorQ, runPc, outPc, outBuf, outputCount>>
        BY <1>6 DEF Process, ProcessTakeInput, ProcessTakeOutput, ProcessGraph, ProcessGive, run, output
    <2>2. outPc[1] = "vector" => outMem'[1][outBuf[1]] = outMem[1][outBuf[1]]
        <3>1. CASE ProcessGraph(1)
            <4>1. Apart(OutIdle[1], procOut[1], OutBusy[1], outBuf[1]) /\ DOMAIN outMem = Devices /\ DOMAIN outMem[1] = Buffers
                BY <1>2 DEF ReturnInv, BufferInv, PoolsApart, SessionInv, TypeOK, PoolTypes
            <4>2. procPc[1] = "graph" /\ outMem' = [outMem EXCEPT ![1][procOut[1]] = inMem[1][procIn[1]]]
                BY <3>1 DEF ProcessGraph
            <4>3. procOut[1] \in Buffers /\ Null \notin Buffers
                BY <1>2, <4>2, PoolStates DEF ReturnInv, SessionInv, ProcessInv
            <4>4. outBuf[1] # procOut[1]
                BY <4>1, <4>3 DEF Apart
            <4> QED
                BY <1>2, <4>1, <4>2, <4>4
        <3>2. CASE ~ProcessGraph(1)
            BY <1>6, <3>2 DEF Process, ProcessTakeInput, ProcessTakeOutput, ProcessGive
        <3> QED
            BY <3>1, <3>2
    <2> QED
        BY <1>2, <1>6, <2>1, <2>2, OneDeviceOfInput, VectorsStay
<1>7. CASE OutputCopy(1)
    BY <1>1, <1>2, <1>7, VectorsOfOutput
<1>8. CASE Run \/ ClientCloses
    BY <1>1, <1>2, <1>8, VectorsOfRun
<1> QED
    BY <1>2, <1>3, <1>4, <1>5, <1>6, <1>7, <1>8 DEF Next

\* A vector is dequeued for the image that has its tag at the end of the packet.
LEMMA MatchOfRun ==
    ASSUME ReturnInv, OneDeviceInv, VectorInv, MatchInv, Run \/ ClientCloses
    PROVE  MatchInv'
<1>0. request' = request /\ outPc' = outPc
    BY DEF Run, RunLoop, RunPack, RunVector, RunSend, RunAsk, RunReceive, RunBye, ClientCloses, Destroy,
           DestroyInput, DestroyJoinMaster, DestroyMark, DestroyJoin, DestroyFree, output
<1>w. mode' = mode /\ Separate' = Separate
    BY <1>0 DEF mode, Separate, GPUs
<1>t. outputQ \in Seq(Result) /\ packet \in Seq(Result)
    BY DEF ReturnInv, SessionInv, TypeOK, QueueTypes, RunTypes
<1>f. /\ runPc = "vector" => mode # "top1"
      /\ Together(outputQ) /\ (Separate => Together(packet)) /\ TagMatchesResult
    BY DEF MatchInv
<1>1. CASE RunLoop \/ RunAsk \/ RunReceive \/ RunBye \/ Destroy \/ ClientCloses
    <2>1. UNCHANGED <<outputQ, packet, results>> /\ (runPc' = "vector" => runPc = "vector")
        BY <1>1 DEF RunLoop, RunAsk, RunReceive, RunBye, ClientCloses, Destroy,
                    DestroyInput, DestroyJoinMaster, DestroyMark, DestroyJoin, DestroyFree, client, run
    <2> QED
        BY <1>f, <1>w, <2>1 DEF MatchInv, TagMatchesResult, Together
<1>2. CASE RunPack
    <2>1. outputQ # <<>> /\ outputQ' = Tail(outputQ) /\ results' = results
        BY <1>2 DEF RunPack, client
    <2>2. runPc' = "vector" => mode # "top1"
        BY <1>2 DEF RunPack, HasVector
    <2>3. Together(outputQ')
        <3>1. DOMAIN Tail(outputQ) = 1..Len(outputQ) - 1 /\ DOMAIN outputQ = 1..Len(outputQ) /\ Len(outputQ) \in Nat
              /\ \A i \in 1..Len(outputQ) - 1: Tail(outputQ)[i] = outputQ[i + 1]
            BY <1>t, <2>1
        <3>2. \A i \in 1..Len(outputQ) - 1: i + 1 \in 1..Len(outputQ)
            BY <3>1
        <3> QED
            BY <1>f, <2>1, <3>1, <3>2 DEF Together
    <2>4. Head(outputQ)[1] = Head(outputQ)[2]
        <3>1. Head(outputQ) = outputQ[1] /\ 1 \in DOMAIN outputQ
            BY <1>t, <2>1
        <3> QED
            BY <1>f, <3>1 DEF Together
    <2>5. Separate => Together(packet')
        <3>1. CASE packet' = packet
            BY <1>f, <3>1
        <3>2. CASE packet' = Append(packet, Head(outputQ))
            <4>1. /\ DOMAIN packet' = 1..Len(packet) + 1 /\ DOMAIN packet = 1..Len(packet) /\ Len(packet) \in Nat
                  /\ packet'[Len(packet) + 1] = Head(outputQ) /\ \A i \in 1..Len(packet): packet'[i] = packet[i]
                BY <1>t, <3>2
            <4>2. \A i \in 1..Len(packet) + 1: i \in 1..Len(packet) \/ i = Len(packet) + 1
                BY <4>1
            <4> QED
                BY <1>f, <2>4, <4>1, <4>2 DEF Together
        <3> QED
            BY <1>2, <3>1, <3>2 DEF RunPack
    <2> QED
        BY <1>f, <1>w, <2>1, <2>2, <2>3, <2>5 DEF MatchInv, TagMatchesResult, Together
<1>3. CASE RunVector
    <2>1. /\ runPc = "vector" /\ runPc' # "vector" /\ vectorQ # <<>> /\ UNCHANGED <<outputQ, results>>
          /\ packet' = [packet EXCEPT ![Len(packet)][2] = Head(vectorQ)]
        BY <1>3 DEF RunVector, client
    <2>2. ASSUME Separate PROVE Together(packet')
        <3>1. GPUs = 1 /\ InSession
            BY <1>f, <2>1, <2>2 DEF Separate, InSession
        <3>2. OneDevice /\ Vectors
            BY <3>1 DEF OneDeviceInv, VectorInv
        <3>3. /\ Packed \in Int /\ First \in Int /\ Behind \in Int /\ vectorQ \in Seq(Label) /\ WithVector \subseteq Int
            BY <3>1, VectorTypes
        <3>4. Head(vectorQ) = Packed - 1
            <4>1. First = Packed - 1 /\ First \in WithVector /\ Lists(vectorQ, First, Behind, WithVector)
                BY <2>1, <3>2 DEF First, Vectors
            <4> QED
                BY <2>1, <3>3, <4>1, ListsFewer
        <3>5. packet # <<>>
            BY <2>1 DEF ReturnInv, SessionInv, RunInv
        <3>6. /\ Len(packet) \in DOMAIN packet /\ Len(packet) \in Int /\ DOMAIN packet' = DOMAIN packet
              /\ \A i \in DOMAIN packet: i # Len(packet) => packet'[i] = packet[i]
            BY <1>t, <2>1, <3>5
        <3>7. packet'[Len(packet)] = <<packet[Len(packet)][1], Head(vectorQ)>>
            <4>1. packet[Len(packet)] \in Label \X Label
                BY <1>t, <3>6 DEF Result
            <4>2. packet'[Len(packet)] = [packet[Len(packet)] EXCEPT ![2] = Head(vectorQ)]
                BY <2>1, <3>6
            <4> QED
                BY <4>1, <4>2
        <3>8. packet[Len(packet)][1] = Packed - 1
            <4>1. packet[Len(packet)][1] = Received + Len(packet) - 1
                BY <3>2, <3>6 DEF OneDevice, Delivered
            <4>2. Received = Packed - Len(packet)
                BY DEF Received
            <4> QED
                BY <3>3, <3>6, <4>1, <4>2
        <3>9. packet'[Len(packet)][1] = packet'[Len(packet)][2]
            BY <3>4, <3>7, <3>8
        <3> QED
            BY <1>f, <2>2, <3>6, <3>9 DEF Together
    <2> QED
        BY <1>f, <1>w, <2>1, <2>2 DEF MatchInv, TagMatchesResult, Together
<1>4. CASE RunSend
    <2>1. /\ runPc' # "vector" /\ outputQ' = outputQ /\ packet' = <<>>
          /\ results' = results \/ results' = results \cup {packet[i] : i \in DOMAIN packet}
        BY <1>4 DEF RunSend
    <2>2. Together(packet')
        BY <2>1 DEF Together
    <2>3. Separate => \A r \in results': r[1] = r[2]
        <3>1. Separate => \A r \in results: r[1] = r[2]
            BY <1>f DEF TagMatchesResult
        <3>2. Separate => \A r \in {packet[i] : i \in DOMAIN packet}: r[1] = r[2]
            BY <1>f DEF Together
        <3> QED
            BY <2>1, <3>1, <3>2
    <2> QED
        BY <1>f, <1>w, <2>1, <2>2, <2>3 DEF MatchInv, TagMatchesResult, Together
<1> QED
    BY <1>1, <1>2, <1>3, <1>4 DEF Run

LEMMA MatchStep ==
    ASSUME ReturnInv, OrderInv, OneDeviceInv, VectorInv, MatchInv, [Next]_vars
    PROVE  MatchInv'
<1>f. Together(outputQ) /\ outputQ \in Seq(Result)
    BY DEF MatchInv, ReturnInv, SessionInv, TypeOK, QueueTypes
<1>1. ASSUME UNCHANGED <<request, run, results>>, Together(outputQ')
      PROVE  MatchInv'
    <2>1. mode' = mode /\ Separate' = Separate /\ runPc' = runPc /\ packet' = packet
        BY <1>1 DEF mode, Separate, GPUs, run
    <2> QED
        BY <1>1, <2>1 DEF MatchInv, TagMatchesResult, Together
<1>2. CASE Master \/ UNCHANGED vars
    BY <1>1, <1>2, <1>f DEF Master, MasterTake, MasterTag, MasterImage, MasterScan, MasterMark, vars, client
<1>3. CASE Run \/ ClientCloses
    BY <1>3, MatchOfRun
<1>4. ASSUME NEW g \in Working, InputCopy(g) \/ Process(g)
      PROVE  MatchInv'
    BY <1>1, <1>4, <1>f DEF InputCopy, InputTake, InputFill, InputGive, InputMark,
                            Process, ProcessTakeInput, ProcessTakeOutput, ProcessGraph, ProcessGive, client
<1>5. ASSUME NEW g \in Working, OutputCopy(g)
      PROVE  MatchInv'
    <2>1. g \in Devices /\ OrderOf(g) /\ TagQ \in [Devices -> Seq(Label)]
        BY WorkingDevices, QueueStates DEF ReturnInv, SessionInv, TypeOK, OrderInv, QueueState
    <2>2. UNCHANGED <<request, run, results>>
        BY <1>5 DEF OutputCopy, OutputTake, OutputTag, OutputVector, OutputGive, OutputMark, client
    <2>3. ASSUME NEW x, outputQ' = Append(outputQ, <<x, x>>) PROVE Together(outputQ')
        <3>1. /\ DOMAIN outputQ' = 1..Len(outputQ) + 1 /\ DOMAIN outputQ = 1..Len(outputQ) /\ Len(outputQ) \in Nat
              /\ outputQ'[Len(outputQ) + 1] = <<x, x>> /\ \A i \in 1..Len(outputQ): outputQ'[i] = outputQ[i]
            BY <1>f, <2>3
        <3>2. \A i \in 1..Len(outputQ) + 1: i \in 1..Len(outputQ) \/ i = Len(outputQ) + 1
            BY <3>1
        <3> QED
            BY <1>f, <3>1, <3>2 DEF Together
    <2>4. CASE OutputTag(g)
        <3>1. CASE outputQ' = outputQ
            BY <1>1, <1>f, <2>2, <3>1
        <3>2. CASE outputQ' # outputQ
            <4>1. outPc[g] = "tag" /\ TagQ[g] # <<>> /\ ~(Head(TagQ[g]) < 0)
                  /\ outputQ' = Append(outputQ, <<Head(TagQ[g]), outMem[g][outBuf[g]][outputCount[g] + 1]>>)
                BY <2>4, <3>2 DEF OutputTag
            <4>2. Head(TagQ[g]) # End
                <5>1. Head(TagQ[g]) \in Label
                    BY <2>1, <4>1
                <5> QED
                    BY <4>1, <5>1, EndIsNegative
            <4>3. outputQ' = Append(outputQ, <<Head(TagQ[g]), Head(TagQ[g])>>)
                BY <2>1, <4>1, <4>2, NextSlot
            <4> QED
                BY <1>1, <2>2, <2>3, <4>3
        <3> QED
            BY <3>1, <3>2
    <2>5. CASE OutputMark(g)
        <3>1. outputQ' = Append(outputQ, <<End, End>>)
            BY <2>5 DEF OutputMark
        <3> QED
            BY <1>1, <2>2, <2>3, <3>1
    <2>6. CASE OutputTake(g) \/ OutputVector(g) \/ OutputGive(g)
        <3>1. outputQ' = outputQ
            BY <2>6 DEF OutputTake, OutputVector, OutputGive
        <3> QED
            BY <1>1, <1>f, <2>2, <3>1
    <2> QED
        BY <1>5, <2>4, <2>5, <2>6 DEF OutputCopy
<1> QED
    BY <1>2, <1>3, <1>4, <1>5 DEF Next

LEMMA MatchInit == ASSUME Init PROVE VectorInv /\ MatchInv
<1>1. /\ runPc = "loop" /\ outputQ = <<>> /\ packet = <<>> /\ results = {} /\ vectorQ = <<>>
    BY DEF Init
<1>2. MatchInv
    BY <1>1 DEF MatchInv, TagMatchesResult, Together
<1>3. ASSUME GPUs = 1 PROVE Vectors
    <2>1. ImagesOf(<<>>) = 0 /\ 1 \in Devices /\ Len(<<>>) = 0
        BY EndsEmpty, EngineAssumption DEF Devices
    <2>2. /\ nextImageToSend = 0 /\ inputQ = <<>> /\ masterPc = "take" /\ TagQ[1] = <<>> /\ outPc[1] = "take"
        BY <2>1 DEF Init, PerDevice
    <2>3. Answered = 0 /\ Packed = 0
        BY <1>1, <2>1, <2>2 DEF Answered, Dealt, NotDealt, Marking, Waiting, Tags, Packed, Answers
    <2>4. First = 0 /\ Behind = 0
        BY <1>1, <2>2, <2>3 DEF First, Behind
    <2>5. Lists(<<>>, 0, 0, WithVector)
        BY DEF Lists, WithVector, Images
    <2> QED
        BY <1>1, <2>2, <2>4, <2>5 DEF Vectors
<1> QED
    BY <1>2, <1>3 DEF VectorInv

\* On any number of devices for single labels, and on one device for the k best
\* labels or the boxes too: whatever the interleaving of the threads and the use
\* of the buffers, every result the client receives is the inference of the image
\* whose tag it bears.  The condition is that the decoder threads divide the
\* batch; otherwise sub_batch_size leaves the last images of a full one
\* undecoded, and they get the results of older ones.
THEOREM ResultsBearTheirTags == ASSUME Divides PROVE Spec => []TagMatchesResult
<1>1. Init => OrderInv /\ OneDeviceInv /\ VectorInv /\ MatchInv
    BY OrderInit, OneDeviceInit, MatchInit
<1>2. ReturnInv /\ OrderInv /\ OneDeviceInv /\ VectorInv /\ MatchInv /\ [Next]_vars
          => (OrderInv /\ OneDeviceInv /\ VectorInv /\ MatchInv)'
    BY OrderStep, OneDeviceStep, VectorsStep, MatchStep
<1>3. MatchInv => TagMatchesResult
    BY DEF MatchInv
<1> QED
    BY <1>1, <1>2, <1>3, ReturnInvariant, PTL DEF Spec

------------------------------------------------------------------------------
(* Nobody waits for ever.                                                   *)
\* A batch, whose tags wait in TagQ until it has been processed, fits there.
BatchFits == BatchSize <= TagDepth

\* Master has put its end into ImageQ, into TagQ; the destructor has put its own.
ImagesMarked(g) == masterPc = "end" \/ (masterPc \in {"markTag", "markImage"} /\ g < scan)
TagsMarked(g) == ImagesMarked(g) \/ (masterPc = "markImage" /\ g = scan)
Closed(g) == g < dying \/ runPc = "gone" \/ (runPc \in {"d_image", "d_join", "d_free"} /\ g = dying)

HasNull(q) == \E i \in DOMAIN q: q[i] = Null
HasEnd(q) == ImagesOf(q) < Len(q)
One(b) == IF b THEN 1 ELSE 0

\* What ends a thread is in its queue until it takes it.
EndReaches(g) ==
    /\ ImagesMarked(g) <=> HasEnd(ImageQ[g]) \/ inPc[g] \in {"giveLast", "mark", "end"}
    /\ TagsMarked(g) => HasEnd(TagQ[g]) \/ outPc[g] \in {"giveLast", "mark", "end"}
    /\ inPc[g] = "end" => HasNull(InBusy[g]) \/ procPc[g] \in {"mark", "end"}
    /\ procPc[g] = "end" => HasNull(OutBusy[g]) \/ outPc[g] \in {"mark", "end"}

\* No more ends than were put there; nothing is released before its threads end.
FewEnds(g) ==
    /\ Len(TagQ[g]) <= Tags(g) + One(TagsMarked(g)) + One(Closed(g))
    /\ g < dying \/ runPc = "gone" => Ended(g)

EndsReach ==
    /\ runPc = "d_master" /\ ~Marking => HasEnd(inputQ)
    /\ \A g \in Working: EndReaches(g) /\ FewEnds(g)

\* What run has counted is in outputQ or in the packet.
PacketInv ==
    /\ runPc \in {"pack", "vector", "send"} => available <= Len(outputQ) + Len(packet)
    /\ runPc \in {"pack", "vector"} => left <= available - Len(packet)
    /\ runPc = "pack" => left > 0
    /\ runPc \in {"loop", "ask", "receive"} => packet = <<>>

\* A vector follows its result: what waits in outputQ, and run, find as many as
\* there are in vectorQ or about to be put there.
WithVectors == {x \in Result: x[1] # End /\ HasVector(x[1])}
Owed(q) == {i \in DOMAIN q: q[i] \in WithVectors}
AtVector == {g \in Working: outPc[g] = "vector"}
VectorCount ==
    InSession => Cardinality(Owed(outputQ)) + One(runPc = "vector") = Len(vectorQ) + Cardinality(AtVector)

ProgressInv == EndsReach /\ PacketInv /\ VectorCount

\* The results in a queue that have a vector of their own, counted.
LEMMA OwedIsFinite ==
    ASSUME NEW q \in Seq(Result)
    PROVE  IsFiniteSet(Owed(q)) /\ Cardinality(Owed(q)) \in Nat
<1>1. Len(q) \in Int /\ IsFiniteSet(1..Len(q))
    BY FS_Interval
<1>2. Owed(q) \in SUBSET (1..Len(q))
    BY DEF Owed
<1>3. IsFiniteSet(Owed(q))
    BY <1>1, <1>2, FS_Subset
<1> QED
    BY <1>3, FS_CardinalityType

LEMMA OwedMore ==
    ASSUME NEW q \in Seq(Result), NEW x \in Result
    PROVE  Cardinality(Owed(Append(q, x))) = Cardinality(Owed(q)) + One(x \in WithVectors)
<1>1. /\ Len(q) \in Nat /\ DOMAIN Append(q, x) = 1..Len(q) + 1 /\ Append(q, x)[Len(q) + 1] = x
      /\ \A i \in 1..Len(q): Append(q, x)[i] = q[i]
    OBVIOUS
<1>2. Len(q) + 1 \notin Owed(q) /\ Cardinality(Owed(q)) \in Nat /\ IsFiniteSet(Owed(q))
    BY <1>1, OwedIsFinite DEF Owed
<1>3. CASE x \in WithVectors
    <2>1. Owed(Append(q, x)) = Owed(q) \cup {Len(q) + 1}
        BY <1>1, <1>3 DEF Owed
    <2> QED
        BY <1>2, <1>3, <2>1, FS_AddElement DEF One
<1>4. CASE x \notin WithVectors
    <2>1. Owed(Append(q, x)) = Owed(q)
        BY <1>1, <1>4 DEF Owed
    <2> QED
        BY <1>2, <1>4, <2>1 DEF One
<1> QED
    BY <1>3, <1>4

LEMMA OwedFewer ==
    ASSUME NEW q \in Seq(Result), q # <<>>
    PROVE  Cardinality(Owed(q)) = Cardinality(Owed(Tail(q))) + One(Head(q) \in WithVectors)
<1>1. /\ Len(q) \in Nat \ {0} /\ Tail(q) \in Seq(Result) /\ DOMAIN Tail(q) = 1..Len(q) - 1 /\ Head(q) = q[1]
      /\ \A i \in 1..Len(q) - 1: Tail(q)[i] = q[i + 1]
    OBVIOUS
<1> DEFINE back == [i \in Owed(q) \ {1} |-> i - 1]
<1>2. IsFiniteSet(Owed(q) \ {1}) /\ Cardinality(Owed(q) \ {1}) = IF 1 \in Owed(q) THEN Cardinality(Owed(q)) - 1 ELSE Cardinality(Owed(q))
    BY OwedIsFinite, FS_RemoveElement
<1>3. Cardinality(Owed(Tail(q))) = Cardinality(Owed(q) \ {1})
    <2>1. \A i \in Owed(q) \ {1}: i \in Nat /\ i - 1 \in Owed(Tail(q))
        BY <1>1 DEF Owed
    <2>2. \A i \in Owed(Tail(q)): i \in Nat /\ i + 1 \in Owed(q) \ {1} /\ (i + 1) - 1 = i
        BY <1>1 DEF Owed
    <2>3. back \in Bijection(Owed(q) \ {1}, Owed(Tail(q)))
        <3>1. back \in [Owed(q) \ {1} -> Owed(Tail(q))]
            BY <2>1
        <3>2. \A i, j \in Owed(q) \ {1}: back[i] = back[j] => i = j
            BY <2>1
        <3>3. \A k \in Owed(Tail(q)): \E i \in Owed(q) \ {1}: back[i] = k
            BY <2>2
        <3> QED
            BY <3>1, <3>2, <3>3, Zenon DEF Bijection, Injection, Surjection, IsInjective
    <2> QED
        BY <1>2, <2>3, FS_Bijection DEF ExistsBijection
<1>4. 1 \in Owed(q) <=> Head(q) \in WithVectors
    BY <1>1 DEF Owed
<1>5. Cardinality(Owed(q)) \in Nat
    BY OwedIsFinite
<1> QED
    BY <1>2, <1>3, <1>4, <1>5 DEF One

\* What is in a queue whose thread has nothing to do.
LEMMA NothingThere == ~HasEnd(<<>>) /\ ~HasNull(<<>>) /\ Filled(<<>>) = 0 /\ ImagesOf(<<>>) = 0 /\ Len(<<>>) = 0
    BY EndsEmpty DEF HasEnd, HasNull, Filled

\* The buffers of a device that is not released are somewhere.
LEMMA KeepsBuffers ==
    ASSUME ReturnInv, EndsReach, NEW g \in Working, ~Ended(g)
    PROVE  /\ g \in Devices /\ 1 \in Buffers /\ 1 # Null
           /\ Somewhere(InIdle[g], inBuf[g], InBusy[g], procIn[g]) /\ Somewhere(OutIdle[g], procOut[g], OutBusy[g], outBuf[g])
<1>1. g \in Devices /\ dying \in Devices
    BY WorkingDevices DEF ReturnInv, SessionInv, TypeOK, RunTypes
<1>2. runPc # "gone" /\ ~(g < dying)
    BY DEF EndsReach, FewEnds
<1>3. g >= dying
    BY <1>1, <1>2 DEF Devices
<1>4. 1 \in Buffers /\ 1 # Null
    BY EngineAssumption DEF Buffers, Null
<1> QED
    BY <1>1, <1>2, <1>3, <1>4 DEF ReturnInv, BufferInv, PoolsWhole

\* workDeviceProcess does not wait for a buffer that workDeviceOutputCopy keeps.
LEMMA ProcessQuiet ==
    ASSUME ReturnInv, EndsReach, NEW g \in Working, ProcessWaits(g), OutputWaits(g)
    PROVE  procPc[g] \in {"take", "end"} /\ InBusy[g] = <<>>
<1>1. g \in Devices
    BY WorkingDevices DEF ReturnInv, SessionInv, TypeOK
<1>2. Holders(g) /\ BusyQueues(g) /\ CountOf(g) /\ PoolState
    BY <1>1, PoolStates DEF ReturnInv, BufferInv, CountInv
<1>3. CASE procPc[g] = "takeOutput"
    <2>1. OutIdle[g] = <<>> /\ procOut[g] = Null /\ Held(g) = 1
        BY <1>2, <1>3 DEF ProcessWaits, Holders, Held
    <2>2. 1 # Null /\ (1 = outBuf[g] \/ \E j \in DOMAIN OutBusy[g]: OutBusy[g][j] = 1)
        <3>1. ~Ended(g)
            BY <1>3 DEF Ended
        <3> QED
            BY <2>1, <3>1, KeepsBuffers DEF Somewhere
    <2>3. /\ Flying(g) \in Nat /\ Flying(g) > 0 /\ Times(Flying(g)) >= 1 /\ Times(Flying(g) - 1) \in Nat /\ Times(Flying(g)) \in Nat
        <3>1. Flying(g) \in Nat /\ Filled(InBusy[g]) \in Nat /\ Filled(OutBusy[g]) \in Nat
            BY <1>1, BusyStates DEF ReturnInv
        <3>2. Flying(g) > 0
            BY <2>1, <3>1 DEF Flying
        <3>3. Flying(g) - 1 \in Nat
            BY <3>1, <3>2
        <3>4. Times(Flying(g) - 1) \in Nat /\ BatchSize \in Nat \ {0} /\ Times(Flying(g)) = Times(Flying(g) - 1) + BatchSize
            BY <3>1, <3>2, <3>3, TimesFacts
        <3> QED
            BY <3>1, <3>2, <3>4
    <2>4. CASE outPc[g] = "take"
        BY <1>2, <2>2, <2>4 DEF OutputWaits, Holders
    <2>5. CASE outPc[g] = "tag"
        <3>1. Tags(g) = 0
            BY <2>5, NothingThere DEF OutputWaits, Tags
        <3>2. Rest(g) \in Nat /\ Len(batch[g]) \in Nat /\ ImagesOf(ImageQ[g]) \in Nat /\ Between(g) \in Nat
            BY <1>1, CountTypes DEF ReturnInv
        <3>3. CASE inPc[g] \in {"mark", "end"}
            <4>1. Rest(g) + Times(Flying(g) - 1) < 0
                BY <1>2, <2>3, <3>1, <3>3 DEF CountOf
            <4> QED
                BY <2>3, <3>2, <4>1
        <3>4. CASE inPc[g] \notin {"mark", "end"}
            <4>1. 0 = Rest(g) + Times(Flying(g)) + Len(batch[g]) + ImagesOf(ImageQ[g]) + Between(g)
                BY <1>2, <3>1, <3>4 DEF CountOf
            <4> QED
                BY <2>3, <3>2, <4>1
        <3> QED
            BY <3>3, <3>4
    <2>6. CASE outPc[g] = "end"
        BY <1>2, <2>3, <2>6 DEF CountOf
    <2> QED
        BY <2>4, <2>5, <2>6 DEF OutputWaits
<1>4. CASE procPc[g] # "takeOutput"
    BY <1>2, <1>4 DEF ProcessWaits, BusyQueues
<1> QED
    BY <1>3, <1>4

\* Nor workDeviceOutputCopy for a tag that master will not give, or for a batch.
LEMMA OutputQuiet ==
    ASSUME ReturnInv, EndsReach, NEW g \in Working, InputWaits(g), ProcessWaits(g), OutputWaits(g)
    PROVE  /\ outPc[g] \in {"take", "end"} /\ Flying(g) = 0 /\ Rest(g) = 0
           /\ inPc[g] = "end" => Ended(g) /\ Tags(g) = 0
           /\ outPc[g] = "end" => inPc[g] = "end"
           /\ ImagesMarked(g) => inPc[g] # "fill"
           /\ inPc[g] = "end" => ImagesMarked(g)
<1>1. g \in Devices
    BY WorkingDevices DEF ReturnInv, SessionInv, TypeOK
<1>2. procPc[g] \in {"take", "end"} /\ InBusy[g] = <<>> /\ CountOf(g) /\ EndReaches(g)
    BY <1>1, ProcessQuiet DEF ReturnInv, CountInv, EndsReach
<1>3. /\ Rest(g) \in Nat /\ Tags(g) \in Nat /\ Len(batch[g]) \in Nat /\ ImagesOf(ImageQ[g]) \in Nat /\ Between(g) \in Nat
      /\ Flying(g) \in Nat /\ Times(Flying(g)) \in Nat /\ (Flying(g) > 0 => Times(Flying(g) - 1) \in Nat)
    <2>1. /\ Rest(g) \in Nat /\ Tags(g) \in Nat /\ Len(batch[g]) \in Nat /\ ImagesOf(ImageQ[g]) \in Nat /\ Between(g) \in Nat
          /\ Flying(g) \in Nat
        BY <1>1, CountTypes DEF ReturnInv
    <2>2. Flying(g) > 0 => Flying(g) - 1 \in Nat
        BY <2>1
    <2> QED
        BY <2>1, <2>2, TimesFacts
<1>4. outPc[g] # "tag"
    <2> SUFFICES ASSUME outPc[g] = "tag" PROVE FALSE
        OBVIOUS
    <2>1. TagQ[g] = <<>> /\ Tags(g) = 0 /\ ~HasEnd(TagQ[g])
        BY NothingThere DEF OutputWaits, Tags
    <2>2. Rest(g) > 0
        <3>1. outputCount[g] < BatchSize /\ outputCount[g] \in Nat /\ BatchSize \in Nat
            BY <1>1, CountTypes DEF ReturnInv
        <3> QED
            BY <3>1 DEF Rest
    <2>3. inPc[g] \in {"mark", "end"}
        <3> SUFFICES ASSUME inPc[g] \notin {"mark", "end"} PROVE FALSE
            OBVIOUS
        <3>1. 0 = Rest(g) + Times(Flying(g)) + Len(batch[g]) + ImagesOf(ImageQ[g]) + Between(g)
            BY <1>2, <2>1 DEF CountOf
        <3> QED
            BY <1>3, <2>2, <3>1
    <2>4. TagsMarked(g)
        BY <1>2, <2>3 DEF EndReaches, TagsMarked
    <2> QED
        BY <1>2, <2>1, <2>4 DEF EndReaches
<1>5. Rest(g) = 0 /\ outPc[g] \in {"take", "end"} /\ (outPc[g] = "take" => OutBusy[g] = <<>>)
    BY <1>4 DEF OutputWaits, Rest
<1>6. Flying(g) = 0
    <2>1. CASE outPc[g] = "take"
        <3>1. Filled(OutBusy[g]) = 0 /\ Filled(InBusy[g]) = 0 /\ Held(g) = 0
            BY <1>2, <1>5, <2>1, NothingThere DEF Held
        <3> QED
            BY <3>1 DEF Flying
    <2>2. CASE outPc[g] = "end"
        BY <1>2, <2>2 DEF CountOf
    <2> QED
        BY <1>5, <2>1, <2>2
<1>7. outPc[g] = "end" => inPc[g] = "end"
    BY <1>2 DEF CountOf, InputWaits
<1>8. inPc[g] = "end" => procPc[g] = "end"
    BY <1>2, NothingThere DEF EndReaches
<1>9. inPc[g] = "end" => outPc[g] = "end"
    BY <1>2, <1>5, <1>8, NothingThere DEF EndReaches
<1>10. inPc[g] = "end" => Tags(g) = 0
    BY <1>2, <1>9 DEF CountOf
<1>11. ImagesMarked(g) => inPc[g] # "fill"
    <2>1. inPc[g] = "fill" => ~HasEnd(ImageQ[g])
        BY NothingThere DEF InputWaits
    <2> QED
        BY <1>2, <2>1 DEF EndReaches
<1> QED
    BY <1>2, <1>5, <1>6, <1>7, <1>8, <1>9, <1>10, <1>11 DEF Ended, EndReaches

\* A device at rest has ended, or waits with less than a batch.
LEMMA DeviceQuiet ==
    ASSUME ReturnInv, EndsReach, NEW g \in Working, MasterWaits, InputWaits(g), ProcessWaits(g), OutputWaits(g)
    PROVE  /\ g \in Devices /\ Tags(g) \in Nat /\ Tags(g) < BatchSize
           /\ ImagesMarked(g) => Ended(g) /\ Tags(g) = 0
           /\ Ended(g) => ImagesMarked(g)
<1>1. g \in Devices
    BY WorkingDevices DEF ReturnInv, SessionInv, TypeOK
<1>2. /\ outPc[g] \in {"take", "end"} /\ Flying(g) = 0 /\ Rest(g) = 0
      /\ inPc[g] = "end" => Ended(g) /\ Tags(g) = 0
      /\ outPc[g] = "end" => inPc[g] = "end"
      /\ ImagesMarked(g) => inPc[g] # "fill"
      /\ inPc[g] = "end" => ImagesMarked(g)
    BY OutputQuiet
<1>3. procPc[g] \in {"take", "end"} /\ InBusy[g] = <<>> /\ Holders(g) /\ CountOf(g)
    BY <1>1, ProcessQuiet DEF ReturnInv, BufferInv, CountInv
<1>4. Tags(g) \in Nat /\ Len(batch[g]) \in Nat /\ BatchSize \in Nat \ {0} /\ Times(0) = 0
    <2>1. 0 \in Nat
        OBVIOUS
    <2>2. Times(0) = 0
        BY <2>1, TimesFacts
    <2> QED
        BY <1>1, <2>2, CountTypes DEF ReturnInv
<1>5. inPc[g] # "take"
    <2> SUFFICES ASSUME inPc[g] = "take" PROVE FALSE
        OBVIOUS
    <2>1. InIdle[g] = <<>> /\ inBuf[g] = Null /\ procIn[g] = Null /\ ~Ended(g)
        BY <1>3 DEF InputWaits, Holders, Ended
    <2> QED
        BY <1>3, <2>1, KeepsBuffers DEF Somewhere
<1>6. CASE inPc[g] = "fill"
    <2>1. Len(batch[g]) < BatchSize /\ ImagesOf(ImageQ[g]) = 0 /\ Between(g) = 0
        <3>1. Len(batch[g]) < BatchSize
            BY <1>1, <1>6 DEF ReturnInv, SessionInv, InputInv
        <3>2. ImagesOf(ImageQ[g]) = 0
            BY <1>6, NothingThere DEF InputWaits
        <3>3. Between(g) = 0
            BY DEF MasterWaits, Between
        <3> QED
            BY <3>1, <3>2, <3>3
    <2>2. Tags(g) = 0 + 0 + Len(batch[g]) + 0 + 0
        <3>1. Tags(g) = Rest(g) + Times(Flying(g)) + Len(batch[g]) + ImagesOf(ImageQ[g]) + Between(g)
            BY <1>3, <1>6 DEF CountOf
        <3>2. Times(Flying(g)) = 0
            BY <1>2, <1>4
        <3> QED
            BY <1>2, <2>1, <3>1, <3>2
    <2> QED
        BY <1>1, <1>2, <1>4, <1>6, <2>1, <2>2 DEF Ended
<1>7. CASE inPc[g] = "end"
    BY <1>1, <1>2, <1>4, <1>7
<1> QED
    BY <1>5, <1>6, <1>7 DEF InputWaits

\* What the invariants say of threads that all wait.
LEMMA NobodyIsStuck ==
    ASSUME BatchFits, ReturnInv, ProgressInv
    PROVE  NothingIsStuck
<1> SUFFICES ASSUME MasterWaits, \A g \in Working: InputWaits(g) /\ ProcessWaits(g) /\ OutputWaits(g)
             PROVE  /\ ~RunWaits
                    /\ \A i \in DOMAIN inputQ: inputQ[i] \notin Served
                    /\ \A g \in Working: BatchSize \in DOMAIN TagQ[g] => TagQ[g][BatchSize] = End
                    /\ masterPc = "end" => \A g \in Working: Ended(g) /\ \A i \in DOMAIN TagQ[g]: TagQ[g][i] = End
    BY Zenon DEF NothingIsStuck
<1>1. /\ EndsReach /\ PacketInv /\ VectorCount /\ QueueState /\ MasterEnds /\ BatchSize \in Nat \ {0} /\ TagDepth \in Nat \ {0, 1}
      /\ BatchSize <= TagDepth /\ \A g \in Devices: EndsOf(g)
    BY EngineAssumption, QueueStates DEF ProgressInv, BatchFits, ReturnInv, EndInv
<1>2. \A g \in Working: /\ g \in Devices /\ Tags(g) \in Nat /\ Tags(g) < BatchSize
                        /\ ImagesMarked(g) => Ended(g) /\ Tags(g) = 0
                        /\ Ended(g) => ImagesMarked(g)
    BY <1>1, DeviceQuiet
<1>3. gpu \in Working /\ scan \in Working /\ dying \in Working
    BY DEF ReturnInv, SessionInv, TypeOK, MasterTypes, RunTypes
<1>4. masterPc # "tag"
    <2> SUFFICES ASSUME masterPc = "tag" PROVE FALSE
        OBVIOUS
    <2>1. Len(TagQ[gpu]) >= TagDepth
        BY DEF MasterWaits
    <2>2. Tags(gpu) = Len(TagQ[gpu])
        BY <1>1, <1>2, <1>3 DEF EndsOf, Marking, Tags
    <2>3. Tags(gpu) \in Nat /\ Tags(gpu) < BatchSize
        BY <1>2, <1>3
    <2> QED
        BY <1>1, <2>1, <2>2, <2>3
<1>5. masterPc # "markTag"
    <2> SUFFICES ASSUME masterPc = "markTag" PROVE FALSE
        OBVIOUS
    <2>1. Len(TagQ[scan]) >= TagDepth
        BY DEF MasterWaits
    <2>2. ~ImagesMarked(scan) /\ ~TagsMarked(scan) /\ ~Ended(scan)
        <3>1. scan \in Nat
            BY <1>2, <1>3 DEF Devices
        <3>2. ~(scan < scan)
            BY <3>1
        <3>3. ~ImagesMarked(scan) /\ ~TagsMarked(scan)
            BY <3>2 DEF ImagesMarked, TagsMarked
        <3> QED
            BY <1>2, <1>3, <3>3
    <2>3. FewEnds(scan)
        BY <1>1, <1>3 DEF EndsReach
    <2>4. ~Closed(scan)
        <3>1. ~(scan < dying \/ runPc = "gone")
            BY <2>2, <2>3 DEF FewEnds
        <3>2. ~Joined
            BY <1>1 DEF MasterEnds
        <3> QED
            BY <3>1, <3>2 DEF Closed, Joined
    <2>5. Len(TagQ[scan]) <= Tags(scan) + 0 + 0
        BY <2>2, <2>3, <2>4 DEF FewEnds, One
    <2>6. Tags(scan) \in Nat /\ Tags(scan) < BatchSize /\ Len(TagQ[scan]) \in Nat
        BY <1>1, <1>2, <1>3 DEF QueueState
    <2> QED
        BY <1>1, <2>1, <2>5, <2>6
<1>6. (masterPc = "take" /\ inputQ = <<>>) \/ masterPc = "end"
    BY <1>4, <1>5 DEF MasterWaits
<1>7. masterPc = "end" => \A g \in Working: Ended(g) /\ Tags(g) = 0
    BY <1>2 DEF ImagesMarked
<1>8. ~RunWaits
    <2>1. ~(runPc = "pack" /\ outputQ = <<>>)
        <3> SUFFICES ASSUME runPc = "pack", outputQ = <<>> PROVE FALSE
            OBVIOUS
        <3>1. available <= 0 + Len(packet) /\ left <= available - Len(packet) /\ left > 0
            BY <1>1, NothingThere DEF PacketInv
        <3>2. available \in Int /\ left \in Int /\ Len(packet) \in Nat
            BY DEF ReturnInv, SessionInv, TypeOK, RunTypes
        <3> QED
            BY <3>1, <3>2
    <2>2. ~(runPc = "vector" /\ vectorQ = <<>>)
        <3> SUFFICES ASSUME runPc = "vector", vectorQ = <<>> PROVE FALSE
            OBVIOUS
        <3>1. AtVector = {}
            BY DEF AtVector, OutputWaits
        <3>2. Cardinality(Owed(outputQ)) + 1 = 0 + 0
            BY <1>1, <3>1, NothingThere, FS_EmptySet DEF VectorCount, InSession, One
        <3>3. Cardinality(Owed(outputQ)) \in Nat
            BY OwedIsFinite DEF ReturnInv, SessionInv, TypeOK, QueueTypes
        <3> QED
            BY <3>2, <3>3
    <2>3. ~(runPc = "d_master" /\ masterPc # "end")
        BY <1>1, <1>6, NothingThere DEF EndsReach, Marking
    <2>4. ~(runPc = "d_tag" /\ Len(TagQ[dying]) >= TagDepth)
        <3> SUFFICES ASSUME runPc = "d_tag", Len(TagQ[dying]) >= TagDepth PROVE FALSE
            OBVIOUS
        <3>1. masterPc = "end" /\ Tags(dying) = 0 /\ FewEnds(dying) /\ dying \in Nat /\ Len(TagQ[dying]) \in Nat
            BY <1>1, <1>2, <1>3, <1>7 DEF MasterEnds, Joined, EndsReach, Devices, QueueState
        <3>2. ~Closed(dying) /\ TagsMarked(dying)
            <4>1. ~(dying < dying)
                BY <3>1
            <4> QED
                BY <3>1, <4>1 DEF Closed, TagsMarked, ImagesMarked
        <3>3. Len(TagQ[dying]) <= 0 + 1 + 0
            BY <3>1, <3>2 DEF FewEnds, One
        <3> QED
            BY <1>1, <3>1, <3>3
    <2>5. ~(runPc = "d_join" /\ ~Ended(dying))
        BY <1>1, <1>3, <1>7 DEF MasterEnds, Joined
    <2> QED
        BY <2>1, <2>2, <2>3, <2>4, <2>5 DEF RunWaits
<1>9. \A i \in DOMAIN inputQ: inputQ[i] \notin Served
    <2>1. CASE inputQ = <<>>
        BY <2>1
    <2>2. CASE masterPc = "end"
        BY <2>2, NoneIsLeft DEF Marking
    <2> QED
        BY <1>6, <2>1, <2>2
<1>10. \A g \in Working: \A i \in DOMAIN TagQ[g]: TagQ[g][i] = End <=> ~(i <= Tags(g))
    BY <1>1, <1>2 DEF EndsOf, EndsLast, Cut, Tags
<1>11. \A g \in Working: BatchSize \in DOMAIN TagQ[g] => TagQ[g][BatchSize] = End
    <2>1. \A g \in Working: ~(BatchSize <= Tags(g))
        BY <1>1, <1>2
    <2> QED
        BY <1>10, <2>1
<1>12. masterPc = "end" => \A g \in Working: Ended(g) /\ \A i \in DOMAIN TagQ[g]: TagQ[g][i] = End
    <2>1. \A g \in Working: \A i \in DOMAIN TagQ[g]: i \in Nat \ {0}
        BY <1>1, <1>2 DEF QueueState
    <2>2. \A i \in Nat \ {0}: ~(i <= 0)
        OBVIOUS
    <2> QED
        BY <1>7, <1>10, <2>1, <2>2
<1> QED
    BY <1>8, <1>9, <1>11, <1>12

\* What enqueue and dequeue do to the mark of a queue.
LEMMA EndThere ==
    ASSUME NEW q \in Seq(Label), EndsLast(q)
    PROVE  /\ ImagesOf(q) \in Nat /\ ImagesOf(q) <= Len(q) /\ Len(q) \in Nat
           /\ HasEnd(Append(q, End)) /\ Len(Append(q, End)) = Len(q) + 1 /\ ImagesOf(Append(q, End)) = ImagesOf(q)
           /\ q # <<>> /\ Head(q) # End =>
                 /\ ImagesOf(Tail(q)) = ImagesOf(q) - 1 /\ Len(Tail(q)) = Len(q) - 1
                 /\ HasEnd(Tail(q)) <=> HasEnd(q)
           /\ q # <<>> /\ Head(q) = End => HasEnd(q) /\ ImagesOf(q) = 0 /\ ImagesOf(Tail(q)) = 0 /\ Len(Tail(q)) = Len(q) - 1
<1>1. ImagesOf(q) \in Nat /\ ImagesOf(q) <= Len(q) /\ Len(q) \in Nat
    BY DEF EndsLast, Cut
<1>2. Len(Append(q, End)) = Len(q) + 1 /\ ImagesOf(Append(q, End)) = ImagesOf(q)
    <2>1. Len(Append(q, End)) = Len(q) + 1
        OBVIOUS
    <2> QED
        BY <2>1, EndArrives
<1>3. ASSUME q # <<>>
      PROVE  /\ Len(Tail(q)) = Len(q) - 1 /\ Len(q) > 0 /\ ImagesOf(Tail(q)) = (IF Head(q) = End THEN 0 ELSE ImagesOf(q) - 1)
             /\ Head(q) = End <=> ImagesOf(q) = 0
    <2>1. Len(Tail(q)) = Len(q) - 1 /\ Len(q) > 0
        BY <1>3
    <2> QED
        BY <1>3, <2>1, HeadLeaves
<1> QED
    BY <1>1, <1>2, <1>3 DEF HasEnd

LEMMA NullThere ==
    ASSUME NEW q \in Seq(Buffers \cup {Null})
    PROVE  /\ HasNull(Append(q, Null))
           /\ q # <<>> /\ Head(q) # Null /\ HasNull(q) => HasNull(Tail(q))
           /\ \A b \in Buffers: HasNull(q) => HasNull(Append(q, b))
<1>1. Len(Append(q, Null)) = Len(q) + 1 /\ Append(q, Null)[Len(q) + 1] = Null /\ Len(q) + 1 \in DOMAIN Append(q, Null)
    OBVIOUS
<1>2. ASSUME q # <<>>, Head(q) # Null, NEW i \in DOMAIN q, q[i] = Null PROVE HasNull(Tail(q))
    <2>1. i # 1 /\ i \in 1..Len(q) /\ i - 1 \in DOMAIN Tail(q) /\ Tail(q)[i - 1] = q[i]
        BY <1>2
    <2> QED
        BY <1>2, <2>1 DEF HasNull
<1>3. ASSUME NEW b \in Buffers, NEW i \in DOMAIN q, q[i] = Null PROVE HasNull(Append(q, b))
    <2>1. i \in DOMAIN Append(q, b) /\ Append(q, b)[i] = q[i]
        BY <1>3
    <2> QED
        BY <1>3, <2>1 DEF HasNull
<1> QED
    BY <1>1, <1>2, <1>3 DEF HasNull

\* The types on which the ends depend.
LEMMA ReachTypes ==
    ASSUME ReturnInv, EndsReach
    PROVE  /\ QueueState /\ PoolState /\ Working \subseteq Devices /\ dying \in Working /\ scan \in Working /\ GPUs \in Nat \ {0}
           /\ MasterEnds /\ Joining
           /\ \A h \in Working: h \in Nat \ {0} /\ EndReaches(h) /\ FewEnds(h) /\ EndsOf(h) /\ BusyQueues(h)
<1>1. Working \subseteq Devices /\ dying \in Working /\ scan \in Working /\ GPUs \in Nat \ {0}
    BY WorkingDevices DEF ReturnInv, SessionInv, TypeOK, RunTypes, MasterTypes
<1>2. QueueState /\ PoolState
    BY QueueStates, PoolStates DEF ReturnInv
<1>3. ASSUME NEW h \in Working PROVE h \in Nat \ {0} /\ EndReaches(h) /\ FewEnds(h) /\ EndsOf(h) /\ BusyQueues(h)
    BY <1>1 DEF Devices, Working, EndsReach, ReturnInv, EndInv, BufferInv
<1> QED
    BY <1>1, <1>2, <1>3 DEF ReturnInv, EndInv

\* A step that leaves the threads of device h and its queues alone.
LEMMA ReachStays ==
    ASSUME NEW h, EndReaches(h), FewEnds(h),
           UNCHANGED <<TagQ[h], ImageQ[h], InBusy[h], OutBusy[h], inPc[h], procPc[h], outPc[h]>>,
           ImagesMarked(h)' <=> ImagesMarked(h), TagsMarked(h)' <=> TagsMarked(h), Closed(h)' <=> Closed(h),
           (h < dying' \/ runPc' = "gone") => (h < dying \/ runPc = "gone")
    PROVE  EndReaches(h)' /\ FewEnds(h)'
<1>1. EndReaches(h)'
    BY DEF EndReaches
<1>2. Tags(h)' = Tags(h)
    BY DEF Tags
<1> QED
    BY <1>1, <1>2 DEF FewEnds, Ended, One

LEMMA ReachOfMaster ==
    ASSUME ReturnInv, EndsReach, Master
    PROVE  EndsReach'
<1>0. /\ QueueState /\ PoolState /\ Working \subseteq Devices /\ dying \in Working /\ scan \in Working /\ GPUs \in Nat \ {0}
      /\ MasterEnds /\ Joining
      /\ \A h \in Working: h \in Nat \ {0} /\ EndReaches(h) /\ FewEnds(h) /\ EndsOf(h) /\ BusyQueues(h)
    BY ReachTypes
<1>a. UNCHANGED <<request, client, run, pool, input, process, output>> /\ Working' = Working /\ GPUs' = GPUs
    BY DEF Master, MasterTake, MasterTag, MasterImage, MasterScan, MasterMark, Working, GPUs
<1>b. \A h \in Working: Closed(h)' = Closed(h) /\ Ended(h)' = Ended(h)
    BY <1>a DEF Closed, Ended, run, input, process, output
<1>1. (runPc = "d_master" /\ ~Marking => HasEnd(inputQ))'
    <2> SUFFICES ASSUME runPc = "d_master", ~Marking' PROVE HasEnd(inputQ')
        BY <1>a DEF run
    <2>1. CASE MasterTake
        <3>1. inputQ # <<>> /\ inputQ' = Tail(inputQ) /\ ~Marking /\ Head(inputQ) \in Label /\ ~(Head(inputQ) < 0)
            BY <1>0, <2>1, QueueStep DEF MasterTake, Marking, QueueState
        <3>2. HasEnd(inputQ) /\ Head(inputQ) # End /\ inputQ \in Seq(Label) /\ EndsLast(inputQ)
            BY <1>0, <3>1, EndIsNegative DEF EndsReach, MasterEnds, QueueState
        <3> QED
            BY <3>1, <3>2, EndThere
    <2>2. CASE MasterTag \/ MasterImage \/ MasterScan
        <3>1. ~Marking /\ inputQ' = inputQ
            BY <2>2 DEF MasterTag, MasterImage, MasterScan, Marking
        <3> QED
            BY <3>1 DEF EndsReach
    <2>3. CASE MasterMark
        BY <2>3 DEF MasterMark, Marking
    <2> QED
        BY <2>1, <2>2, <2>3 DEF Master
<1> SUFFICES ASSUME NEW h \in Working PROVE EndReaches(h)' /\ FewEnds(h)'
    BY <1>1, <1>a, Zenon DEF EndsReach
<1>c. h \in Devices /\ h \in Nat \ {0} /\ EndReaches(h) /\ FewEnds(h) /\ EndsOf(h)
    BY <1>0
<1>d. UNCHANGED <<InBusy[h], OutBusy[h], inPc[h], procPc[h], outPc[h]>> /\ Closed(h)' = Closed(h) /\ Ended(h)' = Ended(h)
      /\ ((h < dying' \/ runPc' = "gone") => (h < dying \/ runPc = "gone"))
    BY <1>a, <1>b DEF pool, input, process, output, run
<1>2. CASE MasterTake \/ MasterScan
    <2>1. UNCHANGED <<TagQ, ImageQ>> /\ ~ImagesMarked(h) /\ ~TagsMarked(h)
        BY <1>2 DEF MasterTake, MasterScan, ImagesMarked, TagsMarked, deal
    <2>2. ~ImagesMarked(h)' /\ ~TagsMarked(h)'
        <3>1. masterPc' \in {"tag", "scan", "take"} \/ (masterPc' = "markTag" /\ scan' = 1)
            BY <1>2 DEF MasterTake, MasterScan
        <3>2. ~(h < 1)
            BY <1>c
        <3> QED
            BY <3>1, <3>2 DEF ImagesMarked, TagsMarked
    <2> QED
        BY <1>c, <1>d, <2>1, <2>2, ReachStays
<1>3. CASE MasterTag
    <2>1. /\ ~Marking /\ image # End /\ image \in Label /\ TagQ' = Put(TagQ, gpu, image) /\ ImageQ' = ImageQ
          /\ ~ImagesMarked(h) /\ ~TagsMarked(h) /\ ~ImagesMarked(h)' /\ ~TagsMarked(h)'
        BY <1>0, <1>3 DEF MasterTag, MasterEnds, Marking, ImagesMarked, TagsMarked, QueueState
    <2>2. CASE h # gpu
        BY <1>0, <1>c, <1>d, <2>1, <2>2, ReachStays DEF Put, QueueState
    <2>3. CASE h = gpu
        <3>1. TagQ'[h] = Append(TagQ[h], image) /\ ImagesOf(TagQ[h]) = Len(TagQ[h]) /\ TagQ[h] \in Seq(Label)
            BY <1>0, <1>c, <2>1, <2>3 DEF Put, QueueState, EndsOf
        <3>2. ImagesOf(TagQ'[h]) = Len(TagQ[h]) + 1 /\ Len(TagQ'[h]) = Len(TagQ[h]) + 1 /\ Len(TagQ[h]) \in Nat
            BY <1>c, <2>1, <3>1, ImageArrives DEF EndsOf
        <3>3. EndReaches(h)'
            BY <1>c, <1>d, <2>1 DEF EndReaches
        <3>4. FewEnds(h)'
            <4>1. Len(TagQ'[h]) <= Tags(h)' + One(TagsMarked(h))' + One(Closed(h))'
                <5>1. One(TagsMarked(h))' \in Nat /\ One(Closed(h))' \in Nat /\ Tags(h)' = Len(TagQ'[h])
                    BY <3>2 DEF Tags, One
                <5> QED
                    BY <3>2, <5>1
            <4> QED
                BY <1>c, <1>d, <4>1 DEF FewEnds
        <3> QED
            BY <3>3, <3>4
    <2> QED
        BY <2>2, <2>3
<1>4. CASE MasterImage
    <2>1. /\ ~Marking /\ image # End /\ image \in Label /\ ImageQ' = Put(ImageQ, gpu, image) /\ TagQ' = TagQ
          /\ ~ImagesMarked(h) /\ ~TagsMarked(h) /\ ~ImagesMarked(h)' /\ ~TagsMarked(h)'
        BY <1>0, <1>4 DEF MasterImage, MasterEnds, Marking, ImagesMarked, TagsMarked, QueueState
    <2>2. CASE h # gpu
        BY <1>0, <1>c, <1>d, <2>1, <2>2, ReachStays DEF Put, QueueState
    <2>3. CASE h = gpu
        <3>1. ImageQ'[h] = Append(ImageQ[h], image) /\ ImagesOf(ImageQ[h]) = Len(ImageQ[h]) /\ ImageQ[h] \in Seq(Label)
            BY <1>0, <1>c, <2>1, <2>3 DEF Put, QueueState, EndsOf
        <3>2. ImagesOf(ImageQ'[h]) = Len(ImageQ[h]) + 1 /\ Len(ImageQ'[h]) = Len(ImageQ[h]) + 1 /\ Len(ImageQ[h]) \in Nat
            BY <1>c, <2>1, <3>1, ImageArrives DEF EndsOf
        <3>3. ~HasEnd(ImageQ'[h]) /\ ~HasEnd(ImageQ[h])
            BY <3>1, <3>2 DEF HasEnd
        <3>4. EndReaches(h)'
            BY <1>c, <1>d, <2>1, <3>3 DEF EndReaches
        <3>5. FewEnds(h)'
            BY <1>c, <1>d, <2>1 DEF FewEnds, Tags, One
        <3> QED
            BY <3>4, <3>5
    <2> QED
        BY <2>2, <2>3
<1>5. CASE MasterMark /\ masterPc = "markTag"
    <2>1. masterPc = "markTag" /\ masterPc' = "markImage" /\ TagQ' = Put(TagQ, scan, End) /\ ImageQ' = ImageQ /\ scan' = scan
        BY <1>5 DEF MasterMark
    <2>2. ImagesMarked(h)' = ImagesMarked(h)
        BY <2>1 DEF ImagesMarked
    <2>3. CASE h # scan
        <3>1. TagsMarked(h)' = TagsMarked(h) /\ TagQ'[h] = TagQ[h] /\ ImageQ'[h] = ImageQ[h]
            BY <1>0, <1>c, <2>1, <2>2, <2>3 DEF TagsMarked, Put, QueueState
        <3> QED
            BY <1>c, <1>d, <2>2, <3>1, ReachStays
    <2>4. CASE h = scan
        <3>1. TagQ'[h] = Append(TagQ[h], End) /\ TagQ[h] \in Seq(Label) /\ EndsLast(TagQ[h]) /\ TagsMarked(h)' /\ ~TagsMarked(h)
            <4>1. ~(scan < scan)
                BY <1>c, <2>4
            <4> QED
                BY <1>0, <1>c, <2>1, <2>4, <4>1 DEF Put, QueueState, EndsOf, TagsMarked, ImagesMarked
        <3>2. HasEnd(TagQ'[h]) /\ Len(TagQ'[h]) = Len(TagQ[h]) + 1 /\ Tags(h)' = Tags(h) /\ Tags(h) \in Nat /\ Len(TagQ[h]) \in Nat
            BY <3>1, EndThere DEF Tags
        <3>3. EndReaches(h)'
            BY <1>c, <1>d, <2>1, <2>2, <3>2 DEF EndReaches
        <3>4. FewEnds(h)'
            <4>1. Len(TagQ[h]) <= Tags(h) + 0 + One(Closed(h)) /\ One(Closed(h)) \in Nat /\ One(Closed(h))' = One(Closed(h))
                BY <1>c, <1>d, <3>1 DEF FewEnds, One
            <4>2. One(TagsMarked(h))' = 1
                BY <3>1 DEF One
            <4>3. Len(TagQ'[h]) <= Tags(h)' + One(TagsMarked(h))' + One(Closed(h))'
                BY <3>2, <4>1, <4>2
            <4> QED
                BY <1>c, <1>d, <4>3 DEF FewEnds
        <3> QED
            BY <3>3, <3>4
    <2> QED
        BY <2>3, <2>4
<1>6. CASE MasterMark /\ masterPc = "markImage"
    <2>1. /\ masterPc = "markImage" /\ ImageQ' = Put(ImageQ, scan, End) /\ TagQ' = TagQ
          /\ \/ scan < GPUs /\ masterPc' = "markTag" /\ scan' = scan + 1
             \/ ~(scan < GPUs) /\ masterPc' = "end"
        BY <1>6 DEF MasterMark
    <2>2. ImagesMarked(h)' <=> h < scan \/ h = scan
        BY <1>0, <1>c, <2>1 DEF ImagesMarked, Working
    <2>3. TagsMarked(h)' = TagsMarked(h)
        <3>1. TagsMarked(h) <=> h < scan \/ h = scan
            BY <2>1 DEF TagsMarked, ImagesMarked
        <3>2. masterPc' # "markImage"
            BY <2>1
        <3> QED
            BY <2>2, <3>1, <3>2 DEF TagsMarked
    <2>4. CASE h # scan
        <3>1. ImagesMarked(h)' = ImagesMarked(h) /\ TagQ'[h] = TagQ[h] /\ ImageQ'[h] = ImageQ[h]
            BY <1>0, <1>c, <2>1, <2>2, <2>4 DEF ImagesMarked, Put, QueueState
        <3> QED
            BY <1>c, <1>d, <2>3, <3>1, ReachStays
    <2>5. CASE h = scan
        <3>1. ImageQ'[h] = Append(ImageQ[h], End) /\ ImageQ[h] \in Seq(Label) /\ EndsLast(ImageQ[h]) /\ TagQ'[h] = TagQ[h]
            BY <1>0, <1>c, <2>1, <2>5 DEF Put, QueueState, EndsOf
        <3>2. HasEnd(ImageQ'[h]) /\ ImagesMarked(h)'
            BY <2>2, <2>5, <3>1, EndThere
        <3>3. EndReaches(h)'
            BY <1>c, <1>d, <2>3, <3>1, <3>2 DEF EndReaches
        <3>4. FewEnds(h)'
            BY <1>c, <1>d, <2>3, <3>1 DEF FewEnds, Tags, One
        <3> QED
            BY <3>3, <3>4
    <2> QED
        BY <2>4, <2>5
<1> QED
    BY <1>2, <1>3, <1>4, <1>5, <1>6 DEF Master, MasterMark

\* What the threads of a device leave alone.
LEMMA ThreadsFrame ==
    ASSUME NEW g, InputCopy(g) \/ Process(g) \/ OutputCopy(g)
    PROVE  UNCHANGED <<request, client, run, inputQ, master>>
  BY DEF InputCopy, InputTake, InputFill, InputGive, InputMark, Process, ProcessTakeInput, ProcessTakeOutput,
         ProcessGraph, ProcessGive, OutputCopy, OutputTake, OutputTag, OutputVector, OutputGive, OutputMark

\* A step of workDeviceInputCopy, of workDeviceProcess, of workDeviceOutputCopy.
LEMMA ReachOfInput ==
    ASSUME ReturnInv, EndsReach, NEW g \in Working, InputCopy(g)
    PROVE  EndReaches(g)' /\ FewEnds(g)'
<1>0. /\ QueueState /\ PoolState /\ g \in Devices /\ EndReaches(g) /\ FewEnds(g) /\ EndsOf(g) /\ BusyQueues(g)
      /\ UNCHANGED <<request, client, run, inputQ, master>>
    BY ReachTypes, ThreadsFrame
<1>1. UNCHANGED <<TagQ, OutBusy, process, output>>
    BY DEF InputCopy, InputTake, InputFill, InputGive, InputMark, deal, pool
<1>2. ImagesMarked(g)' = ImagesMarked(g) /\ TagsMarked(g)' = TagsMarked(g) /\ Closed(g)' = Closed(g)
    BY <1>0 DEF ImagesMarked, TagsMarked, Closed, master, run
<1>3. inPc[g] # "end"
    BY DEF InputCopy, InputTake, InputFill, InputGive, InputMark
<1>4. FewEnds(g)'
    <2>1. ~(g < dying \/ runPc = "gone")
        BY <1>0, <1>3 DEF FewEnds, Ended
    <2> QED
        BY <1>0, <1>1, <1>2, <2>1 DEF FewEnds, Tags, One, run
<1>5. procPc[g] \notin {"mark", "end"} /\ UNCHANGED <<TagQ[g], OutBusy[g], procPc[g], outPc[g]>>
    BY <1>0, <1>1, <1>3 DEF BusyQueues, process, output
<1>6. EndReaches(g)'
    <2>1. CASE InputTake(g) \/ InputGive(g)
        <3>1. /\ ImageQ' = ImageQ /\ inPc'[g] # "end" /\ (inPc'[g] \in {"giveLast", "mark", "end"} <=> inPc[g] \in {"giveLast", "mark", "end"})
            BY <1>0, <2>1 DEF InputTake, InputGive, Goto, QueueState, deal
        <3> QED
            BY <1>0, <1>2, <1>5, <3>1 DEF EndReaches
    <2>2. CASE InputFill(g)
        <3>1. /\ ImageQ[g] # <<>> /\ ImageQ'[g] = Tail(ImageQ[g]) /\ InBusy' = InBusy /\ inPc[g] = "fill" /\ ImageQ[g] \in Seq(Label)
              /\ EndsLast(ImageQ[g]) /\ Head(ImageQ[g]) \in Label
            BY <1>0, <2>2, QueueStep DEF InputFill, Take, QueueState, pool, EndsOf
        <3>2. inPc'[g] = IF Head(ImageQ[g]) = End THEN "giveLast" ELSE IF Len(batch'[g]) = BatchSize THEN "give" ELSE "fill"
            BY <1>0, <2>2, <3>1, EndIsNegative DEF InputFill, Goto, QueueState
        <3>3. /\ Head(ImageQ[g]) = End => HasEnd(ImageQ[g])
              /\ Head(ImageQ[g]) # End => (HasEnd(ImageQ'[g]) <=> HasEnd(ImageQ[g]))
            BY <3>1, EndThere
        <3>4. ImagesMarked(g)' <=> HasEnd(ImageQ'[g]) \/ inPc'[g] \in {"giveLast", "mark", "end"}
            BY <1>0, <1>2, <3>1, <3>2, <3>3 DEF EndReaches
        <3> QED
            BY <1>0, <1>2, <1>5, <3>1, <3>2, <3>4 DEF EndReaches
    <2>3. CASE InputMark(g)
        <3>1. /\ ImageQ' = ImageQ /\ inPc'[g] = "end" /\ inPc[g] = "mark" /\ InBusy'[g] = Append(InBusy[g], Null)
              /\ InBusy[g] \in Seq(Buffers \cup {Null})
            BY <1>0, <2>3 DEF InputMark, Goto, QueueState, PoolState, deal, Put
        <3>2. HasNull(InBusy'[g])
            BY <3>1, NullThere
        <3> QED
            BY <1>0, <1>2, <1>5, <3>1, <3>2 DEF EndReaches
    <2> QED
        BY <2>1, <2>2, <2>3 DEF InputCopy
<1> QED
    BY <1>4, <1>6

LEMMA ReachOfProcess ==
    ASSUME ReturnInv, EndsReach, NEW g \in Working, Process(g)
    PROVE  EndReaches(g)' /\ FewEnds(g)'
<1>0. /\ QueueState /\ PoolState /\ g \in Devices /\ EndReaches(g) /\ FewEnds(g) /\ EndsOf(g) /\ BusyQueues(g)
      /\ UNCHANGED <<request, client, run, inputQ, master>>
    BY ReachTypes, ThreadsFrame
<1>1. UNCHANGED <<TagQ, ImageQ, input, output>>
    BY DEF Process, ProcessTakeInput, ProcessTakeOutput, ProcessGraph, ProcessGive, deal
<1>2. ImagesMarked(g)' = ImagesMarked(g) /\ TagsMarked(g)' = TagsMarked(g) /\ Closed(g)' = Closed(g)
    BY <1>0 DEF ImagesMarked, TagsMarked, Closed, master, run
<1>3. procPc[g] # "end"
    BY DEF Process, ProcessTakeInput, ProcessTakeOutput, ProcessGraph, ProcessGive
<1>4. FewEnds(g)'
    <2>1. ~(g < dying \/ runPc = "gone")
        BY <1>0, <1>3 DEF FewEnds, Ended
    <2> QED
        BY <1>0, <1>1, <1>2, <2>1 DEF FewEnds, Tags, One, run
<1>5. UNCHANGED <<TagQ[g], ImageQ[g], inPc[g], outPc[g]>>
    BY <1>1 DEF input, output
<1>6. EndReaches(g)'
    <2>1. CASE ProcessTakeInput(g)
        <3>1. /\ InBusy[g] # <<>> /\ InBusy'[g] = Tail(InBusy[g]) /\ OutBusy' = OutBusy /\ procPc[g] = "take"
              /\ InBusy[g] \in Seq(Buffers \cup {Null}) /\ procPc'[g] = IF Head(InBusy[g]) = Null THEN "mark" ELSE "takeOutput"
            BY <1>0, <2>1 DEF ProcessTakeInput, Take, QueueState, PoolState, Goto
        <3>2. Head(InBusy[g]) # Null /\ HasNull(InBusy[g]) => HasNull(InBusy'[g])
            BY <3>1, NullThere
        <3> QED
            BY <1>0, <1>2, <1>5, <3>1, <3>2 DEF EndReaches
    <2>2. CASE ProcessTakeOutput(g) \/ ProcessGraph(g)
        <3>1. UNCHANGED <<InBusy, OutBusy>> /\ procPc[g] \notin {"mark", "end"} /\ procPc'[g] # "end"
            BY <1>0, <2>2 DEF ProcessTakeOutput, ProcessGraph, Goto, QueueState
        <3> QED
            BY <1>0, <1>2, <1>5, <3>1 DEF EndReaches
    <2>3. CASE ProcessGive(g)
        <3>1. CASE procPc[g] = "giveInput" \/ procPc[g] = "giveOutput"
            <4>1. InBusy' = InBusy /\ procPc'[g] # "end"
                BY <1>0, <2>3, <3>1 DEF ProcessGive, Goto, QueueState
            <4> QED
                BY <1>0, <1>2, <1>5, <3>1, <4>1 DEF EndReaches
        <3>2. CASE procPc[g] = "mark"
            <4>1. InBusy' = InBusy /\ procPc'[g] = "end" /\ OutBusy'[g] = Append(OutBusy[g], Null) /\ OutBusy[g] \in Seq(Buffers \cup {Null})
                BY <1>0, <2>3, <3>2 DEF ProcessGive, Goto, QueueState, PoolState, Put
            <4>2. HasNull(OutBusy'[g])
                BY <4>1, NullThere
            <4> QED
                BY <1>0, <1>2, <1>5, <4>1, <4>2 DEF EndReaches
        <3> QED
            BY <2>3, <3>1, <3>2 DEF ProcessGive
    <2> QED
        BY <2>1, <2>2, <2>3 DEF Process
<1> QED
    BY <1>4, <1>6

LEMMA ReachOfOutput ==
    ASSUME ReturnInv, EndsReach, NEW g \in Working, OutputCopy(g)
    PROVE  EndReaches(g)' /\ FewEnds(g)'
<1>0. /\ QueueState /\ PoolState /\ g \in Devices /\ EndReaches(g) /\ FewEnds(g) /\ EndsOf(g) /\ BusyQueues(g)
      /\ UNCHANGED <<request, client, run, inputQ, master>>
    BY ReachTypes, ThreadsFrame
<1>1. UNCHANGED <<ImageQ, InBusy, input, process>>
    BY DEF OutputCopy, OutputTake, OutputTag, OutputVector, OutputGive, OutputMark, deal, pool
<1>2. ImagesMarked(g)' = ImagesMarked(g) /\ TagsMarked(g)' = TagsMarked(g) /\ Closed(g)' = Closed(g)
    BY <1>0 DEF ImagesMarked, TagsMarked, Closed, master, run
<1>3. outPc[g] # "end"
    BY DEF OutputCopy, OutputTake, OutputTag, OutputVector, OutputGive, OutputMark
<1>4. ~(g < dying \/ runPc = "gone") /\ ~(g < dying' \/ runPc' = "gone")
    BY <1>0, <1>3 DEF FewEnds, Ended, run
<1>5. UNCHANGED <<ImageQ[g], InBusy[g], inPc[g], procPc[g]>>
    BY <1>1 DEF input, process
<1>6. CASE OutputTake(g)
    <2>1. /\ OutBusy[g] # <<>> /\ OutBusy'[g] = Tail(OutBusy[g]) /\ TagQ' = TagQ /\ outPc[g] = "take"
          /\ OutBusy[g] \in Seq(Buffers \cup {Null}) /\ outPc'[g] = IF Head(OutBusy[g]) = Null THEN "mark" ELSE "tag"
        BY <1>0, <1>6 DEF OutputTake, Take, QueueState, PoolState, Goto, deal
    <2>2. Head(OutBusy[g]) # Null /\ HasNull(OutBusy[g]) => HasNull(OutBusy'[g])
        BY <2>1, NullThere
    <2>3. EndReaches(g)'
        BY <1>0, <1>2, <1>5, <2>1, <2>2 DEF EndReaches
    <2> QED
        BY <1>0, <1>2, <1>4, <2>1, <2>3 DEF FewEnds, Tags, One
<1>7. CASE OutputTag(g)
    <2>1. /\ TagQ[g] # <<>> /\ TagQ'[g] = Tail(TagQ[g]) /\ TagQ[g] \in Seq(Label) /\ Head(TagQ[g]) \in Label /\ EndsLast(TagQ[g])
          /\ OutBusy' = OutBusy /\ outPc[g] = "tag"
        BY <1>0, <1>7, QueueStep DEF OutputTag, Take, QueueState, EndsOf, pool
    <2>2. outPc'[g] \notin {"mark", "end"} /\ (Head(TagQ[g]) = End <=> outPc'[g] = "giveLast")
        BY <1>0, <1>7, <2>1, EndIsNegative DEF OutputTag, Goto, QueueState
    <2>3. /\ Tags(g) \in Nat /\ Len(TagQ[g]) \in Nat /\ Len(TagQ'[g]) = Len(TagQ[g]) - 1
          /\ Head(TagQ[g]) # End => Tags(g)' = Tags(g) - 1 /\ (HasEnd(TagQ'[g]) <=> HasEnd(TagQ[g]))
          /\ Head(TagQ[g]) = End => Tags(g) = 0 /\ Tags(g)' = 0
        BY <2>1, EndThere DEF Tags
    <2>4. EndReaches(g)'
        BY <1>0, <1>2, <1>5, <2>1, <2>2, <2>3 DEF EndReaches
    <2>5. Len(TagQ'[g]) <= Tags(g)' + One(TagsMarked(g))' + One(Closed(g))'
        <3>1. Len(TagQ[g]) <= Tags(g) + One(TagsMarked(g)) + One(Closed(g)) /\ One(TagsMarked(g)) \in Nat /\ One(Closed(g)) \in Nat
            BY <1>0 DEF FewEnds, One
        <3>2. One(TagsMarked(g))' = One(TagsMarked(g)) /\ One(Closed(g))' = One(Closed(g))
            BY <1>2
        <3>3. Len(TagQ'[g]) <= Tags(g)' + One(TagsMarked(g)) + One(Closed(g))
            BY <2>3, <3>1
        <3> QED
            BY <3>2, <3>3
    <2> QED
        BY <1>4, <2>4, <2>5 DEF FewEnds
<1>8. CASE OutputVector(g) \/ OutputGive(g) \/ OutputMark(g)
    <2>1. /\ UNCHANGED <<TagQ, OutBusy>> /\ (outPc'[g] \in {"giveLast", "mark", "end"} <=> outPc[g] \in {"giveLast", "mark", "end"})
          /\ (outPc[g] \in {"mark", "end"} => outPc'[g] \in {"mark", "end"})
        BY <1>0, <1>8 DEF OutputVector, OutputGive, OutputMark, Goto, QueueState, deal, pool
    <2>2. EndReaches(g)'
        BY <1>0, <1>2, <1>5, <2>1 DEF EndReaches
    <2> QED
        BY <1>0, <1>2, <1>4, <2>1, <2>2 DEF FewEnds, Tags, One
<1> QED
    BY <1>6, <1>7, <1>8 DEF OutputCopy

LEMMA ReachOfThreads ==
    ASSUME ReturnInv, EndsReach, NEW g \in Working, InputCopy(g) \/ Process(g) \/ OutputCopy(g)
    PROVE  EndsReach'
<1>0. /\ QueueState /\ PoolState /\ Working \subseteq Devices /\ UNCHANGED <<request, client, run, inputQ, master>>
      /\ \A h \in Working: EndReaches(h) /\ FewEnds(h)
    BY ReachTypes, ThreadsFrame
<1>1. (runPc = "d_master" /\ ~Marking => HasEnd(inputQ))'
    BY <1>0 DEF EndsReach, Marking, run, master
<1> SUFFICES ASSUME NEW h \in Working PROVE EndReaches(h)' /\ FewEnds(h)'
    BY <1>0, <1>1, Zenon DEF EndsReach, Working, GPUs
<1>2. CASE h = g
    BY <1>2, ReachOfInput, ReachOfProcess, ReachOfOutput
<1>3. CASE h # g
    <2>1. UNCHANGED <<TagQ[h], ImageQ[h], InBusy[h], OutBusy[h], inPc[h], procPc[h], outPc[h]>>
        <3>1. CASE InputCopy(g)
            <4>1. UNCHANGED <<TagQ, OutBusy, process, output>>
                BY <3>1 DEF InputCopy, InputTake, InputFill, InputGive, InputMark, deal, pool
            <4>2. inPc'[h] = inPc[h] /\ InBusy'[h] = InBusy[h] /\ ImageQ'[h] = ImageQ[h]
                BY <1>0, <1>3, <3>1 DEF InputCopy, InputTake, InputFill, InputGive, InputMark, PoolState, QueueState,
                                        Put, Take, Goto, pool, deal
            <4> QED
                BY <4>1, <4>2 DEF process, output
        <3>2. CASE Process(g)
            BY <1>0, <1>3, <3>2 DEF Process, ProcessTakeInput, ProcessTakeOutput, ProcessGraph, ProcessGive, PoolState,
                                    Goto, Put, Take, input, output, deal
        <3>3. CASE OutputCopy(g)
            <4>1. UNCHANGED <<ImageQ, InBusy, input, process>>
                BY <3>3 DEF OutputCopy, OutputTake, OutputTag, OutputVector, OutputGive, OutputMark, deal, pool
            <4>2. outPc'[h] = outPc[h] /\ OutBusy'[h] = OutBusy[h] /\ TagQ'[h] = TagQ[h]
                BY <1>0, <1>3, <3>3 DEF OutputCopy, OutputTake, OutputTag, OutputVector, OutputGive, OutputMark, PoolState, QueueState,
                                        Take, Goto, pool, deal
            <4> QED
                BY <4>1, <4>2 DEF input, process
        <3> QED
            BY <3>1, <3>2, <3>3
    <2>2. /\ ImagesMarked(h)' = ImagesMarked(h) /\ TagsMarked(h)' = TagsMarked(h) /\ Closed(h)' = Closed(h)
          /\ ((h < dying' \/ runPc' = "gone") => (h < dying \/ runPc = "gone"))
        BY <1>0 DEF ImagesMarked, TagsMarked, Closed, master, run
    <2> QED
        BY <1>0, <2>1, <2>2, ReachStays
<1> QED
    BY <1>2, <1>3

\* A step of run, of the destructor.
LEMMA ReachOfRun ==
    ASSUME ReturnInv, EndsReach, Run
    PROVE  EndsReach'
<1>0. /\ QueueState /\ PoolState /\ Working \subseteq Devices /\ dying \in Working /\ GPUs \in Nat \ {0} /\ MasterEnds /\ Joining
      /\ \A h \in Working: h \in Nat \ {0} /\ EndReaches(h) /\ FewEnds(h) /\ EndsOf(h)
    BY ReachTypes
<1>a. UNCHANGED <<request, master, input, process, output>> /\ Working' = Working
    BY DEF Run, RunLoop, RunPack, RunVector, RunSend, RunAsk, RunReceive, RunBye,
           Destroy, DestroyInput, DestroyJoinMaster, DestroyMark, DestroyJoin, DestroyFree, Working, GPUs
<1>b. UNCHANGED <<InBusy, OutBusy>>
    BY DEF Run, RunLoop, RunPack, RunVector, RunSend, RunAsk, RunReceive, RunBye,
           Destroy, DestroyInput, DestroyJoinMaster, DestroyMark, DestroyJoin, DestroyFree, pool
<1>1. (runPc = "d_master" /\ ~Marking => HasEnd(inputQ))'
    <2> SUFFICES ASSUME runPc' = "d_master" PROVE HasEnd(inputQ')
        OBVIOUS
    <2>1. DestroyInput
        BY DEF Run, RunLoop, RunPack, RunVector, RunSend, RunAsk, RunReceive, RunBye,
               Destroy, DestroyInput, DestroyJoinMaster, DestroyMark, DestroyJoin, DestroyFree
    <2>2. inputQ' = Append(inputQ, End) /\ inputQ \in Seq(Label) /\ EndsLast(inputQ)
        BY <1>0, <2>1 DEF DestroyInput, MasterEnds, QueueState
    <2> QED
        BY <2>2, EndThere
<1> SUFFICES ASSUME NEW h \in Working PROVE EndReaches(h)' /\ FewEnds(h)'
    BY <1>1, <1>a, Zenon DEF EndsReach
<1>c. /\ h \in Devices /\ EndReaches(h) /\ FewEnds(h) /\ EndsOf(h)
      /\ UNCHANGED <<InBusy[h], OutBusy[h], inPc[h], procPc[h], outPc[h]>>
      /\ ImagesMarked(h)' = ImagesMarked(h) /\ TagsMarked(h)' = TagsMarked(h) /\ Ended(h)' = Ended(h)
    BY <1>0, <1>a, <1>b DEF master, input, process, output, ImagesMarked, TagsMarked, Ended
<1>2. ASSUME UNCHANGED <<TagQ, ImageQ>>, Closed(h)' <=> Closed(h), (h < dying' \/ runPc' = "gone") => (h < dying \/ runPc = "gone")
      PROVE  EndReaches(h)' /\ FewEnds(h)'
    BY <1>c, <1>2, ReachStays
<1>3. CASE RunLoop \/ RunPack \/ RunVector \/ RunSend \/ RunAsk \/ RunReceive \/ RunBye
    <2>1. UNCHANGED <<deal, dying>>
        BY <1>3 DEF RunLoop, RunPack, RunVector, RunSend, RunAsk, RunReceive, RunBye
    <2>2. runPc \notin {"d_image", "d_join", "d_free", "gone"}
        BY <1>3 DEF RunLoop, RunPack, RunVector, RunSend, RunAsk, RunReceive, RunBye
    <2>3. runPc' \notin {"d_image", "d_join", "d_free", "gone"}
        <3>1. CASE RunAsk
            BY <3>1, Zenon DEF RunAsk
        <3> QED
            BY <1>3, <3>1 DEF RunLoop, RunPack, RunVector, RunSend, RunReceive, RunBye
    <2> QED
        BY <1>2, <2>1, <2>2, <2>3 DEF Closed, deal
<1>4. CASE DestroyInput \/ DestroyJoinMaster \/ DestroyJoin
    BY <1>2, <1>4 DEF DestroyInput, DestroyJoinMaster, DestroyJoin, Closed, deal
<1>5. CASE DestroyMark /\ runPc = "d_tag"
    <2>1. runPc = "d_tag" /\ runPc' = "d_image" /\ TagQ' = Put(TagQ, dying, End) /\ ImageQ' = ImageQ /\ dying' = dying
        BY <1>5 DEF DestroyMark
    <2>2. CASE h # dying
        <3>1. TagQ'[h] = TagQ[h] /\ ImageQ'[h] = ImageQ[h] /\ (Closed(h)' <=> Closed(h))
            BY <1>0, <1>c, <2>1, <2>2 DEF Put, QueueState, Closed
        <3> QED
            BY <1>c, <2>1, <3>1, ReachStays
    <2>3. CASE h = dying
        <3>1. TagQ'[h] = Append(TagQ[h], End) /\ TagQ[h] \in Seq(Label) /\ EndsLast(TagQ[h])
            BY <1>0, <1>c, <2>1, <2>3 DEF Put, QueueState, EndsOf
        <3>2. ~Closed(h) /\ Closed(h)' /\ ~(h < dying)
            <4>1. ~(h < dying)
                BY <1>0, <2>3
            <4> QED
                BY <2>1, <2>3, <4>1 DEF Closed
        <3>3. HasEnd(TagQ'[h]) /\ Len(TagQ'[h]) = Len(TagQ[h]) + 1 /\ Tags(h)' = Tags(h) /\ Tags(h) \in Nat /\ Len(TagQ[h]) \in Nat
            BY <3>1, EndThere DEF Tags
        <3>4. EndReaches(h)'
            BY <1>c, <2>1, <3>3 DEF EndReaches
        <3>5. Len(TagQ'[h]) <= Tags(h)' + One(TagsMarked(h))' + One(Closed(h))'
            <4>1. Len(TagQ[h]) <= Tags(h) + One(TagsMarked(h)) + 0 /\ One(TagsMarked(h)) \in Nat /\ One(TagsMarked(h))' = One(TagsMarked(h))
                BY <1>c, <3>2 DEF FewEnds, One
            <4>2. One(Closed(h))' = 1
                BY <3>2 DEF One
            <4> QED
                BY <3>3, <4>1, <4>2
        <3>6. FewEnds(h)'
            BY <2>1, <3>2, <3>5, <2>3 DEF FewEnds
        <3> QED
            BY <3>4, <3>6
    <2> QED
        BY <2>2, <2>3
<1>6. CASE DestroyMark /\ runPc = "d_image"
    <2>1. runPc = "d_image" /\ runPc' = "d_join" /\ ImageQ' = Put(ImageQ, dying, End) /\ TagQ' = TagQ /\ dying' = dying
        BY <1>6 DEF DestroyMark
    <2>2. Closed(h)' <=> Closed(h)
        BY <2>1 DEF Closed
    <2>3. CASE h # dying
        <3>1. TagQ'[h] = TagQ[h] /\ ImageQ'[h] = ImageQ[h]
            BY <1>0, <1>c, <2>1, <2>3 DEF Put, QueueState
        <3> QED
            BY <1>c, <2>1, <2>2, <3>1, ReachStays
    <2>4. CASE h = dying
        <3>1. ImageQ'[h] = Append(ImageQ[h], End) /\ ImageQ[h] \in Seq(Label) /\ EndsLast(ImageQ[h]) /\ TagQ'[h] = TagQ[h]
            BY <1>0, <1>c, <2>1, <2>4 DEF Put, QueueState, EndsOf
        <3>2. HasEnd(ImageQ'[h]) /\ ImagesMarked(h)
            <4>1. masterPc = "end"
                BY <1>0, <2>1 DEF MasterEnds, Joined
            <4> QED
                BY <3>1, <4>1, EndThere DEF ImagesMarked
        <3>3. EndReaches(h)'
            BY <1>c, <3>1, <3>2 DEF EndReaches
        <3>4. FewEnds(h)'
            BY <1>c, <2>1, <2>2, <3>1 DEF FewEnds, Tags, One
        <3> QED
            BY <3>3, <3>4
    <2> QED
        BY <2>3, <2>4
<1>7. CASE DestroyFree
    <2>1. /\ UNCHANGED <<TagQ, ImageQ>> /\ runPc = "d_free"
          /\ \/ dying < GPUs /\ dying' = dying + 1 /\ runPc' = "d_tag"
             \/ ~(dying < GPUs) /\ dying' = dying /\ runPc' = "gone"
        BY <1>7 DEF DestroyFree, deal
    <2>2. (h < dying' \/ runPc' = "gone") => (h < dying \/ h = dying)
        BY <1>0, <2>1 DEF Working
    <2>3. (h < dying' \/ runPc' = "gone") => Ended(h)'
        BY <1>0, <1>c, <2>1, <2>2 DEF FewEnds, Joining, Ended
    <2>4. EndReaches(h)'
        BY <1>c, <2>1 DEF EndReaches
    <2>5. Closed(h) => Closed(h)'
        BY <1>0, <2>1 DEF Closed, Working
    <2>6. Len(TagQ'[h]) <= Tags(h)' + One(TagsMarked(h))' + One(Closed(h))'
        <3>1. Len(TagQ[h]) <= Tags(h) + One(TagsMarked(h)) + One(Closed(h)) /\ One(TagsMarked(h)) \in Nat
            BY <1>c DEF FewEnds, One
        <3>2. One(TagsMarked(h))' = One(TagsMarked(h)) /\ TagQ'[h] = TagQ[h] /\ Tags(h)' = Tags(h)
            BY <1>c, <2>1 DEF Tags
        <3>3. One(Closed(h)) <= One(Closed(h))' /\ One(Closed(h)) \in Nat /\ One(Closed(h))' \in Nat
            BY <2>5 DEF One
        <3>4. Tags(h) \in Nat /\ Len(TagQ[h]) \in Nat
            <4>1. TagQ[h] \in Seq(Label) /\ EndsLast(TagQ[h])
                BY <1>0, <1>c DEF QueueState, EndsOf
            <4> QED
                BY <4>1, EndThere DEF Tags
        <3> QED
            BY <3>1, <3>2, <3>3, <3>4
    <2> QED
        BY <2>3, <2>4, <2>6 DEF FewEnds
<1> QED
    BY <1>3, <1>4, <1>5, <1>6, <1>7 DEF Run, Destroy, DestroyMark

LEMMA ReachStep == ASSUME ReturnInv, EndsReach, [Next]_vars PROVE EndsReach'
<1>1. CASE ClientCloses \/ UNCHANGED vars
    <2>1. UNCHANGED <<request, run, inputQ, master, deal, pool, input, process, output>>
        BY <1>1 DEF ClientCloses, vars
    <2>2. Working' = Working /\ \A h \in Working: EndReaches(h) /\ FewEnds(h)
        BY <2>1, ReachTypes DEF Working, GPUs
    <2>3. (runPc = "d_master" /\ ~Marking => HasEnd(inputQ))'
        BY <2>1 DEF EndsReach, Marking, run, master
    <2>4. ASSUME NEW h \in Working PROVE EndReaches(h)' /\ FewEnds(h)'
        <3>1. /\ UNCHANGED <<TagQ[h], ImageQ[h], InBusy[h], OutBusy[h], inPc[h], procPc[h], outPc[h]>>
              /\ ImagesMarked(h)' = ImagesMarked(h) /\ TagsMarked(h)' = TagsMarked(h) /\ Closed(h)' = Closed(h)
              /\ ((h < dying' \/ runPc' = "gone") => (h < dying \/ runPc = "gone"))
            BY <2>1 DEF ImagesMarked, TagsMarked, Closed, run, master, deal, pool, input, process, output
        <3> QED
            BY <2>2, <3>1, ReachStays
    <2> QED
        BY <2>2, <2>3, <2>4, Zenon DEF EndsReach
<1> QED
    BY <1>1, ReachOfRun, ReachOfMaster, ReachOfThreads DEF Next

\* What is counted, packed and sent.
LEMMA PacketStep == ASSUME ReturnInv, PacketInv, [Next]_vars PROVE PacketInv'
<1>0. /\ outputQ \in Seq(Result) /\ packet \in Seq(Result) /\ available \in Int /\ left \in Int
      /\ PerPacket \in Nat \ {0} /\ Len(outputQ) \in Nat /\ Len(packet) \in Nat
    <2>1. outputQ \in Seq(Result) /\ packet \in Seq(Result) /\ available \in Int /\ left \in Int
        BY DEF ReturnInv, SessionInv, TypeOK, QueueTypes, RunTypes
    <2> QED
        BY <2>1, EngineAssumption DEF PerPacket
<1>1. ASSUME UNCHANGED run, Len(outputQ') \in Nat, Len(outputQ) <= Len(outputQ') PROVE PacketInv'
    BY <1>0, <1>1 DEF PacketInv, run
<1>2. CASE Master \/ ClientCloses \/ UNCHANGED vars
    BY <1>0, <1>1, <1>2 DEF Master, MasterTake, MasterTag, MasterImage, MasterScan, MasterMark, ClientCloses, vars
<1>3. ASSUME NEW g \in Working, InputCopy(g) \/ Process(g) \/ OutputCopy(g)
      PROVE  PacketInv'
    <2>1. UNCHANGED run
        BY <1>3, ThreadsFrame
    <2>2. outputQ' = outputQ \/ \E x: outputQ' = Append(outputQ, x)
        <3>1. CASE InputCopy(g)
            BY <3>1 DEF InputCopy, InputTake, InputFill, InputGive, InputMark
        <3>2. CASE Process(g)
            BY <3>2 DEF Process, ProcessTakeInput, ProcessTakeOutput, ProcessGraph, ProcessGive
        <3>3. CASE OutputCopy(g)
            BY <3>3 DEF OutputCopy, OutputTake, OutputTag, OutputVector, OutputGive, OutputMark
        <3> QED
            BY <1>3, <3>1, <3>2, <3>3
    <2>3. \A x: Len(Append(outputQ, x)) = Len(outputQ) + 1
        BY <1>0
    <2> QED
        BY <1>0, <1>1, <2>1, <2>2, <2>3
<1>4. CASE RunLoop
    <2>1. runPc' \in {"pack", "ask"} /\ available' = Len(outputQ) /\ left' = Lesser(available', PerPacket) /\ (runPc' = "pack" => available' > 0)
          /\ packet' = <<>> /\ outputQ' = outputQ
        BY <1>4 DEF RunLoop, PacketInv
    <2>2. Len(packet') = 0
        BY <2>1
    <2>3. left' <= available' /\ (available' > 0 => left' > 0)
        BY <1>0, <2>1 DEF Lesser
    <2> QED
        BY <1>0, <2>1, <2>2, <2>3 DEF PacketInv
<1>5. CASE RunPack
    <2>1. /\ runPc = "pack" /\ outputQ # <<>> /\ outputQ' = Tail(outputQ) /\ available' = available
          /\ \/ runPc' = "sendLast"
             \/ /\ packet' = Append(packet, Head(outputQ)) /\ left' = left - 1
                /\ runPc' \in {"vector", "pack", "send"} /\ (runPc' = "pack" => left - 1 > 0)
        BY <1>5 DEF RunPack
    <2>2. CASE runPc' = "sendLast"
        BY <2>2 DEF PacketInv
    <2>3. CASE runPc' # "sendLast"
        <3>1. Len(outputQ') = Len(outputQ) - 1 /\ Len(packet') = Len(packet) + 1
            BY <1>0, <2>1, <2>3
        <3>2. available <= Len(outputQ) + Len(packet) /\ left <= available - Len(packet)
            BY <2>1 DEF PacketInv
        <3>3. available <= (Len(outputQ) - 1) + (Len(packet) + 1) /\ left - 1 <= available - (Len(packet) + 1)
            BY <1>0, <3>2
        <3> QED
            BY <2>1, <2>3, <3>1, <3>3 DEF PacketInv
    <2> QED
        BY <2>2, <2>3
<1>6. CASE RunVector
    <2>1. /\ runPc = "vector" /\ runPc' \in {"pack", "send"} /\ (runPc' = "pack" => left > 0)
          /\ UNCHANGED <<available, left, outputQ>> /\ packet' = [packet EXCEPT ![Len(packet)][2] = Head(vectorQ)]
        BY <1>6 DEF RunVector
    <2>2. Len(packet') = Len(packet)
        <3>1. packet' \in Seq(Result)
            BY SessionStep DEF ReturnInv, SessionInv, TypeOK, RunTypes
        <3>2. DOMAIN packet' = DOMAIN packet
            BY <2>1
        <3>3. \A q, r \in Seq(Result): DOMAIN q = DOMAIN r => Len(q) = Len(r)
            OBVIOUS
        <3> QED
            BY <1>0, <3>1, <3>2, <3>3
    <2> QED
        BY <2>1, <2>2 DEF PacketInv
<1>7. CASE RunSend
    <2>1. packet' = <<>> /\ outputQ' = outputQ /\ runPc \in {"send", "sendLast"}
        BY <1>7 DEF RunSend
    <2>2. Len(packet') = 0
        BY <2>1
    <2>3. CASE runPc' \in {"d_input", "bye", "ask"}
        BY <2>1, <2>3 DEF PacketInv
    <2>4. CASE runPc' \notin {"d_input", "bye", "ask"}
        <3>1. runPc' = "pack" /\ runPc = "send" /\ available' = available - Len(packet) /\ left' = Lesser(available', PerPacket) /\ available' > 0
            BY <1>7, <2>1, <2>4 DEF RunSend
        <3>2. available <= Len(outputQ) + Len(packet)
            BY <3>1 DEF PacketInv
        <3>3. available' <= Len(outputQ) /\ left' <= available' /\ left' > 0 /\ available' \in Int /\ left' \in Int
            BY <1>0, <3>1, <3>2 DEF Lesser
        <3> QED
            BY <1>0, <2>1, <2>2, <3>1, <3>3 DEF PacketInv
    <2> QED
        BY <2>3, <2>4
<1>8. CASE RunAsk \/ RunReceive
    <2>1. packet' = packet /\ runPc \in {"ask", "receive"}
        BY <1>8 DEF RunAsk, RunReceive
    <2>2. runPc' \in {"loop", "receive", "d_input"}
        <3>1. CASE RunAsk
            BY <3>1, Zenon DEF RunAsk
        <3>2. CASE RunReceive
            BY <3>2 DEF RunReceive
        <3> QED
            BY <1>8, <3>1, <3>2
    <2> QED
        BY <2>1, <2>2 DEF PacketInv
<1>9. CASE RunBye \/ Destroy
    <2>1. runPc' \in {"d_input", "d_master", "d_tag", "d_image", "d_join", "d_free", "gone"}
        BY <1>9 DEF RunBye, Destroy, DestroyInput, DestroyJoinMaster, DestroyMark, DestroyJoin, DestroyFree
    <2> QED
        BY <2>1 DEF PacketInv
<1> QED
    BY <1>2, <1>3, <1>4, <1>5, <1>6, <1>7, <1>8, <1>9 DEF Next, Run

\* Results and vectors.

LEMMA CountedTypes ==
    ASSUME ReturnInv
    PROVE  /\ outputQ \in Seq(Result) /\ vectorQ \in Seq(Label) /\ Len(vectorQ) \in Nat /\ GPUs \in Nat \ {0} /\ Working \subseteq Devices
           /\ Cardinality(Owed(outputQ)) \in Nat /\ IsFiniteSet(AtVector) /\ Cardinality(AtVector) \in Nat /\ DOMAIN outPc = Devices
<1>1. /\ outputQ \in Seq(Result) /\ vectorQ \in Seq(Label) /\ Len(vectorQ) \in Nat /\ GPUs \in Nat \ {0} /\ Working \subseteq Devices
      /\ DOMAIN outPc = Devices
    BY WorkingDevices DEF ReturnInv, SessionInv, TypeOK, QueueTypes, DeviceTypes
<1>2. IsFiniteSet(Working)
    BY <1>1, FS_Interval DEF Working
<1>3. AtVector \in SUBSET Working
    BY DEF AtVector
<1>4. IsFiniteSet(AtVector)
    BY <1>2, <1>3, FS_Subset
<1> QED
    BY <1>1, <1>4, OwedIsFinite, FS_CardinalityType

\* A step of run, or of a thread, that moves no result and no vector.
LEMMA VectorCountStays ==
    ASSUME VectorCount, InSession' => InSession, UNCHANGED <<request, outputQ, vectorQ>>,
           InSession' => (runPc' = "vector" <=> runPc = "vector"),
           \A h \in Working: outPc'[h] = "vector" <=> outPc[h] = "vector"
    PROVE  VectorCount'
<1>1. Owed(outputQ)' = Owed(outputQ) /\ AtVector' = AtVector
    BY DEF Owed, WithVectors, HasVector, mode, AtVector, Working, GPUs
<1>2. InSession' => One(runPc = "vector")' = One(runPc = "vector")
    BY DEF One
<1>3. Cardinality(Owed(outputQ))' = Cardinality(Owed(outputQ)) /\ Cardinality(AtVector)' = Cardinality(AtVector)
    BY <1>1
<1> QED
    BY <1>2, <1>3 DEF VectorCount

LEMMA VectorCountOfRun ==
    ASSUME ReturnInv, VectorCount, Run
    PROVE  VectorCount'
<1>0. /\ outputQ \in Seq(Result) /\ vectorQ \in Seq(Label) /\ Len(vectorQ) \in Nat
      /\ Cardinality(Owed(outputQ)) \in Nat /\ Cardinality(AtVector) \in Nat
    BY CountedTypes
<1>1. UNCHANGED <<request, output>>
    BY DEF Run, RunLoop, RunPack, RunVector, RunSend, RunAsk, RunReceive, RunBye,
           Destroy, DestroyInput, DestroyJoinMaster, DestroyMark, DestroyJoin, DestroyFree
<1>2. WithVectors' = WithVectors /\ AtVector' = AtVector
    BY <1>1 DEF WithVectors, HasVector, mode, AtVector, Working, GPUs, output
<1>3. CASE RunPack
    <2>1. /\ InSession /\ runPc = "pack" /\ outputQ # <<>> /\ outputQ' = Tail(outputQ) /\ vectorQ' = vectorQ /\ Head(outputQ) \in Result
        BY <1>0, <1>3, QueueStep DEF RunPack, InSession
    <2>2. runPc' = "vector" <=> Head(outputQ) \in WithVectors
        <3>1. Head(outputQ)[1] \in Label
            BY <2>1 DEF Result
        <3>2. Head(outputQ)[1] < 0 <=> Head(outputQ)[1] = End
            BY <3>1, EndIsNegative
        <3>3. runPc' = "vector" <=> ~(Head(outputQ)[1] < 0) /\ HasVector(Head(outputQ)[1])
            BY <1>3 DEF RunPack
        <3> QED
            BY <2>1, <3>2, <3>3 DEF WithVectors
    <2>3. Cardinality(Owed(outputQ)) = Cardinality(Owed(Tail(outputQ))) + One(Head(outputQ) \in WithVectors)
        BY <1>0, <2>1, OwedFewer
    <2>4. Owed(outputQ)' = Owed(Tail(outputQ))
        BY <1>2, <2>1 DEF Owed
    <2>5. One(runPc = "vector") = 0 /\ One(runPc = "vector")' = One(Head(outputQ) \in WithVectors)
        BY <2>1, <2>2 DEF One
    <2>6. Cardinality(Owed(outputQ)) + 0 = Len(vectorQ) + Cardinality(AtVector)
        BY <2>1, <2>5 DEF VectorCount
    <2>7. Cardinality(Owed(Tail(outputQ))) \in Nat /\ One(Head(outputQ) \in WithVectors) \in Nat
        BY <1>0, <2>1, QueueStep, OwedIsFinite DEF One
    <2>8. Cardinality(Owed(Tail(outputQ))) + One(Head(outputQ) \in WithVectors) = Len(vectorQ) + Cardinality(AtVector)
        BY <1>0, <2>3, <2>6, <2>7
    <2>9. Cardinality(Owed(outputQ))' = Cardinality(Owed(Tail(outputQ))) /\ Cardinality(AtVector)' = Cardinality(AtVector)
          /\ Len(vectorQ)' = Len(vectorQ)
        BY <1>2, <2>1, <2>4
    <2> QED
        BY <2>5, <2>8, <2>9 DEF VectorCount
<1>4. CASE RunVector
    <2>1. /\ InSession /\ runPc = "vector" /\ runPc' # "vector" /\ vectorQ # <<>> /\ vectorQ' = Tail(vectorQ) /\ outputQ' = outputQ
        BY <1>4 DEF RunVector, InSession
    <2>2. Cardinality(Owed(outputQ)) + 1 = Len(vectorQ) + Cardinality(AtVector)
        BY <2>1 DEF VectorCount, One
    <2>3. Len(vectorQ') = Len(vectorQ) - 1
        BY <1>0, <2>1
    <2>4. Owed(outputQ)' = Owed(outputQ) /\ One(runPc = "vector")' = 0
        BY <1>2, <2>1 DEF Owed, One
    <2>5. Cardinality(Owed(outputQ))' = Cardinality(Owed(outputQ)) /\ Cardinality(AtVector)' = Cardinality(AtVector)
        BY <1>2, <2>4
    <2>6. Cardinality(Owed(outputQ)) + 0 = (Len(vectorQ) - 1) + Cardinality(AtVector)
        BY <1>0, <2>2
    <2> QED
        BY <2>3, <2>4, <2>5, <2>6 DEF VectorCount
<1>5. CASE RunLoop \/ RunSend \/ RunAsk \/ RunReceive \/ RunBye
    <2>1. InSession /\ runPc # "vector" /\ UNCHANGED <<outputQ, vectorQ>>
        BY <1>5 DEF RunLoop, RunSend, RunAsk, RunReceive, RunBye, InSession
    <2>2. runPc' # "vector"
        <3>1. CASE RunAsk
            BY <3>1, Zenon DEF RunAsk
        <3> QED
            BY <1>5, <3>1 DEF RunLoop, RunSend, RunReceive, RunBye
    <2> QED
        BY <1>1, <2>1, <2>2, VectorCountStays DEF output
<1>6. CASE Destroy
    <2>1. ~InSession'
        BY <1>6 DEF Destroy, DestroyInput, DestroyJoinMaster, DestroyMark, DestroyJoin, DestroyFree, InSession
    <2> QED
        BY <2>1 DEF VectorCount
<1> QED
    BY <1>3, <1>4, <1>5, <1>6 DEF Run

LEMMA SlotRead ==
    ASSUME ReturnInv, NEW g \in Devices, outPc[g] = "tag"
    PROVE  outMem[g][outBuf[g]][outputCount[g] + 1] \in Label
<1>1. /\ outBuf[g] \in Buffers /\ outputCount[g] \in 0..BatchSize /\ outputCount[g] < BatchSize
      /\ outMem \in [Devices -> [Buffers -> [Slots -> Label]]]
    BY DEF ReturnInv, SessionInv, TypeOK, PoolTypes, DeviceTypes, OutputInv
<1>2. outputCount[g] + 1 \in Slots
    BY <1>1, EngineAssumption DEF Slots
<1>3. outMem[g][outBuf[g]] \in [Slots -> Label]
    BY <1>1
<1> QED
    BY <1>2, <1>3

LEMMA VectorCountOfOutput ==
    ASSUME ReturnInv, VectorCount, NEW g \in Working, OutputCopy(g)
    PROVE  VectorCount'
<1>0. /\ outputQ \in Seq(Result) /\ vectorQ \in Seq(Label) /\ Len(vectorQ) \in Nat /\ g \in Devices /\ Working \subseteq Devices
      /\ Cardinality(Owed(outputQ)) \in Nat /\ IsFiniteSet(AtVector) /\ Cardinality(AtVector) \in Nat /\ DOMAIN outPc = Devices
      /\ UNCHANGED <<request, client, run, inputQ, master>>
    BY CountedTypes, ThreadsFrame
<1>1. WithVectors' = WithVectors /\ Working' = Working /\ InSession' = InSession /\ One(runPc = "vector")' = One(runPc = "vector")
    BY <1>0 DEF WithVectors, HasVector, mode, Working, GPUs, InSession, run
<1>2. \A h \in Working: h # g => outPc'[h] = outPc[h]
    <2>1. \E l: outPc' = Goto(outPc, g, l)
        BY DEF OutputCopy, OutputTake, OutputTag, OutputVector, OutputGive, OutputMark
    <2> QED
        BY <1>0, <2>1 DEF Goto
<1>3. ASSUME UNCHANGED <<outputQ, vectorQ>>, outPc[g] # "vector", outPc'[g] # "vector"
      PROVE  VectorCount'
    BY <1>0, <1>2, <1>3, VectorCountStays DEF InSession, run
<1>4. CASE OutputTake(g) \/ OutputGive(g)
    BY <1>0, <1>3, <1>4 DEF OutputTake, OutputGive, Goto
<1>5. CASE OutputTag(g)
    <2>1. TagQ[g] # <<>> /\ outPc[g] = "tag" /\ vectorQ' = vectorQ /\ Head(TagQ[g]) \in Label
          /\ (Head(TagQ[g]) < 0 <=> Head(TagQ[g]) = End)
        <3>1. TagQ[g] # <<>> /\ TagQ[g] \in Seq(Label)
            BY <1>0, <1>5, QueueStates DEF OutputTag, QueueState, ReturnInv
        <3>2. Head(TagQ[g]) \in Label
            BY <3>1, QueueStep
        <3> QED
            BY <1>5, <3>1, <3>2, EndIsNegative DEF OutputTag
    <2>2. CASE Head(TagQ[g]) = End
        BY <1>0, <1>3, <1>5, <2>1, <2>2 DEF OutputTag, Goto
    <2>3. CASE Head(TagQ[g]) # End
        <3>1. PICK r \in Result: outputQ' = Append(outputQ, r) /\ r[1] = Head(TagQ[g])
            <4> DEFINE r == <<Head(TagQ[g]), outMem[g][outBuf[g]][outputCount[g] + 1]>>
            <4>1. outputQ' = Append(outputQ, r)
                BY <1>5, <2>1, <2>3 DEF OutputTag
            <4>2. r \in Result
                BY <1>0, <1>5, <2>1, SlotRead DEF Result
            <4> QED
                BY <4>1, <4>2
        <3>2. outPc'[g] = "vector" <=> r \in WithVectors
            <4>1. outPc'[g] = "vector" <=> HasVector(Head(TagQ[g]))
                BY <1>0, <1>5, <2>1, <2>3 DEF OutputTag, Goto
            <4> QED
                BY <2>3, <3>1, <4>1 DEF WithVectors
        <3>3. Owed(outputQ)' = Owed(Append(outputQ, r))
            BY <1>1, <3>1 DEF Owed
        <3>4. Cardinality(Owed(outputQ))' = Cardinality(Owed(outputQ)) + One(r \in WithVectors)
            BY <1>0, <3>3, OwedMore
        <3>5. Cardinality(AtVector)' = Cardinality(AtVector) + One(r \in WithVectors)
            <4>1. g \notin AtVector
                BY <2>1 DEF AtVector
            <4>2. CASE r \in WithVectors
                <5>1. AtVector' = AtVector \cup {g}
                    BY <1>1, <1>2, <3>2, <4>2 DEF AtVector
                <5> QED
                    BY <1>0, <4>1, <4>2, <5>1, FS_AddElement DEF One
            <4>3. CASE r \notin WithVectors
                <5>1. AtVector' = AtVector
                    BY <1>1, <1>2, <3>2, <2>1, <4>3 DEF AtVector
                <5> QED
                    BY <1>0, <4>3, <5>1 DEF One
            <4> QED
                BY <4>2, <4>3
        <3>6. One(runPc = "vector") \in Nat /\ One(r \in WithVectors) \in Nat
            BY DEF One
        <3>7. InSession => Cardinality(Owed(outputQ)) + One(r \in WithVectors) + One(runPc = "vector")
                               = Len(vectorQ) + (Cardinality(AtVector) + One(r \in WithVectors))
            BY <1>0, <3>6 DEF VectorCount
        <3> QED
            BY <1>1, <2>1, <3>4, <3>5, <3>7 DEF VectorCount
    <2> QED
        BY <2>2, <2>3
<1>6. CASE OutputVector(g)
    <2>1. outPc[g] = "vector" /\ outPc'[g] # "vector" /\ outputQ' = outputQ
          /\ vectorQ' = Append(vectorQ, outMem[g][outBuf[g]][outputCount[g]])
        BY <1>0, <1>6 DEF OutputVector, Goto
    <2>2. Len(vectorQ') = Len(vectorQ) + 1
        BY <1>0, <2>1
    <2>3. Cardinality(AtVector)' = Cardinality(AtVector) - 1
        <3>1. g \in AtVector /\ AtVector' = AtVector \ {g}
            BY <1>1, <1>2, <2>1 DEF AtVector
        <3> QED
            BY <1>0, <3>1, FS_RemoveElement
    <2>4. Cardinality(Owed(outputQ))' = Cardinality(Owed(outputQ))
        BY <1>1, <2>1 DEF Owed
    <2>5. InSession => Cardinality(Owed(outputQ)) + One(runPc = "vector") = (Len(vectorQ) + 1) + (Cardinality(AtVector) - 1)
        BY <1>0 DEF VectorCount
    <2> QED
        BY <1>1, <2>2, <2>3, <2>4, <2>5 DEF VectorCount
<1>7. CASE OutputMark(g)
    <2>1. outputQ' = Append(outputQ, <<End, End>>) /\ vectorQ' = vectorQ /\ outPc[g] # "vector" /\ outPc'[g] # "vector"
        BY <1>0, <1>7 DEF OutputMark, Goto
    <2>2. <<End, End>> \in Result /\ <<End, End>> \notin WithVectors
        BY DEF Result, Label, WithVectors
    <2>3. Owed(outputQ)' = Owed(Append(outputQ, <<End, End>>)) /\ AtVector' = AtVector
        BY <1>1, <1>2, <2>1 DEF Owed, AtVector
    <2>4. Cardinality(Owed(outputQ))' = Cardinality(Owed(outputQ)) + 0
        BY <1>0, <2>2, <2>3, OwedMore DEF One
    <2>5. Cardinality(AtVector)' = Cardinality(AtVector) /\ Cardinality(Owed(outputQ))' = Cardinality(Owed(outputQ))
        BY <1>0, <2>3, <2>4
    <2> QED
        BY <1>1, <2>1, <2>5 DEF VectorCount
<1> QED
    BY <1>4, <1>5, <1>6, <1>7 DEF OutputCopy

\* Every step keeps results and vectors in balance.
LEMMA VectorCountStep == ASSUME ReturnInv, VectorCount, [Next]_vars PROVE VectorCount'
<1>1. CASE Master \/ ClientCloses \/ UNCHANGED vars
    <2>1. UNCHANGED <<request, run, outputQ, vectorQ, output>>
        BY <1>1 DEF Master, MasterTake, MasterTag, MasterImage, MasterScan, MasterMark, ClientCloses, vars
    <2> QED
        BY <2>1, VectorCountStays DEF InSession, run, output
<1>2. ASSUME NEW g \in Working, InputCopy(g) \/ Process(g) PROVE VectorCount'
    <2>1. UNCHANGED <<request, run>>
        BY <1>2, ThreadsFrame
    <2>2. UNCHANGED <<outputQ, vectorQ, output>>
        BY <1>2 DEF InputCopy, InputTake, InputFill, InputGive, InputMark, Process, ProcessTakeInput, ProcessTakeOutput,
                    ProcessGraph, ProcessGive
    <2> QED
        BY <2>1, <2>2, VectorCountStays DEF InSession, run, output
<1> QED
    BY <1>1, <1>2, VectorCountOfRun, VectorCountOfOutput DEF Next

\* At the start nothing is owed to anybody.
LEMMA ProgressInit == ASSUME Init PROVE ProgressInv
<1>0. request \in Request /\ Working \subseteq Devices /\ \A g \in Working: g \in Nat /\ ~(g < 1)
    BY EngineAssumption DEF Init, Request, Working, GPUs, Devices
<1>1. EndsReach
    <2>1. \A g \in Working: EndReaches(g)
        BY <1>0, NothingThere DEF Init, PerDevice, EndReaches, ImagesMarked, TagsMarked
    <2>2. \A g \in Working: FewEnds(g)
        BY <1>0, NothingThere DEF Init, PerDevice, FewEnds, Tags, One, TagsMarked, ImagesMarked, Closed
    <2> QED
        BY <2>1, <2>2 DEF EndsReach, Init
<1>2. PacketInv
    BY DEF Init, PacketInv
<1>3. VectorCount
    <2>1. Owed(outputQ) = {} /\ AtVector = {} /\ One(runPc = "vector") = 0 /\ Len(vectorQ) = 0
        BY <1>0, NothingThere DEF Init, PerDevice, Owed, AtVector, One
    <2> QED
        BY <2>1, FS_EmptySet DEF VectorCount
<1> QED
    BY <1>1, <1>2, <1>3 DEF ProgressInv

\* Whatever the number of devices, and however the requests come, workMasterInputQ,
\* the threads of the devices, run and the destructor never wait for each other in
\* a circle: when the threads have nothing to take, run and the destructor have
\* what they wait for, no image that master has to serve is left in inputQ, every
\* full batch has been answered, and once the end has
\* been sent round every thread has ended and every tag has been used.  A batch has
\* to fit in TagQ, whose tags stay there until the batch has been through.
THEOREM NobodyWaitsForEver == ASSUME BatchFits PROVE Spec => []NothingIsStuck
<1>1. Init => ReturnInv /\ ProgressInv
    BY SessionInit, BuffersInit, EndsInit, CountInit, ArrivingInit, ProgressInit DEF ReturnInv
<1>2. ReturnInv /\ ProgressInv /\ [Next]_vars => (ReturnInv /\ ProgressInv)'
    BY SessionStep, BuffersStep, EndsStep, CountStep, ArrivingStep, ReachStep, PacketStep, VectorCountStep DEF ReturnInv, ProgressInv
<1>3. ReturnInv /\ ProgressInv => NothingIsStuck
    BY NobodyIsStuck
<1> QED
    BY <1>1, <1>2, <1>3, PTL DEF Spec
================================================================================
