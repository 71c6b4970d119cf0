# TLA+ models of MIVisionX

MIVisionX is AMD's implementation of OpenVX (the AGO engine, "AMD Graph Optimizer") together
with extension libraries, command-line tools and a cloud inference server.  This directory holds
TLA+ specifications of the parts of it that keep state: what they do, translated from the C++
source; TLC configurations that explore small instances exhaustively; and proofs, checked by
TLAPS, that the most important properties hold for every size.

Contents

1. [The system](#1-the-system): components, state, interactions, what is hard
2. [Plan](#2-plan): modules in order, done and to come
3. [The modules](#3-the-modules): how state and actions correspond to the code
4. [The runs](#4-the-runs): questions, bounds, results
5. [Fairness](#5-fairness)
6. [The proofs](#6-the-proofs): theorems, assumptions, inductive invariants
7. [Where the code and its documents disagree](#7-where-the-code-and-its-documents-disagree)
8. [What is not modelled](#8-what-is-not-modelled)
9. [How to run it](#9-how-to-run-it)

Paths below are relative to `src/`; `ago/` and `api/` stand for `amd_openvx/openvx/ago/` and
`amd_openvx/openvx/api/`.

## 1. The system

An application creates a *context*, in it data objects and *graphs*, and in a graph *nodes* that
run kernels on data objects.  `vxVerifyGraph` checks a graph, computes the order of its nodes,
lets the optimiser ("DRAMA": divide, remove, analyse, merge, alloc) rewrite it and initialises the
kernels.  `vxProcessGraph` executes it in the caller's thread; `vxScheduleGraph` and `vxWaitGraph`
hand it to a thread that every graph owns.  Objects are reference counted.

### The engine's core

| component | state | operations | interacts with | hard to get right | correct when |
|---|---|---|---|---|---|
| platform emulation `ago/ago_platform.cpp` | semaphores, critical sections, threads, emulated by condition variables and mutexes off Windows | create, wait, release, close; enter, leave | every lock and wait of the engine | lost and spurious wakeups; a lock that is dropped at once | it keeps the contract of the Windows calls it is named after |
| graph scheduler `ago/ago_interface.cpp:32-221, 2797-2875`, `api/vx_api.cpp:2898-3045` | `threadScheduleCount`, `threadExecuteCount`, `threadThreadWaitState`, `threadThreadTerminationState`, two semaphores, `graph->cs`, `context->cs`, `external_count` | schedule, wait, process, verify, create node, release; the graph's thread | the platform; the lifecycle below (verification and execution are single steps here) | several application threads and the graph's thread; counters written without a lock; shutdown against execution | executions exclude each other; no schedule is lost; wait and release return; nothing runs after shutdown |
| graph and node lifecycle `ago/ago_interface.cpp`, `ago/ago_util.cpp`, `ago/ago_drama_divide.cpp`, `api/vx_api.cpp` | `nodeList` with its `count` and `trash`, `node->initialized`, `verified`, `reverify`, `isReadyToExecute`, `state`, `status` | create, set parameter, remove, release nodes; verify, optimise, initialise, execute, release the graph; end of the context | kernels' callbacks; DRAMA; scheduler | edits at any time, every callback can fail half way, one loop's leftovers decide the next | what is executed has been verified, divided and initialised since the last edit; every initialised node is deinitialised |
| graph hierarchy `ago/ago_drama.cpp:110-515` | `hierarchical_level` of nodes and data, usage counts, order of `nodeList` | count usage, level, sort | verification, DRAMA, execution (which follows the list) | a fixpoint over a list in the application's order, an in-place exchange sort of a linked list | accepted graphs have one writer per data object and no cycle; writers run before readers |
| delay objects and auto-aging `ago/ago_interface.cpp:2124-2152, 2514-2545`, `ago/ago_util.cpp:764-796` | `children`, `u.delay.age`, `siblingIndex`; per node `paramList` and `paramListForAgeDelay`; per graph `autoAgeDelayList` | age, register, set and get a parameter, re-bind at verification and execution | lifecycle, execution | the ring turns between a parameter being set and being read | a parameter reads the slot it was set to; one aging per execution |
| DRAMA optimiser `ago/ago_drama_{divide,remove,merge,analyze}.cpp` | the node list, the trash, `initialized` flags | divide vision nodes into AMD nodes; remove copies and dead nodes; fuse | lifecycle, hierarchy | rewriting under aliasing and virtual data | the graph computes the same data |
| DRAMA allocation, supernodes `ago/ago_drama_alloc.cpp`, `ago/ago_util_opencl.cpp:550-700, 1580-1640`, order of execution `ago/ago_interface.cpp:2217-2482` | targets of nodes, groups (`attr_affinity`), supernodes, lives of data, shared buffers; per level the nodes on the device and on the host | choose targets, merge groups, share buffers, execute level by level | hierarchy (levels), coherence | a group spans levels and must not wait for itself through a node outside it; buffers are shared by lives that are compared in levels | what a fused kernel reads has been computed; a shared buffer never overwrites a value that is still to be read |
| data objects `ago/ago_util.cpp` | names, lists, reference counts, garbage lists | create from descriptions, retain, release, collect | everything | counts of parents and children, an object in two lists | an object lives as long as something refers to it |
| buffers and coherence `api/vx_api.cpp:2083-2516`, `ago/ago_interface.cpp:2154-2510`, `ago/ago_util_opencl.cpp`, `ago/ago_util_hip.cpp` | `buffer_sync_flags`, the lists of mapped patches, the command queue | map, unmap, access, commit, swap a handle, copy to the device, execute CPU and GPU nodes | lifecycle (allocates device buffers), hierarchy (levels say what to wait for) | two copies, flags changed in a dozen places, kernels still queued when the next node or the application reads | a reader sees the last write; what returns has finished |
| OpenVX API layer `api/vx_api.cpp`, `api/vx_nodes.cpp`, `api/vxu.cpp` | none of its own beyond the objects | ~300 entry points | all of the above | - | arguments are checked, locks taken |
| kernel validation `ago/ago_kernel_api.cpp`, CPU primitives `ago/ago_haf_cpu*.cpp`, GPU code generation `ago/ago_haf_gpu*.cpp`, `amd_openvx/openvx/hipvx/` | none | one function per kernel | execution | numerics | pixels are right |
| GDF reader and writer `ago/ago_interface.cpp` | none | parse, format | - | - | round trip |

### Around the engine

| component | state | operations | hard to get right |
|---|---|---|---|
| cloud inference server `apps/cloud_inference/server_app/source/inference.cpp` | nine kinds of queues, two pools of buffers per device, tags that travel apart from their images | a session: receive images, deal, copy in, run the graph, copy out, send results, destroy | 2 + 3 x devices threads, bounded and unbounded queues, partial batches, end markers that must reach every thread, a client that may go at any time |
| its connections, compiler and shadow protocols, device locks (`server.cpp`, `compiler.cpp`, `shadow.cpp`, `arguments.cpp`) | users per device, configured models | accept, compile a model, load files, lock devices | counting under a lock |
| inference client and other applications `apps/` | user interface | - | - |
| media extension `amd_openvx_extensions/amd_media/{decoder,encoder}.cpp` | per stream a command, an acknowledge and a frame queue, a bit of `eof`, frame counters; two pools of buffers | a decoder thread per stream and an encoder thread; `ProcessFrame` of both nodes in the graph's thread; destructors that abort, drain and join | threads run ahead of what is shown by the size of the pool; end of a stream against frames already decoded; threads that end early; flags of all streams in one word; a pool released before its last reader |
| LoomSL `amd_loomsl/`, `amd_nn/`, `amd_rpp/`, `amd_opencv/`, `amd_migraphx/`, `amd_winml/`, `amd_custom/` (all under `amd_openvx_extensions/`) | user kernels' local data | initialise, process, uninitialise | none between calls: they are instances of the callbacks that `GraphLifecycle` calls |
| runvx, runcl, loom_shell, mv_deploy `utilities/` | scripts | parse, call the public API | sequential |
| model compiler, toolkit, samples, tests, docs, build | - | off line | - |

`PROJECT.json` lists the same components with their source files, what is modelled of each, and
the hazards of the modelled code, each at its line with the properties that cover it.

## 2. Plan

Most important behaviour first.  Steps 1 to 7 are done, the others are left.

| step | modules | abstract specification | theorems |
|---|---|---|---|
| 1 done | `AgoPlatform`, `GraphScheduler` (extends it) | - | types, exclusion, last holder, quiescent shutdown, no lost schedule, no execution of an unseen edit |
| 2 done | `GraphLifecycle` (instantiates `GraphStates`) | `GraphStates`: the state attribute | types, only prepared graphs run, completion, callbacks in turn, nothing left up, refinement |
| 3 done | `DelayRing` | closed form of the ring (`RingIsRotated`) | ring, types, slots are read, one aging per execution |
| 4 done | `GraphHierarchy` | topological order, cycles as sets | all safety properties, any graph |
| 4b done | `InferenceEngine` | - | all safety properties: types, bounded input, nothing leaked, one device answers all, results bear their tags, no circular wait |
| 5 done | `BufferCoherence`: `buffer_sync_flags` between map, commit, execution, device | one memory whose newest value is always somewhere (`NothingLost`) | types, no stale read, nothing lost, executions finish |
| 6 done | `MediaDecoder`, `MediaEncoder`, composed by `MediaPipeline` | - | both nodes: types, buffers and entries, frames in step, the end, nothing dropped or held back, nobody waits in a circle; graphs: a graph is a decoder, transcoding keeps the order, no older picture |
| 7 done | `GraphAllocation` (extends `GraphHierarchy`): targets, groups, supernodes, shared buffers, order of execution | a value per virtual object (`LinksHold`), nothing read before it is computed (`GroupsAreReady`) | the hierarchy holds throughout, groups can run, shared buffers hold on the device; every step advances, and something is always next |
| 8 | the rewriting rules of `ago_drama_remove.cpp` as pure operators over bounded graphs | equality of the data computed | - |
| 9 | `References`: counts of `ago_util.cpp`, garbage lists, ends of contexts | set of reachable objects | nothing reachable is released |
| 10 | the rest of the server: users per device (`arguments.cpp`), compiler and shadow protocols | - | - |
| 11 | compositions: a second release after a failing shutdown, with `GraphScheduler` and `GraphLifecycle` together | - | `NoLostSchedule` on Windows |

## 3. The modules

`MC*.tla` only give names to the sets and symmetry groups of the configurations; `*_proofs.tla`
hold the theorems.  An operator whose comment begins "Seeded fault" is the operator after it with
one plausible mistake; no action uses it.  `PROJECT.json` pairs each checked property with such a fault,
under which TLC finds the property violated.

### AgoPlatform - the primitives

`Win32` selects between two implementations of the same calls.  On Windows a semaphore keeps
permits up to `SemLimit` and a critical section has an owner.  Elsewhere (`ago_platform.cpp`):

* `WaitForSingleObject` on a semaphore is `cv.wait(lk)` *without a predicate* (line 255): it always
  sleeps, a spurious wakeup ends it, and a `ReleaseSemaphore` that finds nobody asleep is lost;
* `EnterCriticalSection` takes a local `lock_guard` (line 190), so the section is free again when
  the call returns.

A wait is two steps of its caller: `WaitForSingleObject(a, s)`, then any step of `a` once
`a \notin sleeping[s]`.  A call on a closed handle does nothing.

### GraphScheduler - one graph, its thread, its clients

`pc[a]` names the next step of thread `a`.  A step contains at most one access to a variable that
other threads can write without a lock; `threadScheduleCount++` and `external_count--` are split in
read and write (`seen`).

| labels | function |
|---|---|
| `t_*` | `agoGraphThreadFunction` (ago_interface.cpp:32-52): wait, check termination, execute through `agoProcessGraph`, store the status, count, inform, and on termination announce the end and release once more |
| `v_*` | `vxVerifyGraph` (vx_api.cpp:2934-2995): both locks, the verification as one step, and the assignment of `verified` *after* the locks are gone |
| `p_*` | `agoProcessGraph` (2797-2820): validity before the lock, lock, verify if needed, `agoExecuteGraph` |
| `s_*` | `agoScheduleGraph` (2822-2843) |
| `w_*` | `agoWaitGraph` (2845-2875): the loop that posts `hSemToThread` itself and waits on `hSemFromThread` |
| `e_*` | `vxCreateGenericNode` and `agoCreateNode`: the node is linked first, `verified` withdrawn last |
| `r_*` | `agoReleaseGraph` (162-221): the reference count under `context->cs`, termination, the polling loop, closing of handles, join, shutdown of nodes |

`wellFormed` is what a verification would find; an edit may change it either way.  The verification,
the execution and the shutdown of the nodes are single steps here: what happens inside them is
`GraphLifecycle`.  `Starts` says which clients use the graph, which calls each of them may make and how many they make in all; the
others have no reference and take no step.  `result` is kept only for a caller inside the library; the status that goes to the application is
forgotten.  History variables: `covered` (a verification saw the last edit; an edit
between the end of a verification and its assignment of `verified` is excused), `fresh` and
`lastDone` (an execution that began after the last schedule has completed), `refused` (schedules
that reported failure).  `Threaded` is bit 0 of `thread_config`.

### GraphLifecycle and GraphStates - the life of a graph

One application thread; every call of it, every callback, every failure.  The variable `application`
never changes; it says which application this is, one of the set `Applications`: how many nodes of
each kind it creates, which callbacks of its kernels may fail (`hooks`), and whether it creates nodes after a
verification (`late`).  Most properties are about all of them; `HooksAlternate` is about
`Disciplined` ones, `NothingLeftUp` about those whose `deinitialize_f` succeeds.  `list`, `parts` and
`trash` are `nodeList` before division, the AMD nodes a vision node was divided into, and
`nodeList.trash`; `count` is `nodeList.count`, kept apart from the list as the code does.

* `CreateNode` (`agoCreateNode`) withdraws `verified` and remembers it in `reverify` (`MarkEdited`); so do the
  calls of `agoCreateNode` the optimiser makes itself (`Divide`).  `SetParameter` and `RemoveNode` are refused
  while the graph is verified; `ReleaseNode` drops the application's handle.
* `VerifyGraph` (`agoVerifyGraph`), `OptimizeRefused/Fails/Graph` (`agoOptimizeGraph` with the
  division), then the loop of `agoInitializeGraph`: per node `DeinitializeNode`,
  `InitializeNode` or `InitializeFails`, guarded by the two flags as in ago_interface.cpp:1808-1876.
* `Execute`, `RunNode`, `NodeFails`, `Abandon`, `Complete` (`agoExecuteGraph`).
* `ReleaseGraph`, `ShutdownNode`, `ShutdownFails`, `ShutdownDone` (`agoReleaseGraph`), and
  `ReleaseContext` and `Collect` for what the end of the context still finds.

`GraphStates` is what the state attribute promises: an execution begins only on a *sound* graph.
The refinement mapping is `sound <- verified /\ isReadyToExecute`, the pair of flags `agoProcessGraph` tests.
History variables `up`, `misuse`, `ran` record what was done to the callbacks.

### DelayRing - delay slots

`children[i]` is the data object now in slot `i`, named by its `siblingIndex`; `age` is
`u.delay.age`.  `paramList` is what a node reads; `paramListForAgeDelay` the object whose index is
the slot the parameter follows.  `VerifyGraph` copies one to the other (1872), `BeginExecution` and
`GetParameter` run `agoUpdateDelaySlots` (2124-2152), `Complete` ages every registered delay (2514-2528).
`InitialSlot` is `agoGetSiblingTraceToDelayForInit`.  `VerifyOnce` restricts the application: see
section 7.

### GraphHierarchy - verdict, levels, order

`role[n][d]` is how node `n` uses data `d`; the graph is any of the set `Graphs`.
`CheckUsage` is the single-writer check, `HeadNode/NoHeadNode/HeadNodesDone` the first pass over the
list, `VisitNode/NextPass/PassesDone` the passes that level a node when all its inputs have a level,
`SortPair/SortAgain/SortDone` the exchange sort.  A step is one iteration of a loop.  The linked
list is a function from positions to nodes; its end cases (zero, one, two nodes; head and tail) are
positions 1 and `Count`.

### GraphAllocation - targets, groups, buffers, execution

It extends `GraphHierarchy` and goes on where the list is sorted, through `agoOptimizeDramaAlloc` and one execution.  `Cases` gives,
for every graph, the builds, the kernels its nodes may have (`cpu`, `gpu`: what the kernel supports, and the dimensions of the node's
images) and what the application may ask for (`attr_affinity`).

* `SetDefaultTargets` (ago_drama_alloc.cpp:565-727): every node's target, asked for or default, else the other one; a group for every
  kernel that can be part of another (`r2r`: pixel by pixel, `m2r`: gathers pixels).  A group asked for is kept.
* `MergeNode` (777-842), one node an iteration: the group of the node joins the group of the first earlier node that `Conflict` allows.
* `MakeSuperNodes` (484-537 and `agoGpuOclSuperNodeUpdate`, ago_util_opencl.cpp:1580-1640): with OpenCL each group becomes one
  kernel; data used inside one group only get no buffer; with HIP nothing is fused.
* `ShareBuffer`, one data object an iteration (`agoGpuAllocBuffers`, 75-298): the virtual data of nodes on the device, in the order the
  code collects them, join the cheapest buffer whose data have other lives (`Apart` is `isMergePossible`), or get one.
* `LaunchSingle`, `LaunchSuperNode`, `PassLaunched`, `RunWithAccess`, `RunOnHost`: one node each of the loop of `agoExecuteGraph`
  (ago_interface.cpp:2217-2482), level by level, first the nodes on the device.  A supernode runs with its first node.

A buffer's content is the set `resident` of data whose value is in it; a write makes the others leave.  `host` and `dev` are
the copies that `buffer_sync_flags` declares complete; that the flags are right is `BufferCoherence`.  The device's queue keeps the order of
launches.  History variables: `early` (data a kernel read before their writer ran), `misread` (data read after their buffer was
written for another).  The optimiser flags that switch merging off are not set.

### InferenceEngine - a session of the inference server

```
 client <--> run --> inputQ --> workMasterInputQ --> TagQ[g], ImageQ[g]      (every device g)
             ^                                          |         |
             |                                          |   workDeviceInputCopy
             |                                          |         | InBusy      (InIdle back)
             |                                          |   workDeviceProcess
             |                                          |         | OutBusy     (OutIdle back)
             +---- outputQ, vectorQ <---- workDeviceOutputCopy ---+
```

One program counter per thread; a queue operation is one step, because `MessageQueue` locks itself
and every queue has one consumer.  `run` (inference.cpp:582-1164; the model is its loop, from 875) packs results into packets, sends, asks the
client for as many images as `inputQ` has room for, receives, and ends at the first negative tag.  `MasterTake` is the whole test of line
1185: the thread ends at a negative tag, at a null image and at an image of size 0, which is what run makes of the name of an empty
file (1055-1074); `Empty` are the images of the session that are such names.  `Destroy*` is the destructor (124-223).  The client (`client_app/inference_receiver.cpp`) answers a
request with any number of images up to what it has, or -1 at the end; `ClientCloses` breaks the
connection at any time.  Data: an image is its tag; `inMem[g][b][k]` is the image whose pixels slot
`k` of buffer `b` holds, so a stale or undecoded slot is the image it was last filled with.
`vectorQ` is `outputQTopk` or `outputQBB`, whichever the session uses.
The bounded `TagQ` polls in `enqueue`: the producer's step waits for room.

### BufferCoherence - host and device copies

The data are abstracted to *freshness*: `host[d]` and `dev[d]` are the parts of `d` for which that copy is as
good as the newest value.  Whoever writes a part removes it from the other copy; a transfer copies the set.
A reader that finds a part missing has read stale data (`misread`).  The flags are split in three:
`dirty[d]` is who wrote last (`commit`, `node`, `node_cl`), `synched` has `AGO_BUFFER_SYNC_FLAG_DIRTY_SYNCHED`,
`byWrite` has `DIRTY_BY_WRITE`.

* `Map`, `Fill`, `Unmap` are `vxMapImagePatch` / `vxAccessImagePatch`, the application's writes, and
  `vxUnmapImagePatch` / `vxCommitImagePatch` (vx_api.cpp:2083-2516).  The builds differ: HIP also transfers before a
  write-only map (`Synchs`).  `SwapHandle` is `vxSwapImageHandle`, `CopyToDevice` the directive, `Verify` the
  allocation of device buffers, `VerifyRegion` what a verification does for regions of interest.
* `Begin`, `Launch`, `Compute`, `WaitAbandoned`, `End` are `agoExecuteGraph` (ago_interface.cpp:2154-2510), a node a
  step: a GPU node has its inputs copied and is queued; a CPU node waits for kernels of lower levels
  (`launchedLevel`, `access`), copies its inputs back and runs.  A node may fail, and its callback may abandon.
  `KernelCompletes` is the device, at any time, in the order of the queue.
* `lapsed` collects the objects to which something happened that the flags cannot express (section 7 lists the places),
  and every property is about the others.  Each place was confirmed: without its entry in `lapsed`, TLC finds `NoStaleRead`
  or `NothingLost` violated.

### MediaDecoder, MediaEncoder, MediaPipeline - decode, encode, transcode

`decoding[i]` and `encoding` are the program counters of the threads (`DecodeLoop`, decoder.cpp:709-914, `EncodeLoop`,
encoder.cpp:457-601); `shows` and `takes` those of the nodes' callbacks, `ProcessFrame` and the destructor.  A queue
operation is a step, and so is each access to `eof` and `threadTerminated`, which are read without a
lock.  `eof` is a `std::vector<bool>` (decoder.cpp:128): `eof[i] = true` of a thread is two steps, `ReadEof` and `MarkEof`, the second of which
writes back the whole word of `WordBits` flags, and undoes what another thread has set in between (`forgot`).  A frame is its number in the stream.

* `MediaDecoder`: `PopAck` takes one acknowledgement per stream, `OrderFrame` sends one command per stream,
  `TellBuffer` gives the image the next buffer of the pool (GPU mode), `CopyFrame` copies a frame from
  `queueFrames` (host mode).  The threads have `PoolSize - 1` commands from the start, so they run ahead.  FFmpeg is
  external: a file has `length` packets, a codec holds back `delay` of them; every call of it may fail.  `TellFails` is a
  `vxSetImageAttribute` that fails after the frame was counted.  After the last `Join` the pool is `Released` (319-350).
* `MediaEncoder`: `TakeEntry`, `ConvertPicture` or `UpdateBuffer`, `Submit`; the thread takes entries in turn,
  `Entry(encodeFrameCount)`.  The codec is a queue; it yields its first packet when it holds more than `codecDelay`.
* `MediaPipeline` extends both and adds the application and the graph: an execution runs the decoder's callback, then, only if
  it succeeded, the encoder's; a release runs both destructors.  The nodes share the image: `pixels`, or
  `buffer` and the pool `mem`.  The decoder, an earlier node, is destroyed first: the encoder's thread reads its buffers through `Memory`, where
  those of a released pool show `NoPicture`; reading one yields that or fails.  Without a decoder the application draws the picture.  `GraphKinds` are the graphs
  considered.

## 4. The runs

Eight runs must find no error, four must find one.  State counts are distinct states.

| run | instance | states | properties |
|---|---|---|---|
| `sched_win32` | Windows, limit 2; 2 clients with 2 calls in all, 1 with 3 (of all five), or 2 with 3 calls of which one schedules and both wait | 631 000 | `GraphExclusive`, `LastHolderDestroys`, `NoLostSchedule`, `ExecutesOnlyVerified`, `WaitReturns` |
| `sched_posix` | emulation, 1 client, 3 calls | 324 000 | `ShutdownQuiescent`, `ReleaseReturns` |
| `life` | three applications: 1 user node and 2 vision nodes, all callbacks may fail, creation at any time; 2 and 1, `initialize_f` may fail, nodes before the first verification; 2 and 1, callbacks succeed | 1 296 000 | `SoundIsPrepared`, `SuccessRanEverything`, `HooksAlternate`, `NothingLeftUp`, `FollowsGraphStates` |
| `delay_once` | 3 slots, 2 parameters, 7 agings, verified once | 1 332 | `RingIsRotated`, `ReadsItsSlot`, `AgesOncePerExecution` |
| `allocation` | every graph of 3 nodes over 2 data objects (1 virtual), 5 roles; 212 graphs that link 4 nodes by 3 virtual objects, with choices of 7 kernels, OpenCL and HIP | 788 000 | `WritersRunFirst`, `VerdictIsRight`, `GroupsAreReady`, `UniformLinksHold`, `VerdictIsReached` |
| `inference` | 1 and 2 devices, batch of 2, 2 buffers, up to 5 images, none or one of them an empty file | 472 000 | `TagMatchesResult`, `OneDeviceAnswersAll`, `NothingLeaked`, `InputWithinLimit`, `NothingIsStuck`, `SessionEnds` |
| `media` | decoders of 1 and 2 streams, encoders, both, in host and GPU mode; pool of 2, files of 1 and 2 packets or looping, codecs that hold back 0, 1 or 2 pictures, 4 executions, every fault | 558 000 | `BufferIsStable`, `ShowsInStep`, `NothingDropped`, `EndIsFinal`, `EntryIsFree`, `FileInOrder`, `DelayedAreWritten`, `TranscodedInOrder`, `NeverOlder`, `CallsReturn`, `DestructorsReturn` |
| `coherence` | 5 graphs over 3 objects of 2 parts, 1 of them accessed by the application, OpenCL and HIP, 2 kernels queued | 457 000 | `NoStaleRead`, `NothingLost`, `ReturnsFinished` |
| `sched_v_lastexec` | Windows, 1 client, schedule and wait | violation | `WaitSeesLastExecution` |
| `sched_v_exclusive` | emulation, 1 client, 3 calls (of all five) | violation | `GraphExclusive` |
| `life_v_release` | 1 user node, 1 vision node | violation | `ValidGraphVerifies` |
| `alloc_v_shared` | the graphs of 4 linked nodes, fused kernels and others, OpenCL | violation | `LinksHold` |

What each shows and why its bounds are enough:

* **sched_win32.** Two clients are the least with two edits, two releases or an edit and an
  execution at once; with the graph's thread that makes three actors.  Two calls (besides the two
  releases) let both be inside a call while the thread executes.  `NoLostSchedule`: schedules
  counted, minus those about to be posted or refused, are at most the executions counted plus the permits
  held by the semaphore or the thread.  This includes losing an update of `threadScheduleCount`, which only lowers it.
  The limit 2 makes the semaphore full within the calls; in the code it is 1000.  One client alone gets a third call: the
  edit, the schedule and the wait (or a verification in between) that `ExecutesOnlyVerified` and `WaitReturns` need.
  Two clients that wait, one of whom scheduled, are the least with one permit of `hSemFromThread` for two sleepers; three calls in all.
  `WaitReturns` excuses a schedule that reported failure, which the code has already counted, and two clients in `vxWaitGraph` at
  once (`WaitTogether`): without the second excuse TLC finds one of them asleep for ever (section 7).
* **sched_posix.** Exclusion does not hold here (`sched_v_exclusive`), so what is asked is what
  survives without locks: the thread has left its loop before nodes are shut down, and the release
  returns although releases of the semaphore are lost, because the loop posts until the thread
  answers.  One client; two would race in `external_count` without a lock.
* **life.** In the first application two vision nodes: the second division, by creating nodes, loses the re-verification
  mark the first left; and a failure may come from any callback, the kernel, the callback that abandons, or the
  optimiser.  In the others two user nodes give the loops something to stop between.  The third is the application the
  documents describe; `Disciplined` and the hypothesis of `NothingLeftUp` are needed: section 7 names what breaks without them.
* **delay_once.** Seven agings turn a ring of three more than twice, before and after the verification.
* **allocation.** Three nodes over two objects contain a chain, a fork, a join, cycles of one, two
  and three nodes, two writers, an unwritten virtual object, an unused object; these graphs run on the host.
  `VerdictIsRight` compares with definitions over sets of nodes that do not mention levels.
  Four nodes are the least with two groups that could wait for each other through nodes outside them, and three objects
  the least with two lives apart and one around both.  Their kernels: CPU, `r2r` and `m2r`, so that groups are merged or
  not; `r2r` of two dimensions; groups asked for, alone and with `r2r`; and, for the buffers, nodes that all use the device,
  of two dimensions.  `GroupsAreReady` is about groups the optimiser made (`AutoGroups`), `UniformLinksHold` about graphs
  without supernodes in which every node uses the device: section 7 names what breaks otherwise.
* **inference.** Five images in batches of two give two full batches and a partial one, so both
  buffers of both pools are used again and one holds stale slots.  The second request has a
  vector per image (k labels, or boxes for images 0 and 2), with three images or none; the third deals three images to two
  devices.  Images 3 of the first and 1 of the third are also tried as empty files: one that ends the second batch half full, and one that
  ends master while images are still coming.  `PacketMax` 2 and `InputDepth` 2 make packets and requests partial.  `TagDepth` 6 holds the tags a device
  may hold while its two buffers are busy; with less, master polls more and nothing new happens
  as long as a batch fits (section 7).  `NothingIsStuck` is the safety half of progress: the session may well be at rest, when `run`
  waits for the client, but then nobody waits for what only a waiting thread could give.
* **media.** Two streams are the least with a stream that has been asked and one that has not; with a pool of two a thread is
  one frame ahead, and four executions use each buffer twice and see the end of every file.  The encoder's
  pool has three entries, so that it is full, empty and partly full, and wraps around.  Codec delays 0, 1 and 2: a codec that
  answers at once, one that makes the thread take the first entry twice, and one that makes it lag so far that `EntryIsFree` no
  longer holds (it has the hypothesis `codecDelay <= 1`, the other properties of the encoder say what is left for any delay).
  `WordBits` is 64, so both streams' flags share a word.  Checked once more with a pool of three: all but `NothingDropped` hold (in 4 minutes, 1 108 000 states); with a pool
  of four `EndIsFinal` fails too (section 7).
* **coherence.** The graphs are: CPU alone, GPU alone, GPU then CPU, CPU then GPU then CPU, and GPU then a node that
  uses device buffers itself then CPU; together they pass an object from every kind of writer to every kind of reader, within a
  graph and between graphs.  Two parts are enough for a map that leaves out a part.  The application
  accesses `b`, which every graph reads or writes, so each step of it interleaves with each kind of node.

The configurations say `CHECK_DEADLOCK FALSE` except `delay_once`: applications may stop calling,
a released graph takes no calls, computations and sessions end.  That no thread hangs *before* its end is what the
liveness properties are for.

## 5. Fairness

* `GraphScheduler!Fairness`: weak fairness of the graph's thread and of each client *inside* a
  call - operating system threads keep running.  Beginning a call or releasing is
  the application's choice; spurious wakeups are owed to nobody.  `ReleaseReturns` is therefore
  about a client that has called `vxReleaseGraph`, `WaitReturns` about one inside `vxWaitGraph`.
* `GraphAllocation!AllocFairSpec`: the single thread that computes keeps computing.
* `InferenceEngine!Fairness`: each thread of the engine keeps running, and a connected client
  answers (its answer is part of a step of `run`; the code blocks in `recv` without a timeout).
  Nothing is owed to `ClientCloses`, and a client may answer 0 images for ever, so `SessionEnds`
  is about a client that has said it is done, or has gone.
* `MediaPipeline!Fairness`: each thread of the media nodes runs, and so does the application's thread while it is inside
  `vxProcessGraph` or `vxReleaseGraph` (`InCall`): in a callback, and from one node to the next.  Executing again and beginning a release are
  the application's choice.  `CallsReturn` and `DestructorsReturn` are about the whole call, and excuse what the code allows (section 7):
  `DecoderMayHang` and `EncoderMayHang`.

Weak fairness is enough everywhere: each queue has one consumer, and an enabled dequeue stays enabled.
`BufferCoherence` has no liveness property: it owes nothing to the device or the application.

## 6. The proofs

`tlapm` checks every theorem to the last leaf.  None assumes more than the named
assumptions of the modules, except where a hypothesis is shown.

**GraphScheduler_proofs** - any finite set of threads, any call bound, any semaphore limit.

* `TypeCorrect`: `Spec => []TypeOK`.
* `ShutdownIsQuiescent`: on *both* platforms.  Inductive: `QuiescentInv`, which adds to the property
  that termination state 2 is only announced by a thread that has left its loop, that a graph without
  a thread is at its exit, and that a client in the polling loop has asked for termination (a state reset to 0 would
  undo the announcement).
* `GraphIsExclusive` (hypothesis `Win32`).  `OwnerInv`: who is in the protected code owns
  `graph->cs`, who is in `InContext` owns `context->cs`; a nested verification inherits the lock of its caller.
* `LastHolderReleases` (hypothesis `Win32`).  `HolderInv`: `external_count` equals the number of clients
  that have not yet dropped their reference - exact because it is only changed under
  `context->cs`, so it rests on `OwnerInv`.
* `VerifiedBeforeExecuted` (hypothesis `Win32`).  `CoverInv`: a graph marked verified has an edit that no verification saw only
  while the editing client stands before `graph->verified = false`; it holds `graph->cs` there, so who executes excludes it.
* `SchedulesAreKept` (hypotheses `Win32`, `Threaded`).  `NoLostSchedule` is not inductive, for `threadScheduleCount++` is a read and a
  write without a lock: `CountInv` states it for the counter and for every value that a client has read and will write back
  (`Counts`), with a bound on all of them by the calls made.  `PermitInv`: only the thread takes permits of `hSemToThread`, so a
  release of it gives the thread one to hold or to take (`ReleaseGives`).

**GraphLifecycle_proofs** - any finite sets of user and vision nodes.

* `TypeCorrect`; `OnlyPreparedGraphsRun`: `Spec => []SoundIsPrepared`.  `LifeInv` is `TypeOK`, the property
  and `Stages`: what each stage of a verification has achieved (checked parameters, then no undivided node, then every
  node initialised or still to be visited) and that the two flags are never both set meanwhile.
* `ImplementsGraphStates`: `Spec => Abstract!Spec` under the refinement mapping, from `LifeInv`.
* `CompletedMeansAllRan`, from `CompleteInv`: what has run and what is still to be visited are together the nodes of the graph, and a
  completed graph is sound, so that its nodes cannot be removed.  `AllNodesAreEnded`, from `UpInv`: an initialised node is in
  `nodeList` or in its trash.
* `CallbacksAlternate`.  That a node is up when `deinitialize_f` is called, and not when `initialize_f` is, rests on `FirstTimeVerify`, computed
  from two flags that editing, dividing, failing and verifying overwrite.  `FirstInv`: once nodes are initialised the graph is
  verified or `Blocked` - the optimiser failed, or `agoRemoveNode` counted a removed node twice (finding 3 of section 7) -
  and a blocked graph never again reaches `agoInitializeGraph`.

**DelayRing_proofs** - any number of slots and any set of parameters.

* `RingTurns`, `TypeCorrect` from `RingInv`; they rest on lemmas about `%` (uniqueness of the remainder, shift by the
  divisor, inverse of a rotation) and `RotatedOnce`: a rotation is one more step of age.
* `SlotsAreRead` (hypothesis `VerifyOnce`).  `SlotInv`: `paramListForAgeDelay` is the slot, and
  `paramList` too until the verification copies it.
* `OneAgingPerExecution`: `vxRegisterAutoAging` never enters a delay twice.

**GraphHierarchy_proofs** - every graph: any number of nodes, any data, any use of it.

* `LevelsAreRight`, `VerdictIsCorrect`, from `LevelInv`: writers are levelled below their data
  (`WritersBelow`) and below their readers (`Placed`); data whose writers are all levelled has a
  level (`Fed`); what the first pass and the later ones have already visited (`Heads`, `Rest`).  When
  a pass changes nothing, the nodes without a level each depend on one of them: a cycle
  (`WaitingIsCyclic`).  Conversely levels increase along dependencies, so a cycle would have no node of
  least level (`LeastElement`).
* `SortKeepsOrder`, `ReadersRunLater`, from `SortInv`: the list stays a permutation, equal levels
  stay in creation order, and after a pass without an exchange neighbours are in order.
* `HierarchyHolds`, `GroupsCanRun`, `LinksHoldOnDevice` are about `GraphAllocation`, for every graph, build and choice of kernels; `AllocInv`
  has one part for each.  `Settled` is what the sorted hierarchy leaves for good.  `GroupInv`: merging keeps
  every group fed from below - what a member depends on is in the group or on a level below every member of it
  (`FedFromBelow`) - and keeps gathering kernels from reading inside it: none depends on another member
  (`GathersFromOutside`);
  the nodes not yet merged are alone (`AloneFrom`).  `BufferInv`: the lives of two objects in one buffer do not overlap - `Apart` alone
  would allow a life inside another, and what excludes it is that on the device alone objects come in the order in which their lives start
  (`StartsBefore`); the counterexample `alloc_v_shared` is a supernode, which breaks that order.  `RunInv`: what is computed and
  still to be read is in its buffer.  The hypotheses `AutoGroups` and `Uniform` are part of the properties.
* `EveryStepAdvances` (hypothesis: finitely many virtual data): the measure that ends every loop.  It is lexicographic: the phase
  (`Phase`); then what the phase has to use up (`Left`: nodes without a level, inversions of the list, data to place, nodes to run), a
  finite set that only shrinks within a phase; then whether the pass has changed anything; then the position in the pass.  So the passes
  that assign levels and those that sort come to an end whatever the graph, cyclic ones included.  `SomethingIsAlwaysNext`: with data left to place one is next,
  and with nodes left to run one is due and has a target that the execution knows (`KindInv`).  Together they are what
  `VerdictIsReached` says, but for the fairness that makes the next step be taken.

**InferenceEngine_proofs** - any number of devices, buffers, slots, images and any client.

* `InputIsBounded`: `Spec => []InputWithinLimit`, and `TypeCorrect`, from `SessionInv`: `TypeOK`, what `run` may
  still receive fits into `inputQ` (`RunInv`), and each device thread holds a buffer where it
  needs one, with room in it (`InputInv`, `ProcessInv`, `OutputInv`).  The types are more than types here: they
  say that no thread reads the head of an empty queue or a slot past the end of a batch.
* `NothingIsLeaked`: `Spec => []NothingLeaked` (every buffer is back; no image is left but those from the first empty file on), from `ReturnInv`, three invariants beside `SessionInv`.  `BufferInv`: every buffer of a device is
  in one of its queues or in the hands of the one thread whose step needs it.  `EndInv`: at each stage the end comes last, after
  everything that was dealt out.  `CountInv`: the tags waiting in `TagQ` are as many as the images under way - the rest of the batch the
  output thread reads, the batches in flight, the one being filled, `ImageQ`, the image between the two queues - except after the
  last, partial batch.  The property needs the count: the last batch is padded, so only the number of tags tells where it ends.
* `OneDeviceCompletes`: `Spec => []OneDeviceAnswersAll`: what the client has received is exactly `Served`, the images before the first
  empty file.  `OneDeviceInv`: with one device the images in the queues, from what has
  been delivered to what master has dealt out, are consecutive numbers, and the end marker of `outputQ` comes after the last.
* `ResultsBearTheirTags` (hypothesis `Divides`: `DecThreads` divides `BatchSize`, or there are no decoder threads):
  `Spec => []TagMatchesResult`.  `OrderInv`: the tags in `TagQ` are those of the images under way, in the same order, slot by slot of every
  buffer (`Read`, `Done`, `Processed`, `Loaded`, `Batched`, `Announced`, `Latest`).  `VectorInv`: what is in the queue of vectors belongs, in
  order, to the tags of `outputQ` that have one.  `MatchInv`: what is packed or delivered matches.  Without `Divides` the code decodes
  only part of a full batch (section 7), so the hypothesis is needed, not convenient.
* `NobodyWaitsForEver` (hypothesis `BatchFits`: `BatchSize <= TagDepth`): `Spec => []NothingIsStuck`.  To the invariants above,
  `ProgressInv` adds what a thread that waits relies on.  `EndReaches`: an end is in the queue of its thread until that thread has taken it,
  at every stage, so a thread that finds its queue empty has ended or will be sent one; `FewEnds`: `TagQ` holds at most the tags of the
  images under way and the two ends.  `PacketInv`: what `run` has counted in `outputQ` is there until it is packed.  `VectorCount`: there is a
  vector for every result that needs one, except those whose device is about to put it there.  Then, with all threads at rest, every buffer
  is idle or in the one batch being filled (`KeepsBuffers`), so nothing is missing but images; if master waited for room in `TagQ`, its tags would
  all belong to that one batch, which fits.  Without the hypothesis the code stops (section 7).

**BufferCoherence_proofs** - any data, any parts, any graphs that a hierarchy may give, both builds.

* `TypeCorrect`; `ReadersSeeTheNewest`: `Spec => []NoStaleRead`; `NewestIsKept`: `Spec => []NothingLost`;
  `ExecutionsFinish`: `Spec => []ReturnsFinished`; all from one inductive invariant, `IInv`.  None of the three is inductive: a read is
  fresh only if the flags tell the truth about both copies, and the flags tell the truth about a written
  object only if its kernel will run before anyone reads.  `IInv` says so, object by object, for those that have not lapsed:
  * the flags: `HostComplete` and `DeviceComplete` (for which flags which copy is complete), `HostOnly` (without a device buffer
    nothing is on the device), `WholeMaps` (what is mapped to be written while the device is newer is the whole object);
  * the queue: `QueueIsOwn` (a kernel belongs to the running graph, or its data have lapsed), `ReadsAreFresh`, `WritersFirst` and
    `WrittenOnDevice` (what a queued kernel reads is on the device or is written by an earlier one);
  * the execution: `Apart` (nothing is mapped meanwhile) and `WaitIsDue` (while `launchedLevel` and
    `access` say there is nothing to wait for, there is nothing in the queue).
* The only assumption about graphs is `GraphsAssumption`: what `GraphHierarchy` is proved to establish (one writer, writers on lower levels,
  nodes in the order of their levels).

**MediaDecoder_proofs** - any number of streams, any pool, any files, codecs and failing calls; the decoder alone (`DecoderSpec`).
`DecoderInGraph` below carries it to every graph.

* `TypeCorrect`: no thread and no callback reads an empty queue.  `BufferStays`: `DecoderSpec => []BufferIsStable`; `FramesInStep`:
  `[]ShowsInStep`; with the hypothesis `PoolSize = 2`, `NothingAfterTheEnd`: `EndIsFinal`, and `EveryFrameIsShown`: `[]NothingDropped`.
* All from `DecoderInv`, which relates for every stream what is under way to the place of the call that runs: commands and the frame being
  decoded are at most `PoolSize - 1` ahead of what was shown (`Ahead`), an acknowledgement stands for a decoded frame or for the end (`Acked`,
  `Ends`), the frames in the pool or in the queue are those between shown and decoded (`GpuFrames`, `HostFrames`), and an abandoned call
  leaves behind a stream that has said all it will say, so that the next call waits (`Final`; with a larger pool it needs `eof`, which may be
  lost).  `BufferIsStable` alone is not inductive: that a thread is not too far
  ahead follows from the commands it was given, and those from the calls that succeeded.
* `DecoderNeverHangs`: a call or a destructor that waits and a thread that can do nothing are never met together
  (`DecoderGoesOn`).  Its own invariant (`Due`) bounds the same counts from below: every buffer of the pool but one is ordered, being
  decoded, acknowledged or taken (`AllUnderWay`, an equation), the acknowledgement of the end is still there for whoever asks
  next (`EndIsTold`), every acknowledged frame has its place in `queueFrames` (`FramesCome`), the destructor's
  abort is still to be seen (`AbortComes`) and only a thread that said so is joined.  The exceptions are the behaviour of the code: a thread that
  ended without a word or could not store a frame, so that a command has no answer (`Silent`), a call made after one that was
  abandoned, and, with a flag of `eof` lost, a destructor after an abandoned call (`abandoned /\ forgot`).

**MediaPipeline_proofs** - any pools, any number of streams, any codecs and failing calls.

* `EncoderAlone`: the encoder with an input image that shows anything at any time; the same lemmas serve for graphs
  (`EntriesAreFree`, `FileKeepsOrder`, `NothingIsHeldBack`).  They are stated for images that show members of any set
  `P`, in buffers of any set `B`, for in a graph what is shown is not one of the constants `Pictures`.
  `EncoderInv` counts: acknowledgements, commands, the entry being filled and the one being encoded never exceed `EntryCount - 1` (`Room`);
  every picture accepted is in a command, in the thread's hands, in the codec or written (`Accounts`); every entry still shows the
  last picture converted into it, and what the codec took in the thread's k-th turn was accepted for that entry (`Handed`).  Neither
  `EntryIsFree` nor `FileInOrder` is inductive without these counts.  All need that no picture was lost half way (`~missed`);
  `EntryIsFree` needs `codecDelay <= 1`; `FileInOrder` and `TranscodedInOrder` are about any codec, and name by `Turn(k)` the pictures
  the k-th in the file may be: for `codecDelay = 0` it is the k-th alone.
* `DecoderInGraph`: `Spec /\ mediaCount > 0 => DecoderSpec`.  Each step of a graph is a step of the decoder or leaves its
  variables alone, except for the drawing of an application without a decoder.  `BufferStaysInGraph`, `FramesInStepInGraph`,
  `EndIsFinalInGraph` and `NothingDroppedInGraph` (both with `PoolSize = 2`) follow.
* `TranscodingKeepsOrder`: from both nodes' theorems and what couples them: where the nodes are for each stage of the graph
  (`Coupled`), that the encoder has accepted all frames shown but the one under way (`Passed`), each in its turn (`InTurn`).
* `EncoderNeverHangs`: the same for the encoder on any images (`EncoderGoesOn`), from `Promised`: every entry but one is free, submitted or in
  somebody's hands.  Excepted are a thread that left without a word, and a call after one that was refused or
  whose conversion failed, which loses the entry.  `NobodyHangs` has both in every graph.
* `NeverAnOlderPicture` (assumption `PipelineAssumption`: `NoPicture` is no picture): until the decoder has released the pool, what is in a GPU buffer only gets newer (`Recent`, `Grows`), so what an entry's buffer shows when it
  is read is not older than when it was submitted (`Fresh`).

**Only model-checked**: the liveness properties `WaitReturns`, `ReleaseReturns`, `VerdictIsReached`, `SessionEnds`, `CallsReturn` and
`DestructorsReturn`, which are outside what the prover handles (fairness, ENABLED).  Of `VerdictIsReached` the
part without fairness is proved (`EveryStepAdvances`, `SomethingIsAlwaysNext`), of `SessionEnds` that nobody is stuck (`NobodyWaitsForEver`),
of `CallsReturn` and `DestructorsReturn` that neither node waits in a circle (`NobodyHangs`).  Every safety property of the passing runs has a theorem.  No
module declares a RECURSIVE operator; nothing here needs induction over data.

## 7. Where the code and its documents disagree

### Shown by a run

1. **`vxWaitGraph` may return before the last scheduled execution** (`sched_v_lastexec`).
   `agoWaitGraph` compares counters (ago_interface.cpp:2864) but its own loop releases the thread's
   semaphore (2862), so the thread executes more often than scheduled, and counts it.
   `include/VX/vx_api.h:1132` promises the last scheduled execution.
2. **Critical sections off Windows exclude nobody** (`sched_v_exclusive`): a `lock_guard` local to
   `EnterCriticalSection` (ago_platform.cpp:190).  The graph's thread and `vxProcessGraph` execute
   the same graph at once.
3. **A valid graph may be rejected as cyclic** (`life_v_release`): releasing the handle of a divided vision node
   decrements `nodeList.count` a second time (ago_util.cpp:365); the check for cycles compares with it (ago_drama.cpp:474).

4. **Virtual data overwrite each other in a shared buffer** (`alloc_v_shared`).  `isMergePossible` (ago_drama_alloc.cpp:193) refuses a
   buffer when the new object's life begins or ends inside the life of one already there, but not when it contains it.  Data of
   supernodes are placed first, whatever their lives, so the containing life may come second.  Nodes 1: X, 2: X to Y, 3 (fused): X, Y
   to Z, 4 reads X and Z: `Y` is placed, then `X` into the same buffer, node 2 overwrites X, and node 3 reads Y for X.  It needs no supernode: a node on the
   device between nodes on the CPU has the same effect, with both builds, since the life counts all users and the order only those on
   the device.  `include/VX/vx_api.h:316` says virtual objects link nodes.

### Met while modelling, without a run of their own

* On Windows `vxReleaseGraph` can deadlock: it polls for the end of the thread while it holds `graph->cs`
  (ago_interface.cpp:171-185), which the thread may be waiting for.  Off Windows the section is free at once, and `ReleaseReturns` holds
  (`sched_posix`).
* `vxVerifyGraph` assigns `verified` after it has left `graph->cs` (vx_api.cpp:2990) and overwrites an edit in
  between: the graph is then executed unverified.  `ExecutesOnlyVerified` excuses this edit; without the excuse it fails with two clients.
* Off Windows `vxWaitGraph` may sleep for ever: a notification sent before the sleep is lost (ago_platform.cpp:255).
* On Windows two clients in `vxWaitGraph` at once share one permit: the thread releases `hSemFromThread` once for an execution
  (ago_interface.cpp:44).  After one schedule both find it unfinished (2864) and go to sleep; one wakes, the other sleeps for ever, though nothing was
  refused.  Without `<>WaitTogether`, `WaitReturns` fails in `sched_win32`.
* The thread announces its end before its last `ReleaseSemaphore` (ago_interface.cpp:47-48); the
  handle may be closed by then.  `ShutdownQuiescent` allows exactly this step.
* Without a graph thread `vxWaitGraph` returns `graph->status`, which only the thread assigns (2842, 2872).
* `deinitialize_f` is called for a node that was never initialised when it was added after a
  verification (1814-1817): without `~application.late` in `Disciplined`, `HooksAlternate` fails.
* A failing kernel leaves the state `RUNNING` (2440); `include/VX/vx_types.h:664` says of
  `RUNNING` that the graph is scheduled or being executed.
* A `deinitialize_f` that fails while the graph is released leaves the graph in the context's list
  (192); the end of the context then polls for a thread that has ended (ago_util.cpp:3389).
* An abandoned execution does not age its delays (2477); vx_api.cpp:4763 says it does.
* Verifying again after the ring has turned makes parameters follow another slot: line 1872 takes the updated
  parameters for the original ones, which line 2130 needs.  With `VerifyOnce = FALSE`,
  `ReadsItsSlot` fails.  The documents do not say that a graph may be verified only once.
* Server, two devices: `run` stops at the *first* end marker (inference.cpp:894, 923, 953) and every
  device sends one (1561), so results of the other device can be lost before `INFCOM_CMD_DONE`.  Without the hypothesis
  `GPUs = 1`, `OneDeviceAnswersAll` fails.
* Server, two devices with k labels or boxes: the tag and its vector are queued separately (1509 and
  1517, 1525 and 1527) and can be paired wrongly; hence `Separate` in `TagMatchesResult`.
* Server: `workMasterInputQ` takes an image of size 0 for the end (inference.cpp:1185).  In file name mode the size is that of the file on the
  server (1055-1074), so one empty file ends master for the rest of the session: the images behind it stay in `inputQ`, their memory is never
  freed, and `INFCOM_CMD_DONE` is sent without their results.  `OneDeviceAnswersAll`, `NothingLeaked` and `NothingIsStuck` are
  therefore about `Served`.
* Server: when `numDecThreads` does not divide `batchSize` the last images of a full batch are not decoded
  (1260).  With `BatchSize = 3`, `DecThreads = 2`, `TagMatchesResult` fails.
* Server: a batch larger than `MAX_DEVICE_QUEUE_DEPTH` (inference.h:107) never fills, since its tags do not fit
  into `TagQ`.  With `BatchSize > TagDepth`, `NothingIsStuck` and `SessionEnds` fail.  The defaults are 64 and 1024.

* A group the application asks for is not examined: the test of its levels (ago_util_opencl.cpp:1589, 1614) compares variables that keep their
  first values, so a group may be launched before its inputs are computed.  Without `AutoGroups`, `GroupsAreReady` fails.
* Two gathering kernels can end in one supernode: ago_drama_alloc.cpp:793 compares the two nodes, not their groups; the comment
  above says "only one M2R allowed per supernode at this time".

Buffers (each is an entry in `lapsed`):

* On OpenCL a write-only map, and on both builds a write-only `vxAccess...` or `vxCopy...`, does not fetch newer device data; the
  commit then declares the whole host copy new, and the part that was not written is lost (vx_api.cpp:2083-2516).
* What a CPU node writes before the object has a device buffer is not marked (ago_interface.cpp:2242-2251), so the buffer that a
  later verification creates keeps its zeros.
* A verification of a graph with a region of interest copies host to device after any write-only map, for `DIRTY_BY_WRITE` is never
  cleared; the directives `VX_DIRECTIVE_AMD_COPY_TO_OPENCL` and `_HIPMEM` copy unconditionally.  Both overwrite newer device data.
* An execution that fails, or is abandoned by a callback, returns with kernels in the queue (2345, 2023): nobody waits for them.
* `vxMapImagePatch` numbers the maps of a plane by the plane's `nextMapId` but keeps them in the parent's list
  (vx_api.cpp:2155, 2160), so maps of two planes may have the same number.  Planes are not modelled.

Media (each is a hypothesis of a property, or a fault that is excused; with the hypothesis removed TLC finds the
property violated):

* The only codec the encoder opens is H.264 with the preset "slow" (encoder.cpp:272-283), which holds back many pictures.  So the next two
  points are what the node does in practice, not a corner: the file begins with the first entry encoded again and again, pictures are skipped and repeated,
  the picture being converted may be the one being encoded, and at the end all delayed pictures but one are missing.  A
  property with the hypothesis `codecDelay <= 1` says nothing of it; `FileInOrder`, `TranscodedInOrder`, `NeverOlder` and
  `DelayedAreWritten` bound, for any delay, how far the file may stray.

* decoder.cpp:729 says "no more packets: need to still flush decoder till we get eof"; the codec is flushed, but what it yields is
  never received, so the last `delay` frames of a file are not shown.  `ShowsInStep` is about those that are.
* encoder.cpp:568 says "process the delayed frames", but the loop ends after the first packet: with a delay of two or more the others are
  missing from the file (`DelayedAreWritten` allows `codecDelay - 1`).
* A codec that answers `EAGAIN` (encoder.cpp:537) leaves its frame uncounted; the next command takes the same entry
  again, so the thread lags by the delay for good: with a delay of two it reads the entry being filled (`codecDelay <= 1` in `EntryIsFree`), and with
  any delay it writes pictures twice and others never (`Turn` in `FileInOrder` and `TranscodedInOrder`).  That the k-th picture of the file is the
  k-th of the source holds for `codecDelay = 0` only.
* In GPU mode the encoder's thread reads the image's buffer after `ProcessFrame` returned: the picture written may be a
  later one, and only `NeverOlder` holds.
* Nodes are destroyed in their order, so the decoder releases its pool (decoder.cpp:319-350) while the encoder's thread may still have
  commands, and the encoder's `mem[bufId]` holds no reference (encoder.cpp:391): it maps or copies from released memory (479, 509).  `NeverOlder` allows
  anything for the fewer than `EntryCount` pictures waiting then.
* Two stream threads that reach their ends together may lose a flag of `eof` (decoder.cpp:128, 911).  If a call has taken the stream's last
  acknowledgement before, which is what abandons it, the destructor asks the flag in vain (310) and waits for ever (`forgot` in `DecoderMayHang`).
* The decoder's threads end in places (750, 758) without setting `eof` and acknowledging, the encoder's in one (466): the next
  `ProcessFrame`, and the destructor, wait for ever (`Silent`, `EncoderSilent`).
* In GPU mode a frame that cannot be stored is not acknowledged (817-896, `continue`): with a pool of two the node waits for ever.
* After a call was abandoned the acknowledgement of the ended stream is gone: the next call waits for ever (`shows = "wait" /\ abandoned` in `DecoderMayHang`).
* A host conversion that fails leaves the frames of the later streams queued: from then on the streams are out of step.  An auxiliary buffer that is too small
  fails the call after the next frame was ordered (643-644), and so does a `vxSetImageAttribute` (649-652): the buffer in use is refilled (`~failed` in
  `BufferIsStable`).
* With a pool of more than two, frames decoded before the end marker are dropped when `eof` is set before they are shown (625): `NothingDropped` is about a pool of two,
  the default.  With a pool of four a call may also show a frame after an abandoned one, when the flag that ended the first was lost meanwhile:
  `EndIsFinal` is proved for a pool of two.
* The encoder ignores that `UpdateBufferGPU` failed (410), and a conversion that fails keeps its entry for ever (`~missed`; `EncoderMayHang`).

Hazards no property covers: `~AgoContext` releases a second time a graph whose release failed (above); `vxSetParameterByIndex` on a divided
node changes only the node in the trash (vx_api.cpp:3829); `u.delay.age` overflows after 2^31 agings (ago_interface.cpp:2539); a bidirectional argument
is not counted as a writer (ago_drama.cpp:152); a callback that abandons on the GPU path sets only the status (2023).

## 8. What is not modelled

* **Inside the modelled components.**  Scheduler: several graphs of one context, a release that is tried again.
  Lifecycle: node replication, node attributes, graph parameters, regeneration callbacks of user kernels,
  supernodes; of the optimiser only the division's effect on the list.  Hierarchy: the propagation between an image and its
  planes, pyramids, delays and regions of interest.  Delays: of pyramids and object arrays (traces
  of more than one level); the overflow of the 32-bit `age` after 2^31 agings (`MaxAge` stays below).
  Server: the handshake that loads a model, the builds without a scheduler and with HIP or RALI, which repeat the
  pipeline.  Coherence: bidirectional arguments, `enableUserBufferGPU`, commits of empty patches, device pointers
  of the application, shared virtual memory, the partial transfers of arrays, planes; the application does not write overlapping
  patches at once and does not map during an execution (it has no defined result then).  One queue stands for the graphs' queues: what one
  graph leaves in its queue for another concerns lapsed data only.  Media: what FFmpeg does inside a call, the auxiliary data,
  several graphs that share a file, and the formats.
  Allocation: what the fused kernels compute, aliased data (planes, regions), valid rectangles, kernels with other kinds of data
  than images, a second verification (which keeps the groups of the first as if asked for).
* **Planned**: rewriting, reference counts, the server's device locks (section 2).
* **Not worth a model**: kernel validation tables, CPU and GPU primitives and code generation (numerics without
  state), GDF and other parsers and formatters, wrappers of libraries (each is an instance of the callbacks of
  `GraphLifecycle`), LoomSL (one-way flags around OpenVX graphs), command-line tools, the model compiler, samples.

Abstractions shared by all modules: pixels and texts are values; allocation succeeds; logging, profiling
and performance counters are left out.

## 9. How to run it

```
tlc -workers 2 -config Sched_win32.cfg MCGraphScheduler     # likewise Sched_*.cfg
tlc -workers 2 -config Life.cfg MCGraphLifecycle            # likewise Life_v_release.cfg
tlc -workers 2 -config Delay_once.cfg MCDelayRing
tlc -workers 2 -config Allocation.cfg MCGraphAllocation     # likewise Alloc_v_shared.cfg
tlc -workers 2 -config Inference.cfg MCInferenceEngine
tlc -workers 2 -config Media.cfg MCMediaPipeline
tlc -workers 2 -config Coherence.cfg MCBufferCoherence
tlapm GraphScheduler_proofs.tla                             # likewise the other *_proofs.tla
```

The longest runs, `sched_win32` and `allocation`, take about three minutes.
