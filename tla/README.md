# Verification of the Model-Infer pipeline

TLA+ specifications of the parts of Model-Infer whose correctness depends on
threads, queues, call order and device memory; TLC checks them on small
instances, and TLAPS proves the main results for every value of the constants.

## The system

| component | state | operations | interacts with |
|---|---|---|---|
| `MsgQueue<T>` (`common/utils/std_buffer.h`) | `queue_`, `mutex_`, `condition_`, `length_` | `Push`, `Pop`, `WaitPop`, `Clear`, `Size`, `Empty` | every thread that shares it |
| `InfertMsg`, `Box` (`common/msg_struct/task_struct.hpp`) | frame number, picture, boxes | `operator=` | copied into and out of both queues |
| `InferenceEngine` (`architecture/inference.cpp`) | `running_`, `worker_ptr_`, `inputMsgQue_`, `bboxQueue_`, `input_msg_`, `output_img_device_` | `Init`, `RunStart`, `RunStop`, `RunRelease`, `LoadData`, a worker thread | main (calls), `PostProcessor` (`bboxQueue_`), CUDA |
| `PreProcessor` | `input_data_device_`, the engine's `output_img_device_` | `Init`, `Inference` (GPU and CPU path), `MemFree` | called by the engine's worker and by main; launches the warp kernel |
| `TrtInfer` | bindings, host buffer, stream, execution context | `Init`, `BuildModel`, `ParseModel`, `Inference`, `MemFree` | called by the engine's worker and by main |
| `DecodeProcessor` | shapes | `Inference`, `CpuDecode`, `Nms`, `ScaleBoxes`, `Visualization` | called by the engine's worker; pushes into `bboxQueue_`, then draws on the worker's copy of the picture and writes a file |
| `PostProcessor` (`architecture/postprocessor.cpp`) | `running_`, `worker_ptr_`, `output_msg_` | `RunStart`, `RunStop`, `RunRelease`, a worker thread | main (calls), the engine's `bboxQueue_` |
| `InferPipeline`, `InterfaceYolo` | `moduleMap_`, `infer_` | `Init`, `Start`, `LoadData`, `Stop`, `Release` | calls the engine first, the post-processor second |
| `AppConfig`, `ParseMsgs`, `GlogMsg` | the singleton with the YAML file's values and the home path; copies of them | `InitConfig`, `Init` | read by everybody; `ParseMsgs` is handed to every module |
| engine file `*.trt` | a file per home directory | written by `save_file`, read by `LoadFile` | shared by all processes with that home, over restarts |
| warp-affine kernel (`cuda/warpaffine.cu`) | the two image buffers | one thread per pixel of the network's input | launched by `PreProcessor` |
| GPU decoder (`cuda/gpu_decode.cu`) | `parray`: a counter and the boxes behind it | two kernels, one thread per row, one per slot | not called by the application |

### How the parts interact

The program's main thread makes interface calls. `InterfaceYolo` forwards them
to `InferPipeline`, which visits its modules in the order of `ModuleType`: the
`InferenceEngine` first, the `PostProcessor` second. Each of the two owns a
worker thread. `LoadData` pushes a message into the engine's `inputMsgQue_`;
the engine's worker pops it, warps the picture on the device, runs the network,
decodes the boxes and pushes them, as a new message, into `bboxQueue_`; the
post-processor's worker pops from there through a pointer to the engine that
`SetModulePipeline` gave it. `Stop` waits until a queue is empty, clears the
flag `running_`, joins the worker, and frees the memory the worker used, first
for the engine and then for the post-processor; `Release` does the same without
the waiting. Everything between two `LoadData` calls and a result therefore
happens under no lock but those inside the queues: what keeps the threads apart
is the order of the calls, the flags and the joins.

Before that, the program calls `InitConfig`, which reads the YAML file into the
singleton `AppConfig`, and `Init`. `InferPipeline::Init` starts the logger and
copies the settings into a `ParseMsgs`; `TrtInfer::Init` looks for the engine
file under the home directory. If it is there it is read, deserialized, and
buffers are allocated for its bindings; if not, an engine is built and saved,
and the process has none until it, or another process, calls `Init` again.

### What is hard, and what makes each part correct

| part | what is hard | what makes it correct |
|---|---|---|
| queue | notification after the unlock, trimming while locked, early returns, waiters that wake for nothing | acts as a drop-oldest FIFO at one instant per call; no wake-up lost; no call blocks another for ever |
| engine and buffers | buffers shared by all frames, memory freed by another thread, calls whose failure nobody looks at | the boxes of a number come from that frame; memory outlives its last use |
| pipeline | a frame popped while `Stop` looks at the empty queue; draining, joining and clearing two modules in the right order; a worker that gives up | no frame vanishes in silence; `Stop` drains; order is kept; calls return |
| pictures | a message refers to pixels that it may share with the caller's, the engine's and the next queue's messages, while one thread draws on them and another copies | a result shows its own frame, whole and without marks, unless the program itself wrote to the picture it had handed in |
| call order | handles of running threads, null and dangling pointers | only calls outside the documented life cycle, or a missing engine, end the process |
| NMS | two loops that share their marks, an unstable sort | no two returned boxes overlap too much; no box is dropped without a reason |
| preprocessing | two buffers for pictures of all sizes; index tests at every edge; one map there and another back | the finished input shows the last picture and nothing of an earlier one; no buffer is left without a cause that can be named; the maps are inverse |
| GPU decoder | threads share a counter that runs past its limit; marks are set in parallel, without asking whether the better box is marked | no gap and no slot written twice; the same boxes as on the CPU; the result does not depend on the race |
| start | looking for the file and building it are two steps; a process may be killed while it saves; settings are copied once and can go stale | a broken file has a cause; a good one is never damaged and is used; an engine belongs to the settings it is used with |

## The modules

| module | models | state and actions in terms of the code |
|---|---|---|
| `BoundedBuffer` | the data of a queue | `length_` is the constructor's `std::max`, `Pushed` the effect of `Push` |
| `DropOldestQueue` | what a queue promises its callers | one action per outcome of a call |
| `MsgQueue` | `MsgQueue<T>` | `queue_` and `mutex_` as in the code; `pc[t]` is the place of thread `t` in the call it is in; one action per acquisition, access, release, wait and notification |
| `InfertMsg` | `InfertMsg` | a message is its frame number and its boxes; `Assign` is `operator=`, which appends boxes |
| `Pictures` | the pixels behind `cv::Mat` in `Push`, `Pop`, `operator=`, `DecodeProcessor::Inference` and `Visualization`, and a program that may reuse its picture | `pixels` are named by the call that made them; `msg`, `input_msg_`, `output_msg_` and both queues refer to them; `pc[t]` and `line[t]` say how far thread `t` is in copying, drawing or writing a picture, line by line; `files` are the images `Visualization` saves |
| `InferenceEngine` | `InferenceEngine`, and what `PreProcessor`, `TrtInfer` and `DecodeProcessor::Inference` do in its worker | `wpc` is the worker's place in `Inference`; `memory` is what the device pointers point to, `image` the frame each buffer was made from; `Engine...` are the steps of the operations that main calls |
| `PostProcessor` | `PostProcessor` | the same with a `p` in front; `delivered` records what it popped |
| `InferPipeline` | `InferPipeline`, `InterfaceYolo`, the calling program | `call` and `at` are main's place in an interface call; `phase` is what the calls so far amount to; `Allowed` says which calls the program may make in which phase; `crashed` is `std::terminate` or a bad access |
| `FrameChannel` | what the pipeline promises about frames | `Send`, `Lose`, `Deliver` |
| `Nms` | `DecodeProcessor::Nms` | one action per iteration of either loop, one for `std::sort` |
| `BoxGeometry` | `Box`, the lambda `iou`, and when a box suppresses another | pure operators; used by `Nms` and `GpuDecode` |
| `BoxDecode` | `CpuDecode`, and what a thread of `decode_kernel` does with its row | pure operators on a row: `Label`, `Confidence`, `Detects`, `BoxOf`; `CpuDecode` is the loop over the rows |
| `GpuDecode` | `decode_kernel_invoker` and its kernels | `host` is the place of the host, `dpc[p]` and `npc[u]` those of the threads; the `atomicAdd`, the write of a box and the test of a slot against the others are one step each |
| `Letterbox` | `CalAffineMatrix` and `ScaleBoxes` | the two maps, on exact fractions |
| `WarpAffine` | `PreProcessor::Inference` and `warp_affine_bilinear_kernel` | `src` and `dst` are the device buffers by address; `pending` are the threads still to run; `GpuPreprocessor` is the copy and the launch, `Warp` one thread, `CpuPreprocessor` the OpenCV path |
| `AppConfig` | `AppConfig`, `ParseMsgs`, `GlogMsg` | `app[p]`, `msgs[p]`, `log[p]` are the copies that process `p` holds; `config` is the file, which `Edit` changes; what is read carries the number of its edition |
| `Startup` | `TrtInfer::Init`, with `BuildModel`, `save_file`, `LoadFile`, `ParseModel` and `MemAllocator`, in several processes | `pc[p]` is the place of a process; `disk` is what the file of a home holds; every `fopen`, piece written, piece read and parser call is a step; `Flag` is the precision that `BuildModel` sets, if the platform has it; `Crash` kills a process anywhere |
| `EngineCache` | what the starts promise about the file | `Begin`, `End` |
| `MCInferPipeline`, `MCNms`, `MCGpuDecode`, `MCWarpAffine`, `MCStartup` | programs, boxes, rows, pictures and engines for TLC | |
| `MsgQueueProofs`, `InferPipelineProofs`, `LifeCycleProofs`, `PicturesProofs`, `NmsProofs`, `GpuDecodeProofs`, `WarpProofs`, `StartupProofs` | theorems | |

`InferPipeline` extends `PostProcessor`, which extends `InferenceEngine`: the
three share the engine's variables as the classes share the engine. `MsgQueue`
is composed by refinement: it is shown to implement `DropOldestQueue`, and the
pipeline uses the same `Pushed`, `Head` and `Tail` as single steps. `Pictures`
looks at the same two queues and threads from another side: the life cycle, the
failures and the device memory are left out there, as the pixels are left out of
`InferPipeline`, where a picture is the number of its frame. `Startup`
extends `AppConfig`, and implements `EngineCache`. The pipeline takes from
`Startup` no more than whether an engine was loaded, and from `WarpAffine` no
more than which frame a buffer was made from; what those modules show makes the
abstraction sound.

Main-thread calls visit several steps, and the workers run between any two of
them. A step of a model covers what no other thread can observe in parts: a
queue operation (shown atomic in `MsgQueue`), the assignments between two of
them, or one CUDA call with its result. `cudaMemcpyAsync` and
`cudaStreamSynchronize` are one step, since the host reads the buffer only after
the second.

History variables (`loaded`, `base`, `delivered`, `evicted`, `misused`, `stale`;
in `Startup`, `builds`, `spoiled`, `renamed` and the editions of the settings; in
`Pictures`, `spoiled`) record what has happened, for the properties. No guard reads them but `loaded`, which numbers the frames;
`builds` numbers the engines.

Where the pieces meet: a copy that does not fit in `WarpAffine` is a failing
copy of the pipeline, after which `FreshBoxes` promises nothing. A start without
an engine in `Startup` is one of the states in which `InferenceEngine` takes
`TrtInfer::Init` to leave the engine. The boxes of `CpuDecode` are what `Nms`
starts from and what `ScaleBoxes` maps back.

## What TLC checks

| run | question | bounds | states |
|---|---|---|---|
| `MCMsgQueue` | Three threads call any operation of one queue. Does the mutex protect it, is a wake-up ever lost, does every call return, is it a drop-oldest queue? | `Length` 2, two messages, five calls and spurious wake-ups in all | 723,000 |
| `MCPipelineSafety` | The documented life cycle, twice over, with full queues and failing calls. Is memory used after it is freed, does a frame vanish, does `Stop` drain, are the boxes of the right frame, is the order kept, does main wait for a thread that has gone? | `Length` 2, five frames, two failures, two `Init`s | 633,000 |
| `MCPictures` | A program that may reuse its picture, and both workers, copying and drawing line by line. Is a result torn, marked or of another frame, is the program's picture drawn upon, does the saved file fit the result? | `Length` 2, four frames of two lines | 148,000 |
| `MCPipelineAnyOrder` | Any call at any time, engines that did not load, fair threads. What ends the process? Is a running thread ever without a handle? Do `Release` and, in the life cycle, `Stop` return, does every frame settle? | `Length` 1, three frames, one failure, two `Init`s | 236,000 |
| `MCNms` | The suppression loops on every vector of boxes, every order of equal confidences. Is what they return the greedy choice? | up to three of thirteen boxes | 60,000 |
| `MCGpuDecode` | Both kernels in every order of their threads. Is a slot overwritten, is one read that was never written, are the boxes those of `CpuDecode`, what does the parallel suppression keep compared with `Nms`, and does the race show in it? | up to three of seven rows, up to three slots, blocks of two threads; a host whose division by 0 traps or does not | 186,000 |
| `MCWarpAffine` | Pictures of several sizes through the same buffers. Does the input show the last picture only, is a buffer left, are the maps inverse? | two pictures of four sizes, batch 1 or 2, a 4 by 2 source, a 2 by 3 input | 244,000 |
| `MCStartup` | Processes that configure, build, save and load at the same time, are killed and started again, on a platform that lacks a precision. Where does a broken file come from, were the settings read, does an engine fit them and its buffers, is a file that was found used, is one built? | two processes, two homes, two starts, two readings of the settings and three `Init`s, one failure, one edit, files of two pieces | 289,000 |

### The bounds

* `Length` is 2 (or 1) for the code's 500. Eviction depends on "full" or "not
  full", and on what is at either end; with 2 a queue can be empty, partly
  filled and full, and five frames overflow the queue while the worker holds
  one and the output queue holds others. The theorems hold for every `Length`.
* `MaxCalls` bounds the calls to one queue, and the spurious wake-ups with them,
  since a wake-up out of nothing could repeat for ever. Five are enough for two
  sleepers, two pushes and an operation that interferes.
* `MaxFaults` bounds the calls of CUDA and TensorRT that fail. Two failures can
  hit a copy and the inference of the same or of different frames. A call on
  memory that is not there always fails and is not counted.
* `MaxInits` is the number of pipelines one process creates; two show what a
  second one inherits.
* Two lines are the least for which a picture can be torn or half marked. With
  four frames and queues of two, two frames may wait and evict the first of
  them, while a third is in the worker's hand and the program writes a fourth.
* Three boxes let the first suppress the second and not the third, the second
  overlap the third while being suppressed itself, and ties in every position.
  The strips are placed so that the ratio of areas hits the threshold exactly.
* With no rows or no room the host divides by zero; three rows and
  fewer slots make the counter run past the limit while earlier claims are not
  yet written, and let one box be suppressed by one that is suppressed itself.
  `BlockLimit` 2 for the code's 512 leaves threads of the last block without a
  row. The rows include ties in confidence and in class, a ratio of areas at the
  threshold, and rows that fail either test.
* `MaxPictures` 2 lets a picture follow one of another size: larger, smaller,
  unreadable, too large. The source is wider than it is high and the input
  the other way round, so either scale decides for some picture and grey
  borders come on either side. `BlockSide` and `BlockDepth` stand for 16 and
  4; the input is not a multiple of the side. `MaxBatch` 2 is the first batch
  that the buffers do not fit.
* `Chunks` 2 is the least number of pieces for which a file can be partial and
  mixed. `MaxStarts` 2 is two processes, or one that is started again after it
  was killed. `MaxCalls` lets each of the two be configured, or one be configured
  a second time, and `Init` be called three times: two processes find no file
  and build at the same time, and one of them loads what it built while the
  other still builds, truncates the file or writes over it. `MaxFaults` counts
  failing calls of TensorRT and the file system, kills excepted. `MaxEdits` 1
  makes the accuracy of a file differ from the settings. Of the `Accuracies` 1
  asks for kFP16, which the platform of the run has (`Supported`), and 256 is
  cut to 0, which asks for kTF32, which it lacks: a plain engine is built. The
  theorems hold for every platform and every `model_acc`.
* One box per frame stands for all boxes decoded from the host buffer, and the
  four floats of a tensor for its quarters.

### Fairness

`FairSpec` assumes that the operating system runs each worker, and main while it
is inside an interface call. Nothing makes the program call anything. The loops
of the workers and of `Stop` poll, so weak fairness of each thread is all that is
needed; that a polling thread does not keep the queue's mutex from another for
ever is part of the assumption. `MsgQueue`, which has the mutex, assumes weak
fairness of each thread's steps: there the number of calls is bounded
(`MaxCalls`), so no thread can take the mutex for ever and nothing stronger is
needed.

`Startup` assumes weak fairness of each process inside `Init`, where it waits for
nobody; kills are not forbidden, so the liveness properties end in "or the
process is gone", and they are stated for where no call has failed.
`EngineGetsBuilt` is about a process that builds, whoever else builds at the
time; two that write at once may leave a broken file, which is excepted.
`FoundEngineIsUsed` is about a process that has found a file, whatever becomes of
the file then; that another writes to it just while it is open is excepted, since
the process then reads a mixture, which TensorRT rejects. `GpuDecode`, `Nms`,
`WarpAffine` and `Pictures` state no liveness.

The division by zero in `decode_kernel_invoker`, with no rows or no room, is
undefined. x86 traps and the process ends (`DivisionTraps`); aarch64, for which
the build has a toolchain as well, yields 0, the launch of the empty grid fails,
nobody looks, and the host goes on (`LaunchFails`). Both are modelled.

Deadlock is not checked: a program ends after its last `Stop`, a crashed one
takes no step, the program of `Pictures` has no more frames to hand in, and
waiters may sleep in `WaitPop` for good. That nobody else
waits for ever is what `Quiescent`, `StopReturns` and `ReleaseReturns` say.

## Where the code disagrees with its documents

Each is shown by a run that refutes one property.

| run | the code | the document |
|---|---|---|
| `MCStopHangs` | When `enqueueV2` fails the worker returns and leaves `running_` set; `RunStop` then spins on an input queue that nobody empties. | `Stop` is "Thread stop" (`interface.h`), and logs that all modules stopped. |
| `MCResultMixed` | `InfertMsg::operator=` appends boxes to those the target has, and the post-processor pops into one variable: after two frames it holds the boxes of both. | "Result output" of a frame (`docs/framework.md`). |
| `MCQuarterImage` | The copy into the network input is sized in bytes of `uint8_t` where the image is made of floats: a quarter arrives. | `dstimg_size_` is the "Target image size", and is multiplied by `sizeof(float)` everywhere else. |
| `MCInitUnready` | `TrtInfer::Init` returns false without an engine file, even after it has built one; nobody looks. | `Init` logs "ALL module init success". |

## What is proved

All theorems are about every value of the constants, under the assumptions
named in the modules (`Length` any integer; naturals for the bounds; finitely
many threads). Every safety property that a passing run checks is also a theorem;
what TLC alone checks is liveness. Where a theorem covers a type invariant the
runs do not repeat it, but for the pipeline's and the GPU decoder's, which also
bound the queues and the slots. Nor do they repeat `Bounded` and
`NoOverlapLeft`, which the refinement and `ResultIsGreedy` stand for, and
`WholePictureReached`, which is arithmetic: all three are proved.

**The queue** (`MsgQueueProofs`). `TypeOK`, `LockDiscipline` and `Bounded` are
inductive together. `NoLostWakeup` is inductive as stated because it counts, on
the other side, every thread from a push's trimming to a waiter's test
(`Pending`): a push adds an entry and itself, a notification replaces the
notifier by the woken waiter, and a test that finds the queue empty happens
when there is nothing to wake for. `Refinement` maps the queue to
`VisibleItems`: a push counts from the step that appends, and a clear from the
step that takes the mutex.

**The pipeline** (`InferPipelineProofs`). The inductive invariant is `TypeOK /\
Ordered`: numbers increase within `bboxQueue_`, from there to the frame in the
worker's hand, from there to `inputMsgQue_`, and within it. `TypeOK` alone is
not inductive: that evicted and delivered frames are frames that were handed in
needs the order. `StepKinds` sorts all steps into those that move no frame
forward and the four that do (`CallLoadData`, `WorkerPop`, `Decode`,
`PostPop`), each described by a lemma of its own; the refinement of
`FrameChannel` follows, with "in flight" as the refinement mapping. It holds for
programs that call anything in any order. `FreshBoxes` follows from `Synced`: at
the two places where a shared buffer is read it holds what was made of the frame
in the worker's hand, unless a copy has failed.

**The calls** (`LifeCycleProofs`). `Control` relates main's place, the handles
and the threads, for every program; `Proper` says what is true in each phase as
long as `misused` is false. From the two follow `ThreadsHaveHandles` and
`CrashOnlyByMisuse`. `NoUseAfterFree` and `StopDrains` need a program that
keeps to the life cycle (`Conforms`); `NothingVanishes` does not. Its
strengthening is `Drained` (while main is on its way out of `Stop`, the queue
it saw empty is still empty) and `Counted`. `NoWaitInVain` is the safety half of
"`Stop` returns": each time main waits, the thread that is to answer is in its
loop with the flag that keeps it there, or has been told to leave. Its
strengthening `Answered` says of the whole time between `Start` and the clearing
of a flag that the flag is set and the thread loops. That the thread is then
also scheduled is the fairness that TLC's runs assume.

**The pictures** (`PicturesProofs`). `IInv` follows a picture line by line.
`Order` says which pixels a message may refer to and that numbers increase along
the queues, so that no two results share pixels; `Waiting` that a line of a
queued picture that is still to be copied is the frame's own, or the program has
spoiled it, and so is one that was copied; `InHand` that the picture in the
worker's hand agrees with the published one, but for the marks on the lines that
`Visualization` has reached; `Shown` and `Saved` carry this to the results and
the files. `OwnPicture` alone is not inductive: it says nothing of a picture
that is half copied when the program writes into it. The theorems hold for
pictures of any height, queues of any length, and a program that reuses its
pictures at will.

**NMS** (`NmsProofs`). The invariant of the two loops has four parts: boxes are
in order, every mark has a reason among the kept boxes, every box the outer loop
is past is kept or has a reason, and an unmarked box has survived the boxes it
was compared with. That sorting loses no box is the pigeonhole principle.
`ResultIsGreedy` adds that a box is marked only for a reason, and that the boxes
returned are the unmarked ones in order: `place` maps each to where it stood.
Nothing about areas is used, so the result holds for the floating-point ratio of
the code as well, as far as it is computed the same way each time.

**The GPU decoder** (`GpuDecodeProofs`). The counter says how many slots have
been claimed: the invariant relates it to the threads that hold one, to the
slots already written, and says that no two threads hold the same (`Claims`,
`Writes`). From this follow `SlotsWrittenOnce` and `CountedAreWritten`. `Marks`
says that a thread that is done has marked its slot if, and only if, there is a
box it is `GivenUpFor`;
`KeptDontOverlap` uses that `Outranks` puts any two boxes in order, and
`NeverKeepsMore` that a box the sequential `Nms` drops is dropped for one that
it keeps. That the winner may depend on the race only through ties is
`OutcomeIsFixed`. `DecodesAsCpu` compares the race with a loop. `CpuDecode` is a
recursive function over the rows; no induction theorem can be instantiated for
it, so `CpuDecodeCollects`, which says what it has collected after any number of
rows, is proved by contradiction from the least number for which it fails. That
every box has exactly one slot, however the threads claim them, comes from
`Claims`.

**Preprocessing** (`WarpProofs`). The invariant `IInv` adds to the types
`Loaded` (the bytes of a picture that fits are in the buffer) and `Done` (the
cell of every thread that has run shows what it should). `KernelRight` is the
heart: for every thread of every picture size what the kernel computes from
its index tests is the sample of the picture continued by grey. `CellsApart`
says that no two threads write to one address. `CentresMeet` and `WholePicture`
are about the maps alone and hold for every size.

**The start** (`StartupProofs`). `Basics` has the types, what holds of the
settings and of the buffers. `SaveOK` carries `BrokenExplained`: as long as a
home is not spoiled one process writes there, and the file holds just what it
wrote; the first writer to meet another, or to be interrupted, spoils it.
`SettingsOK` carries `EngineMatchesSettings`: the file, and what the processes
have read of it, agree wherever they are of one edition, and an engine has the
precision that its edition asks for and the platform gives (`Flag`). The engine
in use alone is not enough for an induction: what a later process reads has to
agree with engines that were built before it. `ReadOf` carries
`SettingsWereRead`: while a process initializes its copy is the whole of
`AppConfig`, and a second `InitConfig` leaves the settings as they were read. The refinement of
`EngineCache` maps a home to "busy" while somebody is building for it;
`CacheSteps` sorts the steps into the one that begins, the ones that may end,
and all others, which leave every home as it is.

Only model-checked: the liveness properties (`Quiescent`, `StopReturns`,
`ReleaseReturns`, `FramesSettle`, `FoundEngineIsUsed`, `EngineGetsBuilt`), which depend on fairness and are out of the prover's reach.

## What is not modelled, and why

* Rounding of floats. Coordinates, scales and areas are exact here, and a
  comparison at a threshold or an edge may come out differently in the code.
  Interpolated values are kept as what they are computed from.
* Allocations that fail: `cudaMalloc` is taken to succeed once an engine is
  loaded; later calls on the memory may fail.
* The network: the layers TensorRT parses, the profile's dimensions, the
  numbers it computes. `Models` says which bindings an engine may have.
* That the rows decoded (`predict_dim` in the YAML file) are as many as the
  engine puts out: the file would have to be related to an engine that only
  TensorRT sees (listed as a hazard).
* In `Pictures`, the marks of different boxes, pictures without objects, on which
  nothing is drawn, and file writes that fail: a file is written in one step,
  since nobody reads it while the program runs.
* The mutexes of `AppConfig` and `GlogMsg`: the program configures itself from
  one thread before it starts others. For the same reason there is one calling
  thread in the pipeline; a process that exits with its workers running is not
  modelled either.
* The caller of the GPU decoder, which is not in the repository: it is taken to
  have zeroed the counter, and not to read `parray` before the stream is done.
* `InferenceV1`, `PostProcessor::Visualization`, `TimeManager` and
  `ModuleMonitor`, which nobody calls; log messages, time stamps and the listing of
  image files; the vendored logger, data sets and build scripts.

## Plan

Done, in this order: the queue and its refinement; the pipeline with its life
cycle; NMS; the proofs of their safety properties; decoding on the CPU and the
GPU; preprocessing; the start with the engine file and the settings; the proofs
about these; the pixels that messages share. To come:

* `MsgQueue` and `InferPipeline` composed: the pipeline over two queues at the
   granularity of their locks, shown to implement `InferPipeline`. Today the
   step from one to the other is that each queue acts at one instant.
