------------------------------- MODULE Startup -------------------------------
(***************************************************************************)
(* Processes that start up, one after the other or together, and share the *)
(* engine file of TrtInfer::Init.  A process that finds no file builds an  *)
(* engine, saves it piece by piece, and is not ready until its Init is     *)
(* called once more, in the same process or in another; one that finds a   *)
(* file reads and deserializes it.  Any process may be killed at any time. *)
(*                                                                         *)
(* An engine is Chunks pieces, each with the number of its build.  Of the  *)
(* pieces that a file lacks, 0 is read.                                    *)
(***************************************************************************)
EXTENDS AppConfig, Sequences, FiniteSets

CONSTANTS
    Chunks,         \* pieces in which a file is written and read
    Models,         \* the bindings of an engine, in order
    Supported,      \* precisions the builder's platform has
    MaxStarts,      \* bound: processes started
    MaxCalls,       \* bound: calls of InitConfig, and of Init
    MaxFaults       \* bound: failing calls of TensorRT and of the file system

ASSUME StartupAssumption ==
    /\ Chunks \in Nat \ {0}
    /\ Models \subseteq Seq([input : BOOLEAN, size : Nat])
    /\ Supported \subseteq {"kTF32", "kFP16", "kINT8"}
    /\ MaxCalls \in [{"InitConfig", "Init"} -> Nat]
    /\ {MaxStarts, MaxFaults} \subseteq Nat

VARIABLES
    pc,             \* where the main thread is
    made, pos,      \* saving: the build in hand, and how much is written
    length, data,   \* loading: the vector's size, and what has been read
    engine,         \* the build that execution_context_ is made from, or 0
    memory,         \* what MemAllocator allocated
    disk,           \* the engine files
    builds,         \* history: the precision of each build, and the edition of
                    \* the settings it was built with
    starts, calls, faults,
    spoiled         \* history: the homes where a writer was interrupted, or
                    \* met another

localVars == <<pc, made, pos, length, data, engine, memory>>
vars == <<configVars, localVars, disk, builds, starts, calls, faults, spoiled>>

-----------------------------------------------------------------------------
\* Files.  Nobody removes one.
NoFile == [exists |-> FALSE, pieces |-> <<>>]
EmptyFile == [exists |-> TRUE, pieces |-> <<>>]

\* Piece i of build b, at its place; what is skipped is 0.
WriteAt(file, i, b) ==
    LET old == Len(file.pieces)
    IN  [file EXCEPT !.pieces =
            [k \in 1 .. (IF i > old THEN i ELSE old) |->
                IF k = i THEN b ELSE IF k <= old THEN file.pieces[k] ELSE 0]]

\* All of one build and nothing else: what TensorRT accepts.
Whole(pieces) ==
    /\ Len(pieces) = Chunks
    /\ pieces[1] # 0 /\ \A k \in 1 .. Chunks : pieces[k] = pieces[1]

\* trt_path_ and what is there.  With the settings of an empty document it is
\* the home itself, a directory.
Home(p) == msgs[p].home
IsDirectory(p) == msgs[p].settings.kind = "null"
isFileExists_stat(p) == IsDirectory(p) \/ disk[Home(p)].exists

\* The BuilderFlag that is set for a model_acc: it is cut to the eight bits of
\* ModelACC, and where its value has no name or the platform lacks the
\* precision a plain engine is built, without a word.
Precisions == <<"kTF32", "kFP16", "kINT8">>
Flag(acc) ==
    LET m == (acc % 256) + 1
    IN  IF m \in 1 .. 3 /\ Precisions[m] \in Supported THEN Precisions[m]
        ELSE "none"

Working == {"build", "create", "save"}
Builders(h) == {p \in Processes : pc[p] \in Working /\ Home(p) = h}
Savers(h) == {p \in Processes : pc[p] = "save" /\ Home(p) = h}

-----------------------------------------------------------------------------
\* ParseModel's tables and MemAllocator.  The array of device buffers has two
\* elements and that of host buffers one; inputs are put first.
Inputs(model) == {i \in 1 .. Len(model) : model[i].input}
Outputs(model) == (1 .. Len(model)) \ Inputs(model)

\* The binding whose name is the n-th among those in names.
Nth(names, n) == CHOOSE i \in names : Cardinality({j \in names : j <= i}) = n

GpuOutputsFirst(model) ==       \* mutant: outputs are put first
    [i \in 1 .. Len(model) |->
        LET outs == Cardinality(Outputs(model))
        IN  IF i <= outs THEN model[Nth(Outputs(model), i)].size
            ELSE model[Nth(Inputs(model), i - outs)].size]

GpuBuffers(model) ==
    [i \in 1 .. Len(model) |->
        LET ins == Cardinality(Inputs(model))
        IN  IF i <= ins THEN model[Nth(Inputs(model), i)].size
            ELSE model[Nth(Outputs(model), i - ins)].size]

CpuBuffers(model) ==
    [i \in 1 .. Cardinality(Outputs(model)) |->
        model[Nth(Outputs(model), i)].size]

NoMemory == [model |-> <<>>, gpu |-> <<>>, cpu |-> <<>>]
Allocated(model) ==
    [model |-> model, gpu |-> GpuBuffers(model), cpu |-> CpuBuffers(model)]

\* An array is left; its neighbours are overwritten.
Overruns(m) == Len(m.gpu) > 2 \/ Len(m.cpu) > 1

-----------------------------------------------------------------------------
Init ==
    /\ ConfigStart
    /\ pc = [p \in Processes |-> "off"]
    /\ made = [p \in Processes |-> 0] /\ pos = made /\ length = made
    /\ data = [p \in Processes |-> <<>>]
    /\ engine = made
    /\ memory = [p \in Processes |-> NoMemory]
    /\ disk = [h \in Homes |-> NoFile]
    /\ builds = <<>> /\ starts = 0 /\ faults = 0
    /\ calls = [c \in {"InitConfig", "Init"} |-> 0]
    /\ spoiled = {}

Goto(p, from, to) == pc[p] = from /\ pc' = [pc EXCEPT ![p] = to]

\* A call of TensorRT or of the file system fails.
Fault == faults < MaxFaults /\ faults' = faults + 1

\* TrtInfer::Init is left without an engine; nobody looks at its result.
Unready(p, from) ==
    /\ Goto(p, from, "idle")
    /\ made' = [made EXCEPT ![p] = 0] /\ pos' = [pos EXCEPT ![p] = 0]
    /\ length' = [length EXCEPT ![p] = 0] /\ data' = [data EXCEPT ![p] = <<>>]
    /\ UNCHANGED <<engine, memory>>

\* The process is no more.
Gone(p) ==
    /\ pc' = [pc EXCEPT ![p] = "off"]
    /\ made' = [made EXCEPT ![p] = 0] /\ pos' = [pos EXCEPT ![p] = 0]
    /\ length' = [length EXCEPT ![p] = 0] /\ data' = [data EXCEPT ![p] = <<>>]
    /\ engine' = [engine EXCEPT ![p] = 0]
    /\ memory' = [memory EXCEPT ![p] = NoMemory]
    /\ ForgetConfig(p)

-----------------------------------------------------------------------------
\* main.
Start(p) ==
    /\ starts < MaxStarts /\ starts' = starts + 1
    /\ Goto(p, "off", "idle")
    /\ UNCHANGED <<configVars, made, pos, length, data, engine, memory, disk,
                   builds, calls, faults, spoiled>>

Called(c) == calls[c] < MaxCalls[c] /\ calls' = [calls EXCEPT ![c] = @ + 1]

CallInitConfig(p, h) ==
    /\ pc[p] = "idle" /\ Called("InitConfig")
    /\ \/ InitConfig(p, h) /\ UNCHANGED localVars
       \/ ~HasInstance(p) /\ Fatal(config) /\ Gone(p)
    /\ UNCHANGED <<disk, builds, starts, faults, spoiled>>

\* Init makes a new TrtInfer, which has no engine yet.
CallInit(p) ==
    /\ pc[p] = "idle" /\ Called("Init")
    /\ \/ /\ Goto(p, "idle", "look")
          /\ ReadParams(p)
          /\ engine' = [engine EXCEPT ![p] = 0]
          /\ memory' = [memory EXCEPT ![p] = NoMemory]
          /\ UNCHANGED <<made, pos, length, data>>
       \/ ~HasInstance(p) /\ Gone(p)
    /\ UNCHANGED <<disk, builds, starts, faults, spoiled>>

\* The end of a process, whatever it is doing.
Crash(p) ==
    /\ pc[p] # "off"
    /\ Gone(p)
    /\ spoiled' = IF pc[p] = "save" THEN spoiled \cup {Home(p)} ELSE spoiled
    /\ UNCHANGED <<disk, builds, starts, calls, faults>>
-----------------------------------------------------------------------------
\* TrtInfer::Init.  From the look on, nobody looks again.
LookInside(p) ==                \* mutant: an empty file counts as none
    /\ Goto(p, "look", IF IsDirectory(p) \/ disk[Home(p)].pieces # <<>>
                       THEN "open" ELSE "build")
    /\ UNCHANGED <<configVars, made, pos, length, data, engine, memory, disk,
                   builds, starts, calls, faults, spoiled>>

Look(p) ==
    /\ Goto(p, "look", IF isFileExists_stat(p) THEN "open" ELSE "build")
    /\ UNCHANGED <<configVars, made, pos, length, data, engine, memory, disk,
                   builds, starts, calls, faults, spoiled>>

BuildRereads(p) ==              \* mutant: the accuracy is read from the file
    /\ Goto(p, "build", "create")
    /\ builds' = Append(builds, [flag |-> Flag(config.acc),
                                 edition |-> msgs[p].settings.edition])
    /\ made' = [made EXCEPT ![p] = Len(builds) + 1]
    /\ UNCHANGED <<configVars, pos, length, data, engine, memory, disk, starts,
                   calls, faults, spoiled>>

\* BuildModel, up to the serialized engine.
Build(p) ==
    /\ Goto(p, "build", "create")
    /\ builds' = Append(builds, [flag |-> Flag(msgs[p].settings.acc),
                                 edition |-> msgs[p].settings.edition])
    /\ made' = [made EXCEPT ![p] = Len(builds) + 1]
    /\ UNCHANGED <<configVars, pos, length, data, engine, memory, disk, starts,
                   calls, faults, spoiled>>

BuildFails(p) ==
    /\ Unready(p, "build") /\ Fault
    /\ UNCHANGED <<configVars, disk, builds, starts, calls, spoiled>>

\* save_file.  fopen "wb" empties the file; a failure is reported to nobody.
Create(p) ==
    /\ Goto(p, "create", "save")
    /\ disk' = [disk EXCEPT ![Home(p)] = EmptyFile]
    /\ spoiled' = IF Savers(Home(p)) = {} THEN spoiled
                  ELSE spoiled \cup {Home(p)}
    /\ UNCHANGED <<configVars, made, pos, length, data, engine, memory, builds,
                   starts, calls, faults>>

CreateFails(p) ==
    /\ Unready(p, "create") /\ Fault
    /\ UNCHANGED <<configVars, disk, builds, starts, calls, spoiled>>

Write(p) ==
    /\ pc[p] = "save" /\ pos[p] < Chunks
    /\ pos' = [pos EXCEPT ![p] = @ + 1]
    /\ disk' = [disk EXCEPT ![Home(p)] = WriteAt(@, pos[p] + 1, made[p])]
    /\ UNCHANGED <<configVars, pc, made, length, data, engine, memory, builds,
                   starts, calls, faults, spoiled>>

WriteFails(p) ==
    /\ Unready(p, "save") /\ Fault
    /\ spoiled' = spoiled \cup {Home(p)}
    /\ UNCHANGED <<configVars, disk, builds, starts, calls>>

CloseEarly(p) ==                \* mutant: the last piece is forgotten
    /\ pos[p] >= Chunks - 1 /\ Unready(p, "save")
    /\ UNCHANGED <<configVars, disk, builds, starts, calls, faults, spoiled>>

Close(p) ==
    /\ pos[p] = Chunks /\ Unready(p, "save")
    /\ UNCHANGED <<configVars, disk, builds, starts, calls, faults, spoiled>>

-----------------------------------------------------------------------------
\* LoadFile: the length as it is now, and then the pieces as they are when they
\* are read.  The length of a directory is what the file system makes of it: a
\* vector of that size is thrown out, or nothing is read.
OpenDirectory(p) ==
    /\ pc[p] = "open" /\ IsDirectory(p)
    /\ \/ Gone(p)
       \/ Unready(p, "open") /\ UNCHANGED configVars
    /\ UNCHANGED <<disk, builds, starts, calls, faults, spoiled>>

OpenShort(p) ==                 \* mutant: the last piece is not counted
    /\ Goto(p, "open", "read")
    /\ ~IsDirectory(p) /\ disk[Home(p)].pieces # <<>>
    /\ length' = [length EXCEPT ![p] = Len(disk[Home(p)].pieces) - 1]
    /\ UNCHANGED <<configVars, made, pos, data, engine, memory, disk, builds,
                   starts, calls, faults, spoiled>>

Open(p) ==
    /\ Goto(p, "open", "read")
    /\ ~IsDirectory(p) /\ disk[Home(p)].pieces # <<>>
    /\ length' = [length EXCEPT ![p] = Len(disk[Home(p)].pieces)]
    /\ UNCHANGED <<configVars, made, pos, data, engine, memory, disk, builds,
                   starts, calls, faults, spoiled>>

\* There is nothing in the file, or it cannot be opened.
OpenEmpty(p) ==
    /\ Unready(p, "open") /\ ~IsDirectory(p)
    /\ Fault \/ (disk[Home(p)].pieces = <<>> /\ UNCHANGED faults)
    /\ UNCHANGED <<configVars, disk, builds, starts, calls, spoiled>>

Read(p) ==
    /\ pc[p] = "read" /\ Len(data[p]) < length[p]
    /\ data' = [data EXCEPT ![p] =
            LET next == Len(@) + 1
                file == disk[Home(p)].pieces
            IN  Append(@, IF next <= Len(file) THEN file[next] ELSE 0)]
    /\ UNCHANGED <<configVars, pc, made, pos, length, engine, memory, disk,
                   builds, starts, calls, faults, spoiled>>

\* ParseModel: TensorRT takes a whole engine, and with it the bindings.
Parse(p) ==
    /\ pc[p] = "read" /\ Len(data[p]) = length[p] /\ Whole(data[p])
    /\ Goto(p, "read", "bind")
    /\ engine' = [engine EXCEPT ![p] = data[p][1]]
    /\ length' = [length EXCEPT ![p] = 0] /\ data' = [data EXCEPT ![p] = <<>>]
    /\ UNCHANGED <<configVars, made, pos, memory, disk, builds, starts, calls,
                   faults, spoiled>>

ParseRejects(p) ==
    /\ Unready(p, "read")
    /\ Len(data[p]) = length[p] /\ ~Whole(data[p])
    /\ UNCHANGED <<configVars, disk, builds, starts, calls, faults, spoiled>>

ParseFails(p) ==
    /\ Unready(p, "read") /\ Len(data[p]) = length[p] /\ Fault
    /\ UNCHANGED <<configVars, disk, builds, starts, calls, spoiled>>

\* MemAllocator.  cudaMalloc's failures are not looked at.  Where an array was
\* left, the process may not survive it.
MemAllocator(p) ==
    /\ pc[p] = "bind"
    /\ \E model \in Models :
          \/ /\ Goto(p, "bind", "idle")
             /\ memory' = [memory EXCEPT ![p] = Allocated(model)]
             /\ UNCHANGED <<configVars, made, pos, length, data, engine>>
          \/ Overruns(Allocated(model)) /\ Gone(p)
    /\ UNCHANGED <<disk, builds, starts, calls, faults, spoiled>>

-----------------------------------------------------------------------------
\* What a process does by itself once Init is called.
Saving(p) ==
    \/ Build(p) \/ BuildFails(p) \/ Create(p) \/ CreateFails(p)
    \/ Write(p) \/ WriteFails(p) \/ Close(p)

Loading(p) ==
    \/ OpenDirectory(p) \/ Open(p) \/ OpenEmpty(p) \/ Read(p)
    \/ Parse(p) \/ ParseRejects(p) \/ ParseFails(p) \/ MemAllocator(p)

Initializing(p) == Look(p) \/ Saving(p) \/ Loading(p)

Main(p) ==
    \/ Start(p) \/ CallInit(p) \/ Crash(p)
    \/ \E h \in Homes : CallInitConfig(p, h)

EditConfig ==
    /\ \E content \in Contents : Edit(content)
    /\ UNCHANGED <<localVars, disk, builds, starts, calls, faults, spoiled>>

Next == EditConfig \/ \E p \in Processes : Main(p) \/ Initializing(p)

Spec == Init /\ [][Next]_vars

\* A process that is let run goes on with its Init.
FairSpec == Spec /\ \A p \in Processes : WF_vars(Initializing(p))

-----------------------------------------------------------------------------
Ready(p) == pc[p] = "idle" /\ engine[p] # 0

Cache ==
    [h \in Homes |->
        IF Builders(h) # {} THEN "busy"
        ELSE IF ~disk[h].exists THEN "none"
        ELSE IF Whole(disk[h].pieces) THEN "good" ELSE "bad"]

EngineCache == INSTANCE EngineCache WITH Places <- Homes, cache <- Cache

-----------------------------------------------------------------------------
Steps == {"off", "idle", "look", "open", "read", "bind"} \cup Working
Copies == [home : Homes \cup {NoHome}, settings : Contents \cup {NotRead}]
Builds == [flag : {"kTF32", "kFP16", "kINT8", "none"},
           edition : 0 .. MaxEdits]

StartupTypeOK ==
    /\ config \in Contents
    /\ app \in [Processes -> Copies] /\ msgs \in [Processes -> Copies]
    /\ log \in [Processes -> Copies] /\ renamed \in [Processes -> BOOLEAN]
    /\ pc \in [Processes -> Steps]
    /\ builds \in Seq(Builds)
    /\ made \in [Processes -> 0 .. Len(builds)]
    /\ engine \in [Processes -> 0 .. Len(builds)]
    /\ pos \in [Processes -> 0 .. Chunks]
    /\ length \in [Processes -> 0 .. Chunks]
    /\ data \in [Processes -> Seq(0 .. Len(builds))]
    /\ disk \in [Homes -> [exists : BOOLEAN, pieces : Seq(0 .. Len(builds))]]
    /\ \A h \in Homes : Len(disk[h].pieces) <= Chunks
    /\ calls \in [{"InitConfig", "Init"} -> Nat]
    /\ {starts, faults} \subseteq Nat
    /\ spoiled \subseteq Homes

\* An engine file that cannot be used is the work of a writer that was killed
\* or failed half-way, or of two that wrote at the same time: save_file itself
\* leaves nothing behind, and a process that only reads or gives up before
\* fopen does no harm.
BrokenExplained ==
    \A h \in Homes :
        disk[h].exists /\ Savers(h) = {} /\ ~Whole(disk[h].pieces)
            => h \in spoiled

\* The file is written by those who found none; when they are done it stays as
\* it is, good or bad, for every process and over every restart.
ImplementsEngineCache == EngineCache!Spec

\* A process that has an engine has one of the precision that this platform
\* gives for its own settings, from the home under which its log is, however
\* many processes built, overwrote and read the file at the time.  Two things
\* go wrong: the builder read another edition of the settings, for the engine is
\* not named for its accuracy, or InitConfig was called a second time.
EngineMatchesSettings ==
    \A p \in Processes : engine[p] # 0 =>
        LET build == builds[engine[p]]
            own == msgs[p].settings
        IN  /\ build.flag = Flag(own.acc) \/ build.edition # own.edition
            /\ msgs[p].home = log[p].home \/ renamed[p]

\* No process works with settings that were never read, nor with a mixture:
\* what ParseMsgs has while the modules initialize is the whole of AppConfig,
\* and whatever calls of InitConfig and edits came in between, the log, the
\* modules and the engine go by the settings of one readable file.
SettingsWereRead ==
    \A p \in Processes :
        /\ pc[p] \notin {"off", "idle"} => HasInstance(p) /\ msgs[p] = app[p]
        /\ log[p] # Nothing \/ engine[p] # 0 =>
              /\ msgs[p].settings = app[p].settings
              /\ app[p].settings \in Contents /\ ~Fatal(app[p].settings)
        /\ log[p] # Nothing => log[p].settings = app[p].settings

\* TrtInfer::Inference finds a buffer by the number of the binding, the
\* allocator by its place among inputs and then outputs.  For an engine of one
\* input and one output, in that order, the buffers are those of the bindings
\* and stay in the arrays.
BuffersFit ==
    \A p \in Processes :
        LET m == memory[p]
        IN  Inputs(m.model) = {1} /\ Outputs(m.model) = {2} =>
                /\ \A i \in 1 .. 2 : m.gpu[i] = m.model[i].size
                /\ m.cpu = <<m.model[2].size>>
                /\ ~Overruns(m)

\* A process that finds an engine file is ready in the end, though others find
\* none, or found none before, and build, write, load and are killed meanwhile;
\* where no call has failed, and unless somebody writes to the file while the
\* process has it open: the length it took and the pieces it reads are then of
\* different moments.  A file that is spoiled may be no engine at all.
FoundEngineIsUsed ==
    \A p \in Processes :
        pc[p] = "open" /\ ~IsDirectory(p)
        ~> \/ Ready(p) \/ pc[p] = "off" \/ faults > 0
           \/ Home(p) \in spoiled
           \/ pc[p] \in {"open", "read"} /\ Savers(Home(p)) # {}

\* One that finds none leaves a good engine for the next start, at its home or
\* the one it was given since, though others find none at the same time and
\* build too; where no call has failed, and unless two of them write at once.
EngineGetsBuilt ==
    \A p \in Processes :
        pc[p] = "build"
        ~> \/ Home(p) \in {h \in Homes : Cache[h] = "good"} \cup spoiled
           \/ pc[p] = "off" \/ faults > 0
=============================================================================
