---------------------------- MODULE StartupProofs ----------------------------
(***************************************************************************)
(* Theorems about the start of any number of processes that share engine   *)
(* files of any length.                                                    *)
(***************************************************************************)
EXTENDS Startup, FiniteSetTheorems, SequenceTheorems, TLAPS

LEMMA Kinds ==
    /\ NotRead \notin Contents /\ Nothing \in Copies
    /\ \A c \in Contents : ~Fatal(c) => c.kind \in {"good", "null"}
    /\ \A c \in Contents : c.edition \in 0 .. MaxEdits
    /\ \A h \in Homes, c \in Contents : [home |-> h, settings |-> c] \in Copies
BY ConfigAssumption DEF NotRead, Contents, Nothing, Copies, Fatal

\* A platform lacks a precision, or a model_acc has no name: "none".
LEMMA FlagType ==
    \A acc : Flag(acc) \in {"kTF32", "kFP16", "kINT8", "none"}
BY StartupAssumption DEF Flag, Precisions

\* The settings never change but for a new process, and are of a kind that can
\* be used.
ConfigOf(p) ==
    /\ app[p] # Nothing =>
          app[p].home \in Homes /\ app[p].settings \in Contents
          /\ ~Fatal(app[p].settings)
    /\ msgs[p] # Nothing =>
          /\ msgs[p].home \in Homes /\ msgs[p].settings = app[p].settings
          /\ app[p] # Nothing
    /\ pc[p] \notin {"off", "idle"} => msgs[p] # Nothing
    /\ pc[p] \in Working \cup {"read", "bind"} => ~IsDirectory(p)
    /\ pc[p] \in {"create", "save"} => made[p] # 0
    /\ engine[p] # 0 => msgs[p] # Nothing

ConfigOK == \A p \in Processes : ConfigOf(p)

LEMMA TypeInit == Init => StartupTypeOK
<1> SUFFICES ASSUME Init PROVE StartupTypeOK
  OBVIOUS
<1>1. /\ config \in Contents
      /\ app \in [Processes -> Copies] /\ msgs \in [Processes -> Copies]
      /\ log \in [Processes -> Copies] /\ renamed \in [Processes -> BOOLEAN]
  BY Kinds, ConfigAssumption DEF Init, ConfigStart
<1>2. /\ pc \in [Processes -> Steps] /\ builds \in Seq(Builds)
      /\ Len(builds) = 0
  BY DEF Init, Steps
<1>3. /\ made \in [Processes -> 0 .. Len(builds)]
      /\ engine \in [Processes -> 0 .. Len(builds)]
      /\ pos \in [Processes -> 0 .. Chunks]
      /\ length \in [Processes -> 0 .. Chunks]
  BY <1>2, StartupAssumption DEF Init
<1>4. data \in [Processes -> Seq(0 .. Len(builds))]
  BY DEF Init
<1>5. /\ disk \in [Homes -> [exists : BOOLEAN, pieces : Seq(0 .. Len(builds))]]
      /\ \A h \in Homes : Len(disk[h].pieces) <= Chunks
  BY StartupAssumption DEF Init, NoFile
<1>6. /\ {starts, faults} \subseteq Nat /\ spoiled \subseteq Homes
      /\ calls \in [{"InitConfig", "Init"} -> Nat]
  BY DEF Init
<1> QED
  BY <1>1, <1>2, <1>3, <1>4, <1>5, <1>6 DEF StartupTypeOK

USE DEF vars, configVars, localVars

LEMMA Counts ==
    ASSUME StartupTypeOK
    PROVE  /\ Len(builds) \in Nat /\ 0 \in 0 .. Len(builds)
           /\ Chunks \in Nat \ {0} /\ 0 \in 0 .. Chunks
BY StartupAssumption DEF StartupTypeOK

LEMMA GoneType ==
    ASSUME StartupTypeOK, NEW p \in Processes, Gone(p)
    PROVE  /\ config' = config
           /\ app' \in [Processes -> Copies] /\ msgs' \in [Processes -> Copies]
           /\ log' \in [Processes -> Copies] /\ renamed' \in [Processes -> BOOLEAN]
           /\ pc' \in [Processes -> Steps]
           /\ made' \in [Processes -> 0 .. Len(builds)]
           /\ engine' \in [Processes -> 0 .. Len(builds)]
           /\ pos' \in [Processes -> 0 .. Chunks]
           /\ length' \in [Processes -> 0 .. Chunks]
           /\ data' \in [Processes -> Seq(0 .. Len(builds))]
<1>1. /\ config' = config
      /\ app' \in [Processes -> Copies] /\ msgs' \in [Processes -> Copies]
      /\ log' \in [Processes -> Copies] /\ renamed' \in [Processes -> BOOLEAN]
  BY Kinds DEF Gone, ForgetConfig, StartupTypeOK
<1>2. /\ pc' \in [Processes -> Steps]
      /\ made' \in [Processes -> 0 .. Len(builds)]
      /\ engine' \in [Processes -> 0 .. Len(builds)]
      /\ pos' \in [Processes -> 0 .. Chunks]
      /\ length' \in [Processes -> 0 .. Chunks]
  <2>1. pc' \in [Processes -> Steps]
    BY DEF Gone, StartupTypeOK, Steps
  <2>2. /\ made' \in [Processes -> 0 .. Len(builds)]
        /\ engine' \in [Processes -> 0 .. Len(builds)]
    BY Counts DEF Gone, StartupTypeOK
  <2>3. /\ pos' \in [Processes -> 0 .. Chunks]
        /\ length' \in [Processes -> 0 .. Chunks]
    BY Counts DEF Gone, StartupTypeOK
  <2> QED
    BY <2>1, <2>2, <2>3
<1>3. data' \in [Processes -> Seq(0 .. Len(builds))]
  BY DEF Gone, StartupTypeOK
<1> QED
  BY <1>1, <1>2, <1>3

LEMMA UnreadyType ==
    ASSUME StartupTypeOK, NEW p \in Processes, NEW from, Unready(p, from)
    PROVE  /\ pc' \in [Processes -> Steps]
           /\ made' \in [Processes -> 0 .. Len(builds)]
           /\ engine' \in [Processes -> 0 .. Len(builds)]
           /\ pos' \in [Processes -> 0 .. Chunks]
           /\ length' \in [Processes -> 0 .. Chunks]
           /\ data' \in [Processes -> Seq(0 .. Len(builds))]
<1>1. /\ pc' \in [Processes -> Steps]
      /\ made' \in [Processes -> 0 .. Len(builds)]
      /\ engine' \in [Processes -> 0 .. Len(builds)]
      /\ pos' \in [Processes -> 0 .. Chunks]
      /\ length' \in [Processes -> 0 .. Chunks]
  <2>1. pc' \in [Processes -> Steps]
    BY DEF Unready, Goto, StartupTypeOK, Steps
  <2>2. /\ made' \in [Processes -> 0 .. Len(builds)]
        /\ engine' \in [Processes -> 0 .. Len(builds)]
    BY Counts DEF Unready, StartupTypeOK
  <2>3. /\ pos' \in [Processes -> 0 .. Chunks]
        /\ length' \in [Processes -> 0 .. Chunks]
    BY Counts DEF Unready, StartupTypeOK
  <2> QED
    BY <2>1, <2>2, <2>3
<1>2. data' \in [Processes -> Seq(0 .. Len(builds))]
  BY DEF Unready, StartupTypeOK
<1> QED
  BY <1>1, <1>2

\* Where a process is past its calls it has a home.
LEMMA HomeOK ==
    ASSUME ConfigOK, NEW p \in Processes, pc[p] \notin {"off", "idle"}
    PROVE  Home(p) \in Homes
BY DEF ConfigOK, ConfigOf, Home

LEMMA UnreadyStep ==
    ASSUME StartupTypeOK, NEW p \in Processes, NEW from, Unready(p, from),
           UNCHANGED <<configVars, disk, builds, starts, calls>>,
           faults' \in Nat, spoiled' \subseteq Homes
    PROVE  StartupTypeOK'
<1>1. /\ pc' \in [Processes -> Steps]
      /\ made' \in [Processes -> 0 .. Len(builds)]
      /\ engine' \in [Processes -> 0 .. Len(builds)]
      /\ pos' \in [Processes -> 0 .. Chunks]
      /\ length' \in [Processes -> 0 .. Chunks]
      /\ data' \in [Processes -> Seq(0 .. Len(builds))]
  BY UnreadyType
<1> QED
  BY <1>1 DEF StartupTypeOK

LEMMA TypeMain ==
    ASSUME StartupTypeOK, ConfigOK, NEW p \in Processes, Main(p)
    PROVE  StartupTypeOK'
<1>1. CASE Start(p)
  <2>1. starts' \in Nat
    BY <1>1 DEF Start, StartupTypeOK
  <2>2. pc' \in [Processes -> Steps]
    BY <1>1 DEF Start, Goto, StartupTypeOK, Steps
  <2>3. UNCHANGED <<configVars, made, pos, length, data, engine, disk, builds,
                    calls, faults, spoiled>>
    BY <1>1 DEF Start
  <2> QED
    BY <2>1, <2>2, <2>3 DEF StartupTypeOK
<1>2. CASE CallInit(p)
  <2>1. calls' \in [{"InitConfig", "Init"} -> Nat]
    BY <1>2 DEF CallInit, Called, StartupTypeOK
  <2>2. CASE Gone(p)
    BY <1>2, <2>1, <2>2, GoneType DEF CallInit, StartupTypeOK
  <2>3. CASE ~Gone(p)
    <3>1. Goto(p, "idle", "look") /\ ReadParams(p)
      BY <1>2, <2>3 DEF CallInit
    <3>2. /\ config' = config /\ app' = app
          /\ msgs' \in [Processes -> Copies] /\ log' \in [Processes -> Copies]
          /\ renamed' = renamed
      BY <3>1 DEF ReadParams, InitLogging, StartupTypeOK
    <3>3. pc' \in [Processes -> Steps]
      BY <3>1 DEF Goto, StartupTypeOK, Steps
    <3>4. /\ engine' = [engine EXCEPT ![p] = 0]
          /\ UNCHANGED <<made, pos, length, data, disk, builds, starts, faults,
                         spoiled>>
      BY <1>2, <2>3 DEF CallInit
    <3>5. engine' \in [Processes -> 0 .. Len(builds)]
      BY <3>4, Counts DEF StartupTypeOK
    <3> QED
      BY <2>1, <3>2, <3>3, <3>4, <3>5 DEF StartupTypeOK
  <2> QED
    BY <2>2, <2>3
<1>3. CASE Crash(p)
  <2>1. spoiled' \subseteq Homes
    BY <1>3, HomeOK DEF Crash, StartupTypeOK
  <2> QED
    BY <1>3, <2>1, GoneType DEF Crash, StartupTypeOK
<1>4. ASSUME NEW h \in Homes, CallInitConfig(p, h) PROVE StartupTypeOK'
  <2>1. /\ calls' \in [{"InitConfig", "Init"} -> Nat]
        /\ UNCHANGED <<disk, builds, starts, faults, spoiled>>
    BY <1>4 DEF CallInitConfig, Called, StartupTypeOK
  <2>2. CASE Gone(p)
    BY <2>1, <2>2, GoneType DEF StartupTypeOK
  <2>3. CASE ~Gone(p)
    <3>1. InitConfig(p, h) /\ UNCHANGED localVars
      BY <1>4, <2>3 DEF CallInitConfig
    <3>2. [home |-> h, settings |->
              IF HasInstance(p) THEN app[p].settings ELSE config] \in Copies
      BY DEF StartupTypeOK, Copies
    <3>3. app' \in [Processes -> Copies]
      BY <3>1, <3>2 DEF InitConfig, StartupTypeOK
    <3>4. renamed' \in [Processes -> BOOLEAN]
      BY <3>1 DEF InitConfig, HasInstance, StartupTypeOK
    <3>5. UNCHANGED <<config, msgs, log>>
      BY <3>1 DEF InitConfig
    <3> QED
      BY <2>1, <3>1, <3>3, <3>4, <3>5 DEF StartupTypeOK
  <2> QED
    BY <2>2, <2>3
<1> QED
  BY <1>1, <1>2, <1>3, <1>4 DEF Main

\* What a file may be.
Files == [exists : BOOLEAN, pieces : Seq(0 .. Len(builds))]

\* A file keeps its type and its length when a piece is written.
LEMMA WriteAtType ==
    ASSUME Len(builds) \in Nat, Chunks \in Nat,
           NEW file \in Files, Len(file.pieces) <= Chunks,
           NEW i \in 1 .. Chunks, NEW b \in 0 .. Len(builds)
    PROVE  /\ WriteAt(file, i, b) \in Files
           /\ WriteAt(file, i, b).exists = file.exists
           /\ Len(WriteAt(file, i, b).pieces)
                  = IF i > Len(file.pieces) THEN i ELSE Len(file.pieces)
           /\ WriteAt(file, i, b).pieces[i] = b
           /\ \A k \in 1 .. Len(file.pieces) : k # i =>
                  WriteAt(file, i, b).pieces[k] = file.pieces[k]
<1> DEFINE n == Len(builds)
<1>0. /\ n \in Nat /\ b \in 0 .. n
      /\ file \in [exists : BOOLEAN, pieces : Seq(0 .. n)]
  BY DEF Files
<1> HIDE DEF n
<1> DEFINE old == Len(file.pieces)
           len == IF i > old THEN i ELSE old
           new == [k \in 1 .. len |->
                      IF k = i THEN b ELSE IF k <= old THEN file.pieces[k] ELSE 0]
<1>1. old \in Nat /\ len \in Nat /\ i \in 1 .. len
  BY <1>0
<1>2. new \in [1 .. len -> 0 .. n]
  <2> SUFFICES ASSUME NEW k \in 1 .. len
               PROVE  (IF k = i THEN b
                       ELSE IF k <= old THEN file.pieces[k] ELSE 0) \in 0 .. n
    OBVIOUS
  <2>1. k <= old => file.pieces[k] \in 0 .. n
    BY <1>0, <1>1
  <2> QED
    BY <1>0, <2>1
<1>3. new \in Seq(0 .. n) /\ Len(new) = len
  BY <1>0, <1>1, <1>2
<1>4. WriteAt(file, i, b) = [file EXCEPT !.pieces = new]
  BY DEF WriteAt
<1>5. /\ new[i] = b
      /\ \A k \in 1 .. old : k # i => new[k] = file.pieces[k]
  BY <1>0, <1>1
<1> HIDE DEF new
<1>6. /\ WriteAt(file, i, b).pieces = new
      /\ WriteAt(file, i, b).exists = file.exists
      /\ WriteAt(file, i, b) \in [exists : BOOLEAN, pieces : Seq(0 .. n)]
  BY <1>0, <1>3, <1>4
<1> QED
  BY <1>3, <1>5, <1>6 DEF n, Files

LEMMA TypeSaving ==
    ASSUME StartupTypeOK, ConfigOK, NEW p \in Processes,
           Look(p) \/ Saving(p)
    PROVE  StartupTypeOK'
<1>1. CASE Look(p)
  BY <1>1 DEF Look, Goto, StartupTypeOK, Steps, Working
<1>2. CASE Build(p)
  <2> DEFINE n == Len(builds)
  <2>1. /\ builds' \in Seq(Builds) /\ Len(builds') = n + 1 /\ n \in Nat
    <3>1. msgs[p].settings.edition \in 0 .. MaxEdits
      <4>1. /\ msgs[p] # Nothing
            /\ msgs[p].settings = app[p].settings /\ app[p].settings \in Contents
        BY <1>2 DEF Build, Goto, ConfigOK, ConfigOf, Working
      <4> QED
        BY <4>1, Kinds
    <3> DEFINE build == [flag |-> Flag(msgs[p].settings.acc),
                         edition |-> msgs[p].settings.edition]
    <3>2. build \in Builds
      BY <3>1, FlagType DEF Builds
    <3>3. builds' = Append(builds, build)
      BY <1>2 DEF Build
    <3>4. builds \in Seq(Builds)
      BY DEF StartupTypeOK
    <3> HIDE DEF build
    <3> QED
      BY <3>2, <3>3, <3>4
  <2>2. 0 .. n \subseteq 0 .. n + 1
    BY <2>1
  <2>3. /\ pc' \in [Processes -> Steps]
        /\ made' = [made EXCEPT ![p] = n + 1]
        /\ UNCHANGED <<configVars, pos, length, data, engine, memory, disk,
                       starts, calls, faults, spoiled>>
    BY <1>2 DEF Build, Goto, StartupTypeOK, Steps, Working
  <2>4. /\ made' \in [Processes -> 0 .. n + 1]
        /\ engine' \in [Processes -> 0 .. n + 1]
    <3>1. /\ made \in [Processes -> 0 .. n] /\ engine \in [Processes -> 0 .. n]
          /\ n + 1 \in 0 .. n + 1
      BY <2>1 DEF StartupTypeOK
    <3> HIDE DEF n
    <3> QED
      BY <2>2, <2>3, <3>1
  <2>5. Seq(0 .. n) \subseteq Seq(0 .. n + 1)
    BY <2>2, SeqMonotonic
  <2>6. /\ data' \in [Processes -> Seq(0 .. n + 1)]
        /\ disk' \in [Homes -> [exists : BOOLEAN, pieces : Seq(0 .. n + 1)]]
    <3>1. /\ data \in [Processes -> Seq(0 .. n)]
          /\ disk \in [Homes -> [exists : BOOLEAN, pieces : Seq(0 .. n)]]
      BY DEF StartupTypeOK
    <3> HIDE DEF n
    <3> QED
      BY <2>3, <2>5, <3>1
  <2> QED
    BY <2>1, <2>3, <2>4, <2>6 DEF StartupTypeOK
<1>3. CASE BuildFails(p)
  <2>1. /\ Unready(p, "build")
        /\ UNCHANGED <<configVars, disk, builds, starts, calls, spoiled>>
        /\ faults' \in Nat
    BY <1>3 DEF BuildFails, Fault, StartupTypeOK
  <2> QED
    BY <2>1, UnreadyStep DEF StartupTypeOK
<1>4. CASE Create(p)
  <2>1. Home(p) \in Homes
    BY <1>4, HomeOK DEF Create, Goto
  <2>2. pc' \in [Processes -> Steps]
    BY <1>4 DEF Create, Goto, StartupTypeOK, Steps, Working
  <2>3. spoiled' \subseteq Homes
    BY <1>4, <2>1 DEF Create, StartupTypeOK
  <2>4. /\ disk' \in [Homes -> [exists : BOOLEAN, pieces : Seq(0 .. Len(builds))]]
        /\ \A h \in Homes : Len(disk'[h].pieces) <= Chunks
    <3>1. disk' = [disk EXCEPT ![Home(p)] = EmptyFile]
      BY <1>4 DEF Create
    <3>2. /\ EmptyFile \in [exists : BOOLEAN, pieces : Seq(0 .. Len(builds))]
          /\ Len(EmptyFile.pieces) = 0
      BY DEF EmptyFile
    <3>3. /\ disk \in [Homes -> [exists : BOOLEAN, pieces : Seq(0 .. Len(builds))]]
          /\ \A h \in Homes : Len(disk[h].pieces) <= Chunks
          /\ Chunks \in Nat
      BY Counts DEF StartupTypeOK
    <3>4. \A h \in Homes :
              disk'[h] = IF h = Home(p) THEN EmptyFile ELSE disk[h]
      BY ONLY <2>1, <3>1, <3>3
    <3>5. disk' \in [Homes -> [exists : BOOLEAN, pieces : Seq(0 .. Len(builds))]]
      BY ONLY <2>1, <3>1, <3>2, <3>3
    <3>6. ASSUME NEW h \in Homes PROVE Len(disk'[h].pieces) <= Chunks
      <4>1. CASE h = Home(p)
        BY ONLY <3>2, <3>3, <3>4, <4>1
      <4>2. CASE h # Home(p)
        BY ONLY <3>3, <3>4, <4>2
      <4> QED
        BY ONLY <4>1, <4>2
    <3> QED
      BY ONLY <3>5, <3>6
  <2>5. UNCHANGED <<configVars, made, pos, length, data, engine, memory, builds,
                    starts, calls, faults>>
    BY <1>4 DEF Create
  <2> QED
    BY <2>2, <2>3, <2>4, <2>5 DEF StartupTypeOK
<1>5. CASE CreateFails(p)
  <2>1. /\ Unready(p, "create")
        /\ UNCHANGED <<configVars, disk, builds, starts, calls, spoiled>>
        /\ faults' \in Nat
    BY <1>5 DEF CreateFails, Fault, StartupTypeOK
  <2> QED
    BY <2>1, UnreadyStep DEF StartupTypeOK
<1>6. CASE Write(p)
  <2> DEFINE h == Home(p)
             new == WriteAt(disk[h], pos[p] + 1, made[p])
  <2>1. h \in Homes /\ pos[p] < Chunks
    BY <1>6, HomeOK DEF Write
  <2>2. /\ disk' = [disk EXCEPT ![h] = new]
        /\ pos' = [pos EXCEPT ![p] = pos[p] + 1]
    BY <1>6 DEF Write
  <2>3. pos[p] + 1 \in 0 .. Chunks /\ pos' \in [Processes -> 0 .. Chunks]
    <3>1. pos \in [Processes -> 0 .. Chunks] /\ pos[p] \in 0 .. Chunks
      BY DEF StartupTypeOK
    <3>2. pos[p] + 1 \in 0 .. Chunks
      BY <2>1, <3>1, Counts
    <3> QED
      BY <2>2, <3>1, <3>2
  <2>4. /\ new \in [exists : BOOLEAN, pieces : Seq(0 .. Len(builds))]
        /\ Len(new.pieces) <= Chunks
    <3>1. /\ made[p] \in 0 .. Len(builds)
          /\ disk[h] \in [exists : BOOLEAN, pieces : Seq(0 .. Len(builds))]
          /\ Len(disk[h].pieces) <= Chunks
      <4> HIDE DEF h
      <4> QED
        BY <2>1 DEF StartupTypeOK
    <3>2. pos[p] + 1 \in 1 .. Chunks
      <4>1. pos[p] \in 0 .. Chunks
        BY DEF StartupTypeOK
      <4> QED
        BY <2>1, <4>1, Counts
    <3> DEFINE i == pos[p] + 1
               file == disk[h]
               len == Len(file.pieces)
               n == Len(builds)
               made_p == made[p]
               written == WriteAt(file, i, made_p)
    <3>3. /\ len \in Nat /\ n \in Nat /\ Chunks \in Nat /\ made_p \in 0 .. n
          /\ file \in Files
          /\ len <= Chunks /\ i \in 1 .. Chunks
      BY <3>1, <3>2, LenProperties, Counts DEF Files
    <3>4. /\ written \in Files
          /\ Len(written.pieces) = IF i > len THEN i ELSE len
      <4> HIDE DEF i, file, made_p
      <4> QED
        BY ONLY <3>3, WriteAtType
    <3>5. Len(written.pieces) <= Chunks
      <4> HIDE DEF i, len, written
      <4> QED
        BY <3>3, <3>4
    <3> QED
      BY <3>4, <3>5 DEF Files
  <2> HIDE DEF h, new
  <2>5. /\ disk' \in [Homes -> [exists : BOOLEAN, pieces : Seq(0 .. Len(builds))]]
        /\ \A g \in Homes : Len(disk'[g].pieces) <= Chunks
    BY <2>1, <2>2, <2>4 DEF StartupTypeOK
  <2>6. UNCHANGED <<configVars, pc, made, length, data, engine, memory, builds,
                    starts, calls, faults, spoiled>>
    BY <1>6 DEF Write
  <2> QED
    BY <2>3, <2>5, <2>6 DEF StartupTypeOK
<1>7. CASE WriteFails(p)
  <2>1. spoiled' \subseteq Homes
    BY <1>7, HomeOK DEF WriteFails, Unready, Goto, StartupTypeOK
  <2>2. /\ Unready(p, "save")
        /\ UNCHANGED <<configVars, disk, builds, starts, calls>>
        /\ faults' \in Nat
    BY <1>7 DEF WriteFails, Fault, StartupTypeOK
  <2> QED
    BY <2>1, <2>2, UnreadyStep
<1>8. CASE Close(p)
  <2>1. /\ Unready(p, "save")
        /\ UNCHANGED <<configVars, disk, builds, starts, calls, spoiled>>
        /\ faults' \in Nat
    BY <1>8 DEF Close, StartupTypeOK
  <2> QED
    BY <2>1, UnreadyStep DEF StartupTypeOK
<1> QED
  BY <1>1, <1>2, <1>3, <1>4, <1>5, <1>6, <1>7, <1>8 DEF Saving

LEMMA TypeLoading ==
    ASSUME StartupTypeOK, ConfigOK, NEW p \in Processes, Loading(p)
    PROVE  StartupTypeOK'
<1>1. CASE OpenDirectory(p)
  <2>1. CASE Gone(p)
    BY <1>1, <2>1, GoneType DEF OpenDirectory, StartupTypeOK
  <2>2. CASE ~Gone(p)
    BY <1>1, <2>2, UnreadyType DEF OpenDirectory, StartupTypeOK, Unready
  <2> QED
    BY <2>1, <2>2
<1>2. CASE Open(p)
  <2>1. Home(p) \in Homes
    BY <1>2, HomeOK DEF Open, Goto
  <2>2. Len(disk[Home(p)].pieces) \in 0 .. Chunks
    <3>1. /\ disk[Home(p)].pieces \in Seq(0 .. Len(builds))
          /\ Len(disk[Home(p)].pieces) <= Chunks
      BY <2>1 DEF StartupTypeOK
    <3>2. Len(disk[Home(p)].pieces) \in Nat
      BY <3>1
    <3> QED
      BY <3>1, <3>2, Counts
  <2>3. pc' \in [Processes -> Steps]
    BY <1>2 DEF Open, Goto, StartupTypeOK, Steps
  <2>4. length' \in [Processes -> 0 .. Chunks]
    BY <1>2, <2>2 DEF Open, StartupTypeOK
  <2> QED
    BY <1>2, <2>3, <2>4 DEF Open, StartupTypeOK
<1>3. CASE OpenEmpty(p)
  <2>1. /\ Unready(p, "open")
        /\ UNCHANGED <<configVars, disk, builds, starts, calls, spoiled>>
        /\ faults' \in Nat
    BY <1>3 DEF OpenEmpty, Fault, StartupTypeOK
  <2> QED
    BY <2>1, UnreadyStep DEF StartupTypeOK
<1>4. CASE Read(p)
  <2> DEFINE next == Len(data[p]) + 1
             file == disk[Home(p)].pieces
             piece == IF next <= Len(file) THEN file[next] ELSE 0
  <2>1. Home(p) \in Homes
    BY <1>4, HomeOK DEF Read
  <2>2. piece \in 0 .. Len(builds)
    <3>1. file \in Seq(0 .. Len(builds)) /\ next \in Nat \ {0}
      BY <2>1 DEF StartupTypeOK
    <3>2. CASE next <= Len(file)
      <4>1. next \in 1 .. Len(file)
        BY <3>1, <3>2
      <4>2. file[next] \in 0 .. Len(builds)
        <5> HIDE DEF next, file
        <5> QED
          BY <3>1, <4>1
      <4> QED
        BY <3>2, <4>2
    <3>3. CASE ~(next <= Len(file))
      BY <3>3, Counts
    <3> QED
      BY <3>2, <3>3
  <2>3. data' = [data EXCEPT ![p] = Append(data[p], piece)]
    BY <1>4 DEF Read
  <2> HIDE DEF piece
  <2>4. data' \in [Processes -> Seq(0 .. Len(builds))]
    BY <2>2, <2>3 DEF StartupTypeOK
  <2> QED
    BY <1>4, <2>4 DEF Read, StartupTypeOK
<1>5. CASE Parse(p)
  <2>1. data[p][1] \in 0 .. Len(builds)
    <3>1. data[p] \in Seq(0 .. Len(builds)) /\ Len(data[p]) = Chunks
      BY <1>5 DEF Parse, Whole, StartupTypeOK
    <3>2. 1 \in 1 .. Len(data[p])
      BY <3>1, Counts
    <3> QED
      BY <3>1, <3>2
  <2>2. pc' \in [Processes -> Steps]
    BY <1>5 DEF Parse, Goto, StartupTypeOK, Steps
  <2>3. engine' \in [Processes -> 0 .. Len(builds)]
    BY <1>5, <2>1 DEF Parse, StartupTypeOK
  <2>4. /\ length' \in [Processes -> 0 .. Chunks]
        /\ data' \in [Processes -> Seq(0 .. Len(builds))]
    <3>1. /\ length' = [length EXCEPT ![p] = 0]
          /\ data' = [data EXCEPT ![p] = <<>>]
      BY <1>5 DEF Parse
    <3>2. <<>> \in Seq(0 .. Len(builds))
      OBVIOUS
    <3> QED
      BY <3>1, <3>2, Counts DEF StartupTypeOK
  <2>5. UNCHANGED <<configVars, made, pos, disk, builds, starts, calls, faults,
                    spoiled>>
    BY <1>5 DEF Parse
  <2> QED
    BY <2>2, <2>3, <2>4, <2>5 DEF StartupTypeOK
<1>6. CASE ParseRejects(p)
  <2>1. /\ Unready(p, "read")
        /\ UNCHANGED <<configVars, disk, builds, starts, calls, spoiled>>
        /\ faults' \in Nat
    BY <1>6 DEF ParseRejects, StartupTypeOK
  <2> QED
    BY <2>1, UnreadyStep DEF StartupTypeOK
<1>7. CASE ParseFails(p)
  <2>1. /\ Unready(p, "read")
        /\ UNCHANGED <<configVars, disk, builds, starts, calls, spoiled>>
        /\ faults' \in Nat
    BY <1>7 DEF ParseFails, Fault, StartupTypeOK
  <2> QED
    BY <2>1, UnreadyStep DEF StartupTypeOK
<1>8. CASE MemAllocator(p)
  <2>1. UNCHANGED <<disk, builds, starts, calls, faults, spoiled>>
    BY <1>8 DEF MemAllocator
  <2>2. CASE Gone(p)
    BY <2>1, <2>2, GoneType DEF StartupTypeOK
  <2>3. CASE ~Gone(p)
    <3>1. /\ Goto(p, "bind", "idle")
          /\ UNCHANGED <<configVars, made, pos, length, data, engine>>
      BY <1>8, <2>3 DEF MemAllocator
    <3>2. pc' \in [Processes -> Steps]
      BY <3>1 DEF Goto, StartupTypeOK, Steps
    <3> QED
      BY <2>1, <3>1, <3>2 DEF StartupTypeOK
  <2> QED
    BY <2>2, <2>3
<1> QED
  BY <1>1, <1>2, <1>3, <1>4, <1>5, <1>6, <1>7, <1>8 DEF Loading

LEMMA TypeStep ==
    ASSUME StartupTypeOK, ConfigOK, [Next]_vars
    PROVE  StartupTypeOK'
<1>1. CASE EditConfig
  <2>1. PICK content \in Contents : Edit(content)
    BY <1>1 DEF EditConfig
  <2> QED
    BY <1>1, <2>1 DEF EditConfig, Edit, StartupTypeOK
<1>2. ASSUME NEW p \in Processes, Main(p) PROVE StartupTypeOK'
  BY <1>2, TypeMain
<1>3. ASSUME NEW p \in Processes, Initializing(p) PROVE StartupTypeOK'
  BY <1>3, TypeSaving, TypeLoading DEF Initializing
<1>4. CASE UNCHANGED vars
  BY <1>4 DEF StartupTypeOK
<1> QED
  BY <1>1, <1>2, <1>3, <1>4 DEF Next

-----------------------------------------------------------------------------
\* What a process keeps for itself is not touched by the actions of another.
Kept(q) ==
    /\ app'[q] = app[q] /\ msgs'[q] = msgs[q] /\ log'[q] = log[q]
    /\ renamed'[q] = renamed[q] /\ pc'[q] = pc[q] /\ made'[q] = made[q]
    /\ pos'[q] = pos[q] /\ engine'[q] = engine[q] /\ memory'[q] = memory[q]

MemoryOK ==
    /\ DOMAIN memory = Processes
    /\ \A p \in Processes :
          memory[p] = NoMemory \/ \E model \in Models : memory[p] = Allocated(model)

LEMMA GoneKeeps ==
    ASSUME StartupTypeOK, MemoryOK, NEW p \in Processes, Gone(p),
           NEW q \in Processes, q # p
    PROVE  Kept(q)
BY DEF Gone, ForgetConfig, Kept, StartupTypeOK, MemoryOK

LEMMA UnreadyKeeps ==
    ASSUME StartupTypeOK, MemoryOK, NEW p \in Processes, NEW from,
           Unready(p, from), UNCHANGED configVars, NEW q \in Processes, q # p
    PROVE  Kept(q)
BY DEF Unready, Goto, Kept, StartupTypeOK, MemoryOK

LEMMA OthersKept ==
    ASSUME StartupTypeOK, MemoryOK, NEW p \in Processes,
           Main(p) \/ Initializing(p), NEW q \in Processes, q # p
    PROVE  Kept(q)
<1>1. CASE Start(p)
  BY <1>1 DEF Start, Goto, Kept, StartupTypeOK
<1>2. CASE CallInit(p)
  <2>1. CASE Gone(p)
    BY <2>1, GoneKeeps
  <2>2. CASE ~Gone(p)
    BY <1>2, <2>2
       DEF CallInit, Goto, ReadParams, InitLogging, Kept, StartupTypeOK, MemoryOK
  <2> QED
    BY <2>1, <2>2
<1>3. CASE Crash(p)
  BY <1>3, GoneKeeps DEF Crash
<1>4. ASSUME NEW h \in Homes, CallInitConfig(p, h) PROVE Kept(q)
  <2>1. CASE Gone(p)
    BY <2>1, GoneKeeps
  <2>2. CASE ~Gone(p)
    BY <1>4, <2>2 DEF CallInitConfig, InitConfig, Kept, StartupTypeOK
  <2> QED
    BY <2>1, <2>2
<1>5. CASE Look(p) \/ Build(p) \/ Create(p)
  BY <1>5 DEF Look, Build, Create, Goto, Kept, StartupTypeOK
<1>6. CASE Write(p)
  BY <1>6 DEF Write, Kept, StartupTypeOK
<1>7. CASE BuildFails(p) \/ CreateFails(p) \/ WriteFails(p) \/ Close(p)
  <2>1. PICK from \in {"build", "create", "save"} : Unready(p, from)
    BY <1>7 DEF BuildFails, CreateFails, WriteFails, Close
  <2>2. UNCHANGED configVars
    BY <1>7 DEF BuildFails, CreateFails, WriteFails, Close
  <2> QED
    BY <2>1, <2>2, UnreadyKeeps
<1>8. CASE Open(p) \/ Read(p) \/ Parse(p)
  BY <1>8 DEF Open, Read, Parse, Goto, Kept, StartupTypeOK
<1>9. CASE OpenEmpty(p) \/ ParseRejects(p) \/ ParseFails(p)
  <2>1. PICK from \in {"open", "read"} : Unready(p, from)
    BY <1>9 DEF OpenEmpty, ParseRejects, ParseFails
  <2>2. UNCHANGED configVars
    BY <1>9 DEF OpenEmpty, ParseRejects, ParseFails
  <2> QED
    BY <2>1, <2>2, UnreadyKeeps
<1>10. CASE OpenDirectory(p)
  <2>1. CASE Gone(p)
    BY <2>1, GoneKeeps
  <2>2. CASE ~Gone(p)
    BY <1>10, <2>2, UnreadyKeeps DEF OpenDirectory
  <2> QED
    BY <2>1, <2>2
<1>11. CASE MemAllocator(p)
  <2>1. CASE Gone(p)
    BY <2>1, GoneKeeps
  <2>2. CASE ~Gone(p)
    BY <1>11, <2>2 DEF MemAllocator, Goto, Kept, StartupTypeOK, MemoryOK
  <2> QED
    BY <2>1, <2>2
<1> QED
  BY <1>1, <1>2, <1>3, <1>4, <1>5, <1>6, <1>7, <1>8, <1>9, <1>10, <1>11
     DEF Main, Initializing, Saving, Loading

-----------------------------------------------------------------------------
LEMMA GoneConfig ==
    ASSUME StartupTypeOK, NEW p \in Processes, Gone(p)
    PROVE  ConfigOf(p)'
BY DEF Gone, ForgetConfig, ConfigOf, StartupTypeOK, Nothing, Working

LEMMA UnreadyConfig ==
    ASSUME StartupTypeOK, ConfigOK, NEW p \in Processes, NEW from,
           Unready(p, from), UNCHANGED configVars
    PROVE  ConfigOf(p)'
BY DEF Unready, Goto, ConfigOK, ConfigOf, StartupTypeOK, Working, IsDirectory

LEMMA InstanceIs ==
    ASSUME ConfigOK, NEW p \in Processes
    PROVE  HasInstance(p) <=> app[p] # Nothing
BY Kinds DEF ConfigOK, ConfigOf, HasInstance, Nothing

LEMMA ConfigStep ==
    ASSUME StartupTypeOK, ConfigOK, MemoryOK, NEW p \in Processes,
           Main(p) \/ Initializing(p)
    PROVE  ConfigOK'
<1>1. ASSUME NEW q \in Processes, q # p PROVE ConfigOf(q)'
  <2>1. Kept(q) /\ ConfigOf(q)
    BY <1>1, OthersKept DEF ConfigOK
  <2> QED
    BY <2>1 DEF Kept, ConfigOf, IsDirectory
<1>2. ConfigOf(p)'
  <2>0. ConfigOf(p)
    BY DEF ConfigOK
  <2>1. CASE Start(p)
    BY <2>0, <2>1 DEF Start, Goto, ConfigOf, StartupTypeOK, Working, IsDirectory
  <2>2. CASE CallInit(p)
    <3>1. CASE Gone(p)
      BY <3>1, GoneConfig
    <3>2. CASE ~Gone(p)
      <4>1. /\ pc' = [pc EXCEPT ![p] = "look"] /\ HasInstance(p)
            /\ msgs' = [msgs EXCEPT ![p] = app[p]] /\ app' = app
            /\ engine' = [engine EXCEPT ![p] = 0] /\ made' = made
        BY <2>2, <3>2 DEF CallInit, Goto, ReadParams, InitLogging
      <4>2. app[p] # Nothing
        BY <4>1, InstanceIs
      <4> QED
        BY <2>0, <4>1, <4>2 DEF ConfigOf, StartupTypeOK, Working
    <3> QED
      BY <3>1, <3>2
  <2>3. CASE Crash(p)
    BY <2>3, GoneConfig DEF Crash
  <2>4. ASSUME NEW h \in Homes, CallInitConfig(p, h) PROVE ConfigOf(p)'
    <3>1. CASE Gone(p)
      BY <3>1, GoneConfig
    <3>2. CASE ~Gone(p)
      <4>1. /\ pc[p] = "idle"
            /\ HasInstance(p) \/ ~Fatal(config)
            /\ app' = [app EXCEPT ![p] =
                          [home |-> h,
                           settings |-> IF HasInstance(p) THEN app[p].settings
                                        ELSE config]]
            /\ UNCHANGED <<msgs, pc, made, engine>>
        BY <2>4, <3>2 DEF CallInitConfig, InitConfig
      <4>2. app'[p] = [home |-> h,
                       settings |-> IF HasInstance(p) THEN app[p].settings
                                    ELSE config]
        BY <4>1 DEF StartupTypeOK
      <4>3. CASE HasInstance(p)
        <5>1. app[p] # Nothing /\ app'[p].settings = app[p].settings
              /\ app'[p].home = h
          BY <4>2, <4>3, InstanceIs
        <5>2. app'[p] # Nothing
          BY <5>1, ConfigAssumption DEF Nothing
        <5> QED
          BY <2>0, <4>1, <5>1, <5>2 DEF ConfigOf, Working, IsDirectory
      <4>4. CASE ~HasInstance(p)
        <5>1. app[p] = Nothing /\ app'[p].settings = config /\ app'[p].home = h
              /\ ~Fatal(config) /\ config \in Contents
          BY <4>1, <4>2, <4>4, InstanceIs DEF StartupTypeOK
        <5>2. msgs[p] = Nothing
          BY <2>0, <5>1 DEF ConfigOf
        <5> QED
          BY <2>0, <4>1, <5>1, <5>2 DEF ConfigOf, Working, IsDirectory
      <4> QED
        BY <4>3, <4>4
    <3> QED
      BY <3>1, <3>2
  <2>5. CASE Look(p)
    BY <2>0, <2>5 DEF Look, Goto, ConfigOf, StartupTypeOK, Working, IsDirectory,
                      isFileExists_stat
  <2>6. CASE Build(p)
    <3>1. /\ pc[p] = "build" /\ pc' = [pc EXCEPT ![p] = "create"]
          /\ made' = [made EXCEPT ![p] = Len(builds) + 1]
          /\ UNCHANGED <<app, msgs, engine>>
      BY <2>6 DEF Build, Goto
    <3>2. made'[p] # 0
      BY <3>1, Counts DEF StartupTypeOK
    <3> QED
      BY <2>0, <3>1, <3>2 DEF ConfigOf, StartupTypeOK, Working, IsDirectory
  <2>7. CASE Create(p) \/ Write(p)
    BY <2>0, <2>7
       DEF Create, Write, Goto, ConfigOf, StartupTypeOK, Working, IsDirectory
  <2>8. CASE BuildFails(p) \/ CreateFails(p) \/ WriteFails(p) \/ Close(p)
    <3>1. PICK from \in {"build", "create", "save"} : Unready(p, from)
      BY <2>8 DEF BuildFails, CreateFails, WriteFails, Close
    <3>2. UNCHANGED configVars
      BY <2>8 DEF BuildFails, CreateFails, WriteFails, Close
    <3> QED
      BY <3>1, <3>2, UnreadyConfig
  <2>9. CASE Open(p) \/ Read(p) \/ Parse(p)
    BY <2>0, <2>9
       DEF Open, Read, Parse, Goto, ConfigOf, StartupTypeOK, Working, IsDirectory
  <2>10. CASE OpenEmpty(p) \/ ParseRejects(p) \/ ParseFails(p)
    <3>1. PICK from \in {"open", "read"} : Unready(p, from)
      BY <2>10 DEF OpenEmpty, ParseRejects, ParseFails
    <3>2. UNCHANGED configVars
      BY <2>10 DEF OpenEmpty, ParseRejects, ParseFails
    <3> QED
      BY <3>1, <3>2, UnreadyConfig
  <2>11. CASE OpenDirectory(p)
    <3>1. CASE Gone(p)
      BY <3>1, GoneConfig
    <3>2. CASE ~Gone(p)
      BY <2>11, <3>2, UnreadyConfig DEF OpenDirectory
    <3> QED
      BY <3>1, <3>2
  <2>12. CASE MemAllocator(p)
    <3>1. CASE Gone(p)
      BY <3>1, GoneConfig
    <3>2. CASE ~Gone(p)
      BY <2>0, <2>12, <3>2
         DEF MemAllocator, Goto, ConfigOf, StartupTypeOK, Working, IsDirectory
    <3> QED
      BY <3>1, <3>2
  <2> QED
    BY <2>1, <2>2, <2>3, <2>4, <2>5, <2>6, <2>7, <2>8, <2>9, <2>10, <2>11, <2>12
       DEF Main, Initializing, Saving, Loading
<1> QED
  BY <1>1, <1>2 DEF ConfigOK

-----------------------------------------------------------------------------
LEMMA MemoryStep ==
    ASSUME MemoryOK, StartupTypeOK, NEW p \in Processes,
           Main(p) \/ Initializing(p)
    PROVE  MemoryOK'
<1>1. CASE UNCHANGED memory
  BY <1>1 DEF MemoryOK
<1>2. CASE memory' = [memory EXCEPT ![p] = NoMemory]
  BY <1>2 DEF MemoryOK
<1>3. ASSUME NEW model \in Models,
             memory' = [memory EXCEPT ![p] = Allocated(model)]
      PROVE  MemoryOK'
  BY <1>3 DEF MemoryOK
<1>4. CASE Main(p)
  BY <1>1, <1>2, <1>4
     DEF Main, Start, CallInit, Crash, CallInitConfig, Gone
<1>5. CASE Initializing(p)
  BY <1>1, <1>2, <1>3, <1>5
     DEF Initializing, Look, Saving, Build, BuildFails, Create, CreateFails,
         Write, WriteFails, Close, Loading, OpenDirectory, Open, OpenEmpty,
         Read, Parse, ParseRejects, ParseFails, MemAllocator, Unready, Gone
<1> QED
  BY <1>4, <1>5

Basics == StartupTypeOK /\ ConfigOK /\ MemoryOK

LEMMA BasicsInit == Init => Basics
<1> SUFFICES ASSUME Init PROVE Basics
  OBVIOUS
<1>1. ConfigOK
  BY DEF Init, ConfigStart, ConfigOK, ConfigOf, Working
<1>2. MemoryOK
  BY DEF Init, MemoryOK
<1> QED
  BY <1>1, <1>2, TypeInit DEF Basics

LEMMA EditKeeps ==
    ASSUME EditConfig \/ UNCHANGED vars
    PROVE  /\ UNCHANGED <<app, msgs, log, renamed>>
           /\ UNCHANGED <<localVars, disk, builds, spoiled>>
BY DEF EditConfig, Edit

LEMMA BasicsStep == Basics /\ [Next]_vars => Basics'
<1> SUFFICES ASSUME Basics, [Next]_vars PROVE Basics'
  OBVIOUS
<1>1. StartupTypeOK'
  BY TypeStep DEF Basics
<1>2. CASE EditConfig \/ UNCHANGED vars
  <2>1. ConfigOK'
    BY <1>2, EditKeeps DEF Basics, ConfigOK, ConfigOf, IsDirectory
  <2>2. MemoryOK'
    BY <1>2, EditKeeps DEF Basics, MemoryOK
  <2> QED
    BY <1>1, <2>1, <2>2 DEF Basics
<1>3. ASSUME NEW p \in Processes, Main(p) \/ Initializing(p) PROVE Basics'
  BY <1>1, <1>3, ConfigStep, MemoryStep DEF Basics
<1> QED
  BY <1>2, <1>3 DEF Next

LEMMA BasicsHold == Spec => []Basics
BY BasicsInit, BasicsStep, PTL DEF Spec

\* Every variable keeps its type: a file has no more pieces than were written,
\* a process reads no more than it found, and builds are those that were made.
THEOREM TypeCorrect == Spec => []StartupTypeOK
BY BasicsHold, PTL DEF Basics

-----------------------------------------------------------------------------
LEMMA SingletonNth ==
    ASSUME NEW i \in Nat
    PROVE  Cardinality({i}) = 1 /\ Nth({i}, 1) = i
<1>1. Cardinality({i}) = 1
  BY FS_Singleton
<1>2. {j \in {i} : j <= i} = {i}
  OBVIOUS
<1> QED
  BY <1>1, <1>2 DEF Nth

LEMMA BuffersOf ==
    ASSUME NEW model \in Seq([input : BOOLEAN, size : Nat]),
           Inputs(model) = {1}, Outputs(model) = {2}
    PROVE  /\ \A i \in 1 .. 2 : GpuBuffers(model)[i] = model[i].size
           /\ Len(GpuBuffers(model)) = 2
           /\ CpuBuffers(model) = <<model[2].size>>
<1>1. Len(model) = 2
  <2> DEFINE n == Len(model)
  <2>1. n \in Nat /\ 1 .. n = {1, 2}
    BY DEF Inputs, Outputs
  <2> HIDE DEF n
  <2>2. 2 \in 1 .. n
    BY <2>1
  <2>3. n \in 1 .. n
    BY <2>1, <2>2
  <2>4. n \in {1, 2} /\ 2 <= n
    BY <2>1, <2>2, <2>3
  <2>5. n = 2
    BY <2>4
  <2> QED
    BY <2>5 DEF n
<1>2. /\ Cardinality({1}) = 1 /\ Nth({1}, 1) = 1
      /\ Cardinality({2}) = 1 /\ Nth({2}, 1) = 2
  BY SingletonNth
<1>3. GpuBuffers(model) =
          [i \in 1 .. 2 |-> IF i <= 1 THEN model[Nth({1}, i)].size
                            ELSE model[Nth({2}, i - 1)].size]
  BY <1>1, <1>2 DEF GpuBuffers
<1>4. CpuBuffers(model) = [i \in 1 .. 1 |-> model[Nth({2}, i)].size]
  BY <1>2 DEF CpuBuffers
<1>5. \A i \in 1 .. 2 : GpuBuffers(model)[i] = model[i].size
  <2>1. GpuBuffers(model)[1] = model[1].size
    BY <1>2, <1>3
  <2>2. GpuBuffers(model)[2] = model[2].size
    BY <1>2, <1>3
  <2> QED
    BY <2>1, <2>2
<1>6. Len(GpuBuffers(model)) = 2
  BY <1>3
<1>7. CpuBuffers(model) = <<model[2].size>>
  BY <1>2, <1>4
<1> QED
  BY <1>5, <1>6, <1>7

\* For every engine of one input and one output, in that order, the buffers of
\* MemAllocator are those that Inference looks up, and the arrays hold them.
THEOREM BuffersOfBindings == Spec => []BuffersFit
<1>1. Basics => BuffersFit
  <2> SUFFICES ASSUME Basics, NEW p \in Processes,
                      Inputs(memory[p].model) = {1},
                      Outputs(memory[p].model) = {2}
               PROVE  /\ \A i \in 1 .. 2 :
                             memory[p].gpu[i] = memory[p].model[i].size
                      /\ memory[p].cpu = <<memory[p].model[2].size>>
                      /\ ~Overruns(memory[p])
    BY DEF BuffersFit
  <2>1. memory[p] # NoMemory
    <3>1. Inputs(NoMemory.model) = {}
      BY DEF NoMemory, Inputs
    <3> QED
      BY <3>1
  <2>2. PICK model \in Models : memory[p] = Allocated(model)
    BY <2>1 DEF Basics, MemoryOK
  <2>3. /\ memory[p].model = model /\ memory[p].gpu = GpuBuffers(model)
        /\ memory[p].cpu = CpuBuffers(model)
    BY <2>2 DEF Allocated
  <2>4. model \in Seq([input : BOOLEAN, size : Nat])
    BY StartupAssumption
  <2>5. /\ \A i \in 1 .. 2 : GpuBuffers(model)[i] = model[i].size
        /\ Len(GpuBuffers(model)) = 2
        /\ CpuBuffers(model) = <<model[2].size>>
    BY <2>3, <2>4, BuffersOf
  <2>6. ~Overruns(memory[p])
    BY <2>3, <2>5 DEF Overruns
  <2> QED
    BY <2>3, <2>5, <2>6
<1> QED
  BY <1>1, BasicsHold, PTL

-----------------------------------------------------------------------------
\* As long as a home is not spoiled one process writes there at a time, and
\* what the file holds is what that one has written.
SoleWriter(h) ==
    /\ \A p, q \in Savers(h) : p = q
    /\ \A p \in Savers(h) :
          /\ disk[h].exists /\ Len(disk[h].pieces) = pos[p]
          /\ \A k \in 1 .. pos[p] : disk[h].pieces[k] = made[p]
    /\ disk[h].exists /\ Savers(h) = {} => Whole(disk[h].pieces)

SaveOK ==
    /\ \A p \in Processes : pc[p] # "save" => pos[p] = 0
    /\ \A h \in Homes \ spoiled : SoleWriter(h)

LEMMA SaveInit == Init => SaveOK
<1> SUFFICES ASSUME Init PROVE SaveOK
  OBVIOUS
<1>1. \A h \in Homes : Savers(h) = {} /\ ~disk[h].exists
  BY DEF Init, Savers, NoFile
<1>2. \A p \in Processes : pos[p] = 0
  BY DEF Init
<1> QED
  BY <1>1, <1>2 DEF SaveOK, SoleWriter

\* The file of a home is as it was, and so is who is writing there.
LEMMA Elsewhere ==
    ASSUME Basics, SaveOK, NEW p \in Processes, Main(p) \/ Initializing(p),
           NEW h \in Homes \ spoiled, p \notin Savers(h), p \notin Savers(h)',
           disk'[h] = disk[h]
    PROVE  SoleWriter(h)'
<1>1. \A q \in Processes : q # p => Kept(q)
  BY OthersKept DEF Basics
<1>2. Savers(h)' = Savers(h)
  BY <1>1 DEF Savers, Home, Kept
<1>3. \A q \in Savers(h) : q # p /\ q \in Processes
  BY DEF Savers
<1> QED
  BY <1>1, <1>2, <1>3 DEF SaveOK, SoleWriter, Kept

\* A process that is not writing, before and after.
LEMMA NotWriting ==
    ASSUME Basics, SaveOK, NEW p \in Processes, Main(p) \/ Initializing(p),
           pc[p] # "save", pc'[p] # "save", pos'[p] = 0, UNCHANGED disk,
           spoiled \subseteq spoiled'
    PROVE  SaveOK'
<1>1. \A q \in Processes : q # p => Kept(q)
  BY OthersKept DEF Basics
<1>2. \A q \in Processes : pc'[q] # "save" => pos'[q] = 0
  BY <1>1 DEF Kept, SaveOK
<1>3. ASSUME NEW h \in Homes \ spoiled PROVE SoleWriter(h)'
  BY Elsewhere DEF Savers
<1> QED
  BY <1>2, <1>3 DEF SaveOK

\* One that is writing and stops.
LEMMA StopsWriting ==
    ASSUME Basics, SaveOK, NEW p \in Processes, Main(p) \/ Initializing(p),
           pc[p] = "save", pc'[p] # "save", pos'[p] = 0, UNCHANGED disk,
           \/ spoiled' = spoiled \cup {Home(p)}
           \/ pos[p] = Chunks /\ UNCHANGED <<spoiled, msgs>>
    PROVE  SaveOK'
<1>1. \A q \in Processes : q # p => Kept(q)
  BY OthersKept DEF Basics
<1>2. \A q \in Processes : pc'[q] # "save" => pos'[q] = 0
  BY <1>1 DEF Kept, SaveOK
<1>3. ASSUME NEW h \in Homes \ spoiled', h # Home(p) PROVE SoleWriter(h)'
  BY <1>3, Elsewhere DEF Savers
<1>4. ASSUME NEW h \in Homes \ spoiled', h = Home(p) PROVE SoleWriter(h)'
  <2>1. pos[p] = Chunks /\ UNCHANGED <<spoiled, msgs>>
    BY <1>4
  <2>2. p \in Savers(h) /\ h \in Homes \ spoiled
    BY <1>4, <2>1 DEF Savers
  <2>3. \A q \in Savers(h) : q = p
    BY <2>2 DEF SaveOK, SoleWriter
  <2>4. Savers(h)' = {}
    BY <1>1, <2>1, <2>3 DEF Savers, Home, Kept
  <2>5. /\ Len(disk[h].pieces) = Chunks
        /\ \A k \in 1 .. Chunks : disk[h].pieces[k] = made[p]
    BY <2>1, <2>2 DEF SaveOK, SoleWriter
  <2>6. made[p] # 0
    BY DEF Basics, ConfigOK, ConfigOf
  <2>7. Whole(disk[h].pieces)
    BY <2>5, <2>6, StartupAssumption DEF Whole
  <2> QED
    BY <2>4, <2>7 DEF SoleWriter
<1>5. spoiled \subseteq spoiled'
  OBVIOUS
<1> QED
  BY <1>2, <1>3, <1>4, <1>5 DEF SaveOK

LEMMA CreateSaves ==
    ASSUME Basics, SaveOK, NEW p \in Processes, Create(p)
    PROVE  SaveOK'
<1>1. \A q \in Processes : q # p => Kept(q)
  BY OthersKept DEF Basics, Initializing, Saving
<1>2. /\ pc[p] = "create" /\ pc' = [pc EXCEPT ![p] = "save"]
      /\ disk' = [disk EXCEPT ![Home(p)] = EmptyFile]
      /\ spoiled' = IF Savers(Home(p)) = {} THEN spoiled
                    ELSE spoiled \cup {Home(p)}
      /\ UNCHANGED <<made, pos, msgs>>
  BY DEF Create, Goto
<1>3. pos[p] = 0 /\ pc'[p] = "save" /\ p \notin Savers(Home(p))
  BY <1>2 DEF SaveOK, Basics, StartupTypeOK, Savers
<1>4. \A q \in Processes : pc'[q] # "save" => pos'[q] = 0
  BY <1>1, <1>3 DEF Kept, SaveOK
<1>5. ASSUME NEW h \in Homes \ spoiled', h # Home(p) PROVE SoleWriter(h)'
  <2>1. disk'[h] = disk[h]
    BY <1>2, <1>5 DEF Basics, StartupTypeOK
  <2>2. p \notin Savers(h) /\ p \notin Savers(h)' /\ h \in Homes \ spoiled
    BY <1>2, <1>5 DEF Savers, Home
  <2> QED
    BY <2>1, <2>2, Elsewhere DEF Initializing, Saving
<1>6. ASSUME NEW h \in Homes \ spoiled', h = Home(p) PROVE SoleWriter(h)'
  <2>1. Savers(h) = {} /\ disk'[h] = EmptyFile
    BY <1>2, <1>6 DEF Basics, StartupTypeOK
  <2>2. Savers(h)' = {p}
    BY <1>1, <1>2, <1>3, <1>6, <2>1 DEF Savers, Home, Kept
  <2>3. pos'[p] = 0
    BY <1>2, <1>3
  <2> QED
    BY <2>1, <2>2, <2>3 DEF SoleWriter, EmptyFile
<1> QED
  BY <1>4, <1>5, <1>6 DEF SaveOK

LEMMA WriteSaves ==
    ASSUME Basics, SaveOK, NEW p \in Processes, Write(p)
    PROVE  SaveOK'
<1>1. \A q \in Processes : q # p => Kept(q)
  BY OthersKept DEF Basics, Initializing, Saving
<1>2. /\ pc[p] = "save" /\ pos[p] < Chunks
      /\ pos' = [pos EXCEPT ![p] = pos[p] + 1]
      /\ disk' = [disk EXCEPT ![Home(p)] =
                      WriteAt(disk[Home(p)], pos[p] + 1, made[p])]
      /\ UNCHANGED <<spoiled, pc, made, msgs>>
  BY DEF Write
<1>3. \A q \in Processes : pc'[q] # "save" => pos'[q] = 0
  BY <1>1, <1>2 DEF Kept, SaveOK
<1>4. ASSUME NEW h \in Homes \ spoiled', h # Home(p) PROVE SoleWriter(h)'
  <2>1. disk'[h] = disk[h]
    BY <1>2, <1>4 DEF Basics, StartupTypeOK
  <2>2. p \notin Savers(h) /\ p \notin Savers(h)' /\ h \in Homes \ spoiled
    BY <1>2, <1>4 DEF Savers, Home
  <2> QED
    BY <2>1, <2>2, Elsewhere DEF Initializing, Saving
<1>5. ASSUME NEW h \in Homes \ spoiled', h = Home(p) PROVE SoleWriter(h)'
  <2> DEFINE file == disk[h]
             i == pos[p] + 1
             b == made[p]
             n == Len(builds)
             new == WriteAt(file, i, b)
  <2>1. p \in Savers(h) /\ h \in Homes \ spoiled /\ h \in Homes
    BY <1>2, <1>5 DEF Savers
  <2>2. \A q \in Savers(h) : q = p
    BY <2>1 DEF SaveOK, SoleWriter
  <2>3. /\ file.exists /\ Len(file.pieces) = pos[p]
        /\ \A k \in 1 .. pos[p] : file.pieces[k] = b
    BY <2>1 DEF SaveOK, SoleWriter
  <2>4. Savers(h)' = Savers(h)
    BY <1>2 DEF Savers, Home
  <2>5. /\ n \in Nat /\ Chunks \in Nat /\ pos[p] \in Nat /\ b \in 0 .. n
        /\ file \in [exists : BOOLEAN, pieces : Seq(0 .. n)]
        /\ Len(file.pieces) <= Chunks /\ pos'[p] = i
    BY <1>2, <2>1, Counts DEF Basics, StartupTypeOK
  <2>6. i \in 1 .. Chunks /\ i = pos[p] + 1
    BY <1>2, <2>5
  <2>7. disk'[h] = new
    BY <1>2, <1>5, <2>1 DEF Basics, StartupTypeOK
  <2>8. /\ new.exists = file.exists
        /\ Len(new.pieces)
               = IF i > Len(file.pieces) THEN i ELSE Len(file.pieces)
        /\ new.pieces[i] = b
        /\ \A k \in 1 .. Len(file.pieces) : k # i =>
               new.pieces[k] = file.pieces[k]
    <3>1. /\ n \in Nat /\ Chunks \in Nat /\ b \in 0 .. n
          /\ file \in Files
          /\ Len(file.pieces) <= Chunks /\ i \in 1 .. Chunks
      BY <2>5, <2>6 DEF Files
    <3> HIDE DEF i, file, b
    <3>2. new.exists = file.exists
      BY ONLY <3>1, WriteAtType
    <3>3. Len(new.pieces) = IF i > Len(file.pieces) THEN i ELSE Len(file.pieces)
      BY ONLY <3>1, WriteAtType
    <3>4. new.pieces[i] = b
      BY ONLY <3>1, WriteAtType
    <3>5. \A k \in 1 .. Len(file.pieces) : k # i =>
             new.pieces[k] = file.pieces[k]
      BY ONLY <3>1, WriteAtType
    <3> QED
      BY ONLY <3>2, <3>3, <3>4, <3>5
  <2> HIDE DEF i, file, n, b, new
  <2>9. new.exists /\ Len(new.pieces) = i
    BY <2>3, <2>5, <2>6, <2>8
  <2>10. \A k \in 1 .. i : new.pieces[k] = b
    <3> SUFFICES ASSUME NEW k \in 1 .. i PROVE new.pieces[k] = b
      OBVIOUS
    <3>1. i \in Nat /\ Len(file.pieces) = i - 1 /\ pos[p] = i - 1
      BY <2>3, <2>5, <2>6
    <3>2. CASE k = i
      BY <2>8, <3>2
    <3>3. CASE k # i
      <4>1. k \in 1 .. i - 1
        BY <3>1, <3>3
      <4>2. new.pieces[k] = file.pieces[k]
        BY <2>8, <3>1, <3>3, <4>1
      <4>3. file.pieces[k] = b
        BY <2>3, <3>1, <4>1
      <4> QED
        BY <4>2, <4>3
    <3> QED
      BY <3>2, <3>3
  <2>11. made'[p] = b /\ pos'[p] = i
    BY <1>2, <2>5 DEF b
  <2> QED
    BY <2>1, <2>2, <2>4, <2>7, <2>9, <2>10, <2>11 DEF SoleWriter
<1> QED
  BY <1>2, <1>3, <1>4, <1>5 DEF SaveOK

LEMMA GoneIs ==
    ASSUME StartupTypeOK, NEW p \in Processes, Gone(p)
    PROVE  pc'[p] = "off" /\ pos'[p] = 0
BY DEF Gone, StartupTypeOK

LEMMA UnreadyIs ==
    ASSUME StartupTypeOK, NEW p \in Processes, NEW from, Unready(p, from)
    PROVE  pc[p] = from /\ pc'[p] = "idle" /\ pos'[p] = 0
BY DEF Unready, Goto, StartupTypeOK

LEMMA SaveStep == Basics /\ SaveOK /\ [Next]_vars => SaveOK'
<1> SUFFICES ASSUME Basics, SaveOK, [Next]_vars PROVE SaveOK'
  OBVIOUS
<1>1. CASE EditConfig \/ UNCHANGED vars
  BY <1>1, EditKeeps DEF SaveOK, SoleWriter, Savers, Home
<1>2. ASSUME NEW p \in Processes, Main(p) \/ Initializing(p) PROVE SaveOK'
  <2>0. StartupTypeOK /\ pc \in [Processes -> Steps]
        /\ (pc[p] # "save" => pos[p] = 0)
    BY DEF Basics, StartupTypeOK, SaveOK
  <2>1. CASE Create(p) \/ Write(p)
    BY <2>1, CreateSaves, WriteSaves
  <2>2. CASE \/ Start(p) \/ Look(p) \/ Build(p) \/ Open(p) \/ Read(p)
             \/ Parse(p)
    <3>1. /\ pc[p] # "save" /\ pc'[p] # "save" /\ pos'[p] = 0
          /\ UNCHANGED <<disk, spoiled>>
      BY <2>0, <2>2 DEF Start, Look, Build, Open, Read, Parse, Goto
    <3> QED
      BY <1>2, <3>1, NotWriting
  <2>3. CASE CallInit(p) \/ \E h \in Homes : CallInitConfig(p, h)
    <3>1. pc[p] = "idle" /\ UNCHANGED <<disk, spoiled>>
      BY <2>3 DEF CallInit, CallInitConfig
    <3>2. pc'[p] # "save" /\ pos'[p] = 0
      <4>1. CASE Gone(p)
        BY <4>1, <2>0, GoneIs
      <4>2. CASE ~Gone(p)
        BY <2>0, <2>3, <4>2, <3>1 DEF CallInit, CallInitConfig, Goto
      <4> QED
        BY <4>1, <4>2
    <3> QED
      BY <1>2, <3>1, <3>2, NotWriting
  <2>4. CASE Crash(p)
    <3>1. /\ pc'[p] = "off" /\ pos'[p] = 0 /\ UNCHANGED disk
          /\ spoiled' = IF pc[p] = "save" THEN spoiled \cup {Home(p)}
                        ELSE spoiled
      BY <2>0, <2>4, GoneIs DEF Crash
    <3>2. CASE pc[p] = "save"
      BY <1>2, <3>1, <3>2, StopsWriting
    <3>3. CASE pc[p] # "save"
      BY <1>2, <3>1, <3>3, NotWriting
    <3> QED
      BY <3>2, <3>3
  <2>5. CASE WriteFails(p) \/ Close(p)
    <3>1. /\ pc[p] = "save" /\ pc'[p] = "idle" /\ pos'[p] = 0
      BY <2>0, <2>5, UnreadyIs DEF WriteFails, Close
    <3>2. /\ UNCHANGED <<disk, msgs>>
          /\ \/ spoiled' = spoiled \cup {Home(p)}
             \/ pos[p] = Chunks /\ UNCHANGED spoiled
      BY <2>5 DEF WriteFails, Close
    <3> QED
      BY <1>2, <3>1, <3>2, StopsWriting
  <2>6. CASE \/ BuildFails(p) \/ CreateFails(p) \/ OpenEmpty(p)
             \/ ParseRejects(p) \/ ParseFails(p)
    <3>1. PICK from \in {"build", "create", "open", "read"} : Unready(p, from)
      BY <2>6 DEF BuildFails, CreateFails, OpenEmpty, ParseRejects, ParseFails
    <3>2. pc[p] # "save" /\ pc'[p] # "save" /\ pos'[p] = 0
      BY <2>0, <3>1, UnreadyIs
    <3>3. UNCHANGED <<disk, spoiled>>
      BY <2>6 DEF BuildFails, CreateFails, OpenEmpty, ParseRejects, ParseFails
    <3> QED
      BY <1>2, <3>2, <3>3, NotWriting
  <2>7. CASE OpenDirectory(p)
    <3>1. pc[p] = "open" /\ UNCHANGED <<disk, spoiled>>
      BY <2>7 DEF OpenDirectory
    <3>2. pc'[p] # "save" /\ pos'[p] = 0
      BY <2>0, <2>7, GoneIs, UnreadyIs DEF OpenDirectory
    <3> QED
      BY <1>2, <3>1, <3>2, NotWriting
  <2>8. CASE MemAllocator(p)
    <3>1. pc[p] = "bind" /\ UNCHANGED <<disk, spoiled>>
      BY <2>8 DEF MemAllocator
    <3>2. pc'[p] # "save" /\ pos'[p] = 0
      <4>1. CASE Gone(p)
        BY <4>1, <2>0, GoneIs
      <4>2. CASE ~Gone(p)
        BY <2>0, <2>8, <4>2, <3>1 DEF MemAllocator, Goto
      <4> QED
        BY <4>1, <4>2
    <3> QED
      BY <1>2, <3>1, <3>2, NotWriting
  <2> QED
    BY <1>2, <2>1, <2>2, <2>3, <2>4, <2>5, <2>6, <2>7, <2>8
       DEF Main, Initializing, Saving, Loading
<1> QED
  BY <1>1, <1>2 DEF Next

\* For any number of processes and pieces: an engine file that is no engine was
\* left by a writer that was killed or failed, or by two at a time.
THEOREM BrokenHasCause == Spec => []BrokenExplained
<1>1. Basics /\ SaveOK => BrokenExplained
  BY DEF BrokenExplained, SaveOK, SoleWriter
<1> QED
  BY <1>1, BasicsInit, BasicsStep, SaveInit, SaveStep, PTL DEF Spec

-----------------------------------------------------------------------------
\* What of the file is at hand: itself, and what the processes have read of it.
Readings == {config} \cup {app[p].settings : p \in {q \in Processes : app[q] # Nothing}}

\* What is of one edition is the same, and the engines are of the precision
\* that their edition asks for.
SameEdition ==
    /\ \A r \in Readings : r \in Contents /\ r.edition <= config.edition
    /\ \A r, s \in Readings : r.edition = s.edition => r = s
    /\ \A b \in 1 .. Len(builds) : builds[b].edition <= config.edition
    /\ \A b \in 1 .. Len(builds) : \A r \in Readings :
          builds[b].edition = r.edition => builds[b].flag = Flag(r.acc)

\* Unless InitConfig is called again, the copies are those of the instance.
CopiesOf(p) ==
    /\ msgs[p] # Nothing => log[p] # Nothing
    /\ log[p] # Nothing => app[p] # Nothing
    /\ ~renamed[p] => msgs[p] \in {Nothing, app[p]} /\ log[p] \in {Nothing, app[p]}

SettingsOK == SameEdition /\ \A p \in Processes : CopiesOf(p)

LEMMA SettingsInit == Init => SettingsOK
<1> SUFFICES ASSUME Init PROVE SettingsOK
  OBVIOUS
<1>1. SameEdition
  <2>1. Readings = {config} /\ config \in Contents /\ Len(builds) = 0
    BY DEF Init, ConfigStart, Readings
  <2>2. config.edition \in Int
    BY <2>1, Kinds
  <2> QED
    BY <2>1, <2>2 DEF SameEdition
<1>2. \A p \in Processes : CopiesOf(p)
  BY DEF Init, ConfigStart, CopiesOf
<1> QED
  BY <1>1, <1>2 DEF SettingsOK

\* What a step of a process can do to its settings.
LEMMA SettingsOf ==
    ASSUME Basics, NEW p \in Processes, Main(p) \/ Initializing(p)
    PROVE  /\ UNCHANGED config
           /\ \/ UNCHANGED <<app, msgs, log, renamed>>
              \/ Gone(p)
              \/ ReadParams(p)
              \/ \E h \in Homes : InitConfig(p, h)
           /\ \/ UNCHANGED builds
              \/ Build(p)
<1>1. CASE Main(p)
  BY <1>1
     DEF Main, Start, CallInit, Crash, CallInitConfig, Gone, ForgetConfig,
         ReadParams, InitLogging, InitConfig
<1>2. CASE Look(p) \/ Saving(p)
  BY <1>2
     DEF Look, Saving, Build, BuildFails, Create, CreateFails, Write, WriteFails,
         Close
<1>3. CASE Loading(p)
  BY <1>3
     DEF Loading, OpenDirectory, Open, OpenEmpty, Read, Parse, ParseRejects,
         ParseFails, MemAllocator, Gone, ForgetConfig
<1> QED
  BY <1>1, <1>2, <1>3 DEF Initializing

LEMMA CopiesStep ==
    ASSUME Basics, SettingsOK, NEW p \in Processes, Main(p) \/ Initializing(p)
    PROVE  CopiesOf(p)'
<1>0. CopiesOf(p) /\ ConfigOf(p) /\ StartupTypeOK
  BY DEF SettingsOK, Basics, ConfigOK
<1>1. CASE UNCHANGED <<app, msgs, log, renamed>>
  BY <1>0, <1>1 DEF CopiesOf
<1>2. CASE Gone(p)
  BY <1>0, <1>2 DEF Gone, ForgetConfig, CopiesOf, StartupTypeOK
<1>3. CASE ReadParams(p)
  <2>1. app[p] # Nothing
    BY <1>3, InstanceIs DEF ReadParams, InitLogging, Basics
  <2>2. /\ app' = app /\ renamed' = renamed /\ msgs'[p] = app[p]
        /\ log'[p] = IF log[p] = Nothing THEN app[p] ELSE log[p]
    BY <1>0, <1>3 DEF ReadParams, InitLogging, StartupTypeOK
  <2> QED
    BY <1>0, <2>1, <2>2 DEF CopiesOf
<1>4. ASSUME NEW h \in Homes, InitConfig(p, h) PROVE CopiesOf(p)'
  <2>1. /\ app'[p].home = h /\ renamed'[p] = HasInstance(p)
        /\ msgs' = msgs /\ log' = log
    BY <1>0, <1>4 DEF InitConfig, StartupTypeOK
  <2>2. app'[p] # Nothing
    BY <2>1, ConfigAssumption DEF Nothing
  <2>3. HasInstance(p) <=> app[p] # Nothing
    BY InstanceIs DEF Basics
  <2> QED
    BY <1>0, <2>1, <2>2, <2>3 DEF CopiesOf
<1> QED
  BY <1>1, <1>2, <1>3, <1>4, SettingsOf

\* Nobody but the editor adds a reading.
LEMMA NoNewReading ==
    ASSUME Basics, NEW p \in Processes, Main(p) \/ Initializing(p)
    PROVE  config' = config /\ Readings' \subseteq Readings
<1>1. config' = config
  BY SettingsOf
<1>2. ASSUME NEW q \in Processes, app'[q] # Nothing
      PROVE  app'[q].settings \in Readings
  <2>1. CASE app'[q] = app[q]
    BY <1>2, <2>1 DEF Readings
  <2>2. CASE app'[q] # app[q]
    <3>1. q = p
      BY <2>2, OthersKept DEF Basics, Kept
    <3>2. PICK h \in Homes : InitConfig(p, h)
      BY <1>2, <2>2, <3>1, SettingsOf
         DEF Gone, ForgetConfig, ReadParams, InitLogging, Basics, StartupTypeOK
    <3>3. app'[p].settings = IF HasInstance(p) THEN app[p].settings ELSE config
      BY <3>2 DEF InitConfig, Basics, StartupTypeOK
    <3> QED
      BY <3>1, <3>3, InstanceIs DEF Basics, Readings
  <2> QED
    BY <2>1, <2>2
<1> QED
  BY <1>1, <1>2 DEF Readings

LEMMA SameEditionStep ==
    ASSUME Basics, SettingsOK, NEW p \in Processes, Main(p) \/ Initializing(p)
    PROVE  SameEdition'
<1>1. SameEdition /\ config' = config /\ Readings' \subseteq Readings
  BY NoNewReading DEF SettingsOK
<1>2. /\ \A r \in Readings' : r \in Contents /\ r.edition <= config'.edition
      /\ \A r, s \in Readings' : r.edition = s.edition => r = s
  BY <1>1 DEF SameEdition
<1>3. ASSUME NEW b \in 1 .. Len(builds')
      PROVE  /\ builds'[b].edition <= config'.edition
             /\ \A r \in Readings' :
                   builds'[b].edition = r.edition => builds'[b].flag = Flag(r.acc)
  <2>1. CASE UNCHANGED builds
    BY <1>1, <1>3, <2>1 DEF SameEdition
  <2>2. CASE Build(p)
    <3> DEFINE own == msgs[p].settings
               build == [flag |-> Flag(own.acc), edition |-> own.edition]
    <3>1. builds' = Append(builds, build) /\ pc[p] = "build"
      BY <2>2 DEF Build, Goto
    <3>2. own \in Readings
      BY <3>1 DEF Basics, ConfigOK, ConfigOf, Readings
    <3>3. builds \in Seq(Builds) /\ Len(builds) \in Nat
      BY Counts DEF Basics, StartupTypeOK
    <3>4. CASE b = Len(builds) + 1
      <4>1. builds'[b] = build
        BY <3>1, <3>3, <3>4
      <4>2. \A r \in Readings' : own.edition = r.edition => own = r
        BY <1>1, <3>2 DEF SameEdition
      <4> QED
        BY <1>1, <3>2, <4>1, <4>2 DEF SameEdition
    <3>5. CASE b # Len(builds) + 1
      <4>1. b \in 1 .. Len(builds)
        BY <1>3, <3>1, <3>3, <3>5
      <4>2. builds'[b] = builds[b]
        BY <3>1, <3>3, <4>1
      <4> QED
        BY <1>1, <4>1, <4>2 DEF SameEdition
    <3> QED
      BY <3>4, <3>5
  <2> QED
    BY <2>1, <2>2, SettingsOf
<1> QED
  BY <1>2, <1>3 DEF SameEdition

LEMMA BuildType ==
    ASSUME StartupTypeOK, NEW b \in 1 .. Len(builds)
    PROVE  builds[b].edition \in Int
<1>1. builds \in Seq(Builds)
  BY DEF StartupTypeOK
<1>2. builds[b] \in Builds
  BY <1>1
<1>3. \A build \in Builds : build.edition \in Int
  BY ConfigAssumption DEF Builds
<1> QED
  BY <1>2, <1>3

\* An edit begins an edition that nobody has read.
LEMMA EditBegins ==
    ASSUME Basics, SameEdition, EditConfig
    PROVE  SameEdition'
<1>1. PICK content \in Contents : Edit(content)
  BY DEF EditConfig
<1>2. /\ config' \in Contents /\ config'.edition = config.edition + 1
      /\ app' = app /\ builds' = builds
  BY <1>1 DEF Edit, EditConfig
<1>3. /\ config.edition \in Int /\ config'.edition \in Int
      /\ \A r \in Readings : r.edition \in Int
  BY <1>2, Kinds DEF SameEdition, Readings
<1>4. \A r \in Readings' : r \in Readings \/ r = config'
  BY <1>2 DEF Readings
<1>5. \A r \in Readings : r.edition < config'.edition
  BY <1>2, <1>3 DEF SameEdition
<1>6. \A b \in 1 .. Len(builds) : builds[b].edition < config'.edition
  <2> TAKE b \in 1 .. Len(builds)
  <2>1. builds[b].edition \in Int
    BY BuildType DEF Basics
  <2> QED
    BY <1>2, <1>3, <2>1 DEF SameEdition
<1>7. /\ \A r \in Readings' : r \in Contents /\ r.edition <= config'.edition
      /\ \A r, s \in Readings' : r.edition = s.edition => r = s
  BY <1>2, <1>3, <1>4, <1>5 DEF SameEdition
<1>8. \A b \in 1 .. Len(builds) :
          /\ builds[b].edition <= config'.edition
          /\ \A r \in Readings' :
                builds[b].edition = r.edition => builds[b].flag = Flag(r.acc)
  <2> TAKE b \in 1 .. Len(builds)
  <2>1. builds[b].edition < config'.edition
    BY <1>6
  <2>2. builds[b].edition \in Int
    BY BuildType DEF Basics
  <2> QED
    BY <1>3, <1>4, <2>1, <2>2 DEF SameEdition
<1> QED
  BY <1>2, <1>7, <1>8 DEF SameEdition

LEMMA SettingsStep == Basics /\ SettingsOK /\ [Next]_vars => SettingsOK'
<1> SUFFICES ASSUME Basics, SettingsOK, [Next]_vars PROVE SettingsOK'
  OBVIOUS
<1>1. CASE UNCHANGED vars
  BY <1>1 DEF SettingsOK, SameEdition, Readings, CopiesOf
<1>2. CASE EditConfig
  <2>1. \A p \in Processes : CopiesOf(p)'
    BY <1>2, EditKeeps DEF SettingsOK, CopiesOf
  <2> QED
    BY <1>2, <2>1, EditBegins DEF SettingsOK
<1>3. ASSUME NEW p \in Processes, Main(p) \/ Initializing(p) PROVE SettingsOK'
  <2>1. ASSUME NEW q \in Processes, q # p PROVE CopiesOf(q)'
    <3>1. Kept(q) /\ CopiesOf(q)
      BY <1>3, <2>1, OthersKept DEF Basics, SettingsOK
    <3> QED
      BY <3>1 DEF Kept, CopiesOf
  <2> QED
    BY <1>3, <2>1, CopiesStep, SameEditionStep DEF SettingsOK
<1> QED
  BY <1>1, <1>2, <1>3 DEF Next

\* An engine that a process has is of the precision that the platform gives for
\* the settings of the process, and from the home of its log, but where the
\* builder read another edition of the file or InitConfig was called twice:
\* for any number of processes that build and overwrite the file, any number
\* of edits, all values of model_acc and all platforms.
THEOREM EngineMatches == Spec => []EngineMatchesSettings
<1>1. Basics /\ SettingsOK => EngineMatchesSettings
  <2> SUFFICES ASSUME Basics, SettingsOK, NEW p \in Processes, engine[p] # 0
               PROVE  /\ \/ builds[engine[p]].flag = Flag(msgs[p].settings.acc)
                         \/ builds[engine[p]].edition # msgs[p].settings.edition
                      /\ msgs[p].home = log[p].home \/ renamed[p]
    BY DEF EngineMatchesSettings
  <2>1. /\ msgs[p] # Nothing /\ msgs[p].settings = app[p].settings
        /\ app[p] # Nothing
    BY DEF Basics, ConfigOK, ConfigOf
  <2>2. engine[p] \in 1 .. Len(builds)
    BY Counts DEF Basics, StartupTypeOK
  <2>3. msgs[p].settings \in Readings
    BY <2>1 DEF Readings
  <2>4. \/ builds[engine[p]].flag = Flag(msgs[p].settings.acc)
        \/ builds[engine[p]].edition # msgs[p].settings.edition
    BY <2>2, <2>3 DEF SettingsOK, SameEdition
  <2>5. msgs[p].home = log[p].home \/ renamed[p]
    BY <2>1 DEF SettingsOK, CopiesOf
  <2> QED
    BY <2>4, <2>5
<1> QED
  BY <1>1, BasicsInit, BasicsStep, SettingsInit, SettingsStep, PTL DEF Spec

-----------------------------------------------------------------------------
\* What is read by ParseMsgs is what AppConfig has, until the call is over, and
\* the log has the settings of the instance, if not its home.
ReadOf(p) ==
    /\ pc[p] \notin {"off", "idle"} => msgs[p] = app[p]
    /\ log[p] # Nothing =>
          /\ msgs[p] # Nothing /\ app[p] # Nothing
          /\ log[p].settings = app[p].settings

ReadOK == \A p \in Processes : ReadOf(p)

LEMMA ReadInit == Init => ReadOK
BY DEF Init, ConfigStart, ReadOK, ReadOf

\* While Init runs the settings are read at its beginning only.
LEMMA ReadAtStart ==
    ASSUME Basics, NEW p \in Processes, Main(p) \/ Initializing(p)
    PROVE  \/ pc'[p] \in {"off", "idle"}
           \/ ReadParams(p)
           \/ pc[p] \notin {"off", "idle"} /\ UNCHANGED <<app, msgs>>
<1>0. StartupTypeOK
  BY DEF Basics
<1>1. CASE Gone(p)
  BY <1>0, <1>1, GoneIs
<1>2. CASE Main(p) /\ ~Gone(p)
  BY <1>0, <1>2
     DEF Main, Start, CallInit, Crash, CallInitConfig, Goto, StartupTypeOK
<1>3. CASE Look(p) \/ Saving(p)
  <2>1. pc[p] \notin {"off", "idle"} /\ UNCHANGED <<app, msgs>>
    BY <1>3
       DEF Look, Saving, Build, BuildFails, Create, CreateFails, Write,
           WriteFails, Close, Unready, Goto
  <2> QED
    BY <2>1
<1>4. CASE Loading(p) /\ ~Gone(p)
  <2>1. pc[p] \notin {"off", "idle"} /\ UNCHANGED <<app, msgs>>
    BY <1>4
       DEF Loading, OpenDirectory, Open, OpenEmpty, Read, Parse, ParseRejects,
           ParseFails, MemAllocator, Unready, Goto
  <2> QED
    BY <2>1
<1> QED
  BY <1>1, <1>2, <1>3, <1>4 DEF Initializing

LEMMA ReadStepOf ==
    ASSUME Basics, ReadOK, NEW p \in Processes, Main(p) \/ Initializing(p)
    PROVE  ReadOf(p)'
<1>0. ReadOf(p) /\ ConfigOf(p) /\ StartupTypeOK
  BY DEF ReadOK, Basics, ConfigOK
<1>1. pc'[p] \notin {"off", "idle"} => msgs'[p] = app'[p]
  <2>1. CASE ReadParams(p)
    BY <1>0, <2>1 DEF ReadParams, InitLogging, StartupTypeOK
  <2>2. CASE pc[p] \notin {"off", "idle"} /\ UNCHANGED <<app, msgs>>
    BY <1>0, <2>2 DEF ReadOf
  <2> QED
    BY <2>1, <2>2, ReadAtStart
<1>2. log'[p] # Nothing =>
          /\ msgs'[p] # Nothing /\ app'[p] # Nothing
          /\ log'[p].settings = app'[p].settings
  <2>1. CASE UNCHANGED <<app, msgs, log, renamed>>
    BY <1>0, <2>1 DEF ReadOf
  <2>2. CASE Gone(p)
    BY <1>0, <2>2 DEF Gone, ForgetConfig, StartupTypeOK
  <2>3. CASE ReadParams(p)
    <3>1. app[p] # Nothing
      BY <2>3, InstanceIs DEF ReadParams, InitLogging, Basics
    <3>2. /\ app' = app /\ msgs'[p] = app[p]
          /\ log'[p] = IF log[p] = Nothing THEN app[p] ELSE log[p]
      BY <1>0, <2>3 DEF ReadParams, InitLogging, StartupTypeOK
    <3> QED
      BY <1>0, <3>1, <3>2 DEF ReadOf
  <2>4. ASSUME NEW h \in Homes, InitConfig(p, h), log'[p] # Nothing
        PROVE  /\ msgs'[p] # Nothing /\ app'[p] # Nothing
               /\ log'[p].settings = app'[p].settings
    <3>1. /\ app'[p] = [home |-> h,
                        settings |-> IF HasInstance(p) THEN app[p].settings
                                     ELSE config]
          /\ msgs' = msgs /\ log' = log
      BY <1>0, <2>4 DEF InitConfig, StartupTypeOK
    <3>2. /\ msgs[p] # Nothing /\ app[p] # Nothing
          /\ log[p].settings = app[p].settings
      BY <1>0, <2>4, <3>1 DEF ReadOf
    <3>3. HasInstance(p)
      BY <3>2, InstanceIs DEF Basics
    <3>4. app'[p] # Nothing
      BY <3>1, ConfigAssumption DEF Nothing
    <3> QED
      BY <3>1, <3>2, <3>3, <3>4
  <2> QED
    BY <2>1, <2>2, <2>3, <2>4, SettingsOf
<1> QED
  BY <1>1, <1>2 DEF ReadOf

LEMMA ReadStep == Basics /\ ReadOK /\ [Next]_vars => ReadOK'
<1> SUFFICES ASSUME Basics, ReadOK, [Next]_vars PROVE ReadOK'
  OBVIOUS
<1>1. CASE EditConfig \/ UNCHANGED vars
  <2>1. UNCHANGED <<app, msgs, log, pc>>
    BY <1>1 DEF EditConfig, Edit
  <2> QED
    BY <2>1 DEF ReadOK, ReadOf
<1>2. ASSUME NEW p \in Processes, Main(p) \/ Initializing(p) PROVE ReadOK'
  <2>1. ASSUME NEW q \in Processes, q # p PROVE ReadOf(q)'
    <3>1. Kept(q) /\ ReadOf(q)
      BY <1>2, <2>1, OthersKept DEF Basics, ReadOK
    <3> QED
      BY <3>1 DEF Kept, ReadOf
  <2> QED
    BY <1>2, <2>1, ReadStepOf DEF ReadOK
<1> QED
  BY <1>1, <1>2 DEF Next

\* Init never gets past ParseMsgs without settings that were read from a usable
\* file, and the log, the modules and the engine of a process all go by the one
\* file it read, for any number of processes, calls, edits and homes.
THEOREM SettingsRead == Spec => []SettingsWereRead
<1>1. Basics /\ ReadOK => SettingsWereRead
  <2> SUFFICES ASSUME Basics, ReadOK, NEW p \in Processes
               PROVE  /\ pc[p] \notin {"off", "idle"} =>
                            HasInstance(p) /\ msgs[p] = app[p]
                      /\ log[p] # Nothing \/ engine[p] # 0 =>
                            /\ msgs[p].settings = app[p].settings
                            /\ app[p].settings \in Contents
                            /\ ~Fatal(app[p].settings)
                      /\ log[p] # Nothing => log[p].settings = app[p].settings
    BY DEF SettingsWereRead
  <2>1. ReadOf(p) /\ ConfigOf(p)
    BY DEF ReadOK, Basics, ConfigOK
  <2>2. HasInstance(p) <=> app[p] # Nothing
    BY InstanceIs DEF Basics
  <2> QED
    BY <2>1, <2>2 DEF ReadOf, ConfigOf
<1> QED
  BY <1>1, BasicsInit, BasicsStep, ReadInit, ReadStep, PTL DEF Spec

-----------------------------------------------------------------------------
\* What a step of p does to the engine file under h, seen from outside.
CacheStep(p, h) ==
    \/ Cache'[h] = Cache[h]
    \/ /\ h = Home(p)
       /\ \/ Cache[h] = "none" /\ Cache'[h] = "busy"
          \/ Cache[h] = "busy"

LEMMA CacheIs ==
    ASSUME NEW h \in Homes
    PROVE  /\ Cache[h] = IF Builders(h) # {} THEN "busy"
                         ELSE IF ~disk[h].exists THEN "none"
                         ELSE IF Whole(disk[h].pieces) THEN "good" ELSE "bad"
           /\ Cache[h] \in {"none", "busy", "good", "bad"}
BY DEF Cache

\* A file that is not touched, by a process that does not build it.
LEMMA CacheKept ==
    ASSUME Basics, NEW p \in Processes, Main(p) \/ Initializing(p),
           NEW h \in Homes, p \notin Builders(h), p \notin Builders(h)',
           disk'[h] = disk[h]
    PROVE  Cache'[h] = Cache[h]
<1>1. \A q \in Processes : q # p => Kept(q)
  BY OthersKept DEF Basics
<1>2. Builders(h)' = Builders(h)
  BY <1>1 DEF Builders, Home, Kept
<1>3. Whole(disk'[h].pieces) <=> Whole(disk[h].pieces)
  BY DEF Whole
<1> QED
  BY <1>2 DEF Cache, Whole

LEMMA OutsideWork ==
    ASSUME Basics, NEW p \in Processes, Main(p) \/ Initializing(p),
           pc[p] \notin Working, pc'[p] \notin Working, UNCHANGED disk,
           NEW h \in Homes
    PROVE  CacheStep(p, h)
BY CacheKept DEF Builders, CacheStep

LEMMA InsideWork ==
    ASSUME Basics, NEW p \in Processes, Main(p) \/ Initializing(p),
           pc[p] \in Working, pc'[p] \notin Working \/ UNCHANGED msgs,
           NEW h \in Homes, h = Home(p) \/ disk'[h] = disk[h]
    PROVE  CacheStep(p, h)
<1>1. CASE h = Home(p)
  <2>1. p \in Builders(h)
    BY <1>1 DEF Builders
  <2> QED
    BY <1>1, <2>1, CacheIs DEF CacheStep
<1>2. CASE h # Home(p)
  <2>1. p \notin Builders(h) /\ p \notin Builders(h)' /\ disk'[h] = disk[h]
    BY <1>2 DEF Builders, Home
  <2> QED
    BY <2>1, CacheKept DEF CacheStep
<1> QED
  BY <1>1, <1>2

LEMMA LookStep ==
    ASSUME Basics, NEW p \in Processes, Look(p), NEW h \in Homes
    PROVE  CacheStep(p, h)
<1>0. Main(p) \/ Initializing(p)
  BY DEF Initializing
<1>1. /\ pc[p] = "look" /\ UNCHANGED <<disk, msgs>>
      /\ pc' = [pc EXCEPT ![p] = IF isFileExists_stat(p) THEN "open"
                                 ELSE "build"]
  BY DEF Look, Goto
<1>2. pc'[p] = IF isFileExists_stat(p) THEN "open" ELSE "build"
  BY <1>1 DEF Basics, StartupTypeOK
<1>3. CASE isFileExists_stat(p)
  BY <1>0, <1>1, <1>2, <1>3, OutsideWork DEF Working
<1>4. CASE ~isFileExists_stat(p) /\ h # Home(p)
  <2>1. p \notin Builders(h) /\ p \notin Builders(h)'
    BY <1>1, <1>4 DEF Builders, Home
  <2> QED
    BY <1>0, <1>1, <2>1, CacheKept DEF CacheStep
<1>5. CASE ~isFileExists_stat(p) /\ h = Home(p)
  <2>1. ~disk[h].exists
    BY <1>5 DEF isFileExists_stat
  <2>2. p \in Builders(h)'
    BY <1>1, <1>2, <1>5 DEF Builders, Home, Working
  <2>3. Cache'[h] = "busy"
    BY <2>2 DEF Cache
  <2>4. Cache[h] \in {"none", "busy"}
    BY <2>1, CacheIs
  <2> QED
    BY <1>5, <2>3, <2>4 DEF CacheStep
<1> QED
  BY <1>3, <1>4, <1>5

LEMMA CacheSteps ==
    ASSUME Basics, NEW p \in Processes, Main(p) \/ Initializing(p),
           NEW h \in Homes
    PROVE  CacheStep(p, h)
<1>0. StartupTypeOK
  BY DEF Basics
<1>1. CASE Look(p)
  BY <1>1, LookStep
<1>2. CASE Build(p)
  BY <1>2, InsideWork DEF Build, Goto, Working
<1>3. CASE Create(p) \/ Write(p)
  <2>1. /\ pc[p] \in Working /\ UNCHANGED msgs
        /\ \E file : disk' = [disk EXCEPT ![Home(p)] = file]
    BY <1>3 DEF Create, Write, Goto, Working
  <2>2. h = Home(p) \/ disk'[h] = disk[h]
    BY <1>0, <2>1 DEF StartupTypeOK
  <2> QED
    BY <2>1, <2>2, InsideWork
<1>4. CASE \/ BuildFails(p) \/ CreateFails(p) \/ WriteFails(p) \/ Close(p)
  <2>1. PICK from \in Working : Unready(p, from)
    BY <1>4 DEF BuildFails, CreateFails, WriteFails, Close, Working
  <2>2. UNCHANGED <<msgs, disk>>
    BY <1>4 DEF BuildFails, CreateFails, WriteFails, Close
  <2>3. pc[p] \in Working
    BY <2>1 DEF Unready, Goto
  <2> QED
    BY <2>2, <2>3, InsideWork
<1>5. CASE Start(p) \/ Open(p) \/ Read(p) \/ Parse(p)
  <2>1. pc[p] \notin Working /\ pc'[p] \notin Working /\ UNCHANGED disk
    BY <1>0, <1>5 DEF Start, Open, Read, Parse, Goto, Working, StartupTypeOK
  <2> QED
    BY <2>1, OutsideWork
<1>6. CASE \/ CallInit(p) \/ (\E g \in Homes : CallInitConfig(p, g))
           \/ MemAllocator(p)
  <2>1. pc[p] \in {"idle", "bind"} /\ UNCHANGED disk
    BY <1>6 DEF CallInit, CallInitConfig, MemAllocator
  <2>2. pc'[p] \notin Working
    <3>1. CASE Gone(p)
      BY <1>0, <3>1, GoneIs DEF Working
    <3>2. CASE ~Gone(p)
      BY <1>0, <1>6, <3>2
         DEF CallInit, CallInitConfig, MemAllocator, Goto, Working, StartupTypeOK
    <3> QED
      BY <3>1, <3>2
  <2> QED
    BY <2>1, <2>2, OutsideWork DEF Working
<1>7. CASE Crash(p)
  <2>1. pc'[p] \notin Working /\ UNCHANGED disk
    BY <1>0, <1>7, GoneIs DEF Crash, Working
  <2> QED
    BY <2>1, OutsideWork, InsideWork
<1>8. CASE OpenEmpty(p) \/ ParseRejects(p) \/ ParseFails(p) \/ OpenDirectory(p)
  <2>1. (\E from \in {"open", "read"} : Unready(p, from))
        \/ (pc[p] = "open" /\ Gone(p))
    BY <1>8 DEF OpenEmpty, ParseRejects, ParseFails, OpenDirectory
  <2>2. pc[p] \notin Working /\ pc'[p] \notin Working
    BY <1>0, <2>1, GoneIs, UnreadyIs DEF Working
  <2>3. UNCHANGED disk
    BY <1>8 DEF OpenEmpty, ParseRejects, ParseFails, OpenDirectory
  <2> QED
    BY <2>2, <2>3, OutsideWork
<1> QED
  BY <1>1, <1>2, <1>3, <1>4, <1>5, <1>6, <1>7, <1>8
     DEF Main, Initializing, Saving, Loading

LEMMA Refines ==
    ASSUME Basics, [Next]_vars
    PROVE  [EngineCache!Next]_Cache
<1>1. CASE EditConfig \/ UNCHANGED vars
  <2>1. /\ UNCHANGED <<disk, pc, msgs>>
    BY <1>1, EditKeeps
  <2>2. \A h \in Homes : Builders(h)' = Builders(h)
    BY <2>1 DEF Builders, Home
  <2>3. UNCHANGED Cache
    BY <2>1, <2>2 DEF Cache, Whole
  <2> QED
    BY <2>3
<1>2. ASSUME NEW p \in Processes, Main(p) \/ Initializing(p)
      PROVE  [EngineCache!Next]_Cache
  <2>1. \A h \in Homes : CacheStep(p, h)
    BY <1>2, CacheSteps
  <2>2. \A h \in Homes : Cache[h] \in EngineCache!States
                         /\ Cache'[h] \in EngineCache!States
    BY DEF Cache, EngineCache!States
  <2>3. Cache = [h \in Homes |-> Cache[h]] /\ Cache' = [h \in Homes |-> Cache'[h]]
    BY DEF Cache
  <2>4. CASE \A h \in Homes : Cache'[h] = Cache[h]
    BY <2>3, <2>4
  <2>5. ASSUME NEW h \in Homes, Cache'[h] # Cache[h]
        PROVE  EngineCache!Begin(h) \/ EngineCache!End(h)
    <3>1. h = Home(p)
      BY <2>1, <2>5 DEF CacheStep
    <3>2. \A g \in Homes : g # h => Cache'[g] = Cache[g]
      BY <2>1, <3>1 DEF CacheStep
    <3>3. Cache' = [Cache EXCEPT ![h] = Cache'[h]]
      BY <2>3, <3>2
    <3>4. CASE Cache[h] = "none" /\ Cache'[h] = "busy"
      BY <3>3, <3>4 DEF EngineCache!Begin
    <3>5. CASE Cache[h] = "busy"
      BY <2>2, <3>3, <3>5 DEF EngineCache!End
    <3> QED
      BY <2>1, <2>5, <3>4, <3>5 DEF CacheStep
  <2> QED
    BY <2>4, <2>5 DEF EngineCache!Next
<1> QED
  BY <1>1, <1>2 DEF Next

\* The engine files are those of EngineCache for any number of processes: who
\* finds none builds, and nobody damages or repairs what is finished.
THEOREM CacheIsImplemented == Spec => ImplementsEngineCache
<1>1. Init => EngineCache!Init
  BY DEF Init, EngineCache!Init, Cache, Builders, Working, NoFile
<1>2. Basics /\ [Next]_vars => [EngineCache!Next]_Cache
  BY Refines
<1> QED
  BY <1>1, <1>2, BasicsHold, PTL DEF Spec, ImplementsEngineCache, EngineCache!Spec
=============================================================================
