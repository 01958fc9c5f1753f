--------------------------- MODULE SplitRun_proofs --------------------------
(***************************************************************************)
(* Proofs about SplitRun for every number of inputs, cameras, clips,       *)
(* workers, threads and attempts, and every bound on the failures.         *)
(***************************************************************************)
EXTENDS SplitRunProps, FiniteSetTheorems, TLAPS

\* The primary camera is one of the cameras.
LEMMA PrimaryIsCam == Primary \in Cams
  BY WriterAssumption DEF Primary, Cams

\* An input has finitely many chunks.
LEMMA ChunksAreFinite ==
  ASSUME NEW s \in Sessions
  PROVE  IsFiniteSet(Chunks(s)) /\ Chunks(s) \subseteq ChunkIds
  <1>1. NumChunks[s] - 1 \in Int /\ 0 \in Int
    BY WriterAssumption
  <1>2. IsFiniteSet(0..NumChunks[s] - 1)
    BY <1>1, FS_Interval
  <1> QED BY <1>2 DEF Chunks, ChunkIds

\* The futures of a video are jobs.
LEMMA JobsOfAVideo ==
  ASSUME NEW m
  PROVE  ClipJobs(m) \subseteq Job /\ VideoJobs(m) \subseteq Job
  <1>1. \A kinds, clips : kinds \subseteq JobKinds /\ clips \subseteq Clips \cup {0}
                          => PerClip(kinds, clips) \subseteq Job
    BY DEF PerClip, Job
  <1>2. /\ {"mp4"} \subseteq JobKinds /\ {"mp4Filtered"} \subseteq JobKinds
        /\ {"webp", "embd", "meta"} \subseteq JobKinds /\ {"metaFiltered"} \subseteq JobKinds
        /\ {"record"} \subseteq JobKinds /\ {"window"} \subseteq JobKinds
        /\ GroupKinds \subseteq JobKinds
    BY DEF JobKinds, OptionalKinds, GroupKinds
  <1>3. Passing \subseteq Clips /\ Filtered \subseteq Clips
    BY WriterAssumption DEF Passing
  <1>4. ClipJobs(m) \subseteq Job
    BY <1>1, <1>2, <1>3 DEF ClipJobs, Enabled
  <1>5. VideoJobs(m) \subseteq Job
    BY <1>1, <1>2, <1>3 DEF VideoJobs, Enabled
  <1> QED BY <1>4, <1>5

\* So are those a worker has submitted.
LEMMA SubmittedAreJobs ==
  ASSUME NEW w
  PROVE  Submitted(w) \subseteq Job
  BY JobsOfAVideo DEF Submitted

\* Whatever a job writes is an object of the store.
LEMMA WritesType ==
  ASSUME TypeOK, NEW w \in Workers, NEW j \in Submitted(w)
  PROVE  Writes(w, j) \in Seq(Object)
  <1> DEFINE t == ctl[w].task
             m == ctl[w].cam
  <1>1. ctl[w].phase # "idle" /\ t \in Task /\ m \in Cams
    BY DEF TypeOK, Submitted, WorkerCtl
  <1>2. t.s \in Sessions /\ t.c \in Nat /\ j.i \in Nat
    BY <1>1, SubmittedAreJobs, WriterAssumption DEF Task, ChunkIds, Chunks, Job
  <1>3. \A kind \in Kinds, x \in Cams : Obj(kind, t.s, t.c, j.i, x) \in Object
    BY <1>2 DEF Obj, Object
  <1>4. /\ ErrorRecord(t.s, t.c, m) \in Object /\ VideoRecord(t.s, m) \in Object
        /\ ChunkRecord(t.s, t.c, m) \in Object
    BY <1>1, <1>2 DEF ErrorRecord, VideoRecord, ChunkRecord, Obj, Object, Kinds
  <1>5. RecordWrites(t, m) \in Seq(Object)
    BY <1>4 DEF RecordWrites
  <1>6. j.kind \in JobKinds
    BY SubmittedAreJobs DEF Job
  <1> QED
    BY <1>1, <1>3, <1>5, <1>6, PrimaryIsCam DEF Writes, Kinds, JobKinds, OptionalKinds, GroupKinds

-----------------------------------------------------------------------------
(* Type correctness. *)

\* The values a worker starts with have their types.
LEMMA InitialState ==
  /\ Idle \in WorkerCtl
  /\ NotStarted \in [Job -> JobState]
  /\ Fresh \in Memory
  /\ EmptyBuffers \in [GroupKinds -> SUBSET Row]
  <1>1. 1 \in 1..MaxAttempts
    BY WriterAssumption
  <1> QED
    BY <1>1, PrimaryIsCam DEF Idle, WorkerCtl, NotStarted, JobState, Fresh, Memory, EmptyBuffers

\* The initial state is typed.
LEMMA InitType == Init => TypeOK
  <1> SUFFICES ASSUME Init PROVE TypeOK
    OBVIOUS
  <1>1. ctl = [w \in Workers |-> Idle] /\ Idle.phase = "idle"
    BY DEF Init, WriterInit, Idle
  <1>2. /\ stored = {} /\ torn = {} /\ queue = {} /\ outputs = {}
        /\ rows \in [GroupFile -> SUBSET Row] /\ passed \in [RecordFile -> Nat]
    BY DEF Init, WriterInit
  <1>3. /\ ctl \in [Workers -> WorkerCtl] /\ job \in [Workers -> [Job -> JobState]]
        /\ mem \in [Workers -> Memory]
        /\ buf \in [Workers -> [GroupKinds -> SUBSET Row]]
    BY InitialState DEF Init, WriterInit
  <1>4. /\ run = "down" /\ todo = {} /\ selected = {}
        /\ budget \in [errors : Nat, faults : Nat, crashes : Nat]
    BY RunAssumption DEF Init
  <1> QED BY <1>1, <1>2, <1>3, <1>4 DEF TypeOK

\* What a video adds to the buffers are rows.
LEMMA BufferedRowsType ==
  ASSUME NEW w, NEW t \in Task, NEW m, NEW n \in 1..MaxAttempts, NEW dropped,
         NEW g \in GroupKinds
  PROVE  BufferedRows(w, t, m, n, dropped, g) \subseteq Row
  <1>1. Passing \subseteq Clips
    BY DEF Passing
  <1>2. t.s \in Sessions /\ t.c \in ChunkIds
    BY DEF Task
  <1>3. \A i \in Clips, b \in BOOLEAN :
            [s |-> t.s, c |-> t.c, i |-> i, attempt |-> n, bare |-> b] \in Row
    BY <1>2 DEF Row
  <1>4. (m \in dropped) \in BOOLEAN
    OBVIOUS
  <1>5. \A i \in Clips :
            [s |-> t.s, c |-> t.c, i |-> i, attempt |-> n, bare |-> m \in dropped] \in Row
    BY <1>3, <1>4, Zenon
  <1> QED BY <1>1, <1>5, Zenon DEF BufferedRows

\* Entering a video leaves its worker typed.
LEMMA EnterVideoType ==
  ASSUME TypeOK, NEW w \in Workers, NEW t \in Task, NEW m \in Cams,
         NEW n \in 1..MaxAttempts, NEW dropped, EnterVideo(w, t, m, n, dropped)
  PROVE  /\ ctl' \in [Workers -> WorkerCtl]
         /\ \A v \in Workers : ctl'[v].phase # "idle" => ctl'[v].task \in Task
         /\ job' \in [Workers -> [Job -> JobState]]
         /\ buf' \in [Workers -> [GroupKinds -> SUBSET Row]]
  <1> DEFINE c == [task |-> t, cam |-> m, attempt |-> n, phase |-> "clips"]
             b == [g \in GroupKinds |-> buf[w][g] \cup BufferedRows(w, t, m, n, dropped, g)]
  <1>1. c \in WorkerCtl /\ c.task \in Task
    BY DEF WorkerCtl
  <1>2. ctl' = [ctl EXCEPT ![w] = c] /\ buf' = [buf EXCEPT ![w] = b]
        /\ job' = [job EXCEPT ![w] = NotStarted]
    BY DEF EnterVideo
  <1>3. \A g \in GroupKinds : buf[w][g] \subseteq Row
    BY DEF TypeOK
  <1>4. b \in [GroupKinds -> SUBSET Row]
    BY <1>3, BufferedRowsType
  <1> QED BY <1>1, <1>2, <1>4, InitialState DEF TypeOK

\* A running job has a next write, an object of the store.
LEMMA CurrentIsObject ==
  ASSUME TypeOK, NEW w \in Workers, NEW j \in Submitted(w), ~Complete(w, j)
  PROVE  /\ Current(w, j) \in Object
         /\ job[w][j].at \in 1..Len(Writes(w, j))
         /\ j \in Job
  <1>1. j \in Job
    BY SubmittedAreJobs
  <1>2. job[w][j] \in JobState
    BY <1>1 DEF TypeOK
  <1>3. Writes(w, j) \in Seq(Object)
    BY WritesType
  <1>4. job[w][j].at \in 1..Len(Writes(w, j))
    BY <1>2, <1>3 DEF Complete, JobState
  <1> QED BY <1>1, <1>3, <1>4 DEF Current

\* Only the group jobs write grouped files.
LEMMA CurrentKind ==
  ASSUME TypeOK, NEW w \in Workers, NEW j \in Submitted(w), ~Complete(w, j),
         Current(w, j) \in GroupFile
  PROVE  j.kind \in GroupKinds /\ Current(w, j).kind = j.kind
  <1> DEFINE n == job[w][j].at
  <1>1. n \in 1..Len(Writes(w, j)) /\ j.kind \in JobKinds
    BY CurrentIsObject DEF Job
  <1>2. PICK g \in GroupKinds, s \in Sessions, c \in ChunkIds :
            Writes(w, j)[n] = Obj(g, s, c, 0, Primary)
    BY DEF Current, GroupFile
  <1>3. Writes(w, j)[n].kind = g
    BY <1>2 DEF Obj
  <1>4. CASE j.kind = "record"
    <2>1. Writes(w, j) = RecordWrites(ctl[w].task, ctl[w].cam)
      BY <1>4 DEF Writes, GroupKinds
    <2>2. \A k \in 1..Len(Writes(w, j)) : Writes(w, j)[k].kind \in {"error", "video", "chunk"}
      <3> DEFINE t == ctl[w].task
                 m == ctl[w].cam
      <3>1. /\ ErrorRecord(t.s, t.c, m).kind = "error" /\ VideoRecord(t.s, m).kind = "video"
            /\ ChunkRecord(t.s, t.c, m).kind = "chunk"
        BY DEF ErrorRecord, VideoRecord, ChunkRecord, Obj
      <3>2. \/ Writes(w, j) = <<ErrorRecord(t.s, t.c, m)>>
            \/ Writes(w, j) = <<VideoRecord(t.s, m), ChunkRecord(t.s, t.c, m)>>
            \/ Writes(w, j) = <<ChunkRecord(t.s, t.c, m)>>
        BY <2>1 DEF RecordWrites
      <3> QED BY <3>1, <3>2
    <2> QED BY <1>1, <1>3, <2>2 DEF GroupKinds
  <1>5. CASE j.kind = "window"
    <2>1. \A k \in 1..Len(Writes(w, j)) :
              Writes(w, j)[k].kind \in {"window", "windowText", "windowT5"}
      BY <1>5 DEF Writes, Obj, GroupKinds
    <2> QED BY <1>1, <1>3, <2>1 DEF GroupKinds
  <1>6. CASE j.kind \notin {"record", "window"}
    <2>1. \A k \in 1..Len(Writes(w, j)) : Writes(w, j)[k].kind = j.kind
      BY <1>1, <1>6 DEF Writes, Obj, GroupKinds, JobKinds, OptionalKinds
    <2> QED BY <1>1, <1>3, <2>1 DEF Current
  <1> QED BY <1>4, <1>5, <1>6

\* A write that lands leaves the store and its job typed.
LEMMA LandType ==
  ASSUME TypeOK, NEW w \in Workers, NEW j \in Submitted(w), ~Complete(w, j),
         ctl[w].phase # "idle", Land(w, j)
  PROVE  /\ stored' \subseteq Object /\ torn' \subseteq Object
         /\ rows' \in [GroupFile -> SUBSET Row]
         /\ passed' \in [RecordFile -> Nat]
         /\ buf' \in [Workers -> [GroupKinds -> SUBSET Row]]
         /\ job' \in [Workers -> [Job -> JobState]]
  <1> DEFINE o == Current(w, j)
  <1>1. o \in Object /\ j \in Job /\ job[w][j].at \in Nat \ {0}
    BY CurrentIsObject, SubmittedAreJobs DEF TypeOK, JobState
  <1>2. stored' \subseteq Object /\ torn' \subseteq Object
    BY <1>1 DEF TypeOK, Land
  <1>3. buf[w] \in [GroupKinds -> SUBSET Row] /\ mem[w] \in Memory /\ ctl[w].cam \in Cams
    BY DEF TypeOK, WorkerCtl
  <1>4. passed' \in [RecordFile -> Nat]
    <2>1. mem[w].counted[ctl[w].cam] \in Nat
      BY <1>3 DEF Memory
    <2> QED BY <2>1 DEF TypeOK, Land
  <1>5. rows' \in [GroupFile -> SUBSET Row]
    <2>1. CASE o \in GroupFile
      <3>1. o.kind = j.kind /\ j.kind \in GroupKinds
        BY <2>1, CurrentKind
      <3>2. RowsToWrite(w, j.kind) \subseteq Row
        BY <1>3, <3>1 DEF RowsToWrite, Memory
      <3> QED BY <2>1, <3>2 DEF TypeOK, Land
    <2>2. CASE o \notin GroupFile
      BY <2>2 DEF TypeOK, Land
    <2> QED BY <2>1, <2>2
  <1>6. buf' \in [Workers -> [GroupKinds -> SUBSET Row]]
    BY DEF TypeOK, Land, ClearingGroups
  <1>7. job' \in [Workers -> [Job -> JobState]]
    <2>1. [at |-> job[w][j].at + 1, mode |-> "closed"] \in JobState
      BY <1>1 DEF JobState
    <2> QED BY <1>1, <2>1 DEF TypeOK, Land
  <1> QED BY <1>2, <1>4, <1>5, <1>6, <1>7

\* A step of one worker that is not a write.
LEMMA ControlType ==
  ASSUME TypeOK, NEW w \in Workers,
         Take(w) \/ ClipsDone(w) \/ VideoDone(w) \/ Raise(w), UNCHANGEDrun
  PROVE  TypeOK'
  <1> USE DEF UNCHANGEDrun, store
  <1>1. CASE Take(w)
    <2>1. PICK t \in queue : /\ queue' = queue \ {t} /\ mem' = [mem EXCEPT ![w] = Fresh]
                             /\ EnterVideo(w, t, Primary, 1, {}) /\ UNCHANGED <<store, outputs>>
      BY <1>1 DEF Take
    <2>2. t \in Task /\ 1 \in 1..MaxAttempts
      BY WriterAssumption DEF TypeOK
    <2>3. mem' \in [Workers -> Memory]
      BY <2>1, InitialState DEF TypeOK
    <2> QED BY <2>1, <2>2, <2>3, EnterVideoType, PrimaryIsCam DEF TypeOK
  <1>2. ASSUME ctl[w].phase \in {"clips", "video"}
        PROVE  Count(w) \in [Cams -> Nat]
    <2>1. Counted(w) \in Nat
      <3>1. IsFiniteSet(Passing)
        BY WriterAssumption, FS_Subset DEF Passing
      <3> DEFINE S == {i \in Passing : \A f \in Failed(w) : Before([kind |-> "mp4", i |-> i], f)}
      <3>2. IsFiniteSet(S)
        BY <3>1, FS_Subset
      <3> QED BY <3>2, FS_CardinalityType DEF Counted
    <2>2. mem[w].counted \in [Cams -> Nat] /\ ctl[w].cam \in Cams
      BY DEF TypeOK, Memory, WorkerCtl
    <2> QED BY <2>1, <2>2 DEF Count
  <1>3. CASE ClipsDone(w)
    <2>1. Count(w) \in [Cams -> Nat] /\ buf[w]["metaGroup"] \subseteq Row
      BY <1>2, <1>3 DEF ClipsDone, TypeOK, GroupKinds
    <2>2. mem' \in [Workers -> Memory]
      <3> DEFINE x == [mem[w] EXCEPT !.counted = Count(w), !.metaRows = buf[w]["metaGroup"]]
      <3>1. mem[w] \in Memory /\ mem \in [Workers -> Memory]
        BY DEF TypeOK
      <3>2. x \in Memory
        BY <2>1, <3>1 DEF Memory
      <3>3. mem' = [mem EXCEPT ![w] = x]
        BY <1>3, <3>1 DEF ClipsDone, Memory
      <3> QED BY <3>1, <3>2, <3>3
    <2>3. buf' \in [Workers -> [GroupKinds -> SUBSET Row]]
      BY <1>3 DEF ClipsDone, TypeOK
    <2>4. ctl' \in [Workers -> WorkerCtl] /\ job' \in [Workers -> [Job -> JobState]]
      BY <1>3, InitialState DEF ClipsDone, TypeOK, WorkerCtl
    <2>5. \A v \in Workers : ctl'[v].phase # "idle" => ctl'[v].task \in Task
      BY <1>3 DEF ClipsDone, TypeOK, WorkerCtl
    <2> QED BY <1>3, <2>2, <2>3, <2>4, <2>5 DEF ClipsDone, TypeOK
  <1>4. CASE VideoDone(w)
    <2> DEFINE dropped == mem[w].dropped \cup {ctl[w].cam}
    <2>1. ctl[w] \in WorkerCtl /\ ctl[w].task \in Task /\ mem[w] \in Memory
      BY <1>4 DEF VideoDone, TypeOK
    <2>2. dropped \subseteq Cams
      BY <2>1 DEF WorkerCtl, Memory
    <2>3. CASE ctl[w].cam < NumCams
      <3>1. ctl[w].cam + 1 \in Cams
        BY <2>1, <2>3, WriterAssumption DEF WorkerCtl, Cams
      <3>2. mem' \in [Workers -> Memory]
        <4> DEFINE x == [mem[w] EXCEPT !.dropped = dropped]
        <4>1. x \in Memory
          BY <2>1, <2>2 DEF Memory
        <4>2. mem' = [mem EXCEPT ![w] = x] /\ mem \in [Workers -> Memory]
          BY <1>4, <2>3 DEF VideoDone, TypeOK
        <4> QED BY <4>1, <4>2
      <3>3. /\ EnterVideo(w, ctl[w].task, ctl[w].cam + 1, ctl[w].attempt, dropped)
            /\ UNCHANGED <<store, outputs, queue>>
        BY <1>4, <2>3 DEF VideoDone
      <3>4. ctl[w].attempt \in 1..MaxAttempts
        BY <2>1 DEF WorkerCtl
      <3> HIDE DEF dropped
      <3> QED BY <2>1, <3>1, <3>2, <3>3, <3>4, EnterVideoType DEF TypeOK
    <2>4. CASE ~(ctl[w].cam < NumCams)
      <3>1. /\ ctl' \in [Workers -> WorkerCtl] /\ job' \in [Workers -> [Job -> JobState]]
            /\ mem' \in [Workers -> Memory]
        BY ZenonT(60), <1>4, <2>4, InitialState DEF VideoDone, TypeOK
      <3>2. \A v \in Workers : ctl'[v].phase # "idle" => ctl'[v].task \in Task
        BY <1>4, <2>4 DEF VideoDone, TypeOK, Idle
      <3>3. outputs' \subseteq Task
        BY <1>4, <2>1, <2>4 DEF VideoDone, TypeOK
      <3> QED BY <1>4, <2>4, <3>1, <3>2, <3>3 DEF VideoDone, TypeOK
    <2> QED BY <2>3, <2>4
  <1>5. CASE Raise(w)
    <2>1. ctl[w] \in WorkerCtl /\ mem[w] \in Memory
      BY DEF TypeOK
    <2>2. ctl[w].phase \in {"clips", "video"} /\ ctl[w].task \in Task
      BY <1>5, <2>1 DEF Raise, Failed, Submitted, TypeOK, WorkerCtl
    <2>3. mem' \in [Workers -> Memory]
      BY <1>2, <1>5, <2>1, <2>2 DEF Raise, TypeOK, Memory
    <2>4. CASE AttemptsLeft(w)
      <3>1. ctl[w].attempt + 1 \in 1..MaxAttempts
        BY <2>1, <2>4, WriterAssumption DEF WorkerCtl, AttemptsLeft
      <3>2. /\ EnterVideo(w, ctl[w].task, Primary, ctl[w].attempt + 1, mem[w].dropped)
            /\ UNCHANGED <<store, queue, outputs>>
        BY <1>5, <2>4 DEF Raise
      <3> QED BY <2>2, <2>3, <3>1, <3>2, EnterVideoType, PrimaryIsCam DEF TypeOK
    <2>5. CASE ~AttemptsLeft(w)
      <3> DEFINE x == [ctl[w] EXCEPT !.phase = "raised"]
      <3>1. x \in WorkerCtl /\ x.task \in Task
        BY <2>1, <2>2 DEF WorkerCtl
      <3>2. /\ ctl' = [ctl EXCEPT ![w] = x] /\ ctl \in [Workers -> WorkerCtl]
            /\ UNCHANGED <<job, buf, stored, torn, rows, passed, queue, outputs>>
        BY <1>5, <2>5 DEF Raise, TypeOK
      <3>3. ctl' \in [Workers -> WorkerCtl]
        BY <3>1, <3>2
      <3>4. \A v \in Workers : ctl'[v].phase # "idle" => ctl'[v].task \in Task
        BY <3>1, <3>2 DEF TypeOK
      <3> QED BY <2>3, <3>2, <3>3, <3>4 DEF TypeOK
    <2> QED BY <2>4, <2>5
  <1> QED BY <1>1, <1>3, <1>4, <1>5

WriteStep(w, j) == Skip(w, j) \/ Upload(w, j) \/ Open(w, j) \/ Close(w, j)

\* A step of a job.
LEMMA WriteType ==
  ASSUME TypeOK, NEW w \in Workers, NEW j \in Submitted(w),
         WriteStep(w, j) \/ FailJob(w, j)
  PROVE  /\ stored' \subseteq Object /\ torn' \subseteq Object
         /\ rows' \in [GroupFile -> SUBSET Row]
         /\ passed' \in [RecordFile -> Nat]
         /\ buf' \in [Workers -> [GroupKinds -> SUBSET Row]]
         /\ job' \in [Workers -> [Job -> JobState]]
         /\ UNCHANGED <<queue, outputs, ctl, mem>>
  <1>1. ~Complete(w, j) /\ ctl[w].phase # "idle"
    BY DEF WriteStep, Skip, Upload, Open, Close, FailJob, Writable, Running, Ended, Submitted
  <1>2. CASE Upload(w, j) \/ Close(w, j)
    <2>1. Land(w, j)
      BY <1>2 DEF Upload, Close
    <2> QED BY <1>1, <2>1, LandType DEF Land
  <1>3. Current(w, j) \in Object /\ j \in Job /\ job[w][j] \in JobState
    BY <1>1, CurrentIsObject DEF TypeOK
  <1>4. CASE Skip(w, j)
    <2> DEFINE x == [job[w][j] EXCEPT !.at = job[w][j].at + 1]
    <2>1. x \in JobState
      BY <1>3 DEF JobState
    <2>2. job' = [job EXCEPT ![w][j] = x]
      BY <1>3, <1>4 DEF Skip, TypeOK
    <2>3. job' \in [Workers -> [Job -> JobState]]
      BY <1>3, <2>1, <2>2 DEF TypeOK
    <2> QED BY <1>4, <2>3 DEF Skip, store, TypeOK
  <1>5. CASE Open(w, j) \/ FailJob(w, j)
    <2>1. PICK q \in {"open", "failed"} : job' = [job EXCEPT ![w][j].mode = q]
      BY <1>5 DEF Open, FailJob
    <2> DEFINE x == [job[w][j] EXCEPT !.mode = q]
    <2>2. x \in JobState
      BY <1>3 DEF JobState
    <2>3. job' = [job EXCEPT ![w][j] = x]
      BY <1>3, <2>1 DEF TypeOK
    <2>4. job' \in [Workers -> [Job -> JobState]]
      BY <1>3, <2>2, <2>3 DEF TypeOK
    <2>5. stored' \subseteq Object /\ torn' \subseteq Object
      BY <1>3, <1>5 DEF Open, FailJob, store, TypeOK
    <2> QED BY <1>5, <2>4, <2>5 DEF Open, FailJob, store, TypeOK
  <1> QED BY <1>2, <1>4, <1>5 DEF WriteStep

\* Only inputs are selected.
LEMMA SelectedIsSessions == Selected \subseteq Sessions
  BY DEF Selected, FirstOf

\* A step of the run that is not a worker's.
LEMMA RunType ==
  ASSUME TypeOK, StartRun \/ Finish \/ Abort \/ Crash \/ (\E s \in Sessions : Crack(s))
  PROVE  TypeOK'
  <1>1. CASE StartRun
    BY <1>1, SelectedIsSessions DEF StartRun, store, TypeOK
  <1>2. CASE Finish
    <2>1. buf' \in [Workers -> [GroupKinds -> SUBSET Row]]
      BY <1>2, InitialState DEF Finish
    <2> QED BY <1>2, <2>1 DEF Finish, store, TypeOK
  <1>3. CASE Abort \/ Crash
    <2>1. Die
      BY <1>3 DEF Abort, Crash
    <2>2. /\ ctl' \in [Workers -> WorkerCtl] /\ job' \in [Workers -> [Job -> JobState]]
          /\ mem' \in [Workers -> Memory]
          /\ buf' \in [Workers -> [GroupKinds -> SUBSET Row]]
          /\ \A w \in Workers : ctl'[w].phase = "idle"
      BY <2>1, InitialState DEF Die, Idle
    <2>3. budget' \in [errors : Nat, faults : Nat, crashes : Nat]
      <3>1. CASE Abort
        BY <3>1 DEF Abort, TypeOK
      <3>2. CASE Crash
        <4> DEFINE x == [budget EXCEPT !.crashes = budget.crashes - 1]
        <4>1. budget' = x /\ budget.crashes > 0
          BY <3>2 DEF Crash
        <4>2. budget.crashes - 1 \in Nat
          BY <4>1 DEF TypeOK
        <4> QED BY <4>1, <4>2 DEF TypeOK
      <3> QED BY <1>3, <3>1, <3>2
    <2> QED BY <2>1, <2>2, <2>3 DEF Die, store, TypeOK
  <1>4. ASSUME NEW s \in Sessions, Crack(s)
        PROVE  TypeOK'
    <2>1. PICK bad \in SUBSET Chunks(s) :
            /\ Cardinality(bad) <= budget.errors
            /\ budget' = [budget EXCEPT !.errors = @ - Cardinality(bad)]
            /\ queue' \in {queue, queue \cup Tasks(s, bad)}
      BY <1>4 DEF Crack
    <2>2. Cardinality(bad) \in Nat
      BY ChunksAreFinite, FS_Subset, FS_CardinalityType
    <2>3. budget' \in [errors : Nat, faults : Nat, crashes : Nat]
      <3>1. budget.errors - Cardinality(bad) \in Nat
        BY <2>1, <2>2 DEF TypeOK
      <3> QED BY <2>1, <3>1 DEF TypeOK
    <2>4. queue' \subseteq Task
      <3>1. \A c \in Chunks(s), e \in SUBSET Cams : [s |-> s, c |-> c, err |-> e] \in Task
        BY ChunksAreFinite DEF Task
      <3>2. {Primary} \in SUBSET Cams /\ {} \in SUBSET Cams
        BY PrimaryIsCam
      <3>3. \A c \in Chunks(s) :
                [s |-> s, c |-> c, err |-> IF c \in bad THEN {Primary} ELSE {}] \in Task
        BY <3>1, <3>2
      <3>4. Tasks(s, bad) \subseteq Task
        BY <3>3 DEF Tasks
      <3> QED BY <2>1, <3>4 DEF TypeOK
    <2> QED BY <1>4, <2>3, <2>4 DEF Crack, store, TypeOK
  <1> QED BY <1>1, <1>2, <1>3, <1>4

\* Every step keeps the types.
LEMMA TypeStep == TypeOK /\ [Next]_vars => TypeOK'
  <1> SUFFICES ASSUME TypeOK, [Next]_vars PROVE TypeOK'
    OBVIOUS
  <1>1. CASE StartRun \/ Finish \/ Abort \/ Crash \/ (\E s \in Sessions : Crack(s))
    BY <1>1, RunType
  <1>2. ASSUME NEW w \in Workers, WriterStep(w)
        PROVE  TypeOK'
    <2>1. CASE Take(w) \/ ClipsDone(w) \/ VideoDone(w) \/ Raise(w)
      BY <1>2, <2>1, ControlType DEF WriterStep
    <2>2. ASSUME NEW j \in Submitted(w), WriteStep(w, j)
          PROVE  TypeOK'
      BY <1>2, <2>2, WriteType DEF WriterStep, UNCHANGEDrun, TypeOK
    <2> QED BY <1>2, <2>1, <2>2 DEF WriterStep, Step, WriteStep
  <1>3. ASSUME NEW w \in Workers, WriteFails(w)
        PROVE  TypeOK'
    <2>1. PICK j \in Submitted(w) : FailJob(w, j)
      BY <1>3 DEF WriteFails
    <2>2. budget' = [budget EXCEPT !.faults = budget.faults - 1] /\ budget.faults > 0
      BY <1>3 DEF WriteFails
    <2>3. budget.faults - 1 \in Nat
      BY <2>2 DEF TypeOK
    <2>4. budget' \in [errors : Nat, faults : Nat, crashes : Nat]
      BY <2>2, <2>3 DEF TypeOK
    <2> QED BY <1>3, <2>1, <2>4, WriteType DEF WriteFails, TypeOK
  <1>4. CASE UNCHANGED vars
    BY <1>4 DEF vars, writerVars, TypeOK
  <1> QED BY <1>1, <1>2, <1>3, <1>4 DEF Next

\* Every reachable state is well typed, whatever crashes, fails or is retried.
THEOREM TypeCorrect == Spec => []TypeOK
  BY InitType, TypeStep, PTL DEF Spec

-----------------------------------------------------------------------------
(* A process record appears after its clips: the invariant, worker by       *)
(* worker.                                                                  *)

Progress(v) ==
    \A j \in Submitted(v) : \A n \in 1..Len(Writes(v, j)) :
        n < job[v][j].at => Writes(v, j)[n] \in Existing

VideoClips(v) ==
    ctl[v].phase = "video" =>
        ClipObjects(ctl[v].task.s, ctl[v].task.c, ctl[v].cam) \subseteq Existing

DroppedClips(v) ==
    \A m \in mem[v].dropped : ClipObjects(ctl[v].task.s, ctl[v].task.c, m) \subseteq Existing

WorkerInv(v) == Progress(v) /\ VideoClips(v) /\ DroppedClips(v)

WorkersInv == \A v \in Workers : WorkerInv(v)

\* The three parts about workers, taken worker by worker.
LEMMA WorkersInvIs ==
  WorkersInv <=> ProgressIsWritten /\ VideoPhaseHasClips /\ DroppedHasClips
  BY DEF WorkersInv, WorkerInv, Progress, VideoClips, DroppedClips,
         ProgressIsWritten, VideoPhaseHasClips, DroppedHasClips

\* What exists stays in existence: a write adds its object and nothing else.
LEMMA WriteExisting ==
  ASSUME NEW w, NEW j, WriteStep(w, j) \/ FailJob(w, j)
  PROVE  Existing' \in {Existing, Existing \cup {Current(w, j)}}
  BY DEF WriteStep, Skip, Upload, Open, Close, FailJob, Land, Existing, store

\* A worker's control steps write nothing.
LEMMA ControlExisting ==
  ASSUME NEW w, Take(w) \/ ClipsDone(w) \/ VideoDone(w) \/ Raise(w)
  PROVE  Existing' = Existing
  BY DEF Take, ClipsDone, VideoDone, Raise, Existing, store

\* Nor do the steps of the run.
LEMMA RunExisting ==
  ASSUME StartRun \/ Finish \/ Abort \/ Crash \/ (\E s \in Sessions : Crack(s))
  PROVE  Existing' = Existing
  BY DEF StartRun, Finish, Abort, Crash, Die, Crack, Existing, store

\* A worker nothing happened to.
LEMMA KeepWorker ==
  ASSUME NEW v, WorkerInv(v), Existing \subseteq Existing',
         ctl'[v] = ctl[v], job'[v] = job[v], mem'[v] = mem[v], buf'[v] = buf[v]
  PROVE  WorkerInv(v)'
  <1>1. Submitted(v)' = Submitted(v)
    BY DEF Submitted
  <1>2. \A j : Writes(v, j)' = Writes(v, j)
    BY DEF Writes, HasData, RowsToWrite
  <1>3. Progress(v)'
    BY <1>1, <1>2 DEF WorkerInv, Progress
  <1> QED BY <1>3 DEF WorkerInv, VideoClips, DroppedClips

\* A worker back to idle.
LEMMA IdleWorker ==
  ASSUME NEW v, ctl'[v] = Idle, mem'[v] = Fresh
  PROVE  WorkerInv(v)'
  <1>1. Submitted(v)' = {}
    BY DEF Submitted, Idle
  <1> QED BY <1>1 DEF WorkerInv, Progress, VideoClips, DroppedClips, Idle, Fresh

\* A worker that enters a video.
LEMMA EnterWorker ==
  ASSUME TypeOK, NEW w \in Workers, NEW t, NEW m, NEW n, NEW dropped,
         EnterVideo(w, t, m, n, dropped), Existing' = Existing,
         \A x \in mem'[w].dropped : ClipObjects(t.s, t.c, x) \subseteq Existing
  PROVE  WorkerInv(w)'
  <1>1. ctl'[w] = [task |-> t, cam |-> m, attempt |-> n, phase |-> "clips"]
        /\ job'[w] = NotStarted
    BY DEF EnterVideo, TypeOK
  <1>2. Submitted(w)' \subseteq Job
    BY JobsOfAVideo DEF Submitted
  <1>3. Progress(w)'
    BY <1>1, <1>2 DEF Progress, NotStarted
  <1> QED BY <1>1, <1>3 DEF WorkerInv, VideoClips, DroppedClips

\* Clearing a buffer leaves a job nothing to write, and no other job sees it.
LEMMA WritesKeepOrVanish ==
  ASSUME TypeOK, NEW w \in Workers, NEW k \in Submitted(w),
         ctl'[w] = ctl[w], mem'[w] = mem[w],
         \A g \in GroupKinds : buf'[w][g] \in {buf[w][g], {}}
  PROVE  Writes(w, k)' \in {Writes(w, k), <<>>}
  <1>1. k.kind \in JobKinds
    BY SubmittedAreJobs DEF Job
  <1>2. CASE k.kind \in GroupKinds
    <2>1. \/ RowsToWrite(w, k.kind)' = RowsToWrite(w, k.kind)
          \/ RowsToWrite(w, k.kind)' = {}
      BY <1>2 DEF RowsToWrite
    <2>2. k.kind # "record"
      BY <1>2 DEF GroupKinds
    <2>3. /\ k.kind \notin {"meta", "metaFiltered", "mp4", "mp4Filtered", "webp", "embd"}
          /\ k.kind # "window"
      BY <1>2 DEF GroupKinds
    <2> QED BY <1>2, <2>1, <2>2, <2>3 DEF Writes
  <1>3. CASE k.kind \notin GroupKinds
    <2>1. \/ k.kind \in {"record", "meta", "metaFiltered"}
          \/ k.kind \in {"mp4", "mp4Filtered", "webp", "embd", "window"}
      BY <1>1, <1>3 DEF JobKinds, OptionalKinds, GroupKinds
    <2>2. HasData(w, k.i)' <=> HasData(w, k.i)
      BY DEF HasData
    <2>3. CASE k.kind \in {"record", "meta", "metaFiltered"}
      BY <1>3, <2>3 DEF Writes
    <2>4. CASE k.kind \in {"mp4", "mp4Filtered", "webp", "embd", "window"}
      <3>1. CASE HasData(w, k.i)
        BY <1>3, <2>2, <2>4, <3>1 DEF Writes
      <3>2. CASE ~HasData(w, k.i)
        BY <1>3, <2>2, <2>4, <3>2 DEF Writes
      <3> QED BY SMTT(40), <3>1, <3>2
    <2> QED BY <2>1, <2>3, <2>4
  <1> QED BY <1>2, <1>3

\* A worker that took a step of a job.
LEMMA WriteKeepsInv ==
  ASSUME TypeOK, NEW w \in Workers, WorkerInv(w), NEW j \in Submitted(w),
         WriteStep(w, j) \/ FailJob(w, j)
  PROVE  WorkerInv(w)'
  <1> DEFINE o == Current(w, j)
             n == job[w][j].at
  <1>1. /\ ~Complete(w, j) /\ ctl' = ctl /\ mem' = mem
        /\ Existing' \in {Existing, Existing \cup {o}}
    BY WriteExisting
    DEF WriteStep, Skip, Upload, Open, Close, FailJob, Land, Writable, Running, Ended
  <1>2. n \in 1..Len(Writes(w, j)) /\ o = Writes(w, j)[n] /\ j \in Job
    BY <1>1, CurrentIsObject DEF Current
  <1>3. \A g \in GroupKinds : buf'[w][g] \in {buf[w][g], {}}
    BY DEF WriteStep, Skip, Upload, Open, Close, FailJob, Land, TypeOK
  <1>4. Submitted(w)' = Submitted(w)
    BY <1>1 DEF Submitted
  <1>5. \A k \in Submitted(w) : Writes(w, k)' \in {Writes(w, k), <<>>}
    BY <1>1, <1>3, WritesKeepOrVanish
  <1>6. /\ \A k \in Submitted(w) \ {j} : job'[w][k] = job[w][k]
        /\ \/ job'[w][j].at = n
           \/ job'[w][j].at = n + 1 /\ o \in Existing'
    <2>1. job \in [Workers -> [Job -> JobState]] /\ Submitted(w) \subseteq Job
      BY SubmittedAreJobs DEF TypeOK
    <2>2. CASE Skip(w, j)
      BY SMTT(40), <1>1, <1>2, <2>1, <2>2 DEF Skip, JobState
    <2>3. CASE Upload(w, j) \/ Close(w, j)
      BY <1>2, <2>1, <2>3 DEF Upload, Close, Land, Existing, JobState
    <2>4. CASE Open(w, j) \/ FailJob(w, j)
      <3>1. PICK q : job' = [job EXCEPT ![w][j].mode = q]
        BY <2>4 DEF Open, FailJob
      <3> QED BY <1>2, <2>1, <3>1 DEF JobState
    <2> QED BY <2>2, <2>3, <2>4 DEF WriteStep
  <1>7. Progress(w)'
    <2> SUFFICES ASSUME NEW k \in Submitted(w), NEW x \in 1..Len(Writes(w, k)'),
                        x < job'[w][k].at
                 PROVE  Writes(w, k)'[x] \in Existing'
      BY <1>4 DEF Progress
    <2>1. Writes(w, k)' = Writes(w, k)
      BY <1>5
    <2>2. CASE x < job[w][k].at
      BY <1>1, <2>1, <2>2 DEF WorkerInv, Progress
    <2>3. CASE ~(x < job[w][k].at)
      <3>1. k = j
        BY <1>6, <2>3
      <3>2. x = n /\ o \in Existing'
        BY <1>2, <1>6, <2>3, <3>1
      <3> QED BY <1>2, <2>1, <3>1, <3>2
    <2> QED BY <2>2, <2>3
  <1> QED BY SMTT(40), <1>1, <1>7 DEF WorkerInv, VideoClips, DroppedClips

\* When every clip-level future returned, the clips are in the store: written
\* now, or by the attempt after which the data was dropped.
LEMMA ClipsComplete ==
  ASSUME TypeOK, NEW w \in Workers, WorkerInv(w),
         ctl[w].phase = "clips", AllEnded(w), Failed(w) = {}
  PROVE  ClipObjects(ctl[w].task.s, ctl[w].task.c, ctl[w].cam) \subseteq Existing
  <1> DEFINE t == ctl[w].task
             m == ctl[w].cam
  <1>1. CASE m \in mem[w].dropped
    BY <1>1 DEF WorkerInv, DroppedClips
  <1>2. CASE m \notin mem[w].dropped
    <2>1. Submitted(w) = ClipJobs(m)
      BY DEF Submitted
    <2>2. \A j \in ClipJobs(m) : Len(Writes(w, j)) < job[w][j].at
      BY <2>1 DEF AllEnded, Ended, Complete
    <2>3. \A j \in ClipJobs(m) : \A x : Writes(w, j) = <<x>> => x \in Existing
      <3> SUFFICES ASSUME NEW j \in ClipJobs(m), NEW x, Writes(w, j) = <<x>>
                   PROVE  x \in Existing
        OBVIOUS
      <3>1. 1 < job[w][j].at
        BY <2>2
      <3> QED BY <2>1, <3>1 DEF WorkerInv, Progress
    <2>4. \A i \in Encoded : HasData(w, i)
      BY <1>2 DEF HasData
    <2> DEFINE J(k, i) == [kind |-> k, i |-> i]
    <2>5. \A i \in Passing : /\ "mp4" \in Outputs => J("mp4", i) \in ClipJobs(m)
                             /\ m = Primary => \A k \in {"webp", "embd", "meta"} \cap Outputs :
                                                   J(k, i) \in ClipJobs(m)
      BY DEF ClipJobs, Enabled, PerClip
    <2>6. \A i \in Filtered :
            /\ "mp4Filtered" \in Outputs => J("mp4Filtered", i) \in ClipJobs(m)
            /\ m = Primary /\ "metaFiltered" \in Outputs => J("metaFiltered", i) \in ClipJobs(m)
      BY DEF ClipJobs, Enabled, PerClip
    <2>7. \A i \in Encoded, k \in {"mp4", "mp4Filtered"} :
            Writes(w, J(k, i)) = <<Obj(k, t.s, t.c, i, m)>>
      BY <2>4 DEF Writes, GroupKinds
    <2>8. \A i \in Encoded, k \in {"webp", "embd"} :
            Writes(w, J(k, i)) = <<Obj(k, t.s, t.c, i, Primary)>>
      BY <2>4 DEF Writes, GroupKinds
    <2>9. \A i, k : k \in {"meta", "metaFiltered"} =>
            Writes(w, J(k, i)) = <<Obj(k, t.s, t.c, i, Primary)>>
      BY DEF Writes, GroupKinds
    <2> HIDE DEF J
    <2>10. \A i \in Passing \cap Encoded :
             /\ "mp4" \in Outputs => Obj("mp4", t.s, t.c, i, m) \in Existing
             /\ m = Primary => \A k \in {"webp", "embd"} \cap Outputs :
                                   Obj(k, t.s, t.c, i, Primary) \in Existing
      BY <2>3, <2>5, <2>7, <2>8
    <2>11. \A i \in Filtered \cap Encoded :
             "mp4Filtered" \in Outputs => Obj("mp4Filtered", t.s, t.c, i, m) \in Existing
      BY <2>3, <2>6, <2>7
    <2>12. m = Primary =>
             /\ \A i \in Passing : "meta" \in Outputs => Obj("meta", t.s, t.c, i, m) \in Existing
             /\ \A i \in Filtered : "metaFiltered" \in Outputs =>
                                        Obj("metaFiltered", t.s, t.c, i, m) \in Existing
      BY <2>3, <2>5, <2>6, <2>9
    <2>13. \A k, s, c, i, x : Obj(k, s, c, i, x).kind = k
      BY DEF Obj
    <2> HIDE DEF t, m
    <2>14. \A o \in ClipObjects(t.s, t.c, m) : o \in Existing
      <3> SUFFICES ASSUME NEW o \in ClipObjects(t.s, t.c, m) PROVE o \in Existing
        OBVIOUS
      <3>1. o.kind \in Outputs
        BY DEF ClipObjects
      <3>2. CASE o \in Mp4Objects(t.s, t.c, m)
        BY <2>10, <2>11, <2>13, <3>1, <3>2 DEF Mp4Objects
      <3>3. CASE m = Primary /\ o \in SharedObjects(t.s, t.c)
        BY <2>10, <2>12, <2>13, <3>1, <3>3 DEF SharedObjects
      <3> QED BY <3>2, <3>3 DEF ClipObjects
    <2> QED BY <2>14 DEF t, m
  <1> QED BY <1>1, <1>2

\* A worker that took a control step.
LEMMA ControlKeepsInv ==
  ASSUME TypeOK, NEW w \in Workers, WorkerInv(w),
         Take(w) \/ ClipsDone(w) \/ VideoDone(w) \/ Raise(w)
  PROVE  WorkerInv(w)'
  <1>1. Existing' = Existing
    BY ControlExisting
  <1>2. mem \in [Workers -> Memory] /\ ctl \in [Workers -> WorkerCtl]
    BY DEF TypeOK
  <1>3. CASE Take(w)
    <2>1. PICK t : mem' = [mem EXCEPT ![w] = Fresh] /\ EnterVideo(w, t, Primary, 1, {})
      BY <1>3 DEF Take
    <2>2. mem'[w].dropped = {}
      BY <1>2, <2>1 DEF Fresh
    <2> QED BY <1>1, <2>1, <2>2, EnterWorker
  <1>4. CASE ClipsDone(w)
    <2>1. /\ mem'[w].dropped = mem[w].dropped
          /\ ctl'[w] = [ctl[w] EXCEPT !.phase = "video"]
          /\ job'[w] = NotStarted
      BY <1>2, <1>4 DEF ClipsDone, TypeOK, Memory, WorkerCtl
    <2>2. ctl'[w].task = ctl[w].task /\ ctl'[w].cam = ctl[w].cam
      BY <1>2, <2>1 DEF WorkerCtl
    <2>3. ClipObjects(ctl[w].task.s, ctl[w].task.c, ctl[w].cam) \subseteq Existing
      BY <1>4, ClipsComplete DEF ClipsDone
    <2>4. Submitted(w)' \subseteq Job
      BY JobsOfAVideo DEF Submitted
    <2>5. Progress(w)'
      BY <2>1, <2>4 DEF Progress, NotStarted
    <2>6. VideoClips(w)' /\ DroppedClips(w)'
      BY <1>1, <2>1, <2>2, <2>3 DEF WorkerInv, VideoClips, DroppedClips
    <2> QED BY <2>5, <2>6 DEF WorkerInv
  <1>5. CASE VideoDone(w)
    <2> DEFINE dropped == mem[w].dropped \cup {ctl[w].cam}
    <2>1. \A x \in dropped : ClipObjects(ctl[w].task.s, ctl[w].task.c, x) \subseteq Existing
      BY <1>5 DEF VideoDone, WorkerInv, VideoClips, DroppedClips
    <2>2. CASE ctl[w].cam < NumCams
      <3>1. mem' = [mem EXCEPT ![w].dropped = dropped]
            /\ EnterVideo(w, ctl[w].task, ctl[w].cam + 1, ctl[w].attempt, dropped)
        BY <1>5, <2>2 DEF VideoDone
      <3>2. mem'[w].dropped = dropped
        BY <1>2, <3>1 DEF Memory
      <3> HIDE DEF dropped
      <3> QED BY <1>1, <2>1, <3>1, <3>2, EnterWorker
    <2>3. CASE ~(ctl[w].cam < NumCams)
      <3>1. ctl'[w] = Idle /\ mem'[w] = Fresh
        BY <1>2, <1>5, <2>3 DEF VideoDone
      <3> QED BY <3>1, IdleWorker
    <2> QED BY <2>2, <2>3
  <1>6. CASE Raise(w)
    <2>1. mem'[w].dropped = mem[w].dropped
      BY <1>2, <1>6 DEF Raise, Memory
    <2>2. \A x \in mem'[w].dropped :
              ClipObjects(ctl[w].task.s, ctl[w].task.c, x) \subseteq Existing
      BY <2>1 DEF WorkerInv, DroppedClips
    <2>3. CASE AttemptsLeft(w)
      <3>1. EnterVideo(w, ctl[w].task, Primary, ctl[w].attempt + 1, mem[w].dropped)
        BY <1>6, <2>3 DEF Raise
      <3> QED BY <1>1, <2>2, <3>1, EnterWorker
    <2>4. CASE ~AttemptsLeft(w)
      <3>1. ctl' = [ctl EXCEPT ![w].phase = "raised"]
        BY <1>6, <2>4 DEF Raise
      <3>2. ctl'[w].phase = "raised" /\ ctl'[w].task = ctl[w].task
        BY <1>2, <3>1 DEF WorkerCtl
      <3>3. Submitted(w)' = {}
        BY <3>2 DEF Submitted
      <3> QED BY <1>1, <2>2, <3>2, <3>3 DEF WorkerInv, Progress, VideoClips, DroppedClips
    <2> QED BY <2>3, <2>4
  <1> QED BY <1>3, <1>4, <1>5, <1>6

\* Every step keeps what all workers remember true.
LEMMA WorkersStep ==
  ASSUME TypeOK, WorkersInv, [Next]_vars
  PROVE  WorkersInv'
  <1>1. CASE StartRun \/ Finish \/ (\E s \in Sessions : Crack(s))
    <2>1. /\ Existing' = Existing /\ ctl' = ctl /\ job' = job /\ mem' = mem
          /\ buf' = buf \/ Finish
      BY <1>1, RunExisting DEF StartRun, Finish, Crack
    <2>2. CASE buf' = buf
      BY <2>1, <2>2, KeepWorker DEF WorkersInv
    <2>3. CASE Finish
      <3>1. \A w \in Workers : Submitted(w)' = {} /\ ctl'[w].phase = "idle"
        BY <2>1, <2>3 DEF Finish, Submitted
      <3> QED BY <2>1, <3>1 DEF WorkersInv, WorkerInv, Progress, VideoClips, DroppedClips
    <2> QED BY <2>1, <2>2, <2>3
  <1>2. CASE Abort \/ Crash
    <2>1. \A w \in Workers : ctl'[w] = Idle /\ mem'[w] = Fresh
      BY <1>2 DEF Abort, Crash, Die
    <2> QED BY <2>1, IdleWorker DEF WorkersInv
  <1>3. ASSUME NEW w \in Workers, Step(w) \/ \E j \in Submitted(w) : FailJob(w, j)
        PROVE  WorkersInv'
    <2>1. CASE Take(w) \/ ClipsDone(w) \/ VideoDone(w) \/ Raise(w)
      <3>1. WorkerInv(w)'
        BY <2>1, ControlKeepsInv DEF WorkersInv
      <3>2. \A v \in Workers \ {w} : /\ ctl'[v] = ctl[v] /\ job'[v] = job[v]
                                     /\ mem'[v] = mem[v] /\ buf'[v] = buf[v]
        BY <2>1 DEF Take, ClipsDone, VideoDone, Raise, EnterVideo, TypeOK
      <3>3. \A v \in Workers \ {w} : WorkerInv(v)'
        BY <2>1, <3>2, ControlExisting, KeepWorker DEF WorkersInv
      <3> QED BY <3>1, <3>3 DEF WorkersInv
    <2>2. ASSUME NEW j \in Submitted(w), WriteStep(w, j) \/ FailJob(w, j)
          PROVE  WorkersInv'
      <3>1. WorkerInv(w)'
        BY <2>2, WriteKeepsInv DEF WorkersInv
      <3>2. \A v \in Workers \ {w} : /\ ctl'[v] = ctl[v] /\ job'[v] = job[v]
                                     /\ mem'[v] = mem[v] /\ buf'[v] = buf[v]
        BY <2>2 DEF WriteStep, Skip, Upload, Open, Close, FailJob, Land, TypeOK
      <3>3. \A v \in Workers \ {w} : WorkerInv(v)'
        BY <2>2, <3>2, WriteExisting, KeepWorker DEF WorkersInv
      <3> QED BY <3>1, <3>3 DEF WorkersInv
    <2> QED BY <1>3, <2>1, <2>2 DEF Step, WriteStep
  <1>4. CASE UNCHANGED vars
    <2>1. Existing' = Existing /\ ctl' = ctl /\ job' = job /\ mem' = mem /\ buf' = buf
      BY <1>4 DEF vars, writerVars, Existing
    <2> QED BY <2>1, KeepWorker DEF WorkersInv
  <1> QED BY <1>1, <1>2, <1>3, <1>4 DEF Next, WriterStep, WriteFails

\* A chunk record is written by the record job of the video it is about.
LEMMA ChunkRecordWrite ==
  ASSUME TypeOK, NEW w \in Workers, NEW j \in Submitted(w), ~Complete(w, j),
         NEW s, NEW c, NEW m, Current(w, j) = ChunkRecord(s, c, m)
  PROVE  /\ ctl[w].phase = "video"
         /\ s = ctl[w].task.s /\ c = ctl[w].task.c /\ m = ctl[w].cam
  <1> DEFINE t == ctl[w].task
             n == job[w][j].at
  <1>1. n \in 1..Len(Writes(w, j)) /\ Writes(w, j)[n] = ChunkRecord(s, c, m)
        /\ j.kind \in JobKinds
    BY CurrentIsObject DEF Current, Job
  <1>2. ChunkRecord(s, c, m).kind = "chunk"
    BY DEF ChunkRecord, Obj
  <1>3. j.kind = "record"
    <2>1. CASE j.kind = "window"
      <3>1. \A k \in 1..Len(Writes(w, j)) :
                Writes(w, j)[k].kind \in {"window", "windowText", "windowT5"}
        BY <2>1 DEF Writes, Obj, GroupKinds
      <3> QED BY <1>1, <1>2, <3>1
    <2>2. CASE j.kind \notin {"record", "window"}
      <3>1. \A k \in 1..Len(Writes(w, j)) : Writes(w, j)[k].kind = j.kind
        BY <1>1, <2>2 DEF Writes, Obj, GroupKinds, JobKinds, OptionalKinds
      <3>2. j.kind # "chunk"
        BY <1>1 DEF JobKinds, OptionalKinds
      <3> QED BY SMTT(40), <1>1, <1>2, <3>1, <3>2
    <2> QED BY <2>1, <2>2
  <1>4. ctl[w].phase = "video"
    BY <1>3 DEF Submitted, ClipJobs, Enabled, PerClip
  <1>5. Writes(w, j) = RecordWrites(t, ctl[w].cam)
    BY <1>3 DEF Writes, GroupKinds
  <1>6. ChunkRecord(s, c, m) \in {ErrorRecord(t.s, t.c, ctl[w].cam),
                                  VideoRecord(t.s, ctl[w].cam),
                                  ChunkRecord(t.s, t.c, ctl[w].cam)}
    BY <1>1, <1>5 DEF RecordWrites
  <1>7. ErrorRecord(t.s, t.c, ctl[w].cam).kind = "error" /\ VideoRecord(t.s, ctl[w].cam).kind = "video"
    BY DEF ErrorRecord, VideoRecord, Obj
  <1>8. ChunkRecord(s, c, m) = ChunkRecord(t.s, t.c, ctl[w].cam)
    BY <1>2, <1>6, <1>7
  <1> QED BY <1>4, <1>8 DEF ChunkRecord, Obj

\* A record that appears finds the clips of its chunk in the store.
LEMMA RecordStep ==
  ASSUME TypeOK, WorkersInv, RecordHasClips, [Next]_vars
  PROVE  RecordHasClips'
  <1>1. CASE Existing' = Existing
    BY <1>1 DEF RecordHasClips
  <1>2. ASSUME NEW w \in Workers, NEW j \in Submitted(w), WriteStep(w, j) \/ FailJob(w, j)
        PROVE  RecordHasClips'
    <2>1. ~Complete(w, j) /\ Existing' \in {Existing, Existing \cup {Current(w, j)}}
      BY <1>2, WriteExisting
      DEF WriteStep, Skip, Upload, Open, Close, FailJob, Writable, Running, Ended
    <2> SUFFICES ASSUME NEW s \in Sessions, NEW m \in Cams, NEW c \in ChunkIds,
                        ChunkRecord(s, c, m) \in Existing'
                 PROVE  ClipObjects(s, c, m) \subseteq Existing'
      BY DEF RecordHasClips
    <2>2. CASE ChunkRecord(s, c, m) \in Existing
      BY <2>1, <2>2 DEF RecordHasClips
    <2>3. CASE ChunkRecord(s, c, m) = Current(w, j)
      BY <2>1, <2>3, ChunkRecordWrite DEF WorkersInv, WorkerInv, VideoClips
    <2> QED BY <2>1, <2>2, <2>3
  <1>3. ASSUME NEW w \in Workers, Step(w) \/ \E j \in Submitted(w) : FailJob(w, j)
        PROVE  RecordHasClips'
    BY <1>1, <1>2, <1>3, ControlExisting DEF Step, WriteStep
  <1>4. CASE UNCHANGED vars
    BY <1>1, <1>4 DEF vars, writerVars, Existing
  <1> QED BY <1>1, <1>3, <1>4, RunExisting DEF Next, WriterStep, WriteFails

\* On an object store no step leaves a torn object.
LEMMA TornStep ==
  ASSUME TypeOK, NothingTorn, [Next]_vars
  PROVE  NothingTorn'
  <1> SUFFICES ASSUME ~LocalStore
               PROVE  torn' = {} /\ \A w \in Workers, j \in Job : job'[w][j].mode # "open"
    BY DEF NothingTorn
  <1>1. torn = {} /\ \A w \in Workers, j \in Job : job[w][j].mode # "open"
    BY DEF NothingTorn
  <1>2. \A j \in Job : NotStarted[j].mode # "open"
    BY DEF NotStarted
  <1>3. job \in [Workers -> [Job -> JobState]]
    BY DEF TypeOK
  <1>4. CASE StartRun \/ Finish \/ Abort \/ Crash \/ (\E s \in Sessions : Crack(s)) \/ UNCHANGED vars
    BY <1>1, <1>2, <1>4
    DEF StartRun, Finish, Abort, Crash, Die, Crack, store, vars, writerVars
  <1>5. ASSUME NEW w \in Workers, Step(w) \/ \E j \in Submitted(w) : FailJob(w, j)
        PROVE  torn' = {} /\ \A v \in Workers, j \in Job : job'[v][j].mode # "open"
    <2>1. CASE Take(w) \/ ClipsDone(w) \/ VideoDone(w) \/ Raise(w)
      <3>1. torn' = torn /\ (job' = job \/ job' = [job EXCEPT ![w] = NotStarted])
        BY <2>1 DEF Take, ClipsDone, VideoDone, Raise, EnterVideo, store
      <3> QED BY <1>1, <1>2, <1>3, <3>1
    <2>2. ASSUME NEW j \in Submitted(w), WriteStep(w, j) \/ FailJob(w, j)
          PROVE  torn' = {} /\ \A v \in Workers, k \in Job : job'[v][k].mode # "open"
      <3>1. j \in Job
        BY SubmittedAreJobs
      <3>2. torn' = {}
        BY <1>1, <2>2 DEF WriteStep, Skip, Upload, Open, Close, FailJob, Land, store
      <3>3. CASE Skip(w, j)
        <4>1. job' = [job EXCEPT ![w][j].at = job[w][j].at + 1]
          BY <3>3 DEF Skip
        <4> QED BY <1>1, <1>3, <3>1, <3>2, <4>1 DEF JobState
      <3>4. CASE Upload(w, j)
        <4>1. job' = [job EXCEPT ![w][j] = [at |-> job[w][j].at + 1, mode |-> "closed"]]
          BY <3>4 DEF Upload, Land
        <4> QED BY <1>1, <1>3, <3>1, <3>2, <4>1
      <3>5. CASE FailJob(w, j)
        <4>1. job' = [job EXCEPT ![w][j].mode = "failed"]
          BY <3>5 DEF FailJob
        <4> QED BY <1>1, <1>3, <3>1, <3>2, <4>1 DEF JobState
      <3> QED BY <2>2, <3>3, <3>4, <3>5 DEF WriteStep, Open, Close
    <2> QED BY <1>5, <2>1, <2>2 DEF Step, WriteStep
  <1> QED BY <1>4, <1>5 DEF Next, WriterStep, WriteFails

\* The inductive invariant holds before the first run.
LEMMA InitInd == Init => IndInv
  <1> SUFFICES ASSUME Init PROVE IndInv
    OBVIOUS
  <1>1. /\ stored = {} /\ torn = {}
        /\ ctl = [w \in Workers |-> Idle] /\ mem = [w \in Workers |-> Fresh]
        /\ job = [w \in Workers |-> NotStarted]
    BY DEF Init, WriterInit
  <1>2. \A w \in Workers : Submitted(w) = {}
    BY <1>1 DEF Submitted, Idle
  <1>3. WorkersInv
    BY <1>1, <1>2 DEF WorkersInv, WorkerInv, Progress, VideoClips, DroppedClips, Idle, Fresh
  <1>4. NothingTorn /\ RecordHasClips
    BY <1>1 DEF NothingTorn, RecordHasClips, NotStarted, Existing
  <1> QED BY <1>3, <1>4, InitType, WorkersInvIs DEF IndInv

\* Every step keeps the inductive invariant.
LEMMA IndStep == IndInv /\ [Next]_vars => IndInv'
  <1> SUFFICES ASSUME IndInv, [Next]_vars PROVE IndInv'
    OBVIOUS
  <1>1. TypeOK /\ NothingTorn /\ RecordHasClips /\ WorkersInv
    BY WorkersInvIs DEF IndInv
  <1>2. WorkersInv'
    BY <1>1, WorkersStep
  <1>3. ProgressIsWritten' /\ VideoPhaseHasClips' /\ DroppedHasClips'
    BY <1>2 DEF WorkersInv, WorkerInv, Progress, VideoClips, DroppedClips,
                ProgressIsWritten, VideoPhaseHasClips, DroppedHasClips
  <1> QED BY <1>1, <1>3, TypeStep, TornStep, RecordStep DEF IndInv

\* The inductive invariant is strong enough.
LEMMA IndImplies == IndInv => RecordAfterClips
  <1> SUFFICES ASSUME IndInv, NEW s \in Sessions, NEW m \in Cams, NEW c \in Chunks(s),
                      ChunkRecord(s, c, m) \in Existing
               PROVE  ClipObjects(s, c, m) \subseteq Written
    BY DEF RecordAfterClips
  <1>1. c \in ChunkIds
    BY ChunksAreFinite
  <1>2. ClipObjects(s, c, m) \subseteq Existing
    BY <1>1 DEF IndInv, RecordHasClips
  <1> QED BY <1>2 DEF IndInv, NothingTorn, Existing, Written

\* A chunk's process record is in the store only together with every output of
\* the clips of that video, for any number of inputs, cameras, workers, threads
\* and attempts, and whatever crashes, fails or is retried.
THEOREM RecordAfterClipsHolds == Spec => []RecordAfterClips
  BY InitInd, IndStep, IndImplies, PTL DEF Spec

-----------------------------------------------------------------------------
(* A process record is written once. *)

RecordsKept == \A o \in RecordFile : o \in stored => o \in stored' /\ passed'[o] = passed[o]

\* Of the jobs of a worker only the record job writes records.
LEMMA RecordJobWrites ==
  ASSUME TypeOK, NEW w \in Workers, NEW j \in Submitted(w), ~Complete(w, j)
  PROVE  IF j = RecordJob THEN ctl[w].phase = "video" /\ Current(w, j).kind \in RecordKinds
                          ELSE Current(w, j).kind \notin RecordKinds
  <1> DEFINE n == job[w][j].at
  <1>1. n \in 1..Len(Writes(w, j)) /\ Current(w, j) = Writes(w, j)[n] /\ j \in Job /\ j.kind \in JobKinds
    BY CurrentIsObject DEF Current, Job
  <1>2. CASE j.kind = "record"
    <2>1. ctl[w].phase = "video"
      BY <1>2 DEF Submitted, ClipJobs, Enabled, PerClip
    <2>2. j.i = 0
      BY <1>2, <2>1 DEF Submitted, VideoJobs, Enabled, PerClip, GroupKinds
    <2>3. j = RecordJob
      BY <1>1, <1>2, <2>2 DEF Job, RecordJob
    <2>4. Writes(w, j) = RecordWrites(ctl[w].task, ctl[w].cam)
      BY SMTT(40), <1>2 DEF Writes, GroupKinds
    <2>5. Writes(w, j)[n].kind \in RecordKinds
      BY <1>1, <2>4 DEF RecordWrites, ErrorRecord, VideoRecord, ChunkRecord, Obj, RecordKinds
    <2> QED BY <1>1, <2>1, <2>3, <2>5
  <1>3. CASE j.kind = "window"
    <2>1. \A k \in 1..Len(Writes(w, j)) : Writes(w, j)[k].kind \in {"window", "windowText", "windowT5"}
      BY <1>3 DEF Writes, Obj, GroupKinds
    <2> QED BY <1>1, <1>3, <2>1 DEF RecordKinds, RecordJob
  <1>4. CASE j.kind \notin {"record", "window"}
    <2>1. \A k \in 1..Len(Writes(w, j)) : Writes(w, j)[k].kind = j.kind
      BY <1>1, <1>4 DEF Writes, Obj, GroupKinds, JobKinds, OptionalKinds
    <2>2. j.kind \notin RecordKinds
      BY <1>1, <1>4 DEF JobKinds, OptionalKinds, RecordKinds
    <2>3. Current(w, j).kind = j.kind
      BY <1>1, <2>1
    <2> QED BY SMTT(40), <1>4, <2>2, <2>3 DEF RecordJob
  <1> QED BY <1>2, <1>3, <1>4

\* A worker whose record job and video stay as they are has the same record open.
LEMMA SameRecording ==
  ASSUME NEW v, ctl'[v] = ctl[v], job'[v][RecordJob] = job[v][RecordJob]
  PROVE  Recording(v)' = Recording(v) /\ Current(v, RecordJob)' = Current(v, RecordJob)
  <1>1. Writes(v, RecordJob)' = Writes(v, RecordJob)
    BY DEF Writes, RecordJob
  <1> QED BY <1>1 DEF Recording, Current

\* Records that no step opens, closes or uploads stay as they are.
LEMMA RecordsUntouched ==
  ASSUME OpenRecords,
         \A v \in Workers : Recording(v)' =>
            Recording(v) /\ Current(v, RecordJob)' = Current(v, RecordJob),
         \A v \in Workers : Recording(v)' =>
            Current(v, RecordJob) \in torn' \ stored'
  PROVE  OpenRecords'
  BY DEF OpenRecords

\* The job that a worker takes a step of is the only one that moves.
LEMMA OtherJobs ==
  ASSUME TypeOK, NEW w \in Workers, NEW j \in Submitted(w), WriteStep(w, j) \/ FailJob(w, j)
  PROVE  /\ ctl' = ctl
         /\ \A v \in Workers, k \in Job : v # w \/ k # j => job'[v][k] = job[v][k]
   <1>1. j \in Job /\ job \in [Workers -> [Job -> JobState]] /\ job[w][j] \in JobState
    BY SubmittedAreJobs DEF TypeOK
  <1>2. ctl' = ctl
    BY DEF WriteStep, Skip, Upload, Open, Close, FailJob, Land
  <1>3. \E x : job' = [job EXCEPT ![w][j] = x]
    <2>1. CASE Skip(w, j)
      <3>1. job' = [job EXCEPT ![w][j].at = job[w][j].at + 1]
        BY <2>1 DEF Skip
      <3> QED BY <3>1
    <2>2. CASE Upload(w, j) \/ Close(w, j)
      <3>1. job' = [job EXCEPT ![w][j] = [at |-> job[w][j].at + 1, mode |-> "closed"]]
        BY <2>2 DEF Upload, Close, Land
      <3> QED BY <3>1
    <2>3. CASE Open(w, j)
      <3>1. job' = [job EXCEPT ![w][j].mode = "open"]
        BY <2>3 DEF Open
      <3> QED BY <3>1
    <2>4. CASE FailJob(w, j)
      <3>1. job' = [job EXCEPT ![w][j].mode = "failed"]
        BY <2>4 DEF FailJob
      <3> QED BY <3>1
    <2> QED BY <2>1, <2>2, <2>3, <2>4 DEF WriteStep
  <1> QED BY <1>1, <1>2, <1>3

\* A step of another job writes none.
LEMMA OtherJobKeepsRecords ==
  ASSUME TypeOK, OpenRecords, NEW w \in Workers, NEW j \in Submitted(w), j # RecordJob,
         WriteStep(w, j) \/ FailJob(w, j)
  PROVE  RecordsKept /\ OpenRecords'
  <1> DEFINE o == Current(w, j)
  <1>1. ~Complete(w, j) /\ RecordJob \in Job
    BY DEF WriteStep, Skip, Upload, Open, Close, FailJob, Writable, Running, Ended, RecordJob, Job, JobKinds
  <1>2. o.kind \notin RecordKinds
    BY <1>1, RecordJobWrites
  <1>3. \A x : x # o => /\ x \in stored' <=> x \in stored
                        /\ x \in torn' <=> x \in torn
    BY DEF WriteStep, Skip, Upload, Open, Close, FailJob, Land, store
  <1>4. \A x \in RecordFile : x.kind \in RecordKinds
    BY DEF RecordFile, ChunkRecord, Obj, RecordKinds
  <1>5. o \notin RecordFile
    BY <1>2, <1>4
  <1>6. passed' = passed
    BY <1>5 DEF WriteStep, Skip, Upload, Open, Close, FailJob, Land, store
  <1>7. RecordsKept
    BY <1>3, <1>5, <1>6 DEF RecordsKept
  <1>8. \A v \in Workers : ctl'[v] = ctl[v] /\ job'[v][RecordJob] = job[v][RecordJob]
    BY <1>1, OtherJobs
  <1>9. \A v \in Workers : Recording(v)' = Recording(v) /\ Current(v, RecordJob)' = Current(v, RecordJob)
    BY <1>8, SameRecording
  <1>10. \A v \in Workers : Recording(v) => Current(v, RecordJob) \in torn' \ stored'
    BY <1>2, <1>3 DEF OpenRecords
  <1> QED BY <1>7, <1>9, <1>10, RecordsUntouched

\* A step of a record job: a record that is there is skipped, and no one else has
\* the one that is opened or closed.
LEMMA RecordJobKeepsRecords ==
  ASSUME TypeOK, NothingTorn, OpenRecords, NEW w \in Workers, RecordJob \in Submitted(w),
         WriteStep(w, RecordJob) \/ FailJob(w, RecordJob)
  PROVE  RecordsKept /\ OpenRecords'
  <1> DEFINE o == Current(w, RecordJob)
  <1>1. ~Complete(w, RecordJob) /\ RecordJob \in Job
    BY DEF WriteStep, Skip, Upload, Open, Close, FailJob, Writable, Running, Ended, RecordJob, Job, JobKinds
  <1>2. o.kind \in RecordKinds /\ ctl[w].phase = "video"
    BY <1>1, RecordJobWrites
  <1>3. ~Overwrites(o)
    BY <1>2 DEF Overwrites, RecordKinds, GroupKinds
  <1>4. \A v \in Workers \ {w} : /\ Recording(v)' = Recording(v)
                                 /\ Current(v, RecordJob)' = Current(v, RecordJob)
    BY <1>1, OtherJobs, SameRecording
  <1>5. ctl' = ctl /\ job \in [Workers -> [Job -> JobState]]
    BY OtherJobs DEF TypeOK
  <1> HIDE DEF o
  <1>6. CASE Skip(w, RecordJob) \/ FailJob(w, RecordJob)
    <2>1. UNCHANGED <<stored, torn, passed>>
      BY <1>6 DEF Skip, FailJob, store
    <2>2. ~Recording(w)'
      <3>1. CASE Skip(w, RecordJob)
        <4>1. job' = [job EXCEPT ![w][RecordJob].at = job[w][RecordJob].at + 1]
              /\ job[w][RecordJob].mode = "closed"
          BY <3>1 DEF Skip
        <4> QED BY <1>1, <1>5, <4>1 DEF Recording, JobState
      <3>2. CASE FailJob(w, RecordJob)
        <4>1. job' = [job EXCEPT ![w][RecordJob].mode = "failed"]
          BY <3>2 DEF FailJob
        <4> QED BY <1>1, <1>5, <4>1 DEF Recording, JobState
      <3> QED BY <1>6, <3>1, <3>2
    <2>3. OpenRecords'
      BY <1>4, <2>1, <2>2 DEF OpenRecords
    <2> QED BY <2>1, <2>3 DEF RecordsKept
  <1>7. CASE Upload(w, RecordJob)
    <2>1. /\ o \notin stored /\ ~LocalStore /\ stored' = stored \cup {o}
          /\ passed' = IF o \in RecordFile
                       THEN [passed EXCEPT ![o] = mem[w].counted[ctl[w].cam]] ELSE passed
      BY <1>3, <1>7 DEF Upload, Writable, Existing, Land, o
    <2>2. \A v \in Workers \ {w} : ~Recording(v)'
      BY <1>1, <1>4, <2>1 DEF NothingTorn, Recording
    <2>3. job' = [job EXCEPT ![w][RecordJob] = [at |-> job[w][RecordJob].at + 1, mode |-> "closed"]]
      BY <1>7 DEF Upload, Land
    <2>4. ~Recording(w)'
      BY <1>1, <1>5, <2>3 DEF Recording
    <2>5. RecordsKept
      BY <2>1 DEF RecordsKept, TypeOK
    <2> QED BY <2>2, <2>4, <2>5 DEF OpenRecords
  <1>8. CASE Open(w, RecordJob)
    <2>1. /\ o \notin stored /\ o \notin torn /\ UNCHANGED passed
          /\ stored' = stored \ {o} /\ torn' = torn \cup {o}
          /\ job' = [job EXCEPT ![w][RecordJob].mode = "open"]
      BY <1>3, <1>8 DEF Open, Writable, Existing, o
    <2>2. Current(w, RecordJob)' = o
      <3>1. job'[w][RecordJob].at = job[w][RecordJob].at
        BY <1>1, <1>5, <2>1 DEF JobState
      <3>2. Writes(w, RecordJob)' = Writes(w, RecordJob)
        BY <1>5 DEF Writes, RecordJob
      <3> QED BY <3>1, <3>2 DEF Current, o
    <2>3. \A v \in Workers \ {w} : Recording(v) => Current(v, RecordJob) # o
      BY <2>1 DEF OpenRecords
    <2>4. OpenRecords'
      BY <1>2, <1>4, <2>1, <2>2, <2>3 DEF OpenRecords, o
    <2> QED BY <2>1, <2>4 DEF RecordsKept
  <1>9. CASE Close(w, RecordJob)
    <2>1. /\ stored' = stored \cup {o} /\ torn' = torn \ {o}
          /\ passed' = IF o \in RecordFile
                       THEN [passed EXCEPT ![o] = mem[w].counted[ctl[w].cam]] ELSE passed
          /\ job[w][RecordJob].mode = "open"
          /\ job' = [job EXCEPT ![w][RecordJob] = [at |-> job[w][RecordJob].at + 1, mode |-> "closed"]]
      BY <1>9 DEF Close, Land, o
    <2>2. Recording(w) /\ ~Recording(w)'
      BY <1>1, <1>2, <1>5, <2>1 DEF Recording
    <2>3. o \notin stored /\ \A v \in Workers \ {w} : Recording(v) => Current(v, RecordJob) # o
      BY <2>2 DEF OpenRecords, o
    <2>4. OpenRecords'
      BY <1>4, <2>1, <2>2, <2>3 DEF OpenRecords
    <2>5. RecordsKept
      BY <2>1, <2>3 DEF RecordsKept, TypeOK
    <2> QED BY <2>4, <2>5
  <1> QED BY <1>6, <1>7, <1>8, <1>9 DEF WriteStep

\* A step of a worker outside its jobs ends them, and one of the run lets all
\* workers go on or none.
LEMMA ControlKeepsRecords ==
  ASSUME TypeOK, OpenRecords, NEW w \in Workers, Take(w) \/ ClipsDone(w) \/ VideoDone(w) \/ Raise(w)
  PROVE  RecordsKept /\ OpenRecords'
  <1>1. UNCHANGED store
    BY DEF Take, ClipsDone, VideoDone, Raise
  <1>2. \A v \in Workers \ {w} : ctl'[v] = ctl[v] /\ job'[v] = job[v]
    BY DEF Take, ClipsDone, VideoDone, Raise, EnterVideo, TypeOK
  <1>3. RecordJob \in Job
    BY DEF RecordJob, Job, JobKinds
  <1>4. ~Recording(w)'
    <2>1. \/ job' = [job EXCEPT ![w] = NotStarted]
          \/ job' = job /\ ctl' = [ctl EXCEPT ![w].phase = "raised"]
      BY DEF Take, ClipsDone, VideoDone, Raise, EnterVideo
    <2> QED BY <1>3, <2>1 DEF Recording, NotStarted, TypeOK, WorkerCtl
  <1>5. \A v \in Workers : Recording(v)' => Recording(v) /\ Current(v, RecordJob)' = Current(v, RecordJob)
    BY <1>2, <1>4, SameRecording
  <1>6. OpenRecords'
    BY <1>1, <1>5 DEF OpenRecords, store
  <1> QED BY <1>1, <1>6 DEF RecordsKept, store

\* No step of any run rewrites a record or opens one twice.
LEMMA RecordsKeptStep ==
  ASSUME TypeOK, NothingTorn, OpenRecords, [Next]_vars
  PROVE  RecordsKept /\ OpenRecords'
  <1>1. CASE StartRun \/ Finish \/ (\E s \in Sessions : Crack(s)) \/ UNCHANGED vars
    <2>1. UNCHANGED <<stored, torn, passed, ctl, job>>
      BY <1>1 DEF StartRun, Finish, Crack, store, vars, writerVars
    <2>2. \A v \in Workers : Recording(v)' = Recording(v) /\ Current(v, RecordJob)' = Current(v, RecordJob)
      BY <2>1, SameRecording
    <2> QED BY <2>1, <2>2 DEF RecordsKept, OpenRecords
  <1>2. CASE Abort \/ Crash
    <2>1. UNCHANGED <<stored, torn, passed>> /\ job' = [w \in Workers |-> NotStarted]
      BY <1>2 DEF Abort, Crash, Die, store
    <2>2. RecordJob \in Job
      BY DEF RecordJob, Job, JobKinds
    <2>3. \A v \in Workers : ~Recording(v)'
      BY <2>1, <2>2 DEF Recording, NotStarted
    <2> QED BY <2>1, <2>3 DEF RecordsKept, OpenRecords
  <1>3. ASSUME NEW w \in Workers, Step(w) \/ \E j \in Submitted(w) : FailJob(w, j)
        PROVE  RecordsKept /\ OpenRecords'
    <2>1. ASSUME NEW j \in Submitted(w), WriteStep(w, j) \/ FailJob(w, j)
          PROVE  RecordsKept /\ OpenRecords'
      BY <2>1, OtherJobKeepsRecords, RecordJobKeepsRecords
    <2> QED BY <1>3, <2>1, ControlKeepsRecords DEF Step, WriteStep
  <1> QED BY <1>1, <1>2, <1>3 DEF Next, WriterStep, WriteFails

\* No step of any run changes or removes a process record: what a retry, a restart
\* or another worker writes never replaces it, on object stores, where an upload is
\* atomic, and on local ones, where a record is open before it is whole.
THEOREM RecordWrittenOnceHolds == Spec => RecordWrittenOnce
  <1>1. Init => OpenRecords
    BY DEF Init, WriterInit, OpenRecords, Recording, Idle
  <1>2. IndInv /\ OpenRecords /\ [Next]_vars => OpenRecords' /\ [RecordsKept]_vars
    BY RecordsKeptStep DEF IndInv
  <1>3. Spec => [][RecordsKept]_vars
    BY <1>1, <1>2, InitInd, IndStep, PTL DEF Spec
  <1> QED BY <1>3, PTL DEF RecordWrittenOnce, RecordsKept

-----------------------------------------------------------------------------
(* What a run skips is written, and what it was given is accounted for. *)

\* Nothing that exists ever leaves the store.
LEMMA ExistingGrows == [Next]_vars => Existing \subseteq Existing'
  <1> SUFFICES ASSUME [Next]_vars PROVE Existing \subseteq Existing'
    OBVIOUS
  <1>1. ASSUME NEW w \in Workers, Step(w) \/ \E j \in Submitted(w) : FailJob(w, j)
        PROVE  Existing \subseteq Existing'
    BY <1>1, ControlExisting, WriteExisting DEF Step, WriteStep
  <1>2. CASE UNCHANGED vars
    BY <1>2 DEF vars, writerVars, Existing
  <1> QED BY <1>1, <1>2, RunExisting DEF Next, WriterStep, WriteFails

\* A worker's step leaves the run alone.
LEMMA WorkerKeepsRun ==
  ASSUME NEW w, WriterStep(w) \/ WriteFails(w)
  PROVE  UNCHANGED <<run, todo, selected>> /\ run = "up"
  BY DEF WriterStep, WriteFails, UNCHANGEDrun

\* Only a new run changes which inputs are left out, and it leaves out those
\* whose records it found.
LEMMA SkippedStep ==
  ASSUME SkippedHasRecords, [Next]_vars
  PROVE  SkippedHasRecords'
  <1>1. Existing \subseteq Existing'
    BY ExistingGrows
  <1>2. CASE StartRun
    <2> SUFFICES ASSUME ~MultiCam, Limit = 0, NEW s \in Sessions \ selected', NEW c \in Chunks(s)
                 PROVE  ChunkRecord(s, c, Primary) \in Existing'
      BY DEF SkippedHasRecords
    <2>1. selected' = Sessions \ Processed
      BY <1>2 DEF StartRun, Selected
    <2>2. FullyProcessed(s)
      BY <2>1 DEF Processed
    <2> QED BY <1>1, <2>2 DEF FullyProcessed
  <1>3. CASE selected' = selected /\ (run' \in {"up", "done"} => run \in {"up", "done"})
    BY <1>1, <1>3 DEF SkippedHasRecords
  <1>4. CASE Finish \/ Abort \/ Crash \/ (\E s \in Sessions : Crack(s)) \/ UNCHANGED vars
    BY <1>3, <1>4 DEF Finish, Abort, Crash, Die, Crack, vars
  <1> QED BY <1>2, <1>3, <1>4, WorkerKeepsRun DEF Next

\* A record that exists goes on existing.
LEMMA RecordedStays ==
  ASSUME Existing \subseteq Existing', NEW s, NEW c, NEW m, Recorded(s, c, m)
  PROVE  Recorded(s, c, m)'
  BY DEF Recorded, ChunkRecord, ErrorRecord, Obj

\* When the video-level futures returned, the record job has left a record of
\* the video, or its error record.
LEMMA VideoIsRecorded ==
  ASSUME TypeOK, NEW w \in Workers, WorkerInv(w),
         ctl[w].phase = "video", AllEnded(w), Failed(w) = {}
  PROVE  Recorded(ctl[w].task.s, ctl[w].task.c, ctl[w].cam)
  <1> DEFINE t == ctl[w].task
             m == ctl[w].cam
             j == [kind |-> "record", i |-> 0]
  <1>1. j \in Submitted(w) /\ j.kind = "record"
    BY DEF Submitted, VideoJobs, Enabled, PerClip
  <1>2. Writes(w, j) = RecordWrites(t, m)
    BY <1>1 DEF Writes, GroupKinds
  <1> HIDE DEF j
  <1>3. Complete(w, j)
    BY <1>1 DEF AllEnded, Ended
  <1>4. \A n \in 1..Len(Writes(w, j)) : Writes(w, j)[n] \in Existing
    <2>1. job[w][j].at \in Nat
      BY <1>1, SubmittedAreJobs DEF TypeOK, JobState
    <2> QED BY <1>1, <1>3, <2>1 DEF WorkerInv, Progress, Complete
  <1>5. PICK n \in 1..Len(RecordWrites(t, m)) :
            RecordWrites(t, m)[n] \in {ChunkRecord(t.s, t.c, m), ErrorRecord(t.s, t.c, m)}
    BY DEF RecordWrites
  <1> QED BY <1>2, <1>4, <1>5 DEF Recorded

EarlierRecorded(v) ==
    ctl[v].phase # "idle" =>
        \A m \in Cams : m < ctl[v].cam => Recorded(ctl[v].task.s, ctl[v].task.c, m)

\* A worker goes on to the next camera only past the record of this one, and a
\* retry starts again from the primary camera.
LEMMA EarlierStep ==
  ASSUME TypeOK, WorkersInv, EarlierCamsRecorded, [Next]_vars
  PROVE  EarlierCamsRecorded'
  <1>1. Existing \subseteq Existing'
    BY ExistingGrows
  <1>2. \A v \in Workers : EarlierRecorded(v)
    BY DEF EarlierCamsRecorded, EarlierRecorded
  <1> SUFFICES ASSUME NEW v \in Workers PROVE EarlierRecorded(v)'
    BY DEF EarlierCamsRecorded, EarlierRecorded
  <1>3. CASE ctl'[v].phase = "idle"
    BY <1>3 DEF EarlierRecorded
  <1>4. CASE ctl'[v].task = ctl[v].task /\ ctl'[v].cam = ctl[v].cam /\ ctl[v].phase # "idle"
    BY <1>1, <1>2, <1>4, RecordedStays DEF EarlierRecorded
  <1>5. CASE ctl'[v].cam = Primary
    BY <1>5 DEF EarlierRecorded, Primary, Cams
  <1>6. CASE ctl' = ctl
    BY <1>3, <1>4, <1>6
  <1>7. ASSUME NEW w \in Workers, Step(w)
        PROVE  EarlierRecorded(v)'
    <2>1. ctl[w] \in WorkerCtl /\ ctl \in [Workers -> WorkerCtl]
      BY DEF TypeOK
    <2>2. CASE v # w
      <3>1. ctl'[v] = ctl[v]
        BY <1>7, <2>1, <2>2 DEF Step, Take, ClipsDone, VideoDone, Raise, EnterVideo,
                                Skip, Upload, Open, Close, Land
      <3> QED BY SMTT(40), <1>3, <1>4, <3>1
    <2>3. CASE v = w /\ Take(w)
      BY <1>5, <2>1, <2>3 DEF Take, EnterVideo
    <2>4. CASE v = w /\ ClipsDone(w)
      <3>1. ctl' = [ctl EXCEPT ![w].phase = "video"] /\ ctl[w].phase = "clips"
        BY <2>4 DEF ClipsDone
      <3>2. ctl'[w].task = ctl[w].task /\ ctl'[w].cam = ctl[w].cam
        BY <2>1, <3>1 DEF WorkerCtl
      <3> QED BY <1>4, <2>4, <3>1, <3>2
    <2>5. CASE v = w /\ Raise(w)
      <3>1. CASE AttemptsLeft(w)
        BY <1>5, <2>1, <2>5, <3>1 DEF Raise, EnterVideo
      <3>2. CASE ~AttemptsLeft(w)
        <4>1. ctl' = [ctl EXCEPT ![w].phase = "raised"] /\ ctl[w].phase # "idle"
          BY <2>5, <3>2 DEF Raise, Failed, Submitted
        <4>2. ctl'[w].task = ctl[w].task /\ ctl'[w].cam = ctl[w].cam
          BY <2>1, <4>1 DEF WorkerCtl
        <4> QED BY <1>4, <2>5, <4>1, <4>2
      <3> QED BY <3>1, <3>2
    <2>6. CASE v = w /\ VideoDone(w)
      <3>1. CASE ctl[w].cam < NumCams
        <4>1. /\ ctl'[w].task = ctl[w].task /\ ctl'[w].cam = ctl[w].cam + 1
              /\ ctl[w].phase = "video" /\ AllEnded(w) /\ Failed(w) = {}
          BY <2>1, <2>6, <3>1 DEF VideoDone, EnterVideo
        <4>2. Recorded(ctl[w].task.s, ctl[w].task.c, ctl[w].cam)
          BY <4>1, VideoIsRecorded DEF WorkersInv
        <4>3. \A m \in Cams : m < ctl[w].cam => Recorded(ctl[w].task.s, ctl[w].task.c, m)
          BY <1>2, <4>1 DEF EarlierRecorded
        <4>4. \A m \in Cams : m < ctl[w].cam + 1 => m < ctl[w].cam \/ m = ctl[w].cam
          BY <2>1 DEF WorkerCtl, Cams
        <4> QED BY <1>1, <2>6, <4>1, <4>2, <4>3, <4>4, RecordedStays DEF EarlierRecorded
      <3>2. CASE ~(ctl[w].cam < NumCams)
        <4>1. ctl'[w].phase = "idle"
          BY <2>1, <2>6, <3>2 DEF VideoDone, Idle
        <4> QED BY <1>3, <2>6, <4>1
      <3> QED BY <3>1, <3>2
    <2>7. ASSUME NEW j, WriteStep(w, j)
          PROVE  EarlierRecorded(v)'
      BY <1>6, <2>7 DEF WriteStep, Skip, Upload, Open, Close, Land
    <2> QED BY <1>7, <2>2, <2>3, <2>4, <2>5, <2>6, <2>7 DEF Step, WriteStep
  <1>8. CASE Abort \/ Crash
    BY <1>3, <1>8 DEF Abort, Crash, Die, Idle
  <1>9. CASE StartRun \/ Finish \/ (\E s \in Sessions : Crack(s)) \/ UNCHANGED vars
    BY <1>6, <1>9 DEF StartRun, Finish, Crack, vars, writerVars
  <1>10. ASSUME NEW w \in Workers, WriteFails(w)
         PROVE  EarlierRecorded(v)'
    BY <1>6, <1>10 DEF WriteFails, FailJob
  <1> QED BY <1>7, <1>8, <1>9, <1>10 DEF Next, WriterStep

Accounted(s, c) ==
    s \in todo \/ Waiting(s, c) \/ WithWorker(s, c) \/ \A m \in Cams : Recorded(s, c, m)

\* What a step of one worker must leave for a chunk to stay accounted for.
LEMMA StaysAccounted ==
  ASSUME NEW s, NEW c, Accounted(s, c), Existing \subseteq Existing', todo' = todo,
         Waiting(s, c) => Waiting(s, c)' \/ WithWorker(s, c)',
         WithWorker(s, c) => WithWorker(s, c)' \/ \A m \in Cams : Recorded(s, c, m)'
  PROVE  Accounted(s, c)'
  BY RecordedStays DEF Accounted

\* A worker that ends a task has recorded it for every camera.
LEMMA TaskEndsRecorded ==
  ASSUME TypeOK, WorkersInv, EarlierCamsRecorded, NEW w \in Workers,
         VideoDone(w), ~(ctl[w].cam < NumCams)
  PROVE  \A m \in Cams : Recorded(ctl[w].task.s, ctl[w].task.c, m)
  <1>1. ctl[w].phase = "video" /\ AllEnded(w) /\ Failed(w) = {}
    BY DEF VideoDone
  <1>2. Recorded(ctl[w].task.s, ctl[w].task.c, ctl[w].cam)
    BY <1>1, VideoIsRecorded DEF WorkersInv
  <1>3. ctl[w].cam \in Cams
    BY DEF TypeOK, WorkerCtl
  <1>4. \A m \in Cams : m < ctl[w].cam \/ m = ctl[w].cam
    BY <1>3, WriterAssumption DEF Cams
  <1> QED BY <1>1, <1>2, <1>4 DEF EarlierCamsRecorded

\* No step of a worker loses a chunk.
LEMMA WorkerAccounts ==
  ASSUME TypeOK, WorkersInv, EarlierCamsRecorded, NEW w \in Workers,
         Step(w) \/ \E j \in Submitted(w) : FailJob(w, j), todo' = todo,
         Existing \subseteq Existing', NEW s, NEW c, Accounted(s, c)
  PROVE  Accounted(s, c)'
  <1>1. ctl[w] \in WorkerCtl /\ ctl \in [Workers -> WorkerCtl]
    BY DEF TypeOK
  <1>2. ASSUME queue' = queue, ctl'[w].phase # "idle", ctl'[w].task = ctl[w].task,
               \A v \in Workers \ {w} : ctl'[v] = ctl[v]
        PROVE  Accounted(s, c)'
    BY <1>2, StaysAccounted DEF Waiting, WithWorker
  <1>3. CASE Take(w)
    <2>1. PICK t \in queue : /\ ctl[w].phase = "idle" /\ queue' = queue \ {t}
                             /\ EnterVideo(w, t, Primary, 1, {})
      BY <1>3 DEF Take
    <2>2. /\ ctl'[w].phase = "clips" /\ ctl'[w].task = t
          /\ \A v \in Workers \ {w} : ctl'[v] = ctl[v]
      BY <1>1, <2>1 DEF EnterVideo
    <2>3. Waiting(s, c) => Waiting(s, c)' \/ WithWorker(s, c)'
      BY <2>1, <2>2 DEF Waiting, WithWorker
    <2>4. WithWorker(s, c) => WithWorker(s, c)'
      BY <2>1, <2>2 DEF WithWorker
    <2> QED BY <2>3, <2>4, StaysAccounted
  <1>4. CASE ClipsDone(w)
    <2>1. ctl' = [ctl EXCEPT ![w].phase = "video"] /\ queue' = queue
      BY <1>4 DEF ClipsDone
    <2> QED BY <1>1, <1>2, <2>1 DEF WorkerCtl
  <1>5. CASE Raise(w)
    <2>1. queue' = queue
      BY <1>5 DEF Raise
    <2>2. CASE AttemptsLeft(w)
      BY <1>1, <1>2, <1>5, <2>1, <2>2 DEF Raise, EnterVideo
    <2>3. CASE ~AttemptsLeft(w)
      <3>1. ctl' = [ctl EXCEPT ![w].phase = "raised"]
        BY <1>5, <2>3 DEF Raise
      <3> QED BY <1>1, <1>2, <2>1, <3>1 DEF WorkerCtl
    <2> QED BY <2>2, <2>3
  <1>6. CASE VideoDone(w)
    <2>1. queue' = queue
      BY <1>6 DEF VideoDone
    <2>2. CASE ctl[w].cam < NumCams
      BY <1>1, <1>2, <1>6, <2>1, <2>2 DEF VideoDone, EnterVideo
    <2>3. CASE ~(ctl[w].cam < NumCams)
      <3>1. ctl[w].task.s = s /\ ctl[w].task.c = c => \A m \in Cams : Recorded(s, c, m)'
        BY <1>6, <2>3, TaskEndsRecorded, RecordedStays
      <3>2. \A v \in Workers \ {w} : ctl'[v] = ctl[v]
        BY <1>1, <1>6, <2>3 DEF VideoDone
      <3>3. WithWorker(s, c) => WithWorker(s, c)' \/ \A m \in Cams : Recorded(s, c, m)'
        BY <3>1, <3>2 DEF WithWorker
      <3> QED BY <2>1, <3>3, StaysAccounted DEF Waiting
    <2> QED BY <2>2, <2>3
  <1>7. ASSUME NEW j, WriteStep(w, j) \/ FailJob(w, j)
        PROVE  Accounted(s, c)'
    <2>1. ctl' = ctl /\ queue' = queue
      BY <1>7 DEF WriteStep, Skip, Upload, Open, Close, Land, FailJob
    <2> QED BY <2>1, StaysAccounted DEF Waiting, WithWorker
  <1> QED BY <1>3, <1>4, <1>5, <1>6, <1>7 DEF Step, WriteStep

\* No step of a run loses a chunk of an input the run was given.
LEMMA NoTaskLostStep ==
  ASSUME TypeOK, WorkersInv, EarlierCamsRecorded, NoTaskLost, [Next]_vars
  PROVE  NoTaskLost'
  <1> SUFFICES ASSUME run' \in {"up", "done"}, NEW s \in selected' \ Unreadable, NEW c \in Chunks(s)
               PROVE  Accounted(s, c)'
    BY DEF NoTaskLost, Accounted
  <1>1. Existing \subseteq Existing'
    BY ExistingGrows
  <1>2. CASE StartRun
    BY <1>2 DEF StartRun, Accounted
  <1>3. CASE Abort \/ Crash
    BY <1>3 DEF Abort, Crash, Die
  <1>4. ASSUME selected' = selected, run \in {"up", "done"}
        PROVE  Accounted(s, c)
    BY <1>4 DEF NoTaskLost, Accounted
  <1>5. ASSUME NEW x \in Sessions, Crack(x)
        PROVE  Accounted(s, c)'
    <2>1. Accounted(s, c) /\ ctl' = ctl /\ todo' = todo \ {x} /\ queue \subseteq queue'
      BY <1>4, <1>5 DEF Crack
    <2>2. CASE s # x
      BY <1>1, <2>1, <2>2, RecordedStays DEF Accounted, Waiting, WithWorker
    <2>3. CASE s = x
      <3>1. PICK bad : queue' = queue \cup Tasks(s, bad)
        BY <1>5, <2>3 DEF Crack
      <3> DEFINE t == [s |-> s, c |-> c, err |-> IF c \in bad THEN {Primary} ELSE {}]
      <3>2. t \in Tasks(s, bad) /\ t.s = s /\ t.c = c
        BY DEF Tasks
      <3> HIDE DEF t
      <3> QED BY <3>1, <3>2 DEF Accounted, Waiting
    <2> QED BY <2>2, <2>3
  <1>6. CASE Finish
    <2>1. Accounted(s, c) /\ ctl' = ctl /\ todo' = todo /\ queue' = queue
      BY <1>4, <1>6 DEF Finish
    <2> QED BY <1>1, <2>1, StaysAccounted DEF Waiting, WithWorker
  <1>7. CASE UNCHANGED vars
    <2>1. Accounted(s, c) /\ ctl' = ctl /\ todo' = todo /\ queue' = queue
      BY <1>4, <1>7 DEF vars, writerVars
    <2> QED BY <1>1, <2>1, StaysAccounted DEF Waiting, WithWorker
  <1>8. ASSUME NEW w \in Workers, WriterStep(w) \/ WriteFails(w)
        PROVE  Accounted(s, c)'
    <2>1. Accounted(s, c) /\ todo' = todo
      BY <1>4, <1>8, WorkerKeepsRun
    <2>2. Step(w) \/ \E j \in Submitted(w) : FailJob(w, j)
      BY <1>8 DEF WriterStep, WriteFails
    <2> QED BY <1>1, <2>1, <2>2, WorkerAccounts
  <1> QED BY <1>2, <1>3, <1>5, <1>6, <1>7, <1>8 DEF Next

\* A run that returned stays drained until the next one starts.
LEMMA DrainedStep ==
  ASSUME ReturnedIsDrained, [Next]_vars
  PROVE  ReturnedIsDrained'
  <1>1. CASE StartRun \/ Finish \/ Abort \/ Crash \/ UNCHANGED vars
    BY <1>1 DEF StartRun, Finish, Abort, Crash, Die, vars, writerVars, ReturnedIsDrained
  <1>2. CASE (\E s \in Sessions : Crack(s)) \/ \E w \in Workers : WriterStep(w) \/ WriteFails(w)
    BY <1>2, WorkerKeepsRun DEF Crack, ReturnedIsDrained
  <1> QED BY <1>1, <1>2 DEF Next

\* The accounts hold in every reachable state.
THEOREM AccountsHold == Spec => [](IndInv /\ AccountInv)
  <1>1. Init => IndInv /\ AccountInv
    <2> SUFFICES ASSUME Init PROVE AccountInv
      BY InitInd
    <2>1. run = "down" /\ ctl = [w \in Workers |-> Idle]
      BY DEF Init, WriterInit
    <2> QED BY <2>1 DEF AccountInv, SkippedHasRecords, EarlierCamsRecorded, NoTaskLost,
                        ReturnedIsDrained, Idle
  <1>2. IndInv /\ AccountInv /\ [Next]_vars => (IndInv /\ AccountInv)'
    <2> SUFFICES ASSUME IndInv, AccountInv, [Next]_vars PROVE IndInv' /\ AccountInv'
      OBVIOUS
    <2>1. TypeOK /\ WorkersInv
      BY WorkersInvIs DEF IndInv
    <2> QED BY <2>1, IndStep, SkippedStep, EarlierStep, NoTaskLostStep, DrainedStep DEF AccountInv
  <1> QED BY <1>1, <1>2, PTL DEF Spec

\* The bounds are bounds, and what is interrupted once stays so: a write that
\* raises interrupts, and so does a run that dies.
LEMMA InterruptedStays ==
  ASSUME TypeOK, WithinBudget, [Next]_vars
  PROVE  /\ WithinBudget'
         /\ Interrupted => Interrupted'
         /\ Crash \/ (\E w \in Workers : WriteFails(w)) => Interrupted'
  <1>1. /\ budget \in [errors : Nat, faults : Nat, crashes : Nat]
        /\ MaxFaults \in Nat /\ MaxCrashes \in Nat
    BY RunAssumption DEF TypeOK
  <1>2. CASE Crash
    BY <1>1, <1>2 DEF Crash, WithinBudget, Interrupted
  <1>3. CASE \E w \in Workers : WriteFails(w)
    <2>1. budget' = [budget EXCEPT !.faults = budget.faults - 1] /\ budget.faults > 0
      BY <1>3 DEF WriteFails
    <2> QED BY <1>1, <2>1 DEF WithinBudget, Interrupted
  <1>4. CASE /\ ~Crash /\ ~\E w \in Workers : WriteFails(w)
             /\ budget'.faults = budget.faults /\ budget'.crashes = budget.crashes
    BY <1>4 DEF WithinBudget, Interrupted
  <1>5. ASSUME NEW s \in Sessions, Crack(s)
        PROVE  budget'.faults = budget.faults /\ budget'.crashes = budget.crashes
    <2>1. PICK n : budget' = [budget EXCEPT !.errors = n]
      BY <1>5 DEF Crack
    <2> QED BY <1>1, <2>1
  <1>6. ASSUME StartRun \/ Finish \/ Abort \/ (\E w \in Workers : WriterStep(w)) \/ UNCHANGED vars
        PROVE  budget' = budget
    BY <1>6 DEF StartRun, Finish, Abort, WriterStep, UNCHANGEDrun, vars
  <1> QED BY <1>2, <1>3, <1>4, <1>5, <1>6 DEF Next

\* A worker that nothing happened to has the same files open.
LEMMA SameOpened ==
  ASSUME NEW v, NEW k, ctl'[v] = ctl[v], job'[v][k] = job[v][k],
         Writes(v, k)' = Writes(v, k), Opened(v, k)
  PROVE  Opened(v, k)' /\ Current(v, k)' = Current(v, k) /\ k \in Submitted(v)'
  BY DEF Opened, Submitted, Complete, Current

\* The steps that neither write nor fail leave an open file open: a worker is
\* through with its jobs when it goes on.
LEMMA ControlKeepsOpened ==
  ASSUME TypeOK, NEW w \in Workers, Take(w) \/ ClipsDone(w) \/ VideoDone(w) \/ Raise(w),
         \A j \in Job : job[w][j].mode # "failed",
         NEW v \in Workers, NEW k \in Submitted(v), Opened(v, k)
  PROVE  Opened(v, k)' /\ Current(v, k)' = Current(v, k) /\ k \in Submitted(v)'
  <1>1. v # w
    <2>1. Failed(w) = {}
      BY SubmittedAreJobs DEF Failed
    <2>2. CASE Take(w)
      <3>1. Submitted(w) = {}
        BY <2>2 DEF Take, Submitted
      <3> QED BY <3>1
    <2>3. CASE AllEnded(w)
      <3>1. \A j \in Submitted(w) : Complete(w, j)
        BY <2>1, <2>3 DEF AllEnded, Ended
      <3> QED BY <3>1 DEF Opened
    <2> QED BY <2>2, <2>3 DEF ClipsDone, VideoDone, Raise
  <1>2. ctl'[v] = ctl[v] /\ job'[v] = job[v] /\ mem'[v] = mem[v] /\ buf'[v] = buf[v]
    BY <1>1 DEF Take, ClipsDone, VideoDone, Raise, EnterVideo, TypeOK
  <1>3. Writes(v, k)' = Writes(v, k)
    BY <1>2 DEF Writes, HasData, RowsToWrite
  <1> QED BY <1>2, <1>3, SameOpened

\* A job that lands, opens or skips leaves the other jobs' files open.
LEMMA OtherOpened ==
  ASSUME TypeOK, NEW w \in Workers, NEW j \in Submitted(w), WriteStep(w, j),
         NEW v \in Workers, NEW k \in Submitted(v), Opened(v, k), v # w \/ k # j
  PROVE  Opened(v, k)' /\ Current(v, k)' = Current(v, k) /\ k \in Submitted(v)'
  <1>1. /\ ctl' = ctl /\ k \in Job
        /\ job'[v][k] = job[v][k]
    BY OtherJobs, SubmittedAreJobs
  <1>2. mem' = mem
    BY DEF WriteStep, Skip, Upload, Open, Close, Land
  <1>3. \/ buf' = buf
        \/ j.kind \in GroupKinds /\ buf' = [buf EXCEPT ![w][j.kind] = {}]
    BY DEF WriteStep, Skip, Upload, Open, Close, Land, ClearingGroups, GroupKinds
  <1>4. RowsToWrite(v, k.kind)' = RowsToWrite(v, k.kind) \/ k.kind \notin GroupKinds
    <2>1. CASE buf' = buf
      BY <1>2, <2>1 DEF RowsToWrite
    <2>2. CASE j.kind \in GroupKinds /\ buf' = [buf EXCEPT ![w][j.kind] = {}]
      <3>1. CASE v # w
        BY <1>2, <2>2, <3>1 DEF RowsToWrite, TypeOK
      <3>2. CASE v = w /\ k.kind # j.kind
        BY <1>2, <2>2, <3>2 DEF RowsToWrite, TypeOK
      <3>3. CASE v = w /\ k.kind = j.kind /\ k # j /\ k.kind \in GroupKinds
        <4>1. j.i = 0 /\ k.i = 0 /\ j \in Job /\ k \in Job
          BY <2>2, <3>3, SubmittedAreJobs
          DEF Submitted, ClipJobs, VideoJobs, Enabled, PerClip, GroupKinds
        <4> QED BY <3>3, <4>1 DEF Job
      <3> QED BY <3>1, <3>2, <3>3
    <2> QED BY <1>3, <2>1, <2>2
  <1>5. Writes(v, k)' = Writes(v, k)
    <2>1. HasData(v, k.i)' = HasData(v, k.i)
      BY <1>1, <1>2 DEF HasData
    <2>2. CASE k.kind \in GroupKinds
      BY <1>1, <1>4, <2>2 DEF Writes
    <2>3. CASE k.kind \notin GroupKinds
      BY <1>1, <2>1, <2>3 DEF Writes
    <2> QED BY <2>2, <2>3
  <1> QED BY <1>1, <1>5, SameOpened

\* A step of a job: what is torn after it was open before it, or the step has
\* just opened it.
LEMMA WriteKeepsOpened ==
  ASSUME TypeOK, NEW w \in Workers, NEW j \in Submitted(w), WriteStep(w, j),
         TornIsOpen
  PROVE  TornIsOpen'
  <1> SUFFICES ASSUME NEW o \in torn'
               PROVE  \E v \in Workers : \E k \in Submitted(v)' : Opened(v, k)' /\ Current(v, k)' = o
    BY DEF TornIsOpen
  <1>1. CASE Open(w, j) /\ o = Current(w, j)
    <2>1. /\ UNCHANGED <<ctl, mem, buf>>
          /\ job' = [job EXCEPT ![w][j].mode = "open"]
          /\ ~Complete(w, j)
      BY <1>1 DEF Open, Writable, Running, Ended
    <2>2. j \in Job /\ job \in [Workers -> [Job -> JobState]]
      BY SubmittedAreJobs DEF TypeOK
    <2>3. job'[w][j].mode = "open" /\ job'[w][j].at = job[w][j].at
      BY <2>1, <2>2 DEF JobState
    <2>4. Writes(w, j)' = Writes(w, j) /\ Submitted(w)' = Submitted(w)
      BY <2>1 DEF Writes, HasData, RowsToWrite, Submitted
    <2>5. Opened(w, j)' /\ Current(w, j)' = o
      BY <1>1, <2>1, <2>3, <2>4 DEF Opened, Complete, Current
    <2> QED BY <2>4, <2>5
  <1>2. CASE o \in torn /\ ~(Open(w, j) /\ o = Current(w, j))
    <2>0. PICK v \in Workers : \E k \in Submitted(v) : Opened(v, k) /\ Current(v, k) = o
      BY <1>2 DEF TornIsOpen
    <2>1. PICK k \in Submitted(v) : Opened(v, k) /\ Current(v, k) = o
      BY <2>0
    <2>2. v # w \/ k # j
      <3> SUFFICES ASSUME Opened(w, j), Current(w, j) = o PROVE FALSE
        BY <2>1
      <3>1. job[w][j].mode = "open" /\ Close(w, j)
        BY DEF Opened, WriteStep, Skip, Upload, Open, Writable
      <3> QED BY <3>1 DEF Close, Land
    <2>3. Opened(v, k)' /\ Current(v, k)' = Current(v, k) /\ k \in Submitted(v)'
      BY <2>1, <2>2, OtherOpened
    <2> QED BY <2>1, <2>3
  <1>3. o \in torn \/ (Open(w, j) /\ o = Current(w, j))
    BY DEF WriteStep, Skip, Upload, Open, Close, Land, store
  <1> QED BY <1>1, <1>2, <1>3

\* Every step keeps a torn file an open one, until something is interrupted.
LEMMA NothingCutStep ==
  ASSUME TypeOK, ReturnedIsDrained, WholeInv, [Next]_vars
  PROVE  NothingCut'
  <1> SUFFICES ASSUME ~Interrupted'
               PROVE  /\ \A w \in Workers : ctl'[w].phase # "raised"
                      /\ \A w \in Workers, j \in Job : job'[w][j].mode # "failed"
                      /\ TornIsOpen'
    BY DEF NothingCut
  <1>1. /\ ~Interrupted /\ ~Crash /\ ~\E w \in Workers : WriteFails(w)
        /\ \A w \in Workers : ctl[w].phase # "raised"
        /\ \A w \in Workers, j \in Job : job[w][j].mode # "failed"
        /\ TornIsOpen
    BY InterruptedStays DEF WholeInv, NothingCut
  <1>2. ctl \in [Workers -> WorkerCtl] /\ job \in [Workers -> [Job -> JobState]]
    BY DEF TypeOK
  <1>3. ~Abort
    BY <1>1 DEF Abort
  <1>4. \A j \in Job : NotStarted[j].mode # "failed"
    BY DEF NotStarted
  <1>5. CASE StartRun \/ (\E s \in Sessions : Crack(s)) \/ UNCHANGED vars
    <2>1. UNCHANGED <<torn, ctl, job, mem, buf>>
      BY <1>5 DEF StartRun, Crack, store, vars, writerVars
    <2>2. ASSUME NEW v \in Workers, NEW k \in Submitted(v), Opened(v, k)
          PROVE  Opened(v, k)' /\ Current(v, k)' = Current(v, k) /\ k \in Submitted(v)'
      <3>1. Writes(v, k)' = Writes(v, k)
        BY <2>1 DEF Writes, HasData, RowsToWrite
      <3> QED BY <2>1, <2>2, <3>1, SameOpened
    <2>3. TornIsOpen'
      BY <1>1, <2>1, <2>2 DEF TornIsOpen
    <2> QED BY <1>1, <2>1, <2>3
  <1>6. CASE Finish
    <2>1. UNCHANGED <<torn, ctl, job>> /\ \A w \in Workers : Submitted(w) = {}
      BY <1>6 DEF Finish, store, Submitted
    <2>2. torn' = {}
      BY <1>1, <2>1 DEF TornIsOpen
    <2> QED BY <1>1, <2>1, <2>2 DEF TornIsOpen
  <1>7. ASSUME NEW w \in Workers, WriterStep(w)
        PROVE  /\ \A v \in Workers : ctl'[v].phase # "raised"
               /\ \A v \in Workers, j \in Job : job'[v][j].mode # "failed"
               /\ TornIsOpen'
    <2>1. CASE Take(w) \/ ClipsDone(w) \/ VideoDone(w) \/ Raise(w)
      <3>1. Failed(w) = {}
        BY <1>1, SubmittedAreJobs DEF Failed
      <3>2. ~Raise(w)
        BY <3>1 DEF Raise
      <3>3. /\ torn' = torn
            /\ job' = job \/ job' = [job EXCEPT ![w] = NotStarted]
        BY <2>1 DEF Take, ClipsDone, VideoDone, Raise, EnterVideo, store
      <3>4. \A v \in Workers : ctl'[v].phase # "raised"
        <4>1. \E x : ctl' = [ctl EXCEPT ![w] = x] /\ x.phase # "raised"
          <5>1. CASE Take(w)
            BY <5>1 DEF Take, EnterVideo
          <5>2. CASE ClipsDone(w)
            <6>1. ctl' = [ctl EXCEPT ![w] = [ctl[w] EXCEPT !.phase = "video"]]
              BY <5>2 DEF ClipsDone
            <6>2. ctl[w] \in WorkerCtl
              BY <1>2
            <6>3. [ctl[w] EXCEPT !.phase = "video"].phase # "raised"
              BY <6>2 DEF WorkerCtl
            <6> QED BY <6>1, <6>3
          <5>3. CASE VideoDone(w)
            BY <5>3 DEF VideoDone, EnterVideo, Idle
          <5> QED BY <2>1, <3>2, <5>1, <5>2, <5>3
        <4> QED BY <1>1, <1>2, <4>1
      <3>5. \A v \in Workers, j \in Job : job'[v][j].mode # "failed"
        BY <1>1, <1>2, <1>4, <3>3
      <3>6. TornIsOpen'
        BY <1>1, <2>1, <3>3, ControlKeepsOpened DEF TornIsOpen
      <3> QED BY <3>4, <3>5, <3>6
    <2>2. ASSUME NEW j \in Submitted(w), WriteStep(w, j)
          PROVE  /\ \A v \in Workers : ctl'[v].phase # "raised"
                 /\ \A v \in Workers, k \in Job : job'[v][k].mode # "failed"
                 /\ TornIsOpen'
      <3>1. /\ ctl' = ctl /\ j \in Job
            /\ \A v \in Workers, k \in Job : v # w \/ k # j => job'[v][k] = job[v][k]
        BY <2>2, OtherJobs, SubmittedAreJobs
      <3>2. job'[w][j].mode # "failed"
        <4>1. CASE Skip(w, j)
          <5>1. job' = [job EXCEPT ![w][j].at = job[w][j].at + 1]
            BY <4>1 DEF Skip
          <5> QED BY <1>1, <1>2, <3>1, <5>1 DEF JobState
        <4>2. CASE Upload(w, j) \/ Close(w, j)
          <5>1. job' = [job EXCEPT ![w][j] = [at |-> job[w][j].at + 1, mode |-> "closed"]]
            BY <4>2 DEF Upload, Close, Land
          <5> QED BY <1>2, <3>1, <5>1
        <4>3. CASE Open(w, j)
          <5>1. job' = [job EXCEPT ![w][j].mode = "open"]
            BY <4>3 DEF Open
          <5> QED BY <1>2, <3>1, <5>1 DEF JobState
        <4> QED BY <2>2, <4>1, <4>2, <4>3 DEF WriteStep
      <3>3. TornIsOpen'
        BY <1>1, <2>2, WriteKeepsOpened
      <3> QED BY <1>1, <3>1, <3>2, <3>3
    <2> QED BY <1>7, <2>1, <2>2 DEF WriterStep, Step, WriteStep
  <1> QED BY <1>1, <1>3, <1>5, <1>6, <1>7 DEF Next

\* What a run works on is among the inputs it was given.
LEMMA OwnTasksStep ==
  ASSUME TypeOK, ReturnedIsDrained, OwnTasks, [Next]_vars
  PROVE  OwnTasks'
  <1>1. ctl \in [Workers -> WorkerCtl]
    BY DEF TypeOK
  <1>2. CASE StartRun
    <2>1. queue = {} /\ \A w \in Workers : ctl[w].phase = "idle"
      BY <1>2 DEF StartRun, OwnTasks, ReturnedIsDrained
    <2> QED BY <1>2, <2>1 DEF StartRun, OwnTasks
  <1>3. CASE Finish
    BY <1>3 DEF Finish, OwnTasks
  <1>4. CASE Abort \/ Crash
    BY <1>4 DEF Abort, Crash, Die, OwnTasks, Idle
  <1>5. ASSUME NEW s \in Sessions, Crack(s)
        PROVE  OwnTasks'
    <2>1. /\ run' = "up" /\ UNCHANGED <<ctl, selected>> /\ s \in selected
          /\ todo' = todo \ {s}
      BY <1>5 DEF Crack, OwnTasks
    <2>2. \A t \in queue' : t \in queue \/ t.s = s
      <3>1. PICK bad : queue' = IF s \in Unreadable THEN queue ELSE queue \cup Tasks(s, bad)
        BY <1>5 DEF Crack
      <3>2. \A t \in Tasks(s, bad) : t.s = s
        BY DEF Tasks
      <3> QED BY <3>1, <3>2
    <2> QED BY <2>1, <2>2 DEF OwnTasks
  <1>6. ASSUME NEW w \in Workers, WriterStep(w) \/ WriteFails(w)
        PROVE  OwnTasks'
    <2>1. run' = "up" /\ todo' = todo /\ selected' = selected
      BY <1>6, WorkerKeepsRun
    <2>2. /\ queue' \subseteq queue
          /\ \A v \in Workers \ {w} : ctl'[v] = ctl[v]
          /\ \/ ctl'[w].phase = "idle"
             \/ ctl[w].phase # "idle" /\ ctl'[w].task = ctl[w].task
             \/ ctl'[w].task \in queue
      <3>1. CASE Take(w)
        BY <1>1, <3>1 DEF Take, EnterVideo
      <3>2. CASE ClipsDone(w)
        BY <1>1, <3>2 DEF ClipsDone, WorkerCtl
      <3>3. CASE VideoDone(w)
        BY <1>1, <3>3 DEF VideoDone, EnterVideo, Idle
      <3>4. CASE Raise(w)
        <4>1. ctl[w].phase # "idle"
          BY <3>4 DEF Raise, Failed, Submitted
        <4>2. CASE AttemptsLeft(w)
          BY <1>1, <3>4, <4>1, <4>2 DEF Raise, EnterVideo
        <4>3. CASE ~AttemptsLeft(w)
          <5>1. ctl' = [ctl EXCEPT ![w].phase = "raised"] /\ queue' = queue
            BY <3>4, <4>3 DEF Raise
          <5> QED BY <1>1, <4>1, <5>1 DEF WorkerCtl
        <4> QED BY <4>2, <4>3
      <3>5. ASSUME NEW j \in Submitted(w), WriteStep(w, j) \/ FailJob(w, j)
            PROVE  ctl' = ctl /\ queue' = queue /\ ctl[w].phase # "idle"
        BY <3>5 DEF WriteStep, Skip, Upload, Open, Close, Land, FailJob, Submitted
      <3>6. CASE \E j \in Submitted(w) : WriteStep(w, j) \/ FailJob(w, j)
        BY <3>5, <3>6
      <3> QED BY <1>6, <3>1, <3>2, <3>3, <3>4, <3>6
          DEF WriterStep, WriteFails, Step, WriteStep
    <2> QED BY <2>1, <2>2 DEF OwnTasks
  <1>7. CASE UNCHANGED vars
    BY <1>7 DEF vars, writerVars, OwnTasks
  <1> QED BY <1>2, <1>3, <1>4, <1>5, <1>6, <1>7 DEF Next

\* The objects of a job carry the session of the task.
LEMMA CurrentIsOfTask ==
  ASSUME TypeOK, NEW w \in Workers, NEW j \in Submitted(w), ~Complete(w, j)
  PROVE  Current(w, j).s = ctl[w].task.s
  <1> DEFINE t == ctl[w].task
  <1>1. job[w][j].at \in 1..Len(Writes(w, j)) /\ j.kind \in JobKinds
    BY CurrentIsObject DEF Job
  <1>2. \A n \in 1..Len(Writes(w, j)) : Writes(w, j)[n].s = t.s
    <2>1. CASE j.kind = "record"
      <3>1. Writes(w, j) = RecordWrites(t, ctl[w].cam)
        BY SMTT(40), <2>1 DEF Writes, GroupKinds
      <3> QED BY <3>1 DEF RecordWrites, ErrorRecord, VideoRecord, ChunkRecord, Obj
    <2>2. CASE j.kind = "window"
      BY <2>2 DEF Writes, Obj, GroupKinds
    <2>3. CASE j.kind \notin {"record", "window"}
      BY <1>1, <2>3 DEF Writes, Obj, GroupKinds, JobKinds, OptionalKinds
    <2> QED BY <2>1, <2>2, <2>3
  <1> QED BY <1>1, <1>2 DEF Current

\* Nothing is torn but what was cut short or is being written.
THEOREM WholeHolds == Spec => [](IndInv /\ AccountInv /\ WholeInv)
  <1>1. Init => WholeInv
    <2> SUFFICES ASSUME Init PROVE WholeInv
      OBVIOUS
    <2>1. /\ torn = {} /\ queue = {} /\ todo = {} /\ ctl = [w \in Workers |-> Idle]
          /\ job = [w \in Workers |-> NotStarted]
          /\ budget = [errors |-> MaxErrors, faults |-> MaxFaults, crashes |-> MaxCrashes]
      BY DEF Init, WriterInit
    <2>2. NothingCut
      BY <2>1 DEF NothingCut, TornIsOpen, NotStarted, Idle
    <2>3. OwnTasks
      BY <2>1 DEF OwnTasks, Idle
    <2>4. WithinBudget
      BY <2>1, RunAssumption DEF WithinBudget
    <2> QED BY <2>2, <2>3, <2>4 DEF WholeInv
  <1>2. IndInv /\ AccountInv /\ WholeInv /\ [Next]_vars => WholeInv'
    BY NothingCutStep, OwnTasksStep, InterruptedStays DEF IndInv, AccountInv, WholeInv
  <1> QED BY <1>1, <1>2, AccountsHold, PTL DEF Spec

\* An input that resumption leaves out has every clip in the store: it had its
\* chunk records when the run started, and a record is never without its clips.
\* The clips are whole, except on a local file system where a write raised or a
\* run died before: no worker of this run has a file of that input open.
THEOREM SkippedIsWrittenHolds == Spec => []SkippedIsWritten
  <1>1. IndInv /\ AccountInv /\ WholeInv => SkippedIsWritten
    <2> SUFFICES ASSUME IndInv, AccountInv, WholeInv, run \in {"up", "done"}, ~MultiCam, Limit = 0,
                        NEW s \in Sessions \ selected, NEW c \in Chunks(s)
                 PROVE  /\ ClipObjects(s, c, Primary) \subseteq Existing
                        /\ ~(LocalStore /\ Interrupted) => ClipObjects(s, c, Primary) \subseteq stored
      BY DEF SkippedIsWritten
    <2>1. ChunkRecord(s, c, Primary) \in Existing
      BY DEF AccountInv, SkippedHasRecords
    <2>2. c \in ChunkIds
      BY DEF ChunkIds
    <2>3. ClipObjects(s, c, Primary) \subseteq Existing
      BY <2>1, <2>2, PrimaryIsCam DEF IndInv, RecordHasClips
    <2>4. ASSUME ~(LocalStore /\ Interrupted), NEW o \in ClipObjects(s, c, Primary)
          PROVE  o \notin torn
      <3>1. CASE ~LocalStore
        BY <3>1 DEF IndInv, NothingTorn
      <3>2. CASE ~Interrupted
        <4> SUFFICES ASSUME o \in torn PROVE FALSE
          OBVIOUS
        <4>0. PICK w \in Workers : \E j \in Submitted(w) : Opened(w, j) /\ Current(w, j) = o
          BY <3>2 DEF WholeInv, NothingCut, TornIsOpen
        <4>1. PICK j \in Submitted(w) : Opened(w, j) /\ Current(w, j) = o
          BY <4>0
        <4>2. ctl[w].task.s \in selected
          BY DEF WholeInv, OwnTasks, Submitted
        <4>3. o.s = ctl[w].task.s
          BY <4>1, CurrentIsOfTask DEF IndInv, Opened
        <4>4. o.s = s
          BY DEF ClipObjects, Mp4Objects, SharedObjects, Obj
        <4> QED BY <4>2, <4>3, <4>4
      <3> QED BY <2>4, <3>1, <3>2
    <2> QED BY <2>3, <2>4 DEF Existing
  <1> QED BY <1>1, WholeHolds, PTL

\* A run that returns has a record or an error record of every chunk and camera
\* of every input it was given: no task is lost between stages and writers.
THEOREM ReturnAccountsForAllHolds == Spec => []ReturnAccountsForAll
  <1>1. IndInv /\ AccountInv => ReturnAccountsForAll
    <2> SUFFICES ASSUME AccountInv, run = "done", NEW s \in selected \ Unreadable,
                        NEW m \in Cams, NEW c \in Chunks(s)
                 PROVE  Recorded(s, c, m)
      BY DEF ReturnAccountsForAll, Recorded
    <2>1. s \notin todo /\ ~Waiting(s, c) /\ ~WithWorker(s, c)
      BY DEF AccountInv, ReturnedIsDrained, Waiting, WithWorker
    <2> QED BY <2>1 DEF AccountInv, NoTaskLost
  <1> QED BY <1>1, AccountsHold, PTL

-----------------------------------------------------------------------------
(* A grouped file holds the rows of its own chunk, where no task is retried. *)

\* The buffers a worker adds to when it takes a task, as the invariant names
\* them.
LEMMA RowsOfFirstAttempt ==
  ASSUME NEW w, NEW t, NEW m, NEW dropped, NEW g \in GroupKinds,
         m = Primary => Primary \notin dropped
  PROVE  BufferedRows(w, t, m, 1, dropped, g)
           = IF m = Primary /\ g \in Outputs THEN FullRows(t.s, t.c, g) ELSE {}
  <1>1. CASE m = Primary /\ g \in Outputs
    <2>1. (m \in dropped) = FALSE
      BY <1>1
    <2>2. BufferedRows(w, t, m, 1, dropped, g)
            = {[s |-> t.s, c |-> t.c, i |-> i, attempt |-> 1, bare |-> FALSE] : i \in Expected(g)}
      BY <1>1, <2>1 DEF BufferedRows, Expected
    <2> QED BY <1>1, <2>2 DEF FullRows
  <1>2. CASE ~(m = Primary /\ g \in Outputs)
    BY <1>2 DEF BufferedRows
  <1> QED BY <1>1, <1>2

BuffersAt(v) ==
    /\ ctl[v].phase = "idle" => buf[v] = EmptyBuffers
    /\ ctl[v].phase = "clips" => \A g \in GroupKinds : buf[v][g] = BufferOf(v, g)
    /\ ctl[v].phase = "video" =>
          /\ buf[v]["metaGroup"] = {} /\ mem[v].metaRows = BufferOf(v, "metaGroup")
          /\ \A g \in ClearingGroups :
                buf[v][g] = IF job[v][GroupJob(g)].at = 1 THEN BufferOf(v, g) ELSE {}

\* A worker nothing happened to keeps its buffers.
LEMMA KeepBuffers ==
  ASSUME NEW v, BuffersAt(v),
         ctl'[v] = ctl[v], job'[v] = job[v], mem'[v] = mem[v], buf'[v] = buf[v]
  PROVE  BuffersAt(v)'
  BY DEF BuffersAt, BufferOf

\* Entering a video with empty buffers.
LEMMA EnterBuffers ==
  ASSUME TypeOK, NEW w \in Workers, NEW t, NEW m, NEW dropped,
         EnterVideo(w, t, m, 1, dropped), \A g \in GroupKinds : buf[w][g] = {},
         m = Primary => Primary \notin dropped
  PROVE  BuffersAt(w)'
  <1>1. ctl'[w] = [task |-> t, cam |-> m, attempt |-> 1, phase |-> "clips"]
    BY DEF EnterVideo, TypeOK
  <1>2. \A g \in GroupKinds : buf'[w][g] = BufferedRows(w, t, m, 1, dropped, g)
    BY DEF EnterVideo, TypeOK
  <1>3. \A g \in GroupKinds : buf'[w][g] = BufferOf(w, g)'
    BY SMTT(40), <1>1, <1>2, RowsOfFirstAttempt DEF BufferOf
  <1>4. ctl'[w].phase = "clips"
    BY <1>1
  <1> QED BY <1>3, <1>4 DEF BuffersAt

\* When the video-level futures returned, the buffers are empty: a group job
\* either emptied its buffer or had nothing to write.
LEMMA VideoLeavesEmpty ==
  ASSUME TypeOK, NEW w \in Workers, BuffersAt(w),
         ctl[w].phase = "video", AllEnded(w), Failed(w) = {}
  PROVE  \A g \in GroupKinds : buf[w][g] = {}
  <1> SUFFICES ASSUME NEW g \in GroupKinds PROVE buf[w][g] = {}
    OBVIOUS
  <1>1. CASE g = "metaGroup"
    BY <1>1 DEF BuffersAt
  <1>2. CASE g # "metaGroup"
    <2>1. /\ g \in ClearingGroups
          /\ buf[w][g] = IF job[w][GroupJob(g)].at = 1 THEN BufferOf(w, g) ELSE {}
      BY <1>2 DEF BuffersAt, ClearingGroups, GroupKinds
    <2>2. CASE ctl[w].cam = Primary /\ g \in Outputs /\ job[w][GroupJob(g)].at = 1
      <3>1. GroupJob(g) \in Submitted(w) /\ GroupJob(g).kind = g
        BY <2>2 DEF Submitted, VideoJobs, Enabled, PerClip, GroupJob
      <3>2. Complete(w, GroupJob(g))
        BY <3>1 DEF AllEnded, Ended
      <3>3. Len(Writes(w, GroupJob(g))) # 1
        <4> DEFINE k == job[w][GroupJob(g)].at
                   n == Len(Writes(w, GroupJob(g)))
        <4>1. k = 1
          BY <2>2
        <4>2. k > n
          BY <3>2 DEF Complete
        <4> HIDE DEF k, n
        <4>3. n # 1
          BY <4>1, <4>2
        <4> QED BY <4>3 DEF n
      <3>4. RowsToWrite(w, g) = {}
        BY <1>2, <3>1, <3>3 DEF Writes, GroupKinds
      <3> QED BY <1>2, <3>4 DEF RowsToWrite
    <2>3. CASE ~(ctl[w].cam = Primary /\ g \in Outputs /\ job[w][GroupJob(g)].at = 1)
      BY <2>1, <2>3 DEF BufferOf
    <2> QED BY <2>2, <2>3
  <1> QED BY <1>1, <1>2

\* Without a retry no task raises and goes on.
LEMMA NoRetryMeans ==
  ASSUME TypeOK, NoRetry, NEW w \in Workers, Raise(w)
  PROVE  ~AttemptsLeft(w) /\ MaxAttempts = 1
  <1>1. Failed(w) # {}
    BY DEF Raise
  <1>2. \E j \in Job : job[w][j].mode = "failed"
    BY <1>1, SubmittedAreJobs DEF Failed
  <1> QED BY <1>2 DEF NoRetry, AttemptsLeft

\* A worker that took a control step.
LEMMA ControlKeepsBuffers ==
  ASSUME TypeOK, NoRetry, NEW w \in Workers, BuffersAt(w),
         Take(w) \/ ClipsDone(w) \/ VideoDone(w) \/ Raise(w)
  PROVE  BuffersAt(w)'
  <1>1. ctl[w] \in WorkerCtl /\ ctl \in [Workers -> WorkerCtl] /\ buf[w] \in [GroupKinds -> SUBSET Row]
        /\ mem[w] \in Memory /\ ctl[w].attempt = 1
    BY DEF TypeOK, NoRetry
  <1>2. CASE Take(w)
    <2>1. PICK t \in queue : ctl[w].phase = "idle" /\ EnterVideo(w, t, Primary, 1, {})
      BY <1>2 DEF Take
    <2>2. \A g \in GroupKinds : buf[w][g] = {}
      BY <2>1 DEF BuffersAt, EmptyBuffers
    <2> QED BY <2>1, <2>2, EnterBuffers
  <1>3. CASE ClipsDone(w)
    <2>1. /\ ctl[w].phase = "clips"
          /\ ctl'[w] = [ctl[w] EXCEPT !.phase = "video"]
          /\ buf' = [buf EXCEPT ![w]["metaGroup"] = {}]
          /\ mem'[w].metaRows = buf[w]["metaGroup"]
          /\ job'[w] = NotStarted
      BY <1>1, <1>3 DEF ClipsDone, TypeOK, Memory
    <2>2. /\ buf'[w]["metaGroup"] = {}
          /\ \A g \in ClearingGroups : buf'[w][g] = buf[w][g]
      BY <1>1, <2>1 DEF TypeOK, GroupKinds, ClearingGroups
    <2>3. \A g : BufferOf(w, g)' = BufferOf(w, g)
      BY <1>1, <2>1 DEF BufferOf, WorkerCtl
    <2>4. \A g \in ClearingGroups : job'[w][GroupJob(g)].at = 1
      <3>1. \A g \in ClearingGroups : GroupJob(g) \in Job
        BY DEF GroupJob, Job, JobKinds, OptionalKinds, ClearingGroups
      <3> QED BY <2>1, <3>1 DEF NotStarted
    <2>5. \A g \in GroupKinds : buf[w][g] = BufferOf(w, g)
      BY <2>1 DEF BuffersAt
    <2>6. ctl'[w].phase = "video"
      BY <1>1, <2>1 DEF WorkerCtl
    <2>7. "metaGroup" \in GroupKinds /\ ClearingGroups \subseteq GroupKinds
      BY DEF GroupKinds, ClearingGroups
    <2> QED BY <2>1, <2>2, <2>3, <2>4, <2>5, <2>6, <2>7 DEF BuffersAt
  <1>4. CASE VideoDone(w)
    <2>1. \A g \in GroupKinds : buf[w][g] = {}
      BY <1>4, VideoLeavesEmpty DEF VideoDone
    <2>2. CASE ctl[w].cam < NumCams
      <3>1. ctl[w].cam + 1 # Primary
        BY <1>1 DEF WorkerCtl, Cams, Primary
      <3> QED BY <1>1, <1>4, <2>1, <2>2, <3>1, EnterBuffers DEF VideoDone
    <2>3. CASE ~(ctl[w].cam < NumCams)
      <3>1. ctl'[w] = Idle /\ buf' = buf
        BY <1>1, <1>4, <2>3 DEF VideoDone
      <3>2. buf[w] = EmptyBuffers
        BY <1>1, <2>1 DEF EmptyBuffers
      <3> QED BY <3>1, <3>2 DEF BuffersAt, Idle
    <2> QED BY <2>2, <2>3
  <1>5. CASE Raise(w)
    <2>1. ctl' = [ctl EXCEPT ![w].phase = "raised"]
      BY <1>5, NoRetryMeans DEF Raise
    <2>2. ctl'[w].phase = "raised"
      BY <1>1, <2>1 DEF WorkerCtl
    <2> QED BY <2>2 DEF BuffersAt
  <1> QED BY <1>2, <1>3, <1>4, <1>5

\* A worker that took a step of a job.
LEMMA WriteKeepsBuffers ==
  ASSUME TypeOK, NEW w \in Workers, BuffersAt(w), NEW j \in Submitted(w),
         WriteStep(w, j) \/ FailJob(w, j)
  PROVE  BuffersAt(w)'
  <1>1. /\ ctl' = ctl /\ mem' = mem /\ j \in Job /\ ~Complete(w, j)
        /\ job \in [Workers -> [Job -> JobState]] /\ buf \in [Workers -> [GroupKinds -> SUBSET Row]]
    BY SubmittedAreJobs
    DEF WriteStep, Skip, Upload, Open, Close, FailJob, Land, Writable, Running, Ended, TypeOK
  <1>2. \A g : BufferOf(w, g)' = BufferOf(w, g)
    BY <1>1 DEF BufferOf
  <1>3. CASE ctl[w].phase # "video"
    <2>1. j.kind \notin GroupKinds
      BY <1>3 DEF Submitted, ClipJobs, Enabled, PerClip, GroupKinds
    <2>2. buf' = buf
      BY <2>1 DEF WriteStep, Skip, Upload, Open, Close, FailJob, Land, ClearingGroups, GroupKinds
    <2> QED BY <1>1, <1>2, <1>3, <2>2 DEF BuffersAt
  <1>4. CASE ctl[w].phase = "video"
    <2>1. \A g \in ClearingGroups : GroupJob(g) \in Job /\ GroupJob(g).kind = g
      BY DEF GroupJob, Job, JobKinds, OptionalKinds, ClearingGroups
    <2>2. j.kind \in ClearingGroups => j = GroupJob(j.kind)
      BY <1>4 DEF Submitted, VideoJobs, Enabled, PerClip, GroupKinds, ClearingGroups, GroupJob
    <2>3. ASSUME NEW g \in ClearingGroups
          PROVE  buf'[w][g] = IF job'[w][GroupJob(g)].at = 1 THEN BufferOf(w, g) ELSE {}
      <3>1. buf[w][g] = IF job[w][GroupJob(g)].at = 1 THEN BufferOf(w, g) ELSE {}
        BY <1>4 DEF BuffersAt
      <3>2. CASE j # GroupJob(g)
        <4>1. job'[w][GroupJob(g)] = job[w][GroupJob(g)]
          BY <1>1, <2>1, <3>2 DEF WriteStep, Skip, Upload, Open, Close, FailJob, Land
        <4>2. j.kind # g
          BY <2>2, <3>2
        <4>3. buf'[w][g] = buf[w][g]
          <5>1. buf' = buf \/ buf' = [buf EXCEPT ![w][j.kind] = {}]
            BY DEF WriteStep, Skip, Upload, Open, Close, FailJob, Land
          <5>2. g \in GroupKinds
            BY DEF ClearingGroups, GroupKinds
          <5> QED BY <1>1, <4>2, <5>1, <5>2
        <4> QED BY <3>1, <4>1, <4>3
      <3>3. CASE j = GroupJob(g) /\ (Upload(w, j) \/ Close(w, j))
        <4>1. Land(w, j) /\ j.kind = g
          BY <2>1, <3>3 DEF Upload, Close
        <4>2. buf' = [buf EXCEPT ![w][g] = {}]
              /\ job' = [job EXCEPT ![w][j] = [at |-> job[w][j].at + 1, mode |-> "closed"]]
          BY <4>1 DEF Land
        <4>3. job'[w][j].at = job[w][j].at + 1 /\ job[w][j].at \in Nat \ {0}
          BY <1>1, <4>2 DEF JobState
        <4>4. buf'[w][g] = {}
          BY <1>1, <4>2 DEF ClearingGroups, GroupKinds
        <4> QED BY <3>3, <4>3, <4>4
      <3>4. CASE j = GroupJob(g) /\ Skip(w, j)
        <4>1. /\ ~Overwrites(Current(w, j)) /\ j.kind = g
              /\ job[w][j].at \in 1..Len(Writes(w, j))
          BY <1>1, <2>1, <3>4, CurrentIsObject DEF Skip
        <4>2. \A n \in 1..Len(Writes(w, j)) : Writes(w, j)[n].kind = g
          BY <4>1 DEF Writes, Obj, GroupKinds, ClearingGroups
        <4> QED BY <4>1, <4>2 DEF Current, Overwrites, ClearingGroups, GroupKinds
      <3>5. CASE j = GroupJob(g) /\ (Open(w, j) \/ FailJob(w, j))
        <4>1. PICK q : job' = [job EXCEPT ![w][j].mode = q] /\ buf' = buf
          BY <3>5 DEF Open, FailJob
        <4>2. job'[w][j].at = job[w][j].at
          BY <1>1, <4>1 DEF JobState
        <4> QED BY <3>1, <3>5, <4>1, <4>2
      <3> QED BY <3>2, <3>3, <3>4, <3>5 DEF WriteStep
    <2>4. buf'[w]["metaGroup"] = {}
      <3>1. buf'[w]["metaGroup"] = buf[w]["metaGroup"]
        BY <1>1 DEF WriteStep, Skip, Upload, Open, Close, FailJob, Land, ClearingGroups, GroupKinds
      <3> QED BY <1>4, <3>1 DEF BuffersAt
    <2> QED BY <1>1, <1>2, <1>4, <2>3, <2>4 DEF BuffersAt
  <1> QED BY <1>3, <1>4

\* What a write makes of the stored grouped files.
LEMMA WriteKeepsGroups ==
  ASSUME TypeOK, GroupHoldsFullRows, NEW w \in Workers, BuffersAt(w), NEW j \in Submitted(w),
         WriteStep(w, j) \/ FailJob(w, j)
  PROVE  GroupHoldsFullRows'
  <1>1. ~Complete(w, j)
    BY DEF WriteStep, Skip, Upload, Open, Close, FailJob, Writable, Running, Ended
  <1>2. CASE Skip(w, j) \/ Open(w, j) \/ FailJob(w, j)
    <2>1. rows' = rows /\ stored' \subseteq stored
      BY <1>2 DEF Skip, Open, FailJob, store
    <2> QED BY <2>1 DEF GroupHoldsFullRows
  <1>3. CASE Upload(w, j) \/ Close(w, j)
    <2> DEFINE o == Current(w, j)
               t == ctl[w].task
    <2>1. Land(w, j)
      BY <1>3 DEF Upload, Close
    <2>2. ASSUME NEW x \in GroupFile, x \in stored', x # o
          PROVE  rows'[x] = FullRows(x.s, x.c, x.kind)
      <3>1. x \in stored /\ rows'[x] = rows[x]
        BY <2>1, <2>2 DEF Land, TypeOK
      <3> QED BY <3>1 DEF GroupHoldsFullRows
    <2>3. ASSUME o \in GroupFile
          PROVE  rows'[o] = FullRows(o.s, o.c, o.kind)
      <3>1. j.kind \in GroupKinds /\ o.kind = j.kind
        BY <1>1, <2>3, CurrentKind
      <3>2. ctl[w].phase = "video" /\ ctl[w].cam = Primary /\ j.kind \in Outputs
        BY SMTT(40), <3>1 DEF Submitted, ClipJobs, VideoJobs, Enabled, PerClip, GroupKinds
      <3>3. RowsToWrite(w, j.kind) # {} /\ o = Obj(j.kind, t.s, t.c, j.i, Primary)
        <4>1. job[w][j].at \in 1..Len(Writes(w, j))
          BY <1>1, CurrentIsObject
        <4> QED BY <3>1, <4>1 DEF Current, Writes, GroupKinds
      <3>4. RowsToWrite(w, j.kind) = BufferOf(w, j.kind)
        <4>1. CASE j.kind = "metaGroup"
          BY <3>2, <4>1 DEF RowsToWrite, BuffersAt
        <4>2. CASE j.kind # "metaGroup"
          <5>1. j.kind \in ClearingGroups
            BY <3>1, <4>2 DEF ClearingGroups, GroupKinds
          <5>2. RowsToWrite(w, j.kind) = buf[w][j.kind]
            BY <4>2 DEF RowsToWrite
          <5>3. buf[w][j.kind] \in {BufferOf(w, j.kind), {}}
            BY <3>2, <5>1 DEF BuffersAt
          <5> QED BY <3>3, <5>2, <5>3
        <4> QED BY <4>1, <4>2
      <3>5. RowsToWrite(w, j.kind) = FullRows(o.s, o.c, o.kind)
        BY <3>2, <3>3, <3>4 DEF BufferOf, Obj
      <3>6. rows'[o] = RowsToWrite(w, j.kind)
        BY <2>1, <2>3 DEF Land, TypeOK
      <3> QED BY <3>5, <3>6
    <2> HIDE DEF o
    <2> QED BY <2>2, <2>3 DEF GroupHoldsFullRows
  <1> QED BY <1>2, <1>3 DEF WriteStep

\* Where nothing raises, or a task is tried once, every attempt is the first.
LEMMA NoRetryStep ==
  ASSUME TypeOK, NoRetry, [Next]_vars
  PROVE  NoRetry'
  <1>1. ctl \in [Workers -> WorkerCtl] /\ job \in [Workers -> [Job -> JobState]]
    BY DEF TypeOK
  <1>2. ASSUME UNCHANGED <<ctl, job>>, budget'.faults = budget.faults
        PROVE  NoRetry'
    BY <1>2 DEF NoRetry
  <1>3. \A j \in Job : NotStarted[j].mode = "closed"
    BY DEF NotStarted
  <1>4. CASE Abort \/ Crash
    <2>1. ctl' = [v \in Workers |-> Idle] /\ job' = [v \in Workers |-> NotStarted]
      BY <1>4 DEF Abort, Crash, Die
    <2>2. budget'.faults = budget.faults
      BY <1>4 DEF Abort, Crash, TypeOK
    <2> QED BY <1>3, <2>1, <2>2 DEF NoRetry, Idle
  <1>5. CASE StartRun \/ Finish \/ (\E s \in Sessions : Crack(s)) \/ UNCHANGED vars
    <2>1. CASE \E s \in Sessions : Crack(s)
      <3>1. PICK n : budget' = [budget EXCEPT !.errors = n]
        BY <2>1 DEF Crack
      <3> QED BY <1>2, <2>1, <3>1 DEF Crack, TypeOK
    <2> QED BY <1>2, <1>5, <2>1 DEF StartRun, Finish, vars, writerVars
  <1>6. ASSUME NEW w \in Workers, Take(w) \/ ClipsDone(w) \/ VideoDone(w) \/ Raise(w),
               UNCHANGEDrun
        PROVE  NoRetry'
    <2>1. ctl[w].attempt = 1
      BY DEF NoRetry
    <2>2. ctl'[w].attempt = 1 /\ \A v \in Workers \ {w} : ctl'[v] = ctl[v]
      <3>1. CASE Take(w)
        BY <1>1, <3>1 DEF Take, EnterVideo
      <3>2. CASE ClipsDone(w)
        BY <1>1, <2>1, <3>2 DEF ClipsDone, WorkerCtl
      <3>3. CASE VideoDone(w)
        BY <1>1, <2>1, <3>3 DEF VideoDone, EnterVideo, Idle
      <3>4. CASE Raise(w)
        <4>1. ctl' = [ctl EXCEPT ![w].phase = "raised"]
          BY <3>4, NoRetryMeans DEF Raise
        <4> QED BY <1>1, <2>1, <4>1 DEF WorkerCtl
      <3> QED BY <1>6, <3>1, <3>2, <3>3, <3>4
    <2>3. job' = job \/ job' = [job EXCEPT ![w] = NotStarted]
      BY <1>6 DEF Take, ClipsDone, VideoDone, Raise, EnterVideo
    <2>4. budget' = budget
      BY <1>6 DEF UNCHANGEDrun
    <2> QED BY ZenonT(60), <1>1, <1>3, <2>2, <2>3, <2>4 DEF NoRetry
  <1>7. ASSUME NEW w \in Workers, NEW j \in Submitted(w), WriteStep(w, j), UNCHANGEDrun
        PROVE  NoRetry'
    <2>1. ctl' = ctl /\ budget' = budget /\ j \in Job
      BY <1>7, SubmittedAreJobs DEF WriteStep, Skip, Upload, Open, Close, Land, UNCHANGEDrun
    <2>2. \A v \in Workers, k \in Job : job'[v][k].mode \in {job[v][k].mode, "closed", "open"}
      <3>1. CASE Skip(w, j)
        <4>1. job' = [job EXCEPT ![w][j].at = job[w][j].at + 1]
          BY <3>1 DEF Skip
        <4> QED BY <1>1, <2>1, <4>1 DEF JobState
      <3>2. CASE Open(w, j)
        <4>1. job' = [job EXCEPT ![w][j].mode = "open"]
          BY <3>2 DEF Open
        <4> QED BY <1>1, <2>1, <4>1 DEF JobState
      <3>3. CASE Upload(w, j) \/ Close(w, j)
        <4>1. job' = [job EXCEPT ![w][j] = [at |-> job[w][j].at + 1, mode |-> "closed"]]
          BY <3>3 DEF Upload, Close, Land
        <4> QED BY <1>1, <2>1, <4>1
      <3> QED BY <1>7, <3>1, <3>2, <3>3 DEF WriteStep
    <2> QED BY <2>1, <2>2 DEF NoRetry
  <1>8. ASSUME NEW w \in Workers, WriteFails(w)
        PROVE  NoRetry'
    <2>1. MaxAttempts = 1
      BY <1>8 DEF WriteFails, NoRetry, TypeOK
    <2>2. ctl' = ctl
      BY <1>8 DEF WriteFails, FailJob
    <2> QED BY <2>1, <2>2 DEF NoRetry
  <1> QED BY <1>4, <1>5, <1>6, <1>7, <1>8 DEF Next, WriterStep, Step, WriteStep

\* Every worker's buffers, and the grouped files, stay as they should be.
LEMMA GroupStep ==
  ASSUME TypeOK, GroupInv, [Next]_vars
  PROVE  BuffersOwn' /\ GroupHoldsFullRows'
  <1> USE DEF GroupInv
  <1>1. NoRetry /\ GroupHoldsFullRows /\ \A v \in Workers : BuffersAt(v)
    BY DEF BuffersOwn, BuffersAt
  <1> SUFFICES GroupHoldsFullRows' /\ \A v \in Workers : BuffersAt(v)'
    BY DEF BuffersOwn, BuffersAt
  <1>2. UNCHANGED <<stored, rows>> => GroupHoldsFullRows'
    BY <1>1 DEF GroupHoldsFullRows
  <1>3. CASE StartRun \/ (\E s \in Sessions : Crack(s)) \/ UNCHANGED vars
    BY <1>1, <1>2, <1>3, KeepBuffers DEF StartRun, Crack, store, vars, writerVars
  <1>4. CASE Finish \/ Abort \/ Crash
    <2>1. UNCHANGED <<stored, rows>> /\ \A v \in Workers : ctl'[v].phase = "idle" /\ buf'[v] = EmptyBuffers
      BY <1>4 DEF Finish, Abort, Crash, Die, Idle, store
    <2> QED BY <1>2, <2>1 DEF BuffersAt
  <1>5. ASSUME NEW w \in Workers, Take(w) \/ ClipsDone(w) \/ VideoDone(w) \/ Raise(w)
        PROVE  GroupHoldsFullRows' /\ \A v \in Workers : BuffersAt(v)'
    <2>1. BuffersAt(w)'
      BY <1>1, <1>5, ControlKeepsBuffers
    <2>2. \A v \in Workers \ {w} : /\ ctl'[v] = ctl[v] /\ job'[v] = job[v]
                                   /\ mem'[v] = mem[v] /\ buf'[v] = buf[v]
      BY <1>5 DEF Take, ClipsDone, VideoDone, Raise, EnterVideo, TypeOK
    <2>3. UNCHANGED <<stored, rows>>
      BY <1>5 DEF Take, ClipsDone, VideoDone, Raise, store
    <2> QED BY <1>1, <1>2, <2>1, <2>2, <2>3, KeepBuffers
  <1>6. ASSUME NEW w \in Workers, NEW j \in Submitted(w), WriteStep(w, j) \/ FailJob(w, j)
        PROVE  GroupHoldsFullRows' /\ \A v \in Workers : BuffersAt(v)'
    <2>1. BuffersAt(w)' /\ GroupHoldsFullRows'
      BY <1>1, <1>6, WriteKeepsBuffers, WriteKeepsGroups
    <2>2. \A v \in Workers \ {w} : /\ ctl'[v] = ctl[v] /\ job'[v] = job[v]
                                   /\ mem'[v] = mem[v] /\ buf'[v] = buf[v]
      BY <1>6 DEF WriteStep, Skip, Upload, Open, Close, FailJob, Land, TypeOK
    <2> QED BY <1>1, <2>1, <2>2, KeepBuffers
  <1> QED BY <1>3, <1>4, <1>5, <1>6 DEF Next, WriterStep, WriteFails, Step, WriteStep

\* Where no write raises, or a task that raised is not tried again, a grouped
\* file has exactly one full row for each clip of its own chunk, for any number
\* of workers, cameras and threads, and whatever crashes: no row leaks from task
\* to task through an actor's buffers.  (A retry after a failed write does
\* append the rows of the earlier attempt again.)
THEOREM GroupExactHolds == (MaxFaults = 0 \/ MaxAttempts = 1) /\ Spec => []GroupExact
  <1> SUFFICES ASSUME MaxFaults = 0 \/ MaxAttempts = 1 PROVE Spec => []GroupExact
    OBVIOUS
  <1>1. Init => GroupInv
    <2> SUFFICES ASSUME Init PROVE GroupInv
      OBVIOUS
    <2>1. /\ stored = {} /\ ctl = [w \in Workers |-> Idle] /\ job = [w \in Workers |-> NotStarted]
          /\ buf = [w \in Workers |-> EmptyBuffers] /\ budget.faults = MaxFaults
      BY DEF Init, WriterInit
    <2> QED BY <2>1 DEF GroupInv, NoRetry, BuffersOwn, GroupHoldsFullRows, Idle, NotStarted
  <1>2. TypeOK /\ GroupInv /\ [Next]_vars => GroupInv'
    BY NoRetryStep, GroupStep DEF GroupInv
  <1>3. GroupInv => GroupExact
    <2> SUFFICES ASSUME GroupInv, NEW o \in GroupFile \cap stored
                 PROVE  /\ \A r \in rows[o] : r.s = o.s /\ r.c = o.c /\ ~r.bare
                        /\ {r.i : r \in rows[o]} = Expected(o.kind)
                        /\ \A r, q \in rows[o] : r.i = q.i => r = q
      BY DEF GroupExact
    <2>1. rows[o] = FullRows(o.s, o.c, o.kind)
      BY DEF GroupInv, GroupHoldsFullRows
    <2> DEFINE row(i) == [s |-> o.s, c |-> o.c, i |-> i, attempt |-> 1, bare |-> FALSE]
               E == Expected(o.kind)
    <2>2. rows[o] = {row(i) : i \in E}
      BY <2>1 DEF FullRows
    <2>3. \A i : row(i).s = o.s /\ row(i).c = o.c /\ row(i).i = i /\ ~row(i).bare
      OBVIOUS
    <2> HIDE DEF row, E
    <2>4. {r.i : r \in rows[o]} = E
      BY <2>2, <2>3
    <2> QED BY <2>2, <2>3, <2>4 DEF E
  <1> QED BY <1>1, <1>2, <1>3, TypeCorrect, PTL DEF Spec
=============================================================================
