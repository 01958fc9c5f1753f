--------------------------- MODULE SplitRunProps ----------------------------
(***************************************************************************)
(* What the split pipeline promises across runs, crashes and retries.      *)
(***************************************************************************)
EXTENDS SplitRun

WorkerCtl == [task : Task \cup {NoTask}, cam : Cams, attempt : 1..MaxAttempts,
              phase : {"idle", "clips", "video", "raised"}]
JobState == [at : Nat \ {0}, mode : {"closed", "open", "failed"}]
Memory == [counted : [Cams -> Nat], dropped : SUBSET Cams, metaRows : SUBSET Row]

\* Every variable stays in its range.
TypeOK ==
    /\ stored \subseteq Object /\ torn \subseteq Object
    /\ rows \in [GroupFile -> SUBSET Row]
    /\ passed \in [RecordFile -> Nat]
    /\ queue \subseteq Task /\ outputs \subseteq Task
    /\ ctl \in [Workers -> WorkerCtl]
    /\ \A w \in Workers : ctl[w].phase # "idle" => ctl[w].task \in Task
    /\ job \in [Workers -> [Job -> JobState]]
    /\ mem \in [Workers -> Memory]
    /\ buf \in [Workers -> [GroupKinds -> SUBSET Row]]
    /\ run \in {"down", "up", "done"}
    /\ todo \subseteq Sessions /\ selected \subseteq Sessions
    /\ budget \in [errors : Nat, faults : Nat, crashes : Nat]

-----------------------------------------------------------------------------
(* The outputs that belong to the clips of one video of a chunk. *)

Mp4Objects(s, c, m) ==
    {Obj("mp4", s, c, i, m) : i \in Passing \cap Encoded}
    \cup {Obj("mp4Filtered", s, c, i, m) : i \in Filtered \cap Encoded}

SharedObjects(s, c) ==
    {Obj("meta", s, c, i, Primary) : i \in Passing}
    \cup {Obj("metaFiltered", s, c, i, Primary) : i \in Filtered}
    \cup {Obj(k, s, c, i, Primary) : k \in {"webp", "embd"}, i \in Passing \cap Encoded}

ClipObjects(s, c, m) ==
    {o \in Mp4Objects(s, c, m) \cup (IF m = Primary THEN SharedObjects(s, c) ELSE {}) :
        o.kind \in Outputs}

\* On an object store uploads are atomic, so what exists is whole.  A local file
\* may be torn, and write_bytes takes one that exists for one that is written.
Written == IF LocalStore THEN Existing ELSE stored

\* "write video-level metadata after all clip-level tasks are done"
\* (metadata_writer_stage.py:411): a chunk's process record appears only when
\* every clip-level output of that video is in the store, whatever crashed,
\* failed or was retried before.  On a local file system a torn clip is in the
\* store: SkippedIsWritten says when there is none.
RecordAfterClips ==
    \A s \in Sessions, m \in Cams : \A c \in Chunks(s) :
        ChunkRecord(s, c, m) \in Existing => ClipObjects(s, c, m) \subseteq Written

\* A write raised, or a run died, at some time up to now.
Interrupted == budget.faults < MaxFaults \/ budget.crashes < MaxCrashes

\* An input that resumption leaves out lacks no clip, and its clips are whole
\* unless a local write may have been cut short.  The proviso is the code's: a
\* clip file that was torn exists, so a retry skips it (writer_utils.py:124),
\* the chunk is recorded, and every later run leaves the input out with the
\* torn clip in it, where END_USER_GUIDE.md:216 says that "a simple restart
\* would resume from where it left resulting in correct behavior".
SkippedIsWritten ==
    (run \in {"up", "done"} /\ ~MultiCam /\ Limit = 0) =>
        \A s \in Sessions \ selected : \A c \in Chunks(s) :
            /\ ClipObjects(s, c, Primary) \subseteq Existing
            /\ ~(LocalStore /\ Interrupted) => ClipObjects(s, c, Primary) \subseteq stored

\* A run that returns has a record, or an error record, of every chunk of every
\* input it was given: no task is lost between the stages and the writers.
ReturnAccountsForAll ==
    run = "done" =>
        \A s \in selected \ Unreadable, m \in Cams : \A c \in Chunks(s) :
            {ChunkRecord(s, c, m), ErrorRecord(s, c, m)} \cap Existing # {}

\* A process record is written once: no retry, crash, restart or other worker
\* changes the statistics a later resume or summary reads.
RecordWrittenOnce ==
    [][\A o \in RecordFile : o \in stored => o \in stored' /\ passed'[o] = passed[o]]_vars

-----------------------------------------------------------------------------
(* The grouped files. *)

Expected(g) == IF g = "metaGroup" THEN Passing ELSE Passing \cap Encoded

\* A grouped file holds one full row for each clip of its own chunk and no
\* other row: nothing leaks from task to task through the actor's buffers.
GroupExact ==
    \A o \in GroupFile \cap stored :
        /\ \A r \in rows[o] : r.s = o.s /\ r.c = o.c /\ ~r.bare
        /\ {r.i : r \in rows[o]} = Expected(o.kind)
        /\ \A r, q \in rows[o] : r.i = q.i => r = q

\* A restart resumes "from where it left resulting in correct behavior"
\* (END_USER_GUIDE.md:216): when a run has returned, an input that counts as
\* processed also has its grouped files.
ResumedIsComplete ==
    run = "done" =>
        \A s \in Processed : \A c \in Chunks(s), g \in GroupKinds \cap Outputs :
            Expected(g) # {} => Obj(g, s, c, 0, Primary) \in Existing

\* Every readable input is recorded in the end, however runs crash and tasks
\* fail before.
AllRecorded == \A s \in Sessions \ Unreadable : Chunks(s) # {} => <>[]FullyProcessed(s)

-----------------------------------------------------------------------------
(* The inductive invariant behind RecordAfterClips. *)

\* Where uploads are atomic nothing is ever torn and no file is open.
NothingTorn ==
    ~LocalStore => /\ torn = {}
                   /\ \A w \in Workers, j \in Job : job[w][j].mode # "open"

\* A job that got past a write left that object in the store.
ProgressIsWritten ==
    \A w \in Workers : \A j \in Submitted(w) : \A n \in 1..Len(Writes(w, j)) :
        n < job[w][j].at => Writes(w, j)[n] \in Existing

\* A worker past the clip-level futures has the clips of its video in the store.
VideoPhaseHasClips ==
    \A w \in Workers : ctl[w].phase = "video" =>
        ClipObjects(ctl[w].task.s, ctl[w].task.c, ctl[w].cam) \subseteq Existing

\* So has one that dropped the clip data: a retry then skips those writes.
DroppedHasClips ==
    \A w \in Workers : \A m \in mem[w].dropped :
        ClipObjects(ctl[w].task.s, ctl[w].task.c, m) \subseteq Existing

RecordHasClips ==
    \A s \in Sessions, m \in Cams : \A c \in ChunkIds :
        ChunkRecord(s, c, m) \in Existing => ClipObjects(s, c, m) \subseteq Existing

IndInv == TypeOK /\ NothingTorn /\ ProgressIsWritten /\ VideoPhaseHasClips
          /\ DroppedHasClips /\ RecordHasClips

-----------------------------------------------------------------------------
(* The invariant behind RecordWrittenOnce. *)

RecordKinds == {"video", "chunk", "error"}
RecordJob == [kind |-> "record", i |-> 0]
Recording(w) == ctl[w].phase = "video" /\ job[w][RecordJob].mode = "open"

\* A record that a worker has open on a local file system is torn until it is
\* closed, and no other worker has it open.
OpenRecords ==
    /\ \A w \in Workers : Recording(w) =>
          /\ Current(w, RecordJob) \in torn \ stored
          /\ Current(w, RecordJob).kind \in RecordKinds
    /\ \A w, v \in Workers :
          Recording(w) /\ Recording(v) /\ Current(w, RecordJob) = Current(v, RecordJob) => w = v

-----------------------------------------------------------------------------
(* The inductive invariant behind SkippedIsWritten and ReturnAccountsForAll. *)

\* What a run left out had its chunk records when it was selected; nothing is
\* ever removed from the store, so it has them still.
SkippedHasRecords ==
    (run \in {"up", "done"} /\ ~MultiCam /\ Limit = 0) =>
        \A s \in Sessions \ selected : \A c \in Chunks(s) :
            ChunkRecord(s, c, Primary) \in Existing

Recorded(s, c, m) == {ChunkRecord(s, c, m), ErrorRecord(s, c, m)} \cap Existing # {}

\* A worker that has come to a video recorded the cameras before it.
EarlierCamsRecorded ==
    \A w \in Workers : ctl[w].phase # "idle" =>
        \A m \in Cams : m < ctl[w].cam => Recorded(ctl[w].task.s, ctl[w].task.c, m)

\* A chunk of the run waits upstream, waits for a worker, is with one, or is
\* recorded for every camera.
Waiting(s, c) == \E t \in queue : t.s = s /\ t.c = c
WithWorker(s, c) ==
    \E w \in Workers : ctl[w].phase # "idle" /\ ctl[w].task.s = s /\ ctl[w].task.c = c
NoTaskLost ==
    run \in {"up", "done"} =>
        \A s \in selected \ Unreadable : \A c \in Chunks(s) :
            s \in todo \/ Waiting(s, c) \/ WithWorker(s, c) \/ \A m \in Cams : Recorded(s, c, m)

\* A run returns with nothing left to do.
ReturnedIsDrained ==
    run = "done" => todo = {} /\ queue = {} /\ \A w \in Workers : ctl[w].phase = "idle"

AccountInv == SkippedHasRecords /\ EarlierCamsRecorded /\ NoTaskLost /\ ReturnedIsDrained

\* A worker has a file open for a job it is not through with.
Opened(w, j) == j \in Submitted(w) /\ job[w][j].mode = "open" /\ ~Complete(w, j)

\* Every torn file is one that a worker has open now.
TornIsOpen ==
    \A o \in torn : \E w \in Workers : \E j \in Submitted(w) : Opened(w, j) /\ Current(w, j) = o

\* Until something is interrupted no write failed and nothing was cut short.
NothingCut ==
    ~Interrupted =>
        /\ \A w \in Workers : ctl[w].phase # "raised"
        /\ \A w \in Workers, j \in Job : job[w][j].mode # "failed"
        /\ TornIsOpen

\* What runs belongs to the inputs of this run.
OwnTasks ==
    /\ run = "down" => queue = {} /\ \A w \in Workers : ctl[w].phase = "idle"
    /\ todo \subseteq selected
    /\ \A t \in queue : t.s \in selected
    /\ \A w \in Workers : ctl[w].phase # "idle" => ctl[w].task.s \in selected

WithinBudget == budget.faults <= MaxFaults /\ budget.crashes <= MaxCrashes

WholeInv == NothingCut /\ OwnTasks /\ WithinBudget

-----------------------------------------------------------------------------
(* The inductive invariant behind GroupExact, where no task is tried twice. *)

\* Nothing raised, or a task that raised is given up.
NoRetry == /\ budget.faults = 0 \/ MaxAttempts = 1
           /\ \A w \in Workers : ctl[w].attempt = 1
           /\ MaxAttempts # 1 => \A w \in Workers, j \in Job : job[w][j].mode # "failed"

\* The rows one attempt builds for a grouped file of a chunk.
FullRows(s, c, g) ==
    {[s |-> s, c |-> c, i |-> i, attempt |-> 1, bare |-> FALSE] : i \in Expected(g)}

\* A worker's buffers hold the rows of the chunk it is writing the primary
\* camera of, until the file that takes them is written, and nothing else.
BufferOf(w, g) == IF ctl[w].cam = Primary /\ g \in Outputs
                  THEN FullRows(ctl[w].task.s, ctl[w].task.c, g) ELSE {}
GroupJob(g) == [kind |-> g, i |-> 0]
BuffersOwn ==
    \A w \in Workers :
        /\ ctl[w].phase = "idle" => buf[w] = EmptyBuffers
        /\ ctl[w].phase = "clips" => \A g \in GroupKinds : buf[w][g] = BufferOf(w, g)
        /\ ctl[w].phase = "video" =>
              /\ buf[w]["metaGroup"] = {} /\ mem[w].metaRows = BufferOf(w, "metaGroup")
              /\ \A g \in ClearingGroups :
                    buf[w][g] = IF job[w][GroupJob(g)].at = 1 THEN BufferOf(w, g) ELSE {}

GroupHoldsFullRows == \A o \in GroupFile \cap stored : rows[o] = FullRows(o.s, o.c, o.kind)

GroupInv == NoRetry /\ BuffersOwn /\ GroupHoldsFullRows
=============================================================================
