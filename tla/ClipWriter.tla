----------------------------- MODULE ClipWriter -----------------------------
(***************************************************************************)
(* ClipWriterStage: the last stage of the split pipeline.  Every worker    *)
(* (actor) takes one clip-chunk task at a time and writes its outputs with *)
(* a pool of threads: first everything that belongs to one clip, then,     *)
(* once all of that has been joined, the per-window dataset, the process   *)
(* record and the grouped files of the chunk, again concurrently.          *)
(*                                                                         *)
(* A task is a chunk of the clips of a session; its videos are the cameras *)
(* of the session, camera 1 the primary.  A single-camera input video is a *)
(* session with one camera.  Objects are named by what they are and not by *)
(* their path; an object is stored (whole), torn (opened for writing and   *)
(* not finished, on a local file system) or in neither set (absent).       *)
(***************************************************************************)
EXTENDS Naturals, Sequences, FiniteSets

CONSTANTS
    Workers,      \* the actors of the stage
    Sessions,     \* the inputs, numbered in the order they are listed
    NumChunks,    \* session -> the number of clip chunks it is cracked into
    NumCams,      \* cameras per session (1: single-cam)
    Clips,        \* the clips of a chunk, by position
    Filtered,     \* those the filters rejected
    Encoded,      \* those that have an encoded buffer (transcoding succeeded)
    Outputs,      \* the kinds of output the run's options enable
    Threads,      \* self._max_workers
    MaxAttempts,  \* num_run_attempts_python of the stage
    LocalStore    \* TRUE: local paths (open, write, close); FALSE: S3 / Azure

OptionalKinds == {"mp4", "webp", "embd", "meta", "mp4Filtered", "metaFiltered",
                  "window", "embGroup", "metaGroup", "cdsGroup"}

ASSUME WriterAssumption ==
    /\ Sessions \subseteq Nat
    /\ NumChunks \in [Sessions -> Nat]
    /\ NumCams \in Nat \ {0}
    /\ Clips \subseteq Nat \ {0} /\ IsFiniteSet(Clips)
    /\ Filtered \subseteq Clips
    /\ Encoded \subseteq Clips
    /\ Outputs \subseteq OptionalKinds
    /\ Threads \in Nat \ {0}
    /\ MaxAttempts \in Nat \ {0}
    /\ LocalStore \in BOOLEAN

Cams == 1..NumCams
Primary == 1
Passing == Clips \ Filtered
Chunks(s) == 0..NumChunks[s] - 1
ChunkIds == UNION {Chunks(s) : s \in Sessions}

Task == [s : Sessions, c : ChunkIds, err : SUBSET Cams]
NoTask == [s |-> 0, c |-> 0, err |-> {}]

-----------------------------------------------------------------------------
(* Objects of the output store. *)

Kinds == OptionalKinds \cup {"windowText", "windowT5", "video", "chunk", "error"}
Object == [kind : Kinds, s : Sessions, c : Nat, i : Nat, cam : Cams]
Obj(kind, s, c, i, cam) ==
    [kind |-> kind, s |-> s, c |-> c, i |-> i, cam |-> cam]

VideoRecord(s, cam) == Obj("video", s, 0, 0, cam)
ChunkRecord(s, c, cam) == Obj("chunk", s, c, 0, cam)
ErrorRecord(s, c, cam) == Obj("error", s, c, 0, cam)

GroupKinds == {"embGroup", "metaGroup", "cdsGroup"}
OverwritesRecords(o) == o.kind \in GroupKinds \cup {"video", "chunk"}  \* mutant
Overwrites(o) == o.kind \in GroupKinds

GroupFile == {Obj(g, s, c, 0, Primary) : g \in GroupKinds, s \in Sessions, c \in ChunkIds}
RecordFile == {ChunkRecord(s, c, m) : s \in Sessions, c \in ChunkIds, m \in Cams}

\* One row of a grouped file: the clip it describes, the attempt that appended
\* it (two attempts append two rows), and whether the clip's data had already
\* been dropped from memory when the row was built.
Row == [s : Sessions, c : ChunkIds, i : Clips, attempt : 1..MaxAttempts, bare : BOOLEAN]

-----------------------------------------------------------------------------
(* Jobs: the futures submitted to the executor, ranked in submission order. *)

KindRank == [mp4 |-> 1, webp |-> 2, embd |-> 3, meta |-> 4, mp4Filtered |-> 5,
             metaFiltered |-> 6, window |-> 7, record |-> 8, embGroup |-> 9,
             metaGroup |-> 10, cdsGroup |-> 11]
JobKinds == OptionalKinds \cup {"record"}
Job == [kind : JobKinds, i : Clips \cup {0}]
PerClip(kinds, clips) == [kind : kinds, i : clips]
Before(j, k) == \/ KindRank[j.kind] < KindRank[k.kind]
                \/ KindRank[j.kind] = KindRank[k.kind] /\ j.i < k.i

\* A job whose output is switched off touches nothing and cannot fail, so it
\* is left out; the record is written whatever the options.
Enabled(jobs) == {j \in jobs : j.kind \in Outputs \cup {"record"}}

ClipJobs(cam) ==
    Enabled(PerClip({"mp4"}, Passing) \cup PerClip({"mp4Filtered"}, Filtered)
            \cup IF cam = Primary
                 THEN PerClip({"webp", "embd", "meta"}, Passing)
                      \cup PerClip({"metaFiltered"}, Filtered)
                 ELSE {})

VideoJobs(cam) ==
    Enabled(PerClip({"record"}, {0})
            \cup IF cam = Primary
                 THEN PerClip({"window"}, Passing) \cup PerClip(GroupKinds, {0})
                 ELSE {})

-----------------------------------------------------------------------------
VARIABLES
    stored,    \* the whole objects
    torn,      \* the objects a local write opened and did not finish
    rows,      \* object -> the rows of a stored grouped file
    passed,    \* object -> num_clips_passed in a stored chunk record
    queue,     \* tasks waiting for a worker
    outputs,   \* tasks the stage has returned
    ctl,       \* worker -> what its process_data call is doing
    job,       \* worker -> job -> how far the job is
    mem,       \* worker -> the task's videos in memory
    buf        \* worker -> the actor's row buffers

store == <<stored, torn, rows, passed>>
writerVars == <<stored, torn, rows, passed, queue, outputs, ctl, job, mem, buf>>

Existing == stored \cup torn

Idle == [task |-> NoTask, cam |-> Primary, attempt |-> 1, phase |-> "idle"]
NotStarted == [j \in Job |-> [at |-> 1, mode |-> "closed"]]
\* counted: clip_stats.num_passed of each video; dropped: the videos whose clip
\* data was released; metaRows: the rows handed to _write_grouped_metadata
Fresh == [counted |-> [m \in Cams |-> 0], dropped |-> {}, metaRows |-> {}]
EmptyBuffers == [g \in GroupKinds |-> {}]

WriterInit ==
    /\ stored = {} /\ torn = {}
    /\ rows = [o \in GroupFile |-> {}]
    /\ passed = [o \in RecordFile |-> 0]
    /\ queue = {} /\ outputs = {}
    /\ ctl = [w \in Workers |-> Idle]
    /\ job = [w \in Workers |-> NotStarted]
    /\ mem = [w \in Workers |-> Fresh]
    /\ buf = [w \in Workers |-> EmptyBuffers]

-----------------------------------------------------------------------------
(* What a job writes, in order, as a function of the worker's memory. *)

HasData(w, i) == i \in Encoded /\ ctl[w].cam \notin mem[w].dropped

RowsToWrite(w, g) == IF g = "metaGroup" THEN mem[w].metaRows ELSE buf[w][g]

RecordWrites(t, m) ==
    IF m \in t.err THEN <<ErrorRecord(t.s, t.c, m)>>
    ELSE IF t.c = 0 THEN <<VideoRecord(t.s, m), ChunkRecord(t.s, t.c, m)>>
    ELSE <<ChunkRecord(t.s, t.c, m)>>

Writes(w, j) ==
    LET t == ctl[w].task
        m == ctl[w].cam
        own(kind) == Obj(kind, t.s, t.c, j.i, m)
        shared(kind) == Obj(kind, t.s, t.c, j.i, Primary)
    IN  CASE j.kind = "record" -> RecordWrites(t, m)
          [] j.kind \in GroupKinds ->
                IF RowsToWrite(w, j.kind) # {} THEN <<shared(j.kind)>> ELSE <<>>
          [] j.kind \in {"meta", "metaFiltered"} -> <<shared(j.kind)>>
          [] j.kind \in {"mp4", "mp4Filtered"} ->
                IF HasData(w, j.i) THEN <<own(j.kind)>> ELSE <<>>
          [] j.kind \in {"webp", "embd"} ->
                IF HasData(w, j.i) THEN <<shared(j.kind)>> ELSE <<>>
          [] j.kind = "window" ->
                IF HasData(w, j.i)
                THEN <<shared("window"), shared("windowText"), shared("windowT5")>>
                ELSE <<>>

Submitted(w) == IF ctl[w].phase = "clips" THEN ClipJobs(ctl[w].cam)
                ELSE IF ctl[w].phase = "video" THEN VideoJobs(ctl[w].cam)
                ELSE {}

Failed(w) == {j \in Submitted(w) : job[w][j].mode = "failed"}
Complete(w, j) == job[w][j].at > Len(Writes(w, j))
Ended(w, j) == j \in Failed(w) \/ Complete(w, j)
EndedOrClips(w) == ctl[w].phase = "clips" \/ \A j \in Submitted(w) : Ended(w, j)  \* mutant
AllEnded(w) == \A j \in Submitted(w) : Ended(w, j)

\* The pool starts jobs in submission order and runs at most Threads of them.
HasThread(w, j) ==
    Cardinality({k \in Submitted(w) : Before(k, j) /\ ~Ended(w, k)}) < Threads

Current(w, j) == Writes(w, j)[job[w][j].at]

Running(w, j) ==
    /\ j \in Submitted(w) /\ ~Ended(w, j) /\ HasThread(w, j)

-----------------------------------------------------------------------------
(* write_bytes: one write of a job.  The tasks of a run are disjoint, so no *)
(* other worker touches the object between the existence check and the      *)
(* upload, and the two are one step.                                        *)

Skip(w, j) ==
    /\ Running(w, j) /\ job[w][j].mode = "closed"
    /\ Current(w, j) \in Existing /\ ~Overwrites(Current(w, j))
    /\ job' = [job EXCEPT ![w][j].at = @ + 1]
    /\ UNCHANGED <<store, queue, outputs, ctl, mem, buf>>

\* The grouped files whose writer empties the actor's buffer once it wrote it.
ClearingGroupsNoCds == {"embGroup"}  \* mutant
ClearingGroups == {"embGroup", "cdsGroup"}

Land(w, j) ==
    LET o == Current(w, j)
    IN  /\ stored' = stored \cup {o}
        /\ torn' = torn \ {o}
        /\ rows' = IF o \in GroupFile
                   THEN [rows EXCEPT ![o] = RowsToWrite(w, j.kind)] ELSE rows
        /\ passed' = IF o \in RecordFile
                     THEN [passed EXCEPT ![o] = mem[w].counted[ctl[w].cam]] ELSE passed
        /\ buf' = IF j.kind \in ClearingGroups
                  THEN [buf EXCEPT ![w][j.kind] = {}] ELSE buf
        /\ job' = [job EXCEPT ![w][j] = [at |-> @.at + 1, mode |-> "closed"]]
        /\ UNCHANGED <<queue, outputs, ctl, mem>>

Writable(w, j) ==
    /\ Running(w, j) /\ job[w][j].mode = "closed"
    /\ Current(w, j) \in Existing => Overwrites(Current(w, j))

Upload(w, j) == ~LocalStore /\ Writable(w, j) /\ Land(w, j)

\* dest.open("wb") truncates what was there; the bytes follow.
Open(w, j) ==
    /\ LocalStore /\ Writable(w, j)
    /\ stored' = stored \ {Current(w, j)}
    /\ torn' = torn \cup {Current(w, j)}
    /\ job' = [job EXCEPT ![w][j].mode = "open"]
    /\ UNCHANGED <<rows, passed, queue, outputs, ctl, mem, buf>>

Close(w, j) ==
    /\ LocalStore /\ Running(w, j) /\ job[w][j].mode = "open"
    /\ Land(w, j)

\* The write raises: three uploads failed, or the local write did.  A file
\* already opened stays as it is.
FailJob(w, j) ==
    /\ Running(w, j)
    /\ Writable(w, j) \/ job[w][j].mode = "open"
    /\ job' = [job EXCEPT ![w][j].mode = "failed"]
    /\ UNCHANGED <<store, queue, outputs, ctl, mem, buf>>

-----------------------------------------------------------------------------
(* process_data and _process_video. *)

\* Entering _process_video for video m: the primary's rows go to the buffers
\* before anything is written.
BufferedRows(w, t, m, n, dropped, g) ==
    LET described == IF g = "metaGroup" THEN Passing
                     ELSE IF m \in dropped THEN {} ELSE Passing \cap Encoded
    IN  IF m = Primary /\ g \in Outputs
        THEN {[s |-> t.s, c |-> t.c, i |-> i, attempt |-> n, bare |-> m \in dropped] :
                 i \in described}
        ELSE {}

EnterVideo(w, t, m, n, dropped) ==
    /\ ctl' = [ctl EXCEPT ![w] = [task |-> t, cam |-> m, attempt |-> n, phase |-> "clips"]]
    /\ buf' = [buf EXCEPT ![w] =
                  [g \in GroupKinds |-> @[g] \cup BufferedRows(w, t, m, n, dropped, g)]]
    /\ job' = [job EXCEPT ![w] = NotStarted]

Take(w) ==
    \E t \in queue :
        /\ ctl[w].phase = "idle"
        /\ queue' = queue \ {t}
        /\ mem' = [mem EXCEPT ![w] = Fresh]
        /\ EnterVideo(w, t, Primary, 1, {})
        /\ UNCHANGED <<store, outputs>>

\* The passing clips' mp4 jobs come first; clip_stats is combined result by
\* result, up to the first one that raises.
Counted(w) == Cardinality({i \in Passing : \A f \in Failed(w) : Before([kind |-> "mp4", i |-> i], f)})

Count(w) == [mem[w].counted EXCEPT ![ctl[w].cam] = @ + Counted(w)]

\* All clip-level futures returned: submit the video-level ones and empty the
\* metadata buffer into metadata_rows.
ClipsDone(w) ==
    /\ ctl[w].phase = "clips" /\ AllEnded(w) /\ Failed(w) = {}
    /\ mem' = [mem EXCEPT ![w].counted = Count(w),
                          ![w].metaRows = buf[w]["metaGroup"]]
    /\ buf' = [buf EXCEPT ![w]["metaGroup"] = {}]
    /\ ctl' = [ctl EXCEPT ![w].phase = "video"]
    /\ job' = [job EXCEPT ![w] = NotStarted]
    /\ UNCHANGED <<store, queue, outputs>>

\* Everything joined: the clip data is dropped, then the next camera, or the
\* task is returned.
VideoDone(w) ==
    LET dropped == mem[w].dropped \cup {ctl[w].cam}
    IN  /\ ctl[w].phase = "video" /\ AllEnded(w) /\ Failed(w) = {}
        /\ IF ctl[w].cam < NumCams
           THEN /\ mem' = [mem EXCEPT ![w].dropped = dropped]
                /\ EnterVideo(w, ctl[w].task, ctl[w].cam + 1, ctl[w].attempt, dropped)
                /\ UNCHANGED outputs
           ELSE /\ outputs' = outputs \cup {ctl[w].task}
                /\ ctl' = [ctl EXCEPT ![w] = Idle]
                /\ job' = [job EXCEPT ![w] = NotStarted]
                /\ mem' = [mem EXCEPT ![w] = Fresh]
                /\ UNCHANGED buf
        /\ UNCHANGED <<store, queue>>

AttemptsLeft(w) == ctl[w].attempt < MaxAttempts

\* A future raised.  The executor's exit has waited for the other jobs; the
\* exception leaves process_data, which is called again on the same actor with
\* the same task, from the first video, until the attempts are used up.
Raise(w) ==
    LET memory == IF ctl[w].phase = "clips"
                  THEN [mem[w] EXCEPT !.counted = Count(w)] ELSE mem[w]
    IN  /\ AllEnded(w) /\ Failed(w) # {}
        /\ mem' = [mem EXCEPT ![w] = memory]
        /\ IF AttemptsLeft(w)
           THEN EnterVideo(w, ctl[w].task, Primary, ctl[w].attempt + 1, mem[w].dropped)
           ELSE /\ ctl' = [ctl EXCEPT ![w].phase = "raised"]
                /\ UNCHANGED <<job, buf>>
        /\ UNCHANGED <<store, queue, outputs>>
=============================================================================
