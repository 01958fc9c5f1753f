------------------------------ MODULE SplitRun ------------------------------
(***************************************************************************)
(* The split pipeline around the writers: build_input_data selects the     *)
(* sessions no earlier run finished, the upstream stages crack each into   *)
(* clip-chunk tasks, the ClipWriter workers write them, and the run        *)
(* returns.  A run may die at any point, taking every actor with it; the   *)
(* user starts it again with the same options and the same output path.    *)
(***************************************************************************)
EXTENDS ClipWriter

CONSTANTS
    MultiCam,     \* args.multi_cam: sessions are never skipped
    Limit,        \* args.limit, 0 for none
    Unreadable,   \* sessions that always fail before clips exist
    MaxErrors,    \* bound: tasks that reach the writer with video.errors set
    MaxFaults,    \* bound: writes that raise
    MaxCrashes    \* bound: runs that die

ASSUME RunAssumption ==
    /\ MultiCam \in BOOLEAN
    /\ ~MultiCam => NumCams = 1
    /\ Limit \in Nat
    /\ Unreadable \subseteq Sessions
    /\ MaxErrors \in Nat /\ MaxFaults \in Nat /\ MaxCrashes \in Nat

VARIABLES
    run,       \* "down", "up" or "done" (the run returned)
    todo,      \* sessions of this run not cracked yet
    selected,  \* the sessions this run was given
    budget     \* what is left of the three bounds

vars == <<writerVars, run, todo, selected, budget>>

-----------------------------------------------------------------------------
(* build_input_data *)

\* The video record parses and every chunk record it announces exists; the
\* chunk records are not read.  A torn video record does not parse.
FirstChunkProcessed(s) == VideoRecord(s, Primary) \in stored  \* mutant
FullyProcessed(s) ==
    /\ VideoRecord(s, Primary) \in stored
    /\ \A c \in Chunks(s) : ChunkRecord(s, c, Primary) \in Existing

Processed == {s \in Sessions : FullyProcessed(s)}

FirstOf(S, n) == {x \in S : Cardinality({y \in S : y < x}) < n}

\* The listing itself stops after enough inputs to fill the limit.
\* mutant: the listing limit forgets the processed inputs
SelectedShortListing == FirstOf(FirstOf(Sessions, Limit) \ Processed, Limit)

Selected ==
    IF MultiCam THEN IF Limit = 0 THEN Sessions ELSE FirstOf(Sessions, Limit)
    ELSE IF Limit = 0 THEN Sessions \ Processed
    ELSE FirstOf(FirstOf(Sessions, Cardinality(Processed) + Limit) \ Processed, Limit)

Init ==
    /\ WriterInit
    /\ run = "down" /\ todo = {} /\ selected = {}
    /\ budget = [errors |-> MaxErrors, faults |-> MaxFaults, crashes |-> MaxCrashes]

StartRun ==
    /\ run \in {"down", "done"}
    /\ run' = "up"
    /\ selected' = Selected
    /\ todo' = Selected
    /\ outputs' = {}
    /\ UNCHANGED <<store, queue, ctl, job, mem, buf, budget>>

-----------------------------------------------------------------------------
(* The stages upstream of the writer, as far as the writer sees them. *)

\* ClipTranscodingStage hands on one task per chunk of clips, with a copy of
\* the video's errors; an input without clips yields no task at all.  Later
\* stages set errors chunk by chunk.
TasksWithoutRemainder(s, bad) ==  \* mutant
    {[s |-> s, c |-> c, err |-> IF c \in bad THEN {Primary} ELSE {}] :
        c \in Chunks(s) \ {NumChunks[s] - 1}}
Tasks(s, bad) ==
    {[s |-> s, c |-> c, err |-> IF c \in bad THEN {Primary} ELSE {}] : c \in Chunks(s)}

Crack(s) ==
    /\ run = "up" /\ s \in todo
    /\ todo' = todo \ {s}
    /\ \E bad \in SUBSET Chunks(s) :
          /\ s \in Unreadable => bad = {}
          /\ Cardinality(bad) <= budget.errors
          /\ budget' = [budget EXCEPT !.errors = @ - Cardinality(bad)]
          /\ queue' = IF s \in Unreadable THEN queue
                      ELSE queue \cup Tasks(s, bad)
    /\ UNCHANGED <<store, outputs, ctl, job, mem, buf, run, selected>>

-----------------------------------------------------------------------------
(* The writers within a run, and its end. *)

UNCHANGEDrun == UNCHANGED <<run, todo, selected, budget>>

Step(w) == \/ Take(w) \/ ClipsDone(w) \/ VideoDone(w) \/ Raise(w)
           \/ \E j \in Submitted(w) : Skip(w, j) \/ Upload(w, j) \/ Open(w, j) \/ Close(w, j)

WriterStep(w) == run = "up" /\ Step(w) /\ UNCHANGEDrun

WriteFails(w) ==
    /\ run = "up" /\ budget.faults > 0
    /\ \E j \in Submitted(w) : FailJob(w, j)
    /\ budget' = [budget EXCEPT !.faults = @ - 1]
    /\ UNCHANGED <<run, todo, selected>>

Finish ==
    /\ run = "up" /\ todo = {} /\ queue = {}
    /\ \A w \in Workers : ctl[w].phase = "idle"
    /\ run' = "done"
    /\ buf' = [w \in Workers |-> EmptyBuffers]
    /\ UNCHANGED <<store, queue, outputs, ctl, job, mem, todo, selected, budget>>

\* Whatever the reason, the actors die: only the store survives.
Die ==
    /\ run' = "down"
    /\ todo' = {} /\ queue' = {}
    /\ ctl' = [w \in Workers |-> Idle]
    /\ job' = [w \in Workers |-> NotStarted]
    /\ mem' = [w \in Workers |-> Fresh]
    /\ buf' = [w \in Workers |-> EmptyBuffers]
    /\ outputs' = {}
    /\ UNCHANGED <<store, selected>>

\* A task failed every attempt: run_pipeline raises PipelineExecutionError.
Abort ==
    /\ run = "up" /\ \E w \in Workers : ctl[w].phase = "raised"
    /\ Die
    /\ UNCHANGED budget

Crash ==
    /\ run = "up" /\ budget.crashes > 0
    /\ budget' = [budget EXCEPT !.crashes = @ - 1]
    /\ Die

Next ==
    \/ StartRun \/ Finish \/ Abort \/ Crash
    \/ \E s \in Sessions : Crack(s)
    \/ \E w \in Workers : WriterStep(w) \/ WriteFails(w)

Spec == Init /\ [][Next]_vars

\* Actors and their threads keep running while the run is up, xenna keeps
\* feeding tasks, and the user restarts a run that died.  A run that returned
\* is restarted as well: "simply use --limit N with a shared output directory".
Fairness ==
    /\ WF_vars(StartRun) /\ WF_vars(Finish) /\ WF_vars(Abort)
    /\ \A s \in Sessions : WF_vars(Crack(s))
    /\ \A w \in Workers : WF_vars(WriterStep(w))

LiveSpec == Spec /\ Fairness

=============================================================================
