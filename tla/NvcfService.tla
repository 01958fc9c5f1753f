----------------------------- MODULE NvcfService -----------------------------
(***************************************************************************)
(* The HTTP service of nvcf_main: uvicorn worker processes that share a    *)
(* status file and a lock file, run one pipeline request at a time as a    *)
(* Ray job, record how each request ended in files of its own, and         *)
(* terminate jobs on demand.  Modelled with using_nvcf_status off, where   *)
(* the files are what clients poll.                                        *)
(*                                                                         *)
(* uvicorn runs with --limit-concurrency 2, which counts the connection    *)
(* being served: a worker serves one request at a time.                    *)
(***************************************************************************)
EXTENDS Naturals, FiniteSets

CONSTANTS
    Workers,     \* the uvicorn worker processes
    Reqs,        \* pipeline requests, by NVCF-REQID (unique)
    Presigned,   \* those with a presigned URL for their outputs
    ForceId,     \* _FORCE_TERMINATE_REQUEST_ID
    None,        \* no request
    Free,        \* the lock file is missing, or nobody holds it
    Orphan,      \* it is held through the descriptor of a dead worker's child
    MaxTerms,    \* bound: termination requests
    MaxCrashes   \* bound: workers that die

ASSUME ServiceAssumption ==
    /\ Presigned \subseteq Reqs
    /\ ForceId \notin Reqs /\ None \notin Reqs \cup {ForceId}
    /\ Free \notin Workers /\ Orphan \notin Workers /\ Free # Orphan
    /\ MaxTerms \in Nat /\ MaxCrashes \in Nat

Ids == Reqs \cup {ForceId}

VARIABLES
    at,         \* where each worker is
    cur,        \* the request it runs or terminates, None while it starts
    result,     \* how the request it runs will be answered
    todo,       \* jobs its termination request has still to stop
    victim,     \* the one it waits for
    hit,        \* whether it has stopped one
    lock,       \* who holds the lock file
    busy,       \* the status file exists
    files,      \* progress, done and failed files of each request
    ipc,        \* ipc_status of each request
    stop,       \* its stop_event
    thread,     \* its progress thread
    job,        \* its Ray job
    listed,     \* the jobs Ray still knows
    answer,     \* what the client got
    outputs,    \* what became of the outputs to upload
    disturbed,  \* history: a request was swept by a starting worker, or its worker died
    budget      \* what is left of the two bounds

workerVars == <<at, cur, result>>
termVars == <<todo, victim, hit>>
reqVars == <<files, ipc, stop, thread, outputs>>
jobVars == <<job, listed>>
vars == <<workerVars, termVars, lock, busy, reqVars, jobVars, answer, disturbed, budget>>

-----------------------------------------------------------------------------

Failing == {"failed", "stopped"}
Alive(r) == job[r] \in {"pending", "running", "stopping"}

\* From the handler on, a worker has a request in the pipeline.
Running(w) == at[w] \in {"locked", "handler", "args", "job", "returned", "join", "upload"}

\* A worker that ends a request unlinks the files before it lets go.
Ending(w) == at[w] \in {"unlinkStatus", "unlinkLock"} /\ cur[w] # None

InProgress == \/ \E w \in Workers : Running(w) \/ Ending(w)
              \/ \E r \in Reqs : Alive(r)

\* _get_request_status
Status(r) == IF "failed" \in files[r] THEN "failed"
             ELSE IF "done" \in files[r] THEN "done"
             ELSE IF "progress" \in files[r] THEN "running" ELSE "not-found"

\* The files of an earlier container may have survived in the temp directory.
Init ==
    /\ at = [w \in Workers |-> "down"]
    /\ cur = [w \in Workers |-> None]
    /\ result = [w \in Workers |-> "none"]
    /\ todo = [w \in Workers |-> {}]
    /\ victim = [w \in Workers |-> None]
    /\ hit = [w \in Workers |-> FALSE]
    /\ lock = Free /\ busy \in BOOLEAN
    /\ files = [r \in Ids |-> {}]
    /\ ipc = [r \in Reqs |-> TRUE]
    /\ stop = [r \in Reqs |-> FALSE]
    /\ thread = [r \in Reqs |-> "off"]
    /\ job = [r \in Reqs |-> "none"] /\ listed = {}
    /\ answer = [r \in Reqs |-> "none"]
    /\ outputs = [r \in Reqs |-> "none"]
    /\ disturbed = FALSE
    /\ budget = [terms |-> MaxTerms, crashes |-> MaxCrashes]

Goto(w, place) == at' = [at EXCEPT ![w] = place]

-----------------------------------------------------------------------------
(* _cleanup_pipeline_lock_files: when the module is imported, and when a   *)
(* request ends.                                                           *)

Start(w) ==
    /\ at[w] = "down"
    /\ Goto(w, "unlinkStatus")
    /\ UNCHANGED <<cur, result, termVars, lock, busy, reqVars, jobVars, answer, disturbed, budget>>

UnlinkStatusNever(w) ==  \* mutant
    /\ at[w] = "unlinkStatus"
    /\ Goto(w, "unlinkLock")
    /\ UNCHANGED <<cur, result, termVars, lock, busy, reqVars, jobVars, answer, disturbed, budget>>
UnlinkStatus(w) ==
    /\ at[w] = "unlinkStatus"
    /\ busy' = FALSE
    /\ Goto(w, "unlinkLock")
    /\ disturbed' = (disturbed \/ (cur[w] = None /\ InProgress))
    /\ UNCHANGED <<cur, result, termVars, lock, reqVars, jobVars, answer, budget>>

\* Whoever holds the file now holds one nobody else can open.  A request's
\* answer leaves once its worker has also released the lock.
Answered(w) == IF cur[w] = None THEN answer
               ELSE [answer EXCEPT ![cur[w]] = result[w]]

UnlinkLock(w) ==
    /\ at[w] = "unlinkLock"
    /\ lock' = Free
    /\ Goto(w, "idle")
    /\ disturbed' = (disturbed \/ (cur[w] = None /\ InProgress))
    /\ answer' = Answered(w)
    /\ cur' = [cur EXCEPT ![w] = None]
    /\ result' = [result EXCEPT ![w] = "none"]
    /\ UNCHANGED <<termVars, busy, reqVars, jobVars, budget>>

-----------------------------------------------------------------------------
(* PipelineLockMiddleware.dispatch and curate_video, for one request.      *)

Send(r, code) == answer' = [answer EXCEPT ![r] = code]

Reject(w, r) ==
    /\ at[w] = "idle" /\ answer[r] = "none" /\ busy
    /\ Send(r, "busy")
    /\ UNCHANGED <<workerVars, termVars, lock, busy, reqVars, jobVars, disturbed, budget>>

Arrive(w, r) ==
    /\ at[w] = "idle" /\ answer[r] = "none" /\ ~busy
    /\ Goto(w, "acquire")
    /\ cur' = [cur EXCEPT ![w] = r]
    /\ Send(r, "pending")
    /\ UNCHANGED <<result, termVars, lock, busy, reqVars, jobVars, disturbed, budget>>

AcquireAnyway(w) ==  \* mutant: the status file is trusted alone
    /\ at[w] = "acquire"
    /\ lock' = w
    /\ Goto(w, "locked")
    /\ UNCHANGED <<cur, result, termVars, busy, reqVars, jobVars, answer, disturbed, budget>>
Acquire(w) ==
    /\ at[w] = "acquire" /\ lock = Free
    /\ lock' = w
    /\ Goto(w, "locked")
    /\ UNCHANGED <<cur, result, termVars, busy, reqVars, jobVars, answer, disturbed, budget>>

TimeOut(w) ==
    /\ at[w] = "acquire" /\ lock # Free
    /\ Goto(w, "idle")
    /\ Send(cur[w], "busy")
    /\ cur' = [cur EXCEPT ![w] = None]
    /\ UNCHANGED <<result, termVars, lock, busy, reqVars, jobVars, disturbed, budget>>

WriteStatus(w) ==
    /\ at[w] = "locked"
    /\ busy' = TRUE
    /\ Goto(w, "handler")
    /\ UNCHANGED <<cur, result, termVars, lock, reqVars, jobVars, answer, disturbed, budget>>

\* _setup_request: success is assumed, the thread runs.
Setup(w) ==
    /\ at[w] = "handler"
    /\ LET r == cur[w] IN
          /\ ipc' = [ipc EXCEPT ![r] = TRUE]
          /\ files' = [files EXCEPT ![r] = @ \cup {"progress"}]
          /\ thread' = [thread EXCEPT ![r] = "run"]
    /\ Goto(w, "args")
    /\ UNCHANGED <<cur, result, termVars, lock, busy, stop, outputs, jobVars, answer, disturbed, budget>>

\* An exception before the thread runs: the manager process, the output directory,
\* the progress and log files, the thread itself.  There is nobody to wait for and
\* nothing to upload, and no final status is written.
SetupFails(w) ==
    /\ at[w] = "handler"
    /\ \E left \in {{}, {"progress"}} : files' = [files EXCEPT ![cur[w]] = @ \cup left]
    /\ result' = [result EXCEPT ![w] = "error"]
    /\ Goto(w, "unlinkStatus")
    /\ UNCHANGED <<cur, termVars, lock, busy, ipc, stop, thread, outputs, jobVars, answer, disturbed, budget>>

\* Arguments that raise, and the pipeline types that are accepted and not run.
NoJob(w) ==
    /\ at[w] = "args"
    /\ \E code \in {"ok", "error"} : result' = [result EXCEPT ![w] = code]
    /\ Goto(w, "returned")
    /\ UNCHANGED <<cur, termVars, lock, busy, reqVars, jobVars, answer, disturbed, budget>>

Submit(w) ==
    /\ at[w] = "args"
    /\ job' = [job EXCEPT ![cur[w]] = "pending"]
    /\ listed' = listed \cup {cur[w]}
    /\ Goto(w, "job")
    /\ UNCHANGED <<cur, result, termVars, lock, busy, reqVars, answer, disturbed, budget>>

\* "ray job submit" exits: with 0 only for a job that succeeded, with
\* another code also when the job was deleted before it read its status.
ReturnOf(w, code) ==
    /\ at[w] = "job" /\ ~Alive(cur[w])
    /\ result' = [result EXCEPT ![w] = code]
    /\ Goto(w, "returned")
    /\ UNCHANGED <<cur, termVars, lock, busy, files, stop, thread, outputs, jobVars, answer, disturbed, budget>>

JobSucceeds(w) ==
    /\ job[cur[w]] = "succeeded"
    /\ ReturnOf(w, "ok")
    /\ UNCHANGED ipc

JobFailsQuietly(w) ==  \* mutant: the exit code is not passed on
    /\ job[cur[w]] # "succeeded" \/ cur[w] \notin listed
    /\ ReturnOf(w, "error")
    /\ UNCHANGED ipc
JobFails(w) ==
    /\ job[cur[w]] # "succeeded" \/ cur[w] \notin listed
    /\ ReturnOf(w, "error")
    /\ ipc' = [ipc EXCEPT ![cur[w]] = FALSE]

JobReturns(w) == at[w] = "job" /\ (JobSucceeds(w) \/ JobFails(w))

SetStopNever(w) ==  \* mutant
    /\ at[w] = "returned"
    /\ Goto(w, "join")
    /\ UNCHANGED <<cur, result, termVars, lock, busy, reqVars, jobVars, answer, disturbed, budget>>
SetStop(w) ==
    /\ at[w] = "returned"
    /\ stop' = [stop EXCEPT ![cur[w]] = TRUE]
    /\ Goto(w, "join")
    /\ UNCHANGED <<cur, result, termVars, lock, busy, files, ipc, thread, outputs, jobVars, answer, disturbed, budget>>

JoinNever(w) ==  \* mutant
    /\ at[w] = "join"
    /\ Goto(w, "upload")
    /\ UNCHANGED <<cur, result, termVars, lock, busy, reqVars, jobVars, answer, disturbed, budget>>
Join(w) ==
    /\ at[w] = "join" /\ thread[cur[w]] = "ended"
    /\ Goto(w, "upload")
    /\ UNCHANGED <<cur, result, termVars, lock, busy, reqVars, jobVars, answer, disturbed, budget>>

\* gather_and_upload_outputs swallows its errors and deletes the local copy
\* either way; without a job there may be nothing to upload.
Upload(w) ==
    /\ at[w] = "upload"
    /\ \E o \in IF cur[w] \notin Presigned THEN {"none"}
              ELSE {"uploaded", "lost"} \cup ({"none"} \cap {job[cur[w]]}) :
          outputs' = [outputs EXCEPT ![cur[w]] = o]
    /\ Goto(w, "unlinkStatus")
    /\ UNCHANGED <<cur, result, termVars, lock, busy, files, ipc, stop, thread, jobVars, answer, disturbed, budget>>

-----------------------------------------------------------------------------
(* update_progress, from the moment it leaves its loop.                    *)

EndFile(r) == IF "failed" \in files[r] THEN files[r]
              ELSE files[r] \cup {IF ipc[r] THEN "done" ELSE "failed"}

ThreadEnds(r) ==
    /\ thread[r] = "run"
    /\ stop[r] \/ Status(r) # "running"
    /\ stop' = [stop EXCEPT ![r] = TRUE]
    /\ files' = [files EXCEPT ![r] = EndFile(r)]
    /\ thread' = [thread EXCEPT ![r] = "ended"]
    /\ UNCHANGED <<workerVars, termVars, lock, busy, ipc, outputs, jobVars, answer, disturbed, budget>>

-----------------------------------------------------------------------------
(* Ray (external): a job is queued, runs and ends; a stop request takes    *)
(* its time, and only a job that has ended can be deleted.                 *)

RayStep(r, from, to) ==
    /\ job[r] = from
    /\ job' = [job EXCEPT ![r] = to]
    /\ UNCHANGED <<workerVars, termVars, lock, busy, reqVars, listed, answer, disturbed, budget>>

RayStarts(r) == RayStep(r, "pending", "running")
RayEnds(r) == \/ RayStep(r, "pending", "failed")
              \/ RayStep(r, "running", "succeeded")
              \/ RayStep(r, "running", "failed")
              \/ RayStep(r, "stopping", "stopped")

-----------------------------------------------------------------------------
(* _terminate_last_job, which stops whatever runs.                         *)

Terminate(w, id) ==
    /\ at[w] = "idle" /\ budget.terms > 0
    /\ id = ForceId \/ Status(id) = "running"
    /\ budget' = [budget EXCEPT !.terms = @ - 1]
    /\ cur' = [cur EXCEPT ![w] = id]
    /\ hit' = [hit EXCEPT ![w] = FALSE]
    /\ Goto(w, "list")
    /\ UNCHANGED <<result, todo, victim, lock, busy, reqVars, jobVars, answer, disturbed>>

\* _list_all_jobs; Ray calls a job RUNNING until it has stopped.
ListJobs(w) ==
    /\ at[w] = "list"
    /\ todo' = [todo EXCEPT ![w] = {r \in listed : job[r] \in {"running", "stopping"}}]
    /\ Goto(w, "kill")
    /\ UNCHANGED <<cur, result, victim, hit, lock, busy, reqVars, jobVars, answer, disturbed, budget>>

\* _stop_ray_job posts the stop, again and again while Ray says RUNNING; a
\* job Ray no longer knows is passed over.
StopJob(w, r) ==
    /\ at[w] = "kill" /\ r \in todo[w]
    /\ todo' = [todo EXCEPT ![w] = @ \ {r}]
    /\ IF r \in listed
       THEN /\ job' = [job EXCEPT ![r] = IF @ = "running" THEN "stopping" ELSE @]
            /\ victim' = [victim EXCEPT ![w] = r]
            /\ Goto(w, "wait")
       ELSE UNCHANGED <<job, victim, at>>
    /\ UNCHANGED <<cur, result, hit, lock, busy, reqVars, listed, answer, disturbed, budget>>

\* _wait_for_stop returns once the job is not RUNNING any more (it may have
\* ended by itself), or gives up; then the job is deleted, if Ray does it.
Waited(w, stopped) ==
    /\ at[w] = "wait"
    /\ hit' = [hit EXCEPT ![w] = @ \/ stopped]
    /\ listed' = IF stopped THEN listed \ {victim[w]} ELSE listed
    /\ victim' = [victim EXCEPT ![w] = None]
    /\ Goto(w, "kill")
    /\ UNCHANGED <<cur, result, todo, lock, busy, reqVars, job, answer, disturbed, budget>>

DeleteJob(w) == victim[w] \in listed /\ ~Alive(victim[w]) /\ Waited(w, TRUE)
GiveUp(w) == Waited(w, FALSE)

\* A job was deleted: the request is marked, to tell its progress thread.
Mark(w) ==
    /\ at[w] = "kill" /\ todo[w] = {}
    /\ files' = IF hit[w] THEN [files EXCEPT ![cur[w]] = @ \cup {"failed"}] ELSE files
    /\ Goto(w, "idle")
    /\ cur' = [cur EXCEPT ![w] = None]
    /\ hit' = [hit EXCEPT ![w] = FALSE]
    /\ UNCHANGED <<result, todo, victim, lock, busy, ipc, stop, thread, outputs, jobVars, answer, disturbed, budget>>

\* A call to the dashboard raises: the request is answered, nothing is marked.
CallFails(w) ==
    /\ at[w] \in {"list", "kill", "wait"}
    /\ Goto(w, "idle")
    /\ cur' = [cur EXCEPT ![w] = None]
    /\ todo' = [todo EXCEPT ![w] = {}]
    /\ victim' = [victim EXCEPT ![w] = None]
    /\ hit' = [hit EXCEPT ![w] = FALSE]
    /\ UNCHANGED <<result, lock, busy, reqVars, jobVars, answer, disturbed, budget>>

-----------------------------------------------------------------------------
(* A worker is killed; uvicorn's supervisor starts another in its place.   *)
(* The Ray job lives on, and a child process may keep the lock.            *)

Crash(w) ==
    /\ at[w] # "down" /\ budget.crashes > 0
    /\ budget' = [budget EXCEPT !.crashes = @ - 1]
    /\ lock' \in IF lock = w THEN {Free, Orphan} ELSE {lock}
    /\ thread' = IF cur[w] \in Reqs /\ Running(w) /\ thread[cur[w]] = "run"
                 THEN [thread EXCEPT ![cur[w]] = "dead"] ELSE thread
    /\ answer' = IF Running(w) \/ Ending(w) \/ at[w] = "acquire"
                 THEN [answer EXCEPT ![cur[w]] = "lost"] ELSE answer
    /\ disturbed' = (disturbed \/ (at[w] = "job" /\ Alive(cur[w])))
    /\ Goto(w, "down")
    /\ cur' = [cur EXCEPT ![w] = None]
    /\ result' = [result EXCEPT ![w] = "none"]
    /\ todo' = [todo EXCEPT ![w] = {}]
    /\ hit' = [hit EXCEPT ![w] = FALSE]
    /\ victim' = [victim EXCEPT ![w] = None]
    /\ UNCHANGED <<busy, files, ipc, stop, outputs, jobVars>>

-----------------------------------------------------------------------------

Serve(w) ==
    \/ Acquire(w) \/ TimeOut(w) \/ WriteStatus(w) \/ Setup(w) \/ SetupFails(w)
    \/ NoJob(w) \/ Submit(w) \/ JobReturns(w) \/ SetStop(w) \/ Join(w) \/ Upload(w)

Clean(w) == Start(w) \/ UnlinkStatus(w) \/ UnlinkLock(w)

Killing(w) ==
    \/ ListJobs(w) \/ DeleteJob(w) \/ GiveUp(w) \/ Mark(w) \/ CallFails(w)
    \/ \E r \in Reqs : StopJob(w, r)

RayRuns(r) == RayStarts(r) \/ RayEnds(r)

Next ==
    \/ \E w \in Workers : Serve(w) \/ Clean(w) \/ Killing(w) \/ Crash(w)
    \/ \E w \in Workers, r \in Reqs : Reject(w, r) \/ Arrive(w, r)
    \/ \E w \in Workers, id \in Ids : Terminate(w, id)
    \/ \E r \in Reqs : ThreadEnds(r) \/ RayRuns(r)

Spec == Init /\ [][Next]_vars

\* Processes and threads run on, the supervisor restarts dead workers, and
\* Ray ends every job.  Nothing says that clients ask for anything.
Fairness ==
    /\ \A w \in Workers : WF_vars(Serve(w)) /\ WF_vars(Clean(w)) /\ WF_vars(Killing(w))
    /\ \A r \in Reqs : WF_vars(ThreadEnds(r)) /\ WF_vars(RayRuns(r))

LiveSpec == Spec /\ Fairness

=============================================================================
