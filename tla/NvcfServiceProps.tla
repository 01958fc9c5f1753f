--------------------------- MODULE NvcfServiceProps ---------------------------
(***************************************************************************)
(* What the HTTP service promises the client that polls it.                *)
(***************************************************************************)
EXTENDS NvcfService

\* A worker that holds a request, from its arrival to its answer.
Owns(w) == at[w] = "acquire" \/ Running(w) \/ Ending(w)

\* The variables keep their types, and a worker is on a request exactly
\* where its place in dispatch says so.
Places == {"down", "idle", "acquire", "locked", "handler", "args", "job", "returned", "join",
           "upload", "unlinkStatus", "unlinkLock", "list", "kill", "wait"}

TypeOK ==
    /\ at \in [Workers -> Places]
    /\ cur \in [Workers -> Ids \cup {None}]
    /\ result \in [Workers -> {"none", "ok", "error"}]
    /\ todo \in [Workers -> SUBSET Reqs]
    /\ victim \in [Workers -> Reqs \cup {None}]
    /\ hit \in [Workers -> BOOLEAN]
    /\ lock \in Workers \cup {Free, Orphan}
    /\ busy \in BOOLEAN
    /\ files \in [Ids -> SUBSET {"progress", "done", "failed"}]
    /\ ipc \in [Reqs -> BOOLEAN] /\ stop \in [Reqs -> BOOLEAN]
    /\ thread \in [Reqs -> {"off", "run", "ended", "dead"}]
    /\ job \in [Reqs -> {"none", "pending", "running", "stopping", "succeeded", "failed", "stopped"}]
    /\ listed \in SUBSET Reqs
    /\ answer \in [Reqs -> {"none", "pending", "busy", "ok", "error", "lost"}]
    /\ outputs \in [Reqs -> {"none", "uploaded", "lost"}]
    /\ disturbed \in BOOLEAN
    /\ budget \in [terms : Nat, crashes : Nat]
    /\ \A w \in Workers : Running(w) \/ at[w] = "acquire" => cur[w] \in Reqs
    /\ \A w \in Workers : at[w] \in {"unlinkStatus", "unlinkLock"} => cur[w] \in Reqs \cup {None}
    /\ \A w \in Workers : at[w] \in {"list", "kill", "wait"} => cur[w] \in Ids
    /\ \A w \in Workers : at[w] = "wait" => victim[w] \in Reqs
    /\ \A w \in Workers : at[w] \in {"down", "idle"} => cur[w] = None

\* Status file, lock and the order they are removed in let one request at a
\* time into the pipeline, and one job into Ray: unless a worker started
\* while a request was in progress, or died with its job still running.
OneAtATime ==
    ~disturbed =>
        /\ \A v, w \in Workers : (Running(v) /\ Running(w)) => v = w
        /\ \A r, s \in Reqs : (Alive(r) /\ Alive(s)) => r = s

\* While a request runs, the next one is turned away at once, by the status
\* file and not by the second it would wait for the lock.
BusyWhileRunning ==
    ~disturbed => \A w \in Workers : (Running(w) /\ at[w] # "locked") => busy

\* A job that failed or was stopped never leaves its request "done", however
\* the termination, the exit of the job and the progress thread interleave.
FailureIsNotDone ==
    \A r \in Reqs : job[r] \in Failing => Status(r) # "done"

\* curate_video raised before the request had a progress thread.
BrokenSetup(r) == answer[r] = "error" /\ thread[r] = "off"

\* The client that has its answer finds a final status in the request's files, and
\* "failed" if the answer is an error and a job had been submitted.  An error without
\* a job reads "done" (arguments that raise) or, when the setup broke, not even that:
\* "running" or nothing, until a termination marks it.  One turned away left no files.
AnsweredIsRecorded ==
    \A r \in Reqs :
        /\ answer[r] \in {"ok", "error"} /\ ~BrokenSetup(r) => Status(r) \in {"done", "failed"}
        /\ answer[r] = "error" /\ job[r] # "none" => Status(r) = "failed"
        /\ BrokenSetup(r) => Status(r) # "done"
        /\ answer[r] = "busy" => Status(r) = "not-found"

\* Every request that was let in gets a final status, unless its worker died, it was
\* turned away after all, or its setup broke: then nobody ever writes one.
StatusSettles ==
    \A r \in Reqs : answer[r] = "pending" ~>
        (Status(r) \in {"done", "failed"} \/ answer[r] \in {"busy", "lost"} \/ BrokenSetup(r))

\* The service does not stay busy for ever, whoever dies holding the files.
BusyEnds == busy ~> ~busy

-----------------------------------------------------------------------------
(* Why the safety properties hold.                                         *)

\* The lock is held wherever a request runs, and a job runs only where a
\* worker waits for it.
LockInv ==
    ~disturbed =>
        /\ \A w \in Workers : Running(w) \/ Ending(w) => lock = w
        /\ \A r \in Reqs : Alive(r) => \E w \in Workers : at[w] = "job" /\ cur[w] = r
        /\ \A w \in Workers : (Running(w) /\ at[w] # "locked") => busy

\* A request is in one place only, and how far its files, thread and job are
\* follows from that place.
OwnerInv ==
    /\ \A w \in Workers : Owns(w) => answer[cur[w]] = "pending"
    /\ \A v, w \in Workers : (Owns(v) /\ Owns(w) /\ cur[v] = cur[w]) => v = w
    /\ \A w \in Workers :
          /\ at[w] \in {"acquire", "locked", "handler"} =>
                thread[cur[w]] = "off" /\ job[cur[w]] = "none" /\ files[cur[w]] = {}
          /\ at[w] = "args" => job[cur[w]] = "none"
          /\ at[w] \in {"args", "job", "returned"} =>
                (stop[cur[w]] \/ thread[cur[w]] = "ended" => "failed" \in files[cur[w]])
          /\ at[w] \in {"args", "job", "returned", "join"} => thread[cur[w]] # "off"
          /\ at[w] = "returned" =>
                ~Alive(cur[w]) /\ (job[cur[w]] \in Failing => ~ipc[cur[w]])
          /\ at[w] \in {"returned", "join"} /\ result[w] = "error" /\ job[cur[w]] # "none" =>
                ~ipc[cur[w]] /\ (thread[cur[w]] = "ended" => "failed" \in files[cur[w]])
          /\ at[w] \in {"upload", "unlinkStatus", "unlinkLock"} /\ cur[w] # None =>
                /\ result[w] = "error" /\ job[cur[w]] # "none" => "failed" \in files[cur[w]]
                /\ \/ thread[cur[w]] = "ended"
                   \/ Ending(w) /\ result[w] = "error" /\ thread[cur[w]] = "off" /\ job[cur[w]] = "none"
          /\ at[w] \in {"returned", "join", "upload"} \/ Ending(w) => result[w] \in {"ok", "error"}
          /\ at[w] \in {"list", "kill", "wait"} /\ cur[w] \in Reqs => "progress" \in files[cur[w]]

\* A thread that runs sees "running" until somebody marks the request, and
\* what it then writes depends on ipc_status, which is settled before stop.
FilesInv ==
    \A r \in Reqs :
        /\ thread[r] # "off" => files[r] # {}
        /\ files[r] # {} => "progress" \in files[r]
        /\ "done" \in files[r] => thread[r] = "ended"
        /\ thread[r] = "ended" => "done" \in files[r] \/ "failed" \in files[r]
        /\ thread[r] = "off" => ~stop[r]
        /\ Alive(r) => (stop[r] \/ thread[r] = "ended" => "failed" \in files[r])
        /\ job[r] \in Failing /\ stop[r] => ~ipc[r] \/ "failed" \in files[r]
        /\ job[r] \in Failing /\ thread[r] = "ended" => "failed" \in files[r]
        /\ thread[r] = "off" => job[r] = "none"
        /\ answer[r] \in {"none", "busy"} => thread[r] = "off" /\ files[r] = {}
        /\ answer[r] = "ok" => thread[r] = "ended"
        /\ answer[r] = "error" => thread[r] \in {"off", "ended"}
        /\ answer[r] = "error" /\ job[r] # "none" => "failed" \in files[r]

ServiceInv == TypeOK /\ LockInv /\ OwnerInv /\ FilesInv
=============================================================================
