------------------------- MODULE NvcfService_proofs -------------------------
(***************************************************************************)
(* The safety of the HTTP service for any number of workers, requests,     *)
(* termination requests and crashes.  ServiceInv is shown inductive in     *)
(* three layers: types, the lock, and the files of each request.           *)
(***************************************************************************)
EXTENDS NvcfServiceProps, TLAPS

\* A flag that is cleared for one request is raised for none.
LEMMA Lowered ==
    ASSUME NEW f \in [Reqs -> BOOLEAN], NEW x
    PROVE  \A r \in Reqs : [f EXCEPT ![x] = FALSE][r] => f[r]
  BY Zenon

\* The types are kept by every step.
LEMMA TypeStep == TypeOK /\ [Next]_vars => TypeOK'
  <1> USE ServiceAssumption DEF Ids, TypeOK, Running, Places,
        Goto, workerVars, termVars, reqVars, jobVars
  <1> SUFFICES ASSUME TypeOK, [Next]_vars PROVE TypeOK'
    OBVIOUS
  <1>1. ASSUME NEW w \in Workers, Start(w) PROVE TypeOK'
    BY <1>1 DEF Start
  <1>2. ASSUME NEW w \in Workers, UnlinkStatus(w) PROVE TypeOK'
    BY ZenonT(60), <1>2 DEF UnlinkStatus
  <1>3. ASSUME NEW w \in Workers, UnlinkLock(w) PROVE TypeOK'
    BY <1>3 DEF UnlinkLock, Answered
  <1>4. ASSUME NEW w \in Workers, Acquire(w) PROVE TypeOK'
    BY <1>4 DEF Acquire
  <1>5. ASSUME NEW w \in Workers, TimeOut(w) PROVE TypeOK'
    BY <1>5 DEF TimeOut, Send
  <1>6. ASSUME NEW w \in Workers, WriteStatus(w) PROVE TypeOK'
    BY <1>6 DEF WriteStatus
  <1>7. ASSUME NEW w \in Workers, Setup(w) PROVE TypeOK'
    BY <1>7 DEF Setup
  <1>8. ASSUME NEW w \in Workers, NoJob(w) PROVE TypeOK'
    BY <1>8 DEF NoJob
  <1>9. ASSUME NEW w \in Workers, Submit(w) PROVE TypeOK'
    BY <1>9 DEF Submit
  <1>10. ASSUME NEW w \in Workers, JobReturns(w) PROVE TypeOK'
    <2> at[w] = "job" /\ cur[w] \in Reqs
      BY <1>10 DEF JobReturns
    <2>1. CASE JobSucceeds(w)
      BY <2>1 DEF JobSucceeds, ReturnOf
    <2>2. CASE JobFails(w)
      <3> ipc' \in [Reqs -> BOOLEAN]
        BY <2>2 DEF JobFails
      <3> QED
        BY <2>2 DEF JobFails, ReturnOf
    <2> QED
      BY <1>10, <2>1, <2>2 DEF JobReturns
  <1>11. ASSUME NEW w \in Workers, SetStop(w) PROVE TypeOK'
    BY <1>11 DEF SetStop
  <1>12. ASSUME NEW w \in Workers, Join(w) PROVE TypeOK'
    BY <1>12 DEF Join
  <1>13. ASSUME NEW w \in Workers, Upload(w) PROVE TypeOK'
    BY <1>13 DEF Upload
  <1>14. ASSUME NEW w \in Workers, ListJobs(w) PROVE TypeOK'
    BY <1>14 DEF ListJobs
  <1>15. ASSUME NEW w \in Workers, DeleteJob(w) PROVE TypeOK'
    BY <1>15 DEF DeleteJob, Waited
  <1>16. ASSUME NEW w \in Workers, GiveUp(w) PROVE TypeOK'
    BY <1>16 DEF GiveUp, Waited
  <1>17. ASSUME NEW w \in Workers, Mark(w) PROVE TypeOK'
    BY <1>17 DEF Mark
  <1>18. ASSUME NEW w \in Workers, CallFails(w) PROVE TypeOK'
    BY <1>18 DEF CallFails
  <1>19. ASSUME NEW w \in Workers, Crash(w) PROVE TypeOK'
    <2>1. /\ thread' \in [Reqs -> {"off", "run", "ended", "dead"}]
          /\ answer' \in [Reqs -> {"none", "pending", "busy", "ok", "error", "lost"}]
      BY <1>19 DEF Crash
    <2>2. lock' \in Workers \cup {Free, Orphan} /\ disturbed' \in BOOLEAN
      BY <1>19 DEF Crash
    <2>3. budget' \in [terms : Nat, crashes : Nat]
      BY <1>19 DEF Crash
    <2>4. /\ at' = [at EXCEPT ![w] = "down"] /\ cur' = [cur EXCEPT ![w] = None]
          /\ result' = [result EXCEPT ![w] = "none"] /\ todo' = [todo EXCEPT ![w] = {}]
          /\ hit' = [hit EXCEPT ![w] = FALSE] /\ victim' = [victim EXCEPT ![w] = None]
          /\ UNCHANGED <<busy, files, ipc, stop, outputs, job, listed>>
      BY <1>19 DEF Crash
    <2> QED
      BY <2>1, <2>2, <2>3, <2>4
  <1>20. ASSUME NEW w \in Workers, NEW r \in Reqs, Reject(w, r) PROVE TypeOK'
    BY <1>20 DEF Reject, Send
  <1>21. ASSUME NEW w \in Workers, NEW r \in Reqs, Arrive(w, r) PROVE TypeOK'
    BY <1>21 DEF Arrive, Send
  <1>22. ASSUME NEW w \in Workers, NEW r \in Reqs, StopJob(w, r) PROVE TypeOK'
    BY SMTT(40), <1>22 DEF StopJob
  <1>23. ASSUME NEW w \in Workers, NEW id \in Ids, Terminate(w, id) PROVE TypeOK'
    BY <1>23 DEF Terminate
  <1>24. ASSUME NEW r \in Reqs, ThreadEnds(r) PROVE TypeOK'
    BY <1>24 DEF ThreadEnds, EndFile
  <1>25. ASSUME NEW r \in Reqs, RayRuns(r) PROVE TypeOK'
    BY <1>25 DEF RayRuns, RayStarts, RayEnds, RayStep
  <1>27. ASSUME NEW w \in Workers, SetupFails(w) PROVE TypeOK'
    BY <1>27 DEF SetupFails
  <1>26. ASSUME UNCHANGED vars PROVE TypeOK'
    BY <1>26 DEF vars
  <1> QED
    BY <1>1, <1>2, <1>3, <1>4, <1>5, <1>6, <1>7, <1>8, <1>9, <1>10, <1>11, <1>12, <1>13, <1>14, <1>15, <1>16, <1>17, <1>18, <1>19, <1>20, <1>21, <1>22, <1>23, <1>24, <1>25, <1>26, <1>27 DEF Next, Serve, Clean, Killing

\* While nothing is disturbed, the holder of the lock is the worker with the
\* request, and every live job has its worker waiting for it.
LEMMA LockStep == TypeOK /\ LockInv /\ [Next]_vars => LockInv'
  <1> USE ServiceAssumption DEF Ids, TypeOK, LockInv, Running, Ending, Alive, InProgress,
        Goto, workerVars, termVars, reqVars, jobVars
  <1> SUFFICES ASSUME TypeOK /\ LockInv, [Next]_vars PROVE LockInv'
    OBVIOUS
  <1>1. ASSUME NEW w \in Workers, Start(w) PROVE LockInv'
    BY <1>1 DEF Start
  <1>2. ASSUME NEW w \in Workers, UnlinkStatus(w) PROVE LockInv'
    BY <1>2 DEF UnlinkStatus
  <1>3. ASSUME NEW w \in Workers, UnlinkLock(w) PROVE LockInv'
    BY ZenonT(60), <1>3 DEF UnlinkLock, Answered
  <1>4. ASSUME NEW w \in Workers, Acquire(w) PROVE LockInv'
    BY <1>4 DEF Acquire
  <1>5. ASSUME NEW w \in Workers, TimeOut(w) PROVE LockInv'
    BY <1>5 DEF TimeOut, Send
  <1>6. ASSUME NEW w \in Workers, WriteStatus(w) PROVE LockInv'
    BY <1>6 DEF WriteStatus
  <1>7. ASSUME NEW w \in Workers, Setup(w) PROVE LockInv'
    BY <1>7 DEF Setup
  <1>8. ASSUME NEW w \in Workers, NoJob(w) PROVE LockInv'
    BY <1>8 DEF NoJob
  <1>9. ASSUME NEW w \in Workers, Submit(w) PROVE LockInv'
    BY <1>9 DEF Submit
  <1>10. ASSUME NEW w \in Workers, JobReturns(w) PROVE LockInv'
    BY <1>10 DEF JobReturns, JobSucceeds, JobFails, ReturnOf
  <1>11. ASSUME NEW w \in Workers, SetStop(w) PROVE LockInv'
    BY <1>11 DEF SetStop
  <1>12. ASSUME NEW w \in Workers, Join(w) PROVE LockInv'
    BY <1>12 DEF Join
  <1>13. ASSUME NEW w \in Workers, Upload(w) PROVE LockInv'
    BY <1>13 DEF Upload
  <1>14. ASSUME NEW w \in Workers, ListJobs(w) PROVE LockInv'
    BY <1>14 DEF ListJobs
  <1>15. ASSUME NEW w \in Workers, DeleteJob(w) PROVE LockInv'
    BY <1>15 DEF DeleteJob, Waited
  <1>16. ASSUME NEW w \in Workers, GiveUp(w) PROVE LockInv'
    BY <1>16 DEF GiveUp, Waited
  <1>17. ASSUME NEW w \in Workers, Mark(w) PROVE LockInv'
    BY <1>17 DEF Mark
  <1>18. ASSUME NEW w \in Workers, CallFails(w) PROVE LockInv'
    BY <1>18 DEF CallFails
  <1>19. ASSUME NEW w \in Workers, Crash(w) PROVE LockInv'
    BY <1>19 DEF Crash
  <1>20. ASSUME NEW w \in Workers, NEW r \in Reqs, Reject(w, r) PROVE LockInv'
    BY <1>20 DEF Reject, Send
  <1>21. ASSUME NEW w \in Workers, NEW r \in Reqs, Arrive(w, r) PROVE LockInv'
    BY <1>21 DEF Arrive, Send
  <1>22. ASSUME NEW w \in Workers, NEW r \in Reqs, StopJob(w, r) PROVE LockInv'
    BY <1>22 DEF StopJob
  <1>23. ASSUME NEW w \in Workers, NEW id \in Ids, Terminate(w, id) PROVE LockInv'
    BY <1>23 DEF Terminate
  <1>24. ASSUME NEW r \in Reqs, ThreadEnds(r) PROVE LockInv'
    BY <1>24 DEF ThreadEnds, EndFile
  <1>25. ASSUME NEW r \in Reqs, RayRuns(r) PROVE LockInv'
    BY <1>25 DEF RayRuns, RayStarts, RayEnds, RayStep
  <1>27. ASSUME NEW w \in Workers, SetupFails(w) PROVE LockInv'
    BY <1>27 DEF SetupFails
  <1>26. ASSUME UNCHANGED vars PROVE LockInv'
    BY SMTT(40), <1>26 DEF vars
  <1> QED
    BY <1>1, <1>2, <1>3, <1>4, <1>5, <1>6, <1>7, <1>8, <1>9, <1>10, <1>11, <1>12, <1>13, <1>14, <1>15, <1>16, <1>17, <1>18, <1>19, <1>20, <1>21, <1>22, <1>23, <1>24, <1>25, <1>26, <1>27 DEF Next, Serve, Clean, Killing

\* A request stays in one place, which tells how far it is.
LEMMA OwnerStep == TypeOK /\ OwnerInv /\ FilesInv /\ [Next]_vars => OwnerInv'
  <1> USE ServiceAssumption DEF Ids, TypeOK, OwnerInv, FilesInv, Owns, Running, Ending, Alive, Failing,
        Goto, workerVars, termVars, reqVars, jobVars
  <1> SUFFICES ASSUME TypeOK /\ OwnerInv /\ FilesInv, [Next]_vars PROVE OwnerInv'
    OBVIOUS
  <1>1. ASSUME NEW w \in Workers, Start(w) PROVE OwnerInv'
    BY <1>1 DEF Start
  <1>2. ASSUME NEW w \in Workers, UnlinkStatus(w) PROVE OwnerInv'
    BY <1>2 DEF UnlinkStatus
  <1>3. ASSUME NEW w \in Workers, UnlinkLock(w) PROVE OwnerInv'
    BY <1>3 DEF UnlinkLock, Answered
  <1>4. ASSUME NEW w \in Workers, Acquire(w) PROVE OwnerInv'
    BY <1>4 DEF Acquire
  <1>5. ASSUME NEW w \in Workers, TimeOut(w) PROVE OwnerInv'
    BY <1>5 DEF TimeOut, Send
  <1>6. ASSUME NEW w \in Workers, WriteStatus(w) PROVE OwnerInv'
    BY <1>6 DEF WriteStatus
  <1>7. ASSUME NEW w \in Workers, Setup(w) PROVE OwnerInv'
    BY <1>7 DEF Setup
  <1>8. ASSUME NEW w \in Workers, NoJob(w) PROVE OwnerInv'
    BY <1>8 DEF NoJob
  <1>9. ASSUME NEW w \in Workers, Submit(w) PROVE OwnerInv'
    BY <1>9 DEF Submit
  <1>10. ASSUME NEW w \in Workers, JobReturns(w) PROVE OwnerInv'
    BY <1>10 DEF JobReturns, JobSucceeds, JobFails, ReturnOf
  <1>11. ASSUME NEW w \in Workers, SetStop(w) PROVE OwnerInv'
    BY <1>11 DEF SetStop
  <1>12. ASSUME NEW w \in Workers, Join(w) PROVE OwnerInv'
    BY <1>12 DEF Join
  <1>13. ASSUME NEW w \in Workers, Upload(w) PROVE OwnerInv'
    BY <1>13 DEF Upload
  <1>14. ASSUME NEW w \in Workers, ListJobs(w) PROVE OwnerInv'
    BY <1>14 DEF ListJobs
  <1>15. ASSUME NEW w \in Workers, DeleteJob(w) PROVE OwnerInv'
    BY <1>15 DEF DeleteJob, Waited
  <1>16. ASSUME NEW w \in Workers, GiveUp(w) PROVE OwnerInv'
    BY <1>16 DEF GiveUp, Waited
  <1>17. ASSUME NEW w \in Workers, Mark(w) PROVE OwnerInv'
    BY <1>17 DEF Mark
  <1>18. ASSUME NEW w \in Workers, CallFails(w) PROVE OwnerInv'
    BY <1>18 DEF CallFails
  <1>19. ASSUME NEW w \in Workers, Crash(w) PROVE OwnerInv'
    BY <1>19 DEF Crash
  <1>20. ASSUME NEW w \in Workers, NEW r \in Reqs, Reject(w, r) PROVE OwnerInv'
    BY <1>20 DEF Reject, Send
  <1>21. ASSUME NEW w \in Workers, NEW r \in Reqs, Arrive(w, r) PROVE OwnerInv'
    BY <1>21 DEF Arrive, Send
  <1>22. ASSUME NEW w \in Workers, NEW r \in Reqs, StopJob(w, r) PROVE OwnerInv'
    BY SMTT(40), <1>22 DEF StopJob
  <1>23. ASSUME NEW w \in Workers, NEW id \in Ids, Terminate(w, id) PROVE OwnerInv'
    BY <1>23 DEF Status, Terminate
  <1>24. ASSUME NEW r \in Reqs, ThreadEnds(r) PROVE OwnerInv'
    <2>1. /\ UNCHANGED <<at, cur, result, job, ipc, answer>>
          /\ stop' = [stop EXCEPT ![r] = TRUE] /\ thread' = [thread EXCEPT ![r] = "ended"]
          /\ thread[r] = "run"
      BY <1>24 DEF ThreadEnds
    <2>2. \A q \in Ids : files[q] \subseteq files'[q]
      BY <1>24 DEF ThreadEnds, EndFile
    <2>3. ASSUME NEW w \in Workers, at[w] \in {"args", "job", "returned"}, cur[w] = r
          PROVE  "failed" \in files[r]
      <3>1. "progress" \in files[r] /\ "done" \notin files[r]
        BY <2>1
      <3>2. CASE stop[r]
        BY <2>3, <3>2
      <3>3. CASE Status(r) # "running"
        BY <3>1, <3>3 DEF Status
      <3> QED
        BY <1>24, <3>2, <3>3 DEF ThreadEnds
    <2>4. ~ipc[r] => "failed" \in files'[r]
      BY <1>24 DEF ThreadEnds, EndFile
    <2>5. \A q \in Reqs : q # r => stop'[q] = stop[q] /\ thread'[q] = thread[q]
      BY <2>1
    <2>6. stop'[r] /\ thread'[r] = "ended"
      BY <2>1
    <2>7. \A w \in Workers : (Owns(w)' <=> Owns(w)) /\ (Ending(w)' <=> Ending(w))
      BY <2>1
    <2>8. /\ \A w \in Workers : Owns(w)' => answer'[cur'[w]] = "pending"
          /\ \A v, w \in Workers : (Owns(v)' /\ Owns(w)' /\ cur'[v] = cur'[w]) => v = w
      BY <2>1, <2>7
    <2>9. ASSUME NEW w \in Workers
          PROVE  /\ at'[w] \in {"acquire", "locked", "handler"} =>
                       thread'[cur'[w]] = "off" /\ job'[cur'[w]] = "none" /\ files'[cur'[w]] = {}
                 /\ at'[w] \in {"args", "job", "returned"} =>
                       (stop'[cur'[w]] \/ thread'[cur'[w]] = "ended" => "failed" \in files'[cur'[w]])
                 /\ at'[w] \in {"args", "job", "returned", "join"} => thread'[cur'[w]] # "off"
      <3>1. CASE cur[w] = r
        BY <2>1, <2>2, <2>3, <2>6, <3>1
      <3>2. CASE cur[w] # r
        <4>1. ASSUME at[w] \in {"acquire", "locked", "handler", "args", "job", "returned", "join"}
              PROVE  cur[w] \in Reqs /\ files'[cur[w]] = files[cur[w]]
          BY <1>24, <3>2, <4>1 DEF ThreadEnds
        <4> QED
          BY <2>1, <2>5, <3>2, <4>1
      <3> QED
        BY <3>1, <3>2
    <2>10. ASSUME NEW w \in Workers
           PROVE  /\ at'[w] = "args" => job'[cur'[w]] = "none"
                  /\ at'[w] = "returned" =>
                        ~(job'[cur'[w]] \in {"pending", "running", "stopping"})
                        /\ (job'[cur'[w]] \in Failing => ~ipc'[cur'[w]])
                  /\ at'[w] \in {"returned", "join", "upload"} \/ Ending(w)' => result'[w] \in {"ok", "error"}
                  /\ at'[w] \in {"list", "kill", "wait"} /\ cur'[w] \in Reqs => "progress" \in files'[cur'[w]]
      BY <2>1, <2>2, <2>7
    <2>11. ASSUME NEW w \in Workers, at'[w] \in {"returned", "join"}, result'[w] = "error", job'[cur'[w]] # "none"
           PROVE  ~ipc'[cur'[w]] /\ (thread'[cur'[w]] = "ended" => "failed" \in files'[cur'[w]])
      <3>1. ~ipc[cur[w]] /\ cur[w] \in Reqs
        BY <2>1, <2>11
      <3>2. CASE cur[w] = r
        BY <2>1, <2>4, <3>1, <3>2
      <3>3. CASE cur[w] # r
        BY <2>1, <2>2, <2>5, <2>11, <3>1, <3>3
      <3> QED
        BY <3>2, <3>3
    <2>12. ASSUME NEW w \in Workers, at'[w] \in {"upload", "unlinkStatus", "unlinkLock"}, cur'[w] # None
           PROVE  /\ result'[w] = "error" /\ job'[cur'[w]] # "none" => "failed" \in files'[cur'[w]]
                  /\ \/ thread'[cur'[w]] = "ended"
                     \/ Ending(w)' /\ result'[w] = "error" /\ thread'[cur'[w]] = "off" /\ job'[cur'[w]] = "none"
      <3>1. cur[w] \in Reqs /\ cur[w] # r
        BY <2>1, <2>12
      <3> QED
        BY <2>1, <2>2, <2>5, <2>7, <2>12, <3>1
    <2> QED
      BY <2>8, <2>9, <2>10, <2>11, <2>12
  <1>25. ASSUME NEW r \in Reqs, RayRuns(r) PROVE OwnerInv'
    BY <1>25 DEF RayRuns, RayStarts, RayEnds, RayStep
  <1>27. ASSUME NEW w \in Workers, SetupFails(w) PROVE OwnerInv'
    BY <1>27 DEF SetupFails
  <1>26. ASSUME UNCHANGED vars PROVE OwnerInv'
    BY <1>26 DEF vars
  <1> QED
    BY ZenonT(60), <1>1, <1>2, <1>3, <1>4, <1>5, <1>6, <1>7, <1>8, <1>9, <1>10, <1>11, <1>12, <1>13, <1>14, <1>15, <1>16, <1>17, <1>18, <1>19, <1>20, <1>21, <1>22, <1>23, <1>24, <1>25, <1>26, <1>27 DEF Next, Serve, Clean, Killing

\* The files of a request follow its thread, its job and its ipc_status.
LEMMA FilesStep == TypeOK /\ OwnerInv /\ FilesInv /\ [Next]_vars => FilesInv'
  <1> USE ServiceAssumption DEF Ids, TypeOK, OwnerInv, FilesInv, Owns, Running, Ending, Alive, Failing, Status,
        Goto, workerVars, termVars, reqVars, jobVars
  <1> SUFFICES ASSUME TypeOK /\ OwnerInv /\ FilesInv, [Next]_vars PROVE FilesInv'
    OBVIOUS
  <1>1. ASSUME NEW w \in Workers, Start(w) PROVE FilesInv'
    BY <1>1 DEF Start
  <1>2. ASSUME NEW w \in Workers, UnlinkStatus(w) PROVE FilesInv'
    BY <1>2 DEF UnlinkStatus
  <1>3. ASSUME NEW w \in Workers, UnlinkLock(w) PROVE FilesInv'
    BY <1>3 DEF UnlinkLock, Answered
  <1>4. ASSUME NEW w \in Workers, Acquire(w) PROVE FilesInv'
    BY <1>4 DEF Acquire
  <1>5. ASSUME NEW w \in Workers, TimeOut(w) PROVE FilesInv'
    BY <1>5 DEF TimeOut, Send
  <1>6. ASSUME NEW w \in Workers, WriteStatus(w) PROVE FilesInv'
    BY <1>6 DEF WriteStatus
  <1>7. ASSUME NEW w \in Workers, Setup(w) PROVE FilesInv'
    BY <1>7 DEF Setup
  <1>8. ASSUME NEW w \in Workers, NoJob(w) PROVE FilesInv'
    BY <1>8 DEF NoJob
  <1>9. ASSUME NEW w \in Workers, Submit(w) PROVE FilesInv'
    BY <1>9 DEF Submit
  <1>10. ASSUME NEW w \in Workers, JobReturns(w) PROVE FilesInv'
    <2>1. UNCHANGED <<files, thread, stop, job, answer>>
      BY <1>10 DEF JobReturns, JobSucceeds, JobFails, ReturnOf
    <2>2. ipc' = ipc \/ ipc' = [ipc EXCEPT ![cur[w]] = FALSE]
      BY <1>10 DEF JobReturns, JobSucceeds, JobFails
    <2>3. \A r \in Reqs : ipc'[r] => ipc[r]
      BY <2>2, Lowered
    <2> QED
      BY <2>1, <2>3
  <1>11. ASSUME NEW w \in Workers, SetStop(w) PROVE FilesInv'
    <2>1. UNCHANGED <<files, ipc, thread, job, answer>> /\ stop' = [stop EXCEPT ![cur[w]] = TRUE]
      BY <1>11 DEF SetStop
    <2>2. thread[cur[w]] # "off" /\ ~Alive(cur[w]) /\ (job[cur[w]] \in Failing => ~ipc[cur[w]])
      BY <1>11 DEF SetStop
    <2> QED
      BY <2>1, <2>2
  <1>12. ASSUME NEW w \in Workers, Join(w) PROVE FilesInv'
    BY <1>12 DEF Join
  <1>13. ASSUME NEW w \in Workers, Upload(w) PROVE FilesInv'
    BY <1>13 DEF Upload
  <1>14. ASSUME NEW w \in Workers, ListJobs(w) PROVE FilesInv'
    BY <1>14 DEF ListJobs
  <1>15. ASSUME NEW w \in Workers, DeleteJob(w) PROVE FilesInv'
    BY <1>15 DEF DeleteJob, Waited
  <1>16. ASSUME NEW w \in Workers, GiveUp(w) PROVE FilesInv'
    BY <1>16 DEF GiveUp, Waited
  <1>17. ASSUME NEW w \in Workers, Mark(w) PROVE FilesInv'
    BY <1>17 DEF Mark
  <1>18. ASSUME NEW w \in Workers, CallFails(w) PROVE FilesInv'
    BY <1>18 DEF CallFails
  <1>19. ASSUME NEW w \in Workers, Crash(w) PROVE FilesInv'
    BY <1>19 DEF Crash
  <1>20. ASSUME NEW w \in Workers, NEW r \in Reqs, Reject(w, r) PROVE FilesInv'
    BY <1>20 DEF Reject, Send
  <1>21. ASSUME NEW w \in Workers, NEW r \in Reqs, Arrive(w, r) PROVE FilesInv'
    BY <1>21 DEF Arrive, Send
  <1>22. ASSUME NEW w \in Workers, NEW r \in Reqs, StopJob(w, r) PROVE FilesInv'
    BY <1>22 DEF StopJob
  <1>23. ASSUME NEW w \in Workers, NEW id \in Ids, Terminate(w, id) PROVE FilesInv'
    BY <1>23 DEF Terminate
  <1>24. ASSUME NEW r \in Reqs, ThreadEnds(r) PROVE FilesInv'
    BY <1>24 DEF ThreadEnds, EndFile
  <1>25. ASSUME NEW r \in Reqs, RayRuns(r) PROVE FilesInv'
    BY <1>25 DEF RayRuns, RayStarts, RayEnds, RayStep
  <1>27. ASSUME NEW w \in Workers, SetupFails(w) PROVE FilesInv'
    BY <1>27 DEF SetupFails
  <1>26. ASSUME UNCHANGED vars PROVE FilesInv'
    BY <1>26 DEF vars
  <1> QED
    BY <1>1, <1>2, <1>3, <1>4, <1>5, <1>6, <1>7, <1>8, <1>9, <1>10, <1>11, <1>12, <1>13, <1>14, <1>15, <1>16, <1>17, <1>18, <1>19, <1>20, <1>21, <1>22, <1>23, <1>24, <1>25, <1>26, <1>27 DEF Next, Serve, Clean, Killing

\* The service starts in the invariant.
LEMMA InitServiceInv == Init => ServiceInv
  <1> USE ServiceAssumption DEF Ids
  <1> SUFFICES ASSUME Init PROVE ServiceInv
    OBVIOUS
  <1>1. TypeOK
    BY DEF Init, TypeOK, Running, Places
  <1>2. LockInv
    BY DEF Init, LockInv, Running, Ending, Alive
  <1>3. OwnerInv
    BY DEF Init, OwnerInv, Owns, Running, Ending
  <1>4. FilesInv
    BY DEF Init, FilesInv, Alive, Failing
  <1> QED
    BY <1>1, <1>2, <1>3, <1>4 DEF ServiceInv

\* The inductive invariant holds for every number of workers, requests,
\* termination requests and crashes.
THEOREM ServiceInvHolds == Spec => []ServiceInv
  <1>1. ServiceInv /\ [Next]_vars => ServiceInv'
    BY TypeStep, LockStep, OwnerStep, FilesStep DEF ServiceInv
  <1> QED
    BY InitServiceInv, <1>1, PTL DEF Spec

\* The variables of the service keep their types.
THEOREM TypeCorrect == Spec => []TypeOK
  <1>1. ServiceInv => TypeOK
    BY DEF ServiceInv
  <1> QED
    BY ServiceInvHolds, <1>1, PTL

\* PipelineLockMiddleware lets one request at a time into the pipeline, and
\* one job into Ray, unless a worker starts or dies in the middle.
THEOREM OneAtATimeHolds == Spec => []OneAtATime
  <1>1. ServiceInv => OneAtATime
    BY DEF ServiceInv, LockInv, OneAtATime, Running
  <1> QED
    BY ServiceInvHolds, <1>1, PTL

\* The status file stands from the handler to the cleanup.
THEOREM BusyWhileRunningHolds == Spec => []BusyWhileRunning
  <1>1. ServiceInv => BusyWhileRunning
    BY DEF ServiceInv, LockInv, BusyWhileRunning
  <1> QED
    BY ServiceInvHolds, <1>1, PTL

\* update_progress never leaves "done" as the status of a request whose job
\* failed or was stopped.
THEOREM FailureIsNotDoneHolds == Spec => []FailureIsNotDone
  <1>1. ServiceInv => FailureIsNotDone
    BY DEF ServiceInv, FilesInv, FailureIsNotDone, Status
  <1> QED
    BY ServiceInvHolds, <1>1, PTL

\* curate_video answers after its progress thread has written the verdict.
THEOREM AnsweredIsRecordedHolds == Spec => []AnsweredIsRecorded
  <1>1. ServiceInv => AnsweredIsRecorded
    BY DEF ServiceInv, FilesInv, AnsweredIsRecorded, BrokenSetup, Status
  <1> QED
    BY ServiceInvHolds, <1>1, PTL

=============================================================================
