---------------------------- MODULE MultiviewPrep ----------------------------
(***************************************************************************)
(* VllmPrepStage with --multi-view: one actor takes the clip-chunk tasks   *)
(* of single cameras as they come, keeps them in a buffer by scene and     *)
(* camera, and lets a scene go when its three front cameras are there,     *)
(* after building one model input from three views for each window of      *)
(* CAM_FRONT.                                                              *)
(*                                                                         *)
(* A moment stands for one window of one clip of a chunk; the same moment  *)
(* of the same chunk of two cameras of a scene shows the same stretch of   *)
(* time.  A task holds the moments of the clips that were transcoded and   *)
(* not filtered.                                                           *)
(***************************************************************************)
EXTENDS Integers, FiniteSets

CONSTANTS
  Task,      \* records [scene, cam, chunk]: a chunk of the video of a camera
  Moment,    \* the windows of a full chunk, numbered in order
  Contents   \* what tasks may hold: a set of functions from tasks to moments

\* _MULTIVIEW_CAMERAS; names that do not parse give the camera "unknown".
Front == "CAM_FRONT"
Sides == {"CAM_FRONT_LEFT", "CAM_FRONT_RIGHT"}
Required == Sides \cup {Front}

ASSUME MultiviewAssumption ==
  /\ \A t \in Task : DOMAIN t = {"scene", "cam", "chunk"}
  /\ Moment \subseteq Nat /\ IsFiniteSet(Moment)
  /\ Contents \subseteq [Task -> SUBSET Moment]

VARIABLES
  moments,   \* the windows each task has frames for
  coming,    \* tasks the stages in front have still to send
  buffer,    \* _scene_buffer: at most one task per scene and camera
  returned,  \* tasks handed to the caption stage
  input,     \* model_input of CAM_FRONT windows: the chunk and moment each camera shows
  raised     \* whether an exception has left process_data: the run ends

prepVars == <<moments, coming, buffer, returned, input, raised>>

PrepInit ==
  /\ moments \in Contents
  /\ coming = Task
  /\ buffer = {} /\ returned = {} /\ input = {} /\ raised = FALSE

\* Mutant: the buffer is local to the call.
StoredLocally(t) == {t}

\* The buffer with task t under its scene and camera: who was there is replaced.
Stored(t) == {u \in buffer : <<u.scene, u.cam>> # <<t.scene, t.cam>>} \cup {t}

Group(held, scene) == {u \in held : u.scene = scene}

\* Mutant: a view of the back is needed.
CompleteWithBack(group) == Required \cup {"CAM_BACK"} \subseteq {u.cam : u \in group}

IsComplete(group) == Required \subseteq {u.cam : u \in group}

Triplet(group) == {u \in group : u.cam \in Required}

Of(group, cam) == CHOOSE u \in group : u.cam = cam

\* The windows of the clips of a video, one after the other.
Count(t) == Cardinality(moments[t])

Nth(t, n) == CHOOSE m \in moments[t] : Cardinality({k \in moments[t] : k < m}) = n - 1

\* The n-th window of CAM_FRONT gets the n-th frames of every camera: fewer of
\* them in a camera is an index out of range.
Short(group) == \E side \in Sides : Count(Of(group, side)) < Count(Of(group, Front))

\* Mutant: the frames of the sides are taken from the end of their list.
ViewFromEnd(t, n) == [chunk |-> t.chunk, at |-> Nth(t, Count(t) + 1 - n)]

View(t, n) == [chunk |-> t.chunk, at |-> Nth(t, n)]

Inputs(group) ==
  LET front == Of(group, Front)
  IN {[task |-> front, at |-> Nth(front, n),
       views |-> [cam \in Sides |-> View(Of(group, cam), n)]] : n \in 1..Count(front)}

-----------------------------------------------------------------------------
\* process_data of a batch of one task (stage_batch_size).  The loop over the
\* buffer can only find the scene of the task complete (NothingReadyWaits).
Wait(t) == /\ ~IsComplete(Group(Stored(t), t.scene))
           /\ buffer' = Stored(t)
           /\ UNCHANGED <<returned, input, raised>>

\* The whole group leaves the buffer, the three required cameras the stage.
Release(t) ==
  LET group == Group(Stored(t), t.scene)
  IN /\ IsComplete(group) /\ ~Short(group)
     /\ buffer' = Stored(t) \ group
     /\ returned' = returned \cup Triplet(group)
     /\ input' = input \cup Inputs(group)
     /\ UNCHANGED raised

Break(t) ==
  LET group == Group(Stored(t), t.scene)
  IN /\ IsComplete(group) /\ Short(group)
     /\ buffer' = Stored(t)
     /\ raised' = TRUE
     /\ UNCHANGED <<returned, input>>

ProcessData(t) == /\ ~raised /\ t \in coming
                  /\ coming' = coming \ {t}
                  /\ UNCHANGED moments
                  /\ Wait(t) \/ Release(t) \/ Break(t)

PrepNext == \E t \in Task : ProcessData(t)

PrepSpec == PrepInit /\ [][PrepNext]_prepVars

\* Tasks keep coming as long as the run is up.
PrepLiveSpec == PrepSpec /\ WF_prepVars(PrepNext)
=============================================================================
