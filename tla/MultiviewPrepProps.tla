-------------------------- MODULE MultiviewPrepProps --------------------------
(***************************************************************************)
(* What multi-view preparation promises about scenes, and on what          *)
(* condition.                                                              *)
(***************************************************************************)
EXTENDS MultiviewPrep

Scenes == {t.scene : t \in Task}
Arrived == Task \ coming

\* The scene has one chunk per video and nothing but the front cameras.
Plain(scene) ==
  /\ \A t, u \in Task : t.scene = scene /\ u.scene = scene /\ t.cam = u.cam => t = u
  /\ \A t \in Task : t.scene = scene => t.cam \in Required

\* The videos of the front cameras were not cut into several chunks.
OneChunk(scene) ==
  \A t, u \in Task : t.scene = scene /\ u.scene = scene /\ {t.cam, u.cam} \subseteq Required
                      => t.chunk = u.chunk

\* All tasks of the scene hold the same moments.
Intact(scene) == \A t, u \in Task : t.scene = scene /\ u.scene = scene => moments[t] = moments[u]

\* Every variable keeps its type; what is buffered or returned has arrived.
PrepTypeOK ==
  /\ moments \in Contents
  /\ coming \subseteq Task /\ raised \in BOOLEAN
  /\ buffer \subseteq Arrived /\ returned \subseteq Arrived

OneTaskPerCamera == \A t, u \in buffer : t.scene = u.scene /\ t.cam = u.cam => t = u

\* The buffer holds one task per camera and, while the run is up, no scene that
\* could go: nothing waits for a task of another scene.
NothingReadyWaits ==
  /\ OneTaskPerCamera
  /\ ~raised => \A scene \in Scenes : ~IsComplete(Group(buffer, scene))

\* Of a scene that is just its three front videos, no task is lost: what has
\* arrived is in the buffer or was returned, all three together.
PlainScenesSurvive ==
  \A t \in Arrived : Plain(t.scene) =>
    /\ t \in buffer \cup returned
    /\ t \in returned => \A u \in Task : u.scene = t.scene => u \in returned

\* Every window of CAM_FRONT has exactly one combined input, and it shows the same
\* moment of the same chunk on all three cameras, in scenes whose videos are one chunk
\* each and lost the same clips on the way; chunks that meet in the buffer after one
\* replaced another are paired whatever they show, and so are unequal lists of clips.
ViewsAligned ==
  \A t \in returned : (t.cam = Front /\ OneChunk(t.scene) /\ Intact(t.scene)) =>
    \A m \in moments[t] :
      {i \in input : i.task = t /\ i.at = m} =
        {[task |-> t, at |-> m, views |-> [cam \in Sides |-> [chunk |-> t.chunk, at |-> m]]]}

\* What ViewsAligned rests on: a task that left the buffer is not there again, and
\* only such tasks have inputs.
LeftForGood == /\ buffer \cap returned = {}
               /\ \A i \in input : i.task \in returned

ViewsInv == PrepTypeOK /\ OneTaskPerCamera /\ LeftForGood /\ ViewsAligned

\* A plain scene whose videos all come through is captioned in the end, whatever
\* other scenes wait for, unless one of them ends the run.
ScenesComplete ==
  \A scene \in Scenes :
    (Plain(scene) /\ {t.cam : t \in Group(Task, scene)} = Required) =>
      <>(raised \/ Group(Task, scene) \subseteq returned)

=============================================================================
