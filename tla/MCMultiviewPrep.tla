--------------------------- MODULE MCMultiviewPrep ---------------------------
(* A plain scene; a scene with a rear camera and a second chunk of a side     *)
(* video; a scene that lacks a camera; a video whose name does not parse.     *)
EXTENDS MultiviewPrepProps

T(scene, cam, chunk) == [scene |-> scene, cam |-> cam, chunk |-> chunk]

FourScenes ==
  {T("s1", cam, 0) : cam \in Required}
    \cup {T("s2", cam, 0) : cam \in Required \cup {"CAM_BACK"}}
    \cup {T("s2", "CAM_FRONT_LEFT", 1)}
    \cup {T("s3", Front, 0), T("demo", "unknown", 0)}

\* All cameras of a scene lose the same moments, or one task loses some more.
Even == {[t \in Task |-> of[t.scene]] : of \in [Scenes -> {Moment, Moment \ {1}}]}
Uneven == {[e EXCEPT ![t] = {2}] : e \in {[t \in Task |-> Moment]}, t \in Task}
EvenOrNot == Even \cup Uneven
=============================================================================
