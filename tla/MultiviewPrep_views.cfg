CONSTANTS
  Task <- FourScenes
  Moment = {1, 2}
  Contents <- EvenOrNot
SPECIFICATION PrepLiveSpec
INVARIANTS
  PlainScenesSurvive
  ViewsAligned
PROPERTY ScenesComplete
CHECK_DEADLOCK FALSE
