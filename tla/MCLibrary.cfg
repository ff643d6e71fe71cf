SPECIFICATION Spec
CONSTANTS
  Folders = {"s", "t"}
  Writers = {w1, w2}
  Versions = {1, 2, 3, 4, 5}
  Scenes <- AllScenes
CHECK_DEADLOCK FALSE
SYMMETRY Requests
PROPERTIES
  HolderAlone
  CollectorAlone
  StaleResultDiscarded
