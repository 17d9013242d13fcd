SPECIFICATION FairSpec
CONSTANTS
  Texts = {"raw", "cooked"}
  Clean <- CleanText
  Formats = {48, 96}
  Changes = 4
  StartsFail = TRUE
CHECK_DEADLOCK FALSE
INVARIANTS TypeOK SavedMode ActiveIsRunning TerminatedIsStopped
PROPERTIES SettlesDown
