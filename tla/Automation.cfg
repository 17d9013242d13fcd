SPECIFICATION FairSpec
CONSTANTS
  Texts = {"cooked"}
  Clean <- CleanText
  Formats = {48}
  Changes = 2
  StartsFail = FALSE
CHECK_DEADLOCK FALSE
PROPERTIES AutomationApplied
