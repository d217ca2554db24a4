SPECIFICATION Spec
CONSTANTS
  NotNumeric = NotNumeric
  Garbage = Garbage
  Groups <- MCGroups
  ActiveGroups <- MCActiveGroups
  Selectors <- MCSelectors
  Options <- MCOptions
  Default <- MCDefault
  NumberGroup = "type.juliamandle"
  MinNumber = 1
  MaxNumber = 7
  DefaultNumber = 4
  MaxPops = 8
  EditMethods = {"none", "sqroot", "square"}
  EditValues = {1, 9, NotNumeric}
  FrameCounts = {NotNumeric, 1, 3, 4}
  DefaultFrames = 4
  MaxDepth = 3
  MaxKeys = 2
  MaxEdits = 8
CHECK_DEADLOCK FALSE
INVARIANTS JobTypeOK GroupsShown FollowsKeys FramesValid
