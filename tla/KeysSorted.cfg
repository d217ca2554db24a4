SPECIFICATION Spec
CONSTANTS
  NotNumeric = NotNumeric
  Garbage = Garbage
  Groups <- MCGroups
  ActiveGroups <- MCActiveGroups
  Selectors <- MCSelectors
  Options <- MCOptions
  Default <- MCDefault
  NumberGroup = "type.juliamandle"
  MinNumber = 1
  MaxNumber = 7
  DefaultNumber = 4
  MaxPops = 8
  EditMethods = {"linear"}
  EditValues = {1}
  FrameCounts = {4}
  DefaultFrames = 4
  MaxDepth = 3
  MaxKeys = 2
  MaxEdits = 4
CHECK_DEADLOCK FALSE
INVARIANT KeysSorted
