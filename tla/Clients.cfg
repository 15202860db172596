SPECIFICATION Spec
CONSTANTS
  NStreamed = 2
  Subs = {"s1", "s2"}
  First = "s1"
  Filter <- MCFilter
  Depth = 1
  MaxBuffer = 2
  Scenarios <- MCScenarios
  MaxSource = 2
  MaxLag = 1
  MaxCommands = 1
  Agents = {a1, a2}
  NTasks = 2
  MaxAsked = 3
  MessageRequests <- MCRequests
  MaxChanges = 1
  MaxAnswerChunks = 1
  MaxAttempts = 2
  MaxStored = 2
  MaxChunks = 2
  MaxFrames = 3
  Breaks <- MCBreaks
INVARIANTS ClientsTypeOK   FramesAsSent
PROPERTIES LiveInOrder 
CHECK_DEADLOCK FALSE
