SPECIFICATION StreamFairSpec
CONSTANTS
  Creators = {c1}
  Joiners = {j1}
  Watchers = {w1}
  Cancelling = {c1}
  Kinds = {"interrupt", "error"}
  MaxMessages = 2
  MaxMillis = 2
  MaxClients = 2
  Options <- StreamOptions
INVARIANTS StreamTypeOK   WaitersLearnOfErrors
PROPERTIES StreamsEnd DisconnectStopsRun
CHECK_DEADLOCK FALSE
