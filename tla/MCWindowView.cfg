CONSTANTS
  w1 = w1
  w2 = w2
  Windows <- MCWindows
  Big <- MCBig
  t1 = t1
  t2 = t2
  Tabs <- MCTabs
  First <- MCFirst
  Profiles = {p1, p2}
  NoTab = NoTab
  Kinds = {"unknown", "superuser"}
  MaxZoom = 1
  MaxPage = 2
  MaxTab = 1
  MaxWindow = 2
SPECIFICATION Spec
INVARIANTS
  WindowFollowsShownTab
  ChangedSessionsAsk
  FindBarSearchesWhatItSays
  BarsShownWhileHeld
CHECK_DEADLOCK FALSE
PROPERTIES
  FramesCatchUp
