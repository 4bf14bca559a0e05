SPECIFICATION FairSpec
CONSTANTS
  c1 = c1
  c2 = c2
  w1 = w1
  w2 = w2
  r1 = r1
  r2 = r2
  r3 = r3
  person = person
  Composers = {c1, c2}
  Windows <- MCWindows
  Hinted <- MCHinted
  Tabs <- MCTabs
  NoWindow = NoWindow
  NoComposer = NoComposer
  Requests = {r1, r2, r3}
  Way <- MCWay
  To <- MCTo
  Text <- MCText
  Marked = {r1, r3}
  Person = person
  Events = {"move", "type", "fault", "dialog", "later"}
  MaxEvents = 1
CHECK_DEADLOCK FALSE
INVARIANTS TypeOK AckedLanded HttpSerial HttpNoTwin
PROPERTIES PersonsDraftKept 
