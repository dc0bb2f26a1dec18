SPECIFICATION FairSpec
CONSTANTS
  Conns = {c1, c2, c3}
  NoConn = NoConn
  MaxSlots = 2
  MaxN = 3
  MaxRequests = 2
CHECK_DEADLOCK FALSE
INVARIANTS TypeOK SlotsAreSound CompleteWhenDrained NeverOvershoots
PROPERTIES ImplementsAdmission Drains EveryoneIsAnswered
