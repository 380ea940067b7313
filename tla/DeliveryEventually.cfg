SPECIFICATION FairSpec
CONSTANTS
  ann = ann
  bob = bob
  cy = cy
  dee = dee
  r1 = r1
  r2 = r2
  w1 = w1
  w2 = w2
  None = None
  Messages <- MCFour
  Kind <- MCLiveKind
  Customer <- MCBob
  People <- MCTwoPeople
  Staff <- MCStaff
  Target <- MCOneClosed
  Gone <- MCNobody
  Poisoned <- MCOneMessage
  Unreadable <- MCThird
  Relays <- MCTwoRelays
  Workers <- MCTwoWorkers
  BatchSize = 2
  MaxFaults = 1
  MaxCount = 3
PROPERTY
  EveryEventIsHandled
CHECK_DEADLOCK FALSE
