SPECIFICATION Spec
CONSTANTS
  ann = ann
  bob = bob
  cy = cy
  dee = dee
  r1 = r1
  r2 = r2
  w1 = w1
  w2 = w2
  None = None
  Messages <- MCThree
  Kind <- MCKind
  Customer <- MCBuyers
  People <- MCFourPeople
  Staff <- MCStaff
  Target <- MCTargets
  Gone <- MCNobody
  Poisoned <- MCNobody
  Unreadable <- MCNobody
  Relays <- MCTwoRelays
  Workers <- MCTwoWorkers
  BatchSize = 2
  MaxFaults = 2
  MaxCount = 3
SYMMETRY MCSymmetry
INVARIANTS
  OnlyTheBrokerLoses
  RepublishNeedsAFault
  HandledMeansTold
  RepeatsNeedAnAbort
  WaitsForTheChannel
PROPERTIES
  ImplementsContract
CHECK_DEADLOCK FALSE
