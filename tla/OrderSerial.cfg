SPECIFICATION SerialSpec
CONSTANTS
  o1 = o1
  o2 = o2
  buyer = buyer
  manager1 = manager1
  manager2 = manager2
  home = home
  office = office
  late = late
  s1 = s1
  s2 = s2
  None = None
  Orders <- MCTwoOrders
  People <- MCBuyerAndOne
  Staff <- MCOneOfStaff
  Addresses <- MCAddresses
  Reasons <- MCReasons
  Sessions <- MCTwoSessions
  MaxEvents = 5
SYMMETRY MCSymmetry
INVARIANTS
  LastWordIsTheRow
  CancellationTrace
  HistoryIsAPath
PROPERTY
  ImplementsContract
CHECK_DEADLOCK FALSE
