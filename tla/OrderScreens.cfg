SPECIFICATION MCSpec
CONSTANTS
  buyer = buyer
  manager = manager
  None = None
  People = {buyer, manager}
  Managers = {manager}
  Browsing = {buyer, manager}
  Orders = {1, 2, 3}
  Owner <- MCOwner
  FirstOrders <- MCFirstOrders
  Filters = {"NEW"}
  PageSize = 1
  InFlight <- MCInFlight
  Demotable = {manager}
INVARIANTS
  NoButtonCertainToBeRefused
PROPERTIES
  ActsOnWhatWasShown
  FormerStaffSeesNothingNew
