\* One cart, two chats of one person: every overlap of two commands.
SPECIFICATION Spec

CONSTANTS
  None           = None
  ann            = ann
  telegram       = telegram
  max            = max
  bolts          = bolts
  tiles          = tiles
  People         = {ann}
  Chats          = {telegram, max}
  Owner         <- OwnerValue
  Products       = {bolts, tiles}
  Offers        <- OffersThatMove
  MAX_QUANTITY   = 2
  MAX_CART_LINES = 2
  MaxEvents      = 3

INVARIANTS
  CreatedIsReal

PROPERTIES
  ChargedAsShown
  CheckoutTakesOnlyWhatItOrders
