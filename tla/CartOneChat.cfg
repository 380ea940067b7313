\* One person, one chat: two products and a cart with room for one of them.
SPECIFICATION Spec

CONSTANTS
  None           = None
  ann            = ann
  telegram       = telegram
  max            = max
  bolts          = bolts
  tiles          = tiles
  People         = {ann}
  Chats          = {telegram}
  Owner         <- OwnerValue
  Products       = {bolts, tiles}
  Offers        <- OffersThatVanish
  MAX_QUANTITY   = 2
  MAX_CART_LINES = 1
  MaxEvents      = 6

INVARIANTS
  OutboxTellsTheCart
  RefilledBetweenOrders

PROPERTIES
  AlreadyPlacedIsTrue
  ImplementsContract
