SPECIFICATION MCSpec
CONSTANTS
  None = None
  Me = Me
  MyPhone = MyPhone
  Products = {1, 2}
  FirstCarts <- MCFirstCarts
  FirstOrders <- OneOrderBefore
  FirstOffers <- AllAtOne
  Offers <- MCOffers
  MAX_QUANTITY = 2
  Addresses = {w1, w2}
  Names = {w1}
  Comments = {w1}
  Phones = {ph}
  Uses <- MCUses
  InFlight = 2
  MaxOrders = 2
  PageSize = 1
PROPERTIES
  ActsOnTheLineShown
  SentWhereItSaid
  PaidAsPrinted
