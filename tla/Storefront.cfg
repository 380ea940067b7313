SPECIFICATION MCSpec
CONSTANTS
  a = a
  b = b
  c = c
  word = word
  rare = rare
  sku = sku
  short = short
  None = None
  Groups = {a, b, c}
  Exports <- AnyExports
  FirstExport <- Whole
  Products = {1, 2}
  Described = {1}
  Offers <- Withdrawn
  FirstOffer <- TwoOffers
  Terms = {word, rare, sku, short}
  Indexed = {word, rare, sku}
  Found <- MCFound
  Article <- MCArticle
  PageSize = 1
  MAX_QUANTITY = 2
  InFlight = 2
  MaxSteps = 2
INVARIANTS
  PlacedByTheExport
  ListedWhereLastPlaced
  ToastNamesWhatWasAdded
PROPERTIES
  NoEmptyPage
