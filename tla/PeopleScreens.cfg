SPECIFICATION MCSpec
CONSTANTS
  None = None
  Telegram = Telegram
  Stranger = Stranger
  MaxMessenger = MaxMessenger
  n1 = n1
  n2 = n2
  ru = ru
  en = en
  People = {1, 2}
  FirstTables <- MCFirstTables
  Names = {n1, n2}
  Locales = {ru, en}
  Platforms = {Telegram, MaxMessenger}
  Opens <- MCOpens
  InFlight <- MCInFlight
  PageSize = 1
INVARIANTS
  AtMostOneAfterTheBlock
PROPERTIES
  ConsentIsOnlyToggled
