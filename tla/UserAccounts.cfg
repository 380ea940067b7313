SPECIFICATION MCSpec
CONSTANTS
  u1 = u1  u2 = u2
  boss = boss  p2 = p2
  n1 = n1  n2 = n2
  UserIds = {u1, u2}
  Phones = {boss, p2}
  AdminPhones = {boss}
  Platforms = {"telegram", "max"}
  ExternalIds = {x1, x2}
  Names = {n1, n2}
  Locales = {"ru", "en"}
  Reasons = {r1, r2}
  Sessions = {s1, s2}
  Commands <- MCCommands
  None = None
  MaxEvents = 4
SYMMETRY Symmetry
INVARIANTS
  TrailTellsTheRole
  NoGapInSequence
  ReachableInSequence
  TurnedAwayOnlyByARace
PROPERTIES
  OnlyWhatWasAsked
