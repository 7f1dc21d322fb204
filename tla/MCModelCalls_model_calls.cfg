SPECIFICATION MCSpec
CONSTANTS
  c1 = c1
  c2 = c2
  u1 = u1
  u2 = u2
  a1 = a1
  p1 = p1
  p2 = p2
  p3 = p3
  grey = grey
  s1 = s1
  s2 = s2
  Blank = Blank
  NoUser = NoUser
  NoColour = NoColour
  Calls <- CallsMC
  Users <- UsersMC
  Buckets <- BucketsMC
  LIMIT <- LimitMC
  PER <- PerMC
  TICKS = 4
  SWEEP_AT = 2
  Asks = {a1}
  Products = {p1, p2, p3}
  Colours = {grey}
  ColoursOf <- ColoursOfMC
  PhotosOf <- PhotosOfMC
  Requests <- RequestsMC
  Services = {s1, s2}
  TTLS = {0, 2}
  MAX_PARSES = 2
  MAX_IMAGES = 1
  MaxNow = 8
  MaxEvents = 3
SYMMETRY Symmetry
CHECK_DEADLOCK FALSE
INVARIANTS
  TypeOK
  WindowRespected
  OnlyActiveEntriesPastSweep
  FreshAnswers
  AnswersFitTheCall
  PhotosMatchPieces
  RefusalIsHonest
