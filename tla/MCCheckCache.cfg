SPECIFICATION Spec
CONSTANTS
  a = a
  b = b
  c = c
  d = d
  config = config
  leaf = leaf
  asksM = asksM
  asksN = asksN
  m = m
  n = n
  all = all
  some = some
  Files <- MCFiles
  Config = config
  Contents = {leaf, asksM, asksN}
  Names = {m, n}
  Asks <- MCAsks
  Offers <- MCOffers
  MayHold <- MCMayHold
  HeldTo <- MCHeldTo
  Walk <- MCWalk
  FirstWorlds <- MCFirstWorlds
  Specs = {all, some}
  Builds = {old, new}
  Runs = {p, q}
  MaxEntries = 2
  MaxEdits = 1
  MaxRuns = 3
  MaxCrashes = 1
  EditsDuringRuns = FALSE
  None = None
INVARIANTS
  TypeOK
  HitsAreExact
  HitsSeeConfigEdits
  StableEntriesHold
PROPERTIES
  SweepDropsTheOldest
SYMMETRY RunSymmetry
\* A behaviour ends when its bounds are reached.
CHECK_DEADLOCK FALSE
