SPECIFICATION Spec
CONSTANTS
  a = a
  b = b
  asksB = asksB
  plain = plain
  other = other
  first = first
  second = second
  refused = refused
  torn = torn
  Files = {a, b}
  UriOrder <- MCUriOrder
  Texts = {asksB, plain, other}
  Requires <- MCRequires
  MayHold <- MCMayHold
  Manifests = {first, second, refused, torn}
  Unparsed = {torn}
  Refused = {refused}
  FirstDisk <- MCFirstDisk
  FirstManifest = first
  MaxWrites = 2
  MaxMessages = 4
  Empty = Empty
  Failed = Failed
  None = None
INVARIANTS
  TypeOK
  
  RebuiltTogether
  ActionsFitTheBuffer
PROPERTIES
  AnswersFollowChecks
\* A server that has ended, or whose client says no more, stops.
CHECK_DEADLOCK FALSE
