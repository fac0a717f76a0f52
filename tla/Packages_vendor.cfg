SPECIFICATION Spec
CONSTANTS
  a = a
  d1 = d1
  d2 = d2
  None = None
  Half = Half
  Undeclared = Undeclared
  Keys <- OneInTwoSections
  Versions <- ThreeVersions
  Digests <- TwoDigests
  Entries <- Kinds
  DistKind <- Dists
  MaxCommands = 4
  MaxChanges = 3
INVARIANT VendoredIsWhole
PROPERTIES ImportsStay NewestPinned
CHECK_DEADLOCK FALSE
