SPECIFICATION Spec
CONSTANTS
  i1 = i1
  i2 = i2
  n1 = n1
  n2 = n2
  l = l
  m = m
  Nobody = Nobody
  MaxPc = 1
  Clients <- TwoClients
  Names <- TwoNames
  Sources <- TwoSources
SYMMETRY Symmetry
INVARIANTS StoredIsABeginning DeadCodeIsDead
