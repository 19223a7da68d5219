CONSTANTS
  r = r
  n1 = n1
  n2 = n2
  n3 = n3
  c1 = c1
  c2 = c2
  Node = {r, n1, n2, n3}
  Root = r
  NULL = NULL
  Content = {c1, c2}
  MayRemoveCwd = FALSE
  Path <- MCPath
SPECIFICATION FSSpec
SYMMETRY Interchangeable
INVARIANTS
  TreeOK
PROPERTIES
  ImplementsFiles
