\* Two concurrent saves, one load, two temporary names and crashes.
CONSTANTS
  Savers = {s1, s2}
  Loaders = {l1}
  Names = {n1, n2}
  Path = session
  Inodes = {i1, i2, i3, i4, i5}
  Nothing = Nothing
  Failed = Failed
SPECIFICATION Spec
INVARIANTS
  TypeOK
  NoStrayTemps
PROPERTY StoreSpec
