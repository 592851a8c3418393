SPECIFICATION Spec
CONSTANTS
  s1 = s1
  s2 = s2
  ivan = ivan
  alberto = alberto
  Session = {s1}
  User = {ivan}
  Account <- OneAccount
  Path = {p, q}
  Inode = {i1, i2, i3}
  Block = {z, b}
  Zero = z
  MaxLen = 2
  Kill = FALSE
  None = None
  Unknown = Unknown
SYMMETRY Inodes
INVARIANT TypeOK
INVARIANT SnapshotInv
INVARIANT Confirmed
INVARIANT GetConfirmed
INVARIANT SnapshotSound
PROPERTY ServiceRefined
