SPECIFICATION SystemSpec
CONSTANTS
  s1 = s1
  s2 = s2
  ivan = ivan
  Session = {s1, s2}
  User = {ivan}
  Account <- SharedAccount
  Path = {p}
  Inode = {i1, i2, i3}
  Block = {z, b}
  Zero = z
  MaxLen = 1
  Kill = TRUE
  None = None
  Unknown = Unknown
SYMMETRY Alike
INVARIANT SystemTypeOK
INVARIANT RequestInv
INVARIANT HeardIsHeld
INVARIANT RestoredIsUploaded
INVARIANT Fetched
INVARIANT Bounded
