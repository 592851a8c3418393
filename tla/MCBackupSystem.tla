--------------------------- MODULE MCBackupSystem ---------------------------
(* Small instances of BackupSystem: one client, and the sessions of its    *)
(* present and former connections.                                         *)
EXTENDS BackupSystemInv, TLC

CONSTANTS s1, s2, ivan

SharedAccount == (s1 :> ivan) @@ (s2 :> ivan)

Alike == Permutations(Inode) \cup Permutations(Session)

=============================================================================
