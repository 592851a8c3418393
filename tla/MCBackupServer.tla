--------------------------- MODULE MCBackupServer ---------------------------
(* Small instances of BackupServer: which connection logs in as whom.      *)
EXTENDS BackupServerInv, TLC

CONSTANTS s1, s2, ivan, alberto

OneAccount == s1 :> ivan
\* Two connections of one user: two machines, or a client that reconnects
\* before the server noticed that its former connection is gone.
SharedAccount == (s1 :> ivan) @@ (s2 :> ivan)
OwnAccount == (s1 :> ivan) @@ (s2 :> alberto)

\* Inodes are interchangeable, and so are connections of one user.
Inodes == Permutations(Inode)
InodesAndSessions == Inodes \cup Permutations(Session)

=============================================================================
