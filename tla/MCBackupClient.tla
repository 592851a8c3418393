--------------------------- MODULE MCBackupClient ---------------------------
(* Small instances of BackupClient. *)
EXTENDS BackupClientInv, TLC

CONSTANTS e, a, b

Contents == Permutations({a, b})

=============================================================================
