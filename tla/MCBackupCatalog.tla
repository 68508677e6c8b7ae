--------------------------- MODULE MCBackupCatalog ---------------------------
\* Two servers with a snapshot each, or one server with two snapshots.
EXTENDS BackupCatalog, TLC

CONSTANTS s1, s2, a1, a2, b1

OneEach == (a1 :> s1) @@ (b1 :> s2)
TwoOfOne == (a1 :> s1) @@ (a2 :> s1)
=============================================================================
