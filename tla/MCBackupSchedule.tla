------------------------- MODULE MCBackupSchedule -------------------------
(* Two calls at a time; a lock and a window last one tick, a week one and a  *)
(* month two windows.                                                       *)
EXTENDS BackupSchedule, TLC

CONSTANTS r1, r2

Symmetry == Permutations({r1, r2})
=============================================================================
