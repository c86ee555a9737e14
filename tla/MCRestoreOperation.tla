------------------------- MODULE MCRestoreOperation -------------------------
(***************************************************************************)
(* An instance of RestoreOperation: a database, a file only the old data    *)
(* has, a file only the backup has, and the log of the database.            *)
(***************************************************************************)
EXTENDS RestoreOperation
=============================================================================
