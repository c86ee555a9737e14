---------------------------- MODULE MCEventStream ----------------------------
(***************************************************************************)
(* An instance of EventStream: streams do not touch each other, so there   *)
(* is one reader, who may read what retention keeps, what it deletes, and  *)
(* not the third kind.                                                     *)
(***************************************************************************)
EXTENDS EventStream, TLC

CONSTANT reader

OneReader == reader :> {"design", "governance"}
==============================================================================
