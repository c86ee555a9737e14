------------------------ MODULE MCDesignSystemUpgrade ------------------------
(***************************************************************************)
(* Instances of DesignSystemUpgrade: the built-in Foundation release and   *)
(* one authored system with two releases.                                  *)
(***************************************************************************)
EXTENDS DesignSystemUpgrade

FoundationRelease == [system |-> "foundation", version |-> 1]
AllReleases ==
    {FoundationRelease,
     [system |-> "authored", version |-> 1],
     [system |-> "authored", version |-> 2]}
==============================================================================
