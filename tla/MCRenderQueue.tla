--------------------------- MODULE MCRenderQueue ---------------------------
(* Three jobs of one process for one slot and one waiter; the process may    *)
(* lag or crash while another one recovers.                                 *)
EXTENDS RenderQueue

CONSTANTS p1, p2

MCCaller == [j \in Jobs |-> p1]
=============================================================================
