--------------------------- MODULE MCPritunlUser ---------------------------
(* Small instances of the VPN user mirror.                                *)
EXTENDS PritunlUser

MCRIds == 1..2
MCSubs == {"s1", "s2"}

\* One subscription in progress and one closed.
MCInitSubState == [s \in MCSubs |-> IF s = "s1" THEN "progress" ELSE "closed"]

=============================================================================
