-------------------------- MODULE MCPritunlServer --------------------------
(* Small instances of the server, host and link mirrors.                  *)
EXTENDS PritunlServer

\* Two server ids, one host id, one link id.
MCPids == 1..4
MCKindOf == [p \in MCPids |-> CASE p \in {1, 2} -> "server" [] p = 3 -> "host" [] OTHER -> "link"]

\* One organization, synced to the appliance.
MCOrgs == {"o1"}
MCOrgPid == [o \in MCOrgs |-> IF o = "o1" THEN 7 ELSE NoPid]

=============================================================================
