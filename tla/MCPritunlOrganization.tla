----------------------- MODULE MCPritunlOrganization -----------------------
(* Small instances of the organization mirror served by user requests     *)
(* alone.                                                                  *)
EXTENDS PritunlOrganization

MCRIds == 1..3

=============================================================================
