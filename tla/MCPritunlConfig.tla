-------------------------- MODULE MCPritunlConfig --------------------------
(* Small instances of the organization mirror and its configuration.      *)
EXTENDS PritunlConfig

MCRIds == 1..3
MCLiveRIds == 1..2

\* Organization names are interchangeable: no action or safety property
\* tells one from another.
MCNameSymmetry == Permutations(Names)

=============================================================================
