---------------------------- MODULE MCGetOrCreate ----------------------------
(* Small instances of the SDK's check-then-create helpers.                *)
EXTENDS GetOrCreate

MCIds == 1..3

=============================================================================
