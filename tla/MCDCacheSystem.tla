--------------------------- MODULE MCDCacheSystem ---------------------------
(* Small instances of DCacheSystem for TLC. *)
EXTENDS DCacheInvariant
=============================================================================
