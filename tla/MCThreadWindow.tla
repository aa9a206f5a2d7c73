--------------------------- MODULE MCThreadWindow ---------------------------
(* The window's sizes are given in the configurations: small, in the order of the real ones. *)
EXTENDS ThreadWindow
=============================================================================
