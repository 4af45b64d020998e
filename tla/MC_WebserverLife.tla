--------------------------- MODULE MC_WebserverLife ---------------------------
(* Two client connections as model values.                                *)
EXTENDS WebserverLife, TLC

CONSTANTS c1, c2
=============================================================================
