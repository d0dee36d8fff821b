----------------------------- MODULE MCPl011Mmio -----------------------------
(* Model checking of Pl011Mmio with two characters.                          *)
EXTENDS Pl011Mmio

CONSTANTS x, y
=============================================================================
