------------------------------ MODULE MC_Timers ------------------------------
(* Two commit-timer heights and two blocks, as model values.             *)
EXTENDS Timers

CONSTANTS h1, h2, b1, b2, none

MCHeights == {h1, h2}
MCBlks == {b1, b2}
====
