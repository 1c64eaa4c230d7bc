------------------------------- MODULE MC_Prune -------------------------------
EXTENDS Prune
====
