------------------------------ MODULE UtlistMC ------------------------------
EXTENDS Utlist
CONSTANT n1
MCGarbage == {NULL, n1}
=============================================================================
