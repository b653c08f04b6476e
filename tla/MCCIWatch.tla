------------------------------ MODULE MCCIWatch ------------------------------
EXTENDS CIWatch, TLC
CONSTANTS w1, w2
Symmetry == Permutations(Workers)
=============================================================================
