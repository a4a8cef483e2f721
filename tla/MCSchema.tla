------------------------------ MODULE MCSchema ------------------------------
EXTENDS Schema, TLC

ConnSymmetry == Permutations(Conns)

=============================================================================
