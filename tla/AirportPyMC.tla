------------------------------ MODULE AirportPyMC ------------------------------
EXTENDS AirportPy, TLC

CONSTANTS c1, c2

OneController == {c1}
TwoControllers == {c1, c2}

Symmetry == Permutations(Controllers)
=============================================================================
