------------------------------ MODULE AirportCMC ------------------------------
EXTENDS AirportC, TLC

CONSTANTS c1, c2

OneController == {c1}
TwoControllers == {c1, c2}

\* Without ground control's SIGTERM, which comes once.
RepeatedFlags == UninitialisedFlags \ {<<"ground", "TERM">>}

Symmetry == Permutations(Controllers)
=============================================================================
