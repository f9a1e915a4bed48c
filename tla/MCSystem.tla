------------------------------ MODULE MCSystem ------------------------------
\* An instance of System for TLC: one system job that backs up and restores.
EXTENDS System

CONSTANTS j1, d1, d2

OneJob == {j1} \X Operations

HomeOf == [d \in {d1, d2} |-> IF d = d1 THEN "casaos" ELSE "icewhale"]

=============================================================================
