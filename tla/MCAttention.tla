---------------------------- MODULE MCAttention -----------------------------
\* An instance of Attention for TLC.
EXTENDS Attention

CONSTANTS j1, d1

\* One that is due every hour, and dates of which one is near only at times.
HourlyOrRare == {[every |-> 1, dates |-> {}], [every |-> 0, dates |-> {3}]}

=============================================================================
