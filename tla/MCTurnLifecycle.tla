-------------------------- MODULE MCTurnLifecycle --------------------------
EXTENDS TurnLifecycle, TLC
CONSTANTS t1, t2
TurnSet == {t1, t2}
AskSet == {t1}
StopSet == {t1}
=============================================================================
