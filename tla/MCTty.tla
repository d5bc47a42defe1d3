-------------------------------- MODULE MCTty -------------------------------
EXTENDS Tty
=============================================================================
