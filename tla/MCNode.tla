-------------------------------- MODULE MCNode --------------------------------
EXTENDS Node
CONSTANTS t1, t2
MCTerminal == {t1, t2}
MCBuild == {1, 2}
===============================================================================
