---------------------------- MODULE MCBackground ----------------------------
EXTENDS Background, TLC
=============================================================================
