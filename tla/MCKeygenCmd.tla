---------------------------- MODULE MCKeygenCmd ----------------------------
EXTENDS KeygenCmd

CONSTANTS p1, n1, n2
=============================================================================
