---------------------------- MODULE MCFieldQueue ----------------------------
EXTENDS FieldQueue

CONSTANTS p1, p2, s1, u1, u2
=============================================================================
