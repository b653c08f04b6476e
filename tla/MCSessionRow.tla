---------------------------- MODULE MCSessionRow ----------------------------
EXTENDS SessionRow
=============================================================================
