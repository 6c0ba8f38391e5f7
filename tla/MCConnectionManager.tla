------------------------- MODULE MCConnectionManager -------------------------
EXTENDS ConnectionManager
=============================================================================
