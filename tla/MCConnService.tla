--------------------------- MODULE MCConnService ---------------------------
EXTENDS ConnService

CONSTANTS c1, c2, c3, c4
=============================================================================
