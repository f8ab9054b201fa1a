------------------------------ MODULE MCGraph -------------------------------
EXTENDS GraphTraversal
=============================================================================
