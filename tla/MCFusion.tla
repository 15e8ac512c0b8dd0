------------------------------ MODULE MCFusion ------------------------------
EXTENDS Fusion
=============================================================================
