------------------------------ MODULE MCBridge ------------------------------
EXTENDS Bridge, TLC
=============================================================================
