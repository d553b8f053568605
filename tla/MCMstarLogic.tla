---------------------------- MODULE MCMstarLogic ---------------------------
EXTENDS MstarLogic
============================================================================
