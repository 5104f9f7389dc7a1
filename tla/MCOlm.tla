------------------------------- MODULE MCOlm -------------------------------
EXTENDS Olm
=============================================================================
