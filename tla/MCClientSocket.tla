-------------------------- MODULE MCClientSocket --------------------------
EXTENDS ClientSocket
===========================================================================
