---------------------------- MODULE MCSessionBus ----------------------------
EXTENDS SessionBus
=============================================================================
