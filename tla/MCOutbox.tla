------------------------------ MODULE MCOutbox -------------------------------
EXTENDS Outbox, TLC
=============================================================================
