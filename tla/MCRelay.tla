------------------------------ MODULE MCRelay -------------------------------
\* Three points go through a queue of two that is pushed one by one: the third
\* makes room, and may do so while a push is in flight.
EXTENDS Relay
=============================================================================
