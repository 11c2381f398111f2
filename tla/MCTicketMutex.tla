--------------------------- MODULE MCTicketMutex ----------------------------
EXTENDS TicketMutex
=============================================================================
