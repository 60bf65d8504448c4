------------------------- MODULE MCIsolateInterrupts -------------------------
EXTENDS IsolateInterrupts
=============================================================================
