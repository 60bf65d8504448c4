-------------------------- MODULE MCMessagePosting --------------------------
EXTENDS MessagePosting
=============================================================================
