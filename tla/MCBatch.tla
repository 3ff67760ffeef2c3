------------------------------ MODULE MCBatch -------------------------------
EXTENDS Batch

=============================================================================
