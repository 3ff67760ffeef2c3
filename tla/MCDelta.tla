------------------------------ MODULE MCDelta -------------------------------
\* Clients and items are model values in the configurations.
EXTENDS Delta

=============================================================================
