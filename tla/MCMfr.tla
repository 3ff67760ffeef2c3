------------------------------- MODULE MCMfr --------------------------------
\* Workers are model values in the configurations.
EXTENDS Mfr

=============================================================================
