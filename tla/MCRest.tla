------------------------------- MODULE MCRest -------------------------------
EXTENDS Rest

=============================================================================
