------------------------------ MODULE MCPaging ------------------------------
EXTENDS Paging, TLC

=============================================================================
