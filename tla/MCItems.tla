------------------------------ MODULE MCItems ------------------------------
EXTENDS Items, TLC

\* Workers, folder ids and names are alike.
Symmetry == Permutations(Workers) \cup Permutations(FolderIds) \cup Permutations(Names)

\* One event, two messages, three folders, or a message or contact and folders.
MCBudgets ==
    {[event |-> 1, message |-> 0, contact |-> 0, folder |-> 0],
     [event |-> 0, message |-> 2, contact |-> 0, folder |-> 0],
     [event |-> 0, message |-> 0, contact |-> 0, folder |-> 3],
     [event |-> 0, message |-> 1, contact |-> 1, folder |-> 1]}

=============================================================================
