-------------------------- MODULE MCSubscriptions --------------------------
EXTENDS Subscriptions, TLC

\* Neither users nor subscriptions are told apart by the code.
Symmetry == Permutations(Users) \cup Permutations(Subs)

=============================================================================
