----------------------- MODULE SubscriptionLifecycle ------------------------
(***************************************************************************)
(* What a notify worker promises about every single webhook subscription:  *)
(* it is registered with the kopano server before it is listed to its      *)
(* owner, it is unlisted at most once and for good, and its registration   *)
(* is given up only after that. A registration may be left behind, by a    *)
(* POST that fails half way or a server that does not answer; a listed     *)
(* subscription without one may not exist.                                 *)
(***************************************************************************)
EXTENDS FiniteSets

CONSTANT Subs

VARIABLES registered, listed, removed

lifecycle == <<registered, listed, removed>>

LifecycleTypeOK ==
    /\ registered \subseteq Subs
    /\ listed \subseteq Subs
    /\ removed \subseteq Subs

LifecycleInit == registered = {} /\ listed = {} /\ removed = {}

Register(s) ==
    /\ s \notin registered \cup removed
    /\ registered' = registered \cup {s}
    /\ UNCHANGED <<listed, removed>>

List(s) ==
    /\ s \in registered \ (listed \cup removed)
    /\ listed' = listed \cup {s}
    /\ UNCHANGED <<registered, removed>>

\* A lost connection unlists all the subscriptions of a user at once.
Unlist(S) ==
    /\ S # {}
    /\ S \subseteq listed
    /\ listed' = listed \ S
    /\ removed' = removed \cup S
    /\ UNCHANGED registered

Unregister(s) ==
    /\ s \in removed \cap registered
    /\ registered' = registered \ {s}
    /\ UNCHANGED <<listed, removed>>

LifecycleNext ==
    \/ \E s \in Subs : Register(s) \/ List(s) \/ Unregister(s)
    \/ \E S \in SUBSET Subs : Unlist(S)

LifecycleSpec == LifecycleInit /\ [][LifecycleNext]_lifecycle

=============================================================================
