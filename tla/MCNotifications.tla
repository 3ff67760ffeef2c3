-------------------------- MODULE MCNotifications ---------------------------
\* Threads, subscriptions and changes are model values in the configurations.
EXTENDS Notifications

=============================================================================
