--------------------------- MODULE Notifications ----------------------------
(***************************************************************************)
(* The way of a notification from the kopano server to a webhook           *)
(* (grapi/backend/kopano/subscription.py): notification threads call       *)
(* SubscriptionSink.update, which puts it on a bounded queue and retries   *)
(* while that is full; the SubscriptionProcessor thread takes notifications*)
(* off the queue, collects them for a debounce delay in the order of their *)
(* last occurrence, and posts the batch one by one.                        *)
(*                                                                         *)
(* A notification is the NotificationRecord that new_record makes of it:   *)
(* a subscription and what changed. Equal records are one entry of the     *)
(* batch. Definitions named ...Slip are the mistakes that PROJECT.json     *)
(* lists as mutants.                                                       *)
(***************************************************************************)
EXTENDS Naturals, Sequences, FiniteSets, SequencesExt

CONSTANTS
    Threads,         \* external: the notification threads, one per connection
    Subs,            \* subscriptions, each with its sink
    WithClientState, \* those whose create request had the optional clientState
    Changes,         \* changeType and id of what changed
    QueueMaxSize,    \* config.SUBSCRIPTION_QUEUE_MAXSIZE
    None             \* no notification in hand

ASSUME NotificationsAssumption ==
    /\ WithClientState \subseteq Subs
    /\ QueueMaxSize \in Nat \ {0}
    /\ None \notin Subs \X Changes

\* new_record: of its fields, those that tell two records apart, the subscription
\* (its id, url and client state) and the change (its type and the object's id).
Records == Subs \X Changes

VARIABLES
    queue,       \* the Queue between the sinks and the processor
    inHand,      \* thread -> the notification its update call is to put
    napping,     \* threads in the sleep after a Full
    attached,    \* subscriptions whose sink has a store
    pending,     \* the processor's LastUpdatedOrderedDict, as a sequence
    due,         \* now - ts >= debounce_delay
    waited,      \* debounce_delay has passed since queue.get was called
    processor,   \* "get", "post" or "dead"
    cursor,      \* the next entry of pending to post
    owed,        \* history: what a sink was told and no POST has reported since
    earlier      \* history: <<a, b>> when the last a taken is before the last b

processorVars == <<pending, due, waited, processor, cursor, earlier>>
vars == <<queue, inHand, napping, attached, processorVars, owed>>

Entries(s) == {s[i] : i \in DOMAIN s}

TypeOK ==
    /\ queue \in Seq(Records)
    /\ Len(queue) <= QueueMaxSize
    /\ inHand \in [Threads -> Records \cup {None}]
    /\ napping \subseteq {t \in Threads : inHand[t] # None}
    /\ attached \subseteq Subs
    /\ pending \in Seq(Records)
    /\ due \in BOOLEAN
    /\ waited \in BOOLEAN
    /\ processor \in {"get", "post", "dead"}
    /\ cursor \in 1 .. Len(pending) + 1
    /\ owed \subseteq Records
    /\ earlier \subseteq Records \X Records

Init ==
    /\ queue = <<>>
    /\ inHand = [t \in Threads |-> None]
    /\ napping = {}
    /\ attached = Subs
    /\ pending = <<>>
    /\ due = FALSE
    /\ waited = FALSE
    /\ processor = "get"
    /\ cursor = 1
    /\ owed = {}
    /\ earlier = {}

-----------------------------------------------------------------------------
(* SubscriptionSink                                                        *)

\* update: if self.store is not None
Update(t, r) ==
    /\ inHand[t] = None
    /\ r[1] \in attached
    /\ inHand' = [inHand EXCEPT ![t] = r]
    /\ owed' = owed \cup {r}
    /\ UNCHANGED <<queue, napping, attached, processorVars>>

HasRoomSlip == Len(queue) <= QueueMaxSize

HasRoom == Len(queue) < QueueMaxSize

\* The put succeeds and the call returns.
Put(t) ==
    /\ inHand[t] # None
    /\ t \notin napping
    /\ HasRoom
    /\ queue' = Append(queue, inHand[t])
    /\ inHand' = [inHand EXCEPT ![t] = None]
    /\ UNCHANGED <<napping, attached, processorVars, owed>>

PutFullSlip(t) ==
    /\ inHand[t] # None
    /\ t \notin napping
    /\ ~HasRoom
    /\ inHand' = [inHand EXCEPT ![t] = None]
    /\ UNCHANGED <<queue, napping, attached, processorVars, owed>>

\* The put times out with Full; it is tried again after a second.
PutFull(t) ==
    /\ inHand[t] # None
    /\ t \notin napping
    /\ ~HasRoom
    /\ napping' = napping \cup {t}
    /\ UNCHANGED <<queue, inHand, attached, processorVars, owed>>

Wake(t) ==
    /\ t \in napping
    /\ napping' = napping \ {t}
    /\ UNCHANGED <<queue, inHand, attached, processorVars, owed>>

\* unsubscribe: later updates of this sink do nothing, the ones under way go on.
Unsubscribe(s) ==
    /\ s \in attached
    /\ attached' = attached \ {s}
    /\ UNCHANGED <<queue, inHand, napping, processorVars, owed>>

-----------------------------------------------------------------------------
(* SubscriptionProcessor.run                                               *)

LastUpdatedSlip(s, r) ==
    IF r \in Entries(s) THEN s ELSE Append(s, r)

Place(s, r) == CHOOSE i \in DOMAIN s : s[i] = r

\* LastUpdatedOrderedDict: a key that is there is deleted, and set at the end.
LastUpdated(s, r) ==
    Append(IF r \in Entries(s) THEN RemoveAt(s, Place(s, r)) ELSE s, r)

EarlierWith(r) ==
    {p \in earlier : p[1] # r /\ p[2] # r}
        \cup {<<a, r>> : a \in Entries(pending) \ {r}}

GetSlip ==
    /\ processor = "get"
    /\ queue # <<>>
    /\ queue' = Tail(queue)
    /\ LET r == Head(queue)
       IN IF r[1] \notin WithClientState
          THEN /\ processor' = "dead"
               /\ UNCHANGED <<pending, due, waited, cursor, earlier>>
          ELSE /\ pending' = LastUpdated(pending, r)
               /\ earlier' = EarlierWith(r)
               /\ due' = FALSE
               /\ waited' = FALSE
               /\ UNCHANGED <<processor, cursor>>
    /\ UNCHANGED <<inHand, napping, attached, owed>>

\* queue.get returns a notification. new_record raises a KeyError when the
\* subscription has no clientState, which nothing catches. The first entry of
\* a batch starts the delay; one that finds it over ends the batch.
Get ==
    /\ processor = "get"
    /\ queue # <<>>
    /\ queue' = Tail(queue)
    /\ LET r == Head(queue)
       IN IF r[1] \notin WithClientState
          THEN /\ processor' = "dead"
               /\ UNCHANGED <<pending, due, waited, cursor, earlier>>
          ELSE /\ pending' = LastUpdated(pending, r)
               /\ earlier' = EarlierWith(r)
               /\ due' = (due /\ pending # <<>>)
               /\ waited' = FALSE
               /\ processor' = IF due /\ pending # <<>> THEN "post" ELSE "get"
               /\ UNCHANGED cursor
    /\ UNCHANGED <<inHand, napping, attached, owed>>

\* queue.get raises Empty; it has a timeout only when something is pending.
GetEmpty ==
    /\ processor = "get"
    /\ queue = <<>>
    /\ pending # <<>>
    /\ waited
    /\ processor' = "post"
    /\ UNCHANGED <<queue, inHand, napping, attached, pending, due, waited,
                   cursor, owed, earlier>>

\* The entry of the batch whose turn it is.
Posting(r) ==
    /\ processor = "post"
    /\ cursor <= Len(pending)
    /\ pending[cursor] = r

\* What a thread or the queue holds was told after the batch was collected.
ToldAgain(r) == r \in Entries(queue) \/ \E t \in Threads : inHand[t] = r

\* One POST of the batch; its failure is logged and it is not tried again.
Post ==
    \E r \in Records :
        /\ Posting(r)
        /\ cursor' = cursor + 1
        /\ owed' = IF ToldAgain(r) THEN owed ELSE owed \ {r}
        /\ UNCHANGED <<queue, inHand, napping, attached, pending, due, waited,
                       processor, earlier>>

\* pending.clear(), ts = time.monotonic()
EndBatch ==
    /\ processor = "post"
    /\ cursor > Len(pending)
    /\ pending' = <<>>
    /\ earlier' = {}
    /\ due' = FALSE
    /\ waited' = FALSE
    /\ cursor' = 1
    /\ processor' = "get"
    /\ UNCHANGED <<queue, inHand, napping, attached, owed>>

\* The clock: a delay since the batch began, or since queue.get was called.
BecomeDue ==
    /\ processor = "get" /\ pending # <<>> /\ ~due
    /\ due' = TRUE
    /\ UNCHANGED <<queue, inHand, napping, attached, pending, waited,
                   processor, cursor, owed, earlier>>

WaitLong ==
    /\ processor = "get" /\ pending # <<>> /\ ~waited
    /\ due' = TRUE
    /\ waited' = TRUE
    /\ UNCHANGED <<queue, inHand, napping, attached, pending, processor,
                   cursor, owed, earlier>>

Processor == Get \/ GetEmpty \/ Post \/ EndBatch
Clock == BecomeDue \/ WaitLong
Sink(t) == Put(t) \/ PutFull(t) \/ Wake(t)

Next ==
    \/ Processor
    \/ Clock
    \/ \E t \in Threads : Sink(t) \/ \E r \in Records : Update(t, r)
    \/ \E s \in Subs : Unsubscribe(s)

Spec == Init /\ [][Next]_vars

\* All threads run and time passes. A put that waits for room competes with
\* those of the other threads, and is tried again every few seconds: it does
\* not lose for ever, nor is it always asleep, when room appears again and
\* again (strong fairness).
Fairness ==
    /\ WF_vars(Processor)
    /\ WF_vars(WaitLong)
    /\ \A t \in Threads : /\ WF_vars(Sink(t))
                          /\ SF_vars(Put(t))
                          /\ SF_vars(Wake(t) /\ HasRoom)
FairSpec == Spec /\ Fairness

-----------------------------------------------------------------------------
(* Properties                                                              *)

\* Nothing is lost on the way: what a sink was told and no POST has reported
\* since is with a thread, on the queue, or still to be posted in this batch.
NothingLost ==
    \A r \in owed :
        \/ \E t \in Threads : inHand[t] = r
        \/ r \in Entries(queue)
        \/ processor # "dead" /\ \E i \in cursor .. Len(pending) : pending[i] = r

\* A batch names every record once, in the order of the last notifications:
\* a webhook that is told of two changes is told of the newer one last.
BatchInOrder ==
    \A i, j \in DOMAIN pending :
        i < j => /\ pending[i] # pending[j]
                 /\ <<pending[i], pending[j]>> \in earlier

\* Everything a sink is told is posted, however many notifications keep coming:
\* neither a full queue nor the debounce delay can put it off for ever.
EverythingIsPosted == \A r \in Records : r \in owed ~> Posting(r)

=============================================================================
