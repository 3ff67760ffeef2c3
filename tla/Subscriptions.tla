--------------------------- MODULE Subscriptions ---------------------------
(***************************************************************************)
(* The webhook subscriptions of one notify worker of the kopano backend    *)
(* (grapi/backend/kopano/subscription.py).                                 *)
(*                                                                         *)
(* Two threads share the dict RECORDS, the Record objects in it and the    *)
(* sinks the records hold:                                                 *)
(*                                                                         *)
(*   - the request thread. The worker's WSGI server answers one request    *)
(*     at a time, so one control record, req, is enough. Every request     *)
(*     first runs _record, which finds the caller's Record, drops it when  *)
(*     its server connection fails, and connects when there is none.       *)
(*   - the SubscriptionPurger, which wakes up periodically, removes what   *)
(*     has expired and then the records left without subscriptions.       *)
(*                                                                         *)
(* thread_lock is held by the request thread while req.pc = "clear" and    *)
(* by the purger while purger.pc = "purge"; the other locked sections are  *)
(* one step each. The purger's loop over RECORDS does not take it.         *)
(*                                                                         *)
(* The definitions before the ones they resemble, with a name ending in    *)
(* ...Slip, are the plausible mistakes PROJECT.json lists as mutants.      *)
(***************************************************************************)
EXTENDS Naturals, Integers, FiniteSets

CONSTANTS
    Users,           \* the userids that authenticate
    Subs,            \* subscription ids; RequestId makes a fresh one per POST
    MaxRecords,      \* bound: Record objects ever made, also on RECORD_INDEX
    InternalRetry,   \* config.SUBSCRIPTION_INTERNAL_RETRY
    Dates,           \* the expirationDateTime values that clients send
    None             \* Python's None, for a local that is not bound yet

ASSUME UsersAssumption == IsFiniteSet(Users) /\ None \notin Users
ASSUME MaxRecordsAssumption == MaxRecords \in Nat \ {0}
ASSUME InternalRetryAssumption == InternalRetry \in Nat \ {0}
\* "naive" is a value the schemas let through although the purger cannot
\* compare it with its own, time zone aware, clock.
ASSUME DatesAssumption ==
    /\ Dates \subseteq {"future", "past", "naive"}
    /\ None \notin {"future", "past", "naive"}

VARIABLES
    RECORDS,         \* the dict: key -> Record, or NoRecord for an absent key
    RECORD_INDEX,
    made,            \* Record objects made so far are 1 .. made
    connected,       \* Records whose server, user and store are not None
    subscriptions,   \* Record -> ids in its subscriptions dict
    owner,           \* id -> userid stored in the subscription's tuple
    date,            \* id -> how its expirationDateTime relates to now
    expired,         \* ids whose sink has expired = True
    detached,        \* ids whose sink has store = None
    registered,      \* external: ids whose sink the kopano server notifies
    SUBSCR_ACTIVE,   \* the gauge of active subscriptions
    req,             \* the request thread
    purger,          \* the SubscriptionPurger thread
    issued,          \* ids that a POST has been given
    acknowledged,    \* history: ids whose POST was answered with 201
    lapsed           \* history: ids whose date was ever not in the future

data == <<subscriptions, owner, date, expired, detached, registered>>
vars == <<RECORDS, RECORD_INDEX, made, connected, data, SUBSCR_ACTIVE,
          req, purger, issued, acknowledged, lapsed>>

NoRecord == 0
Recs == 1 .. MaxRecords

\* The key userid is Live(userid); '{userid}_dangle_{n}' is <<userid, n>>.
Live(u) == <<u, 0>>
Keys == Users \X (0 .. MaxRecords)
Held == {k \in Keys : RECORDS[k] # NoRecord}

Ops == {"post", "patch", "delete", "read"}
FirstStep == [post |-> "webhook", patch |-> "find", delete |-> "take",
              read |-> "read"]
Locals == {"lookup", "check", "pop", "clear", "unsubscribe", "connect",
           "webhook", "subscribe", "store", "answer",
           "find", "date", "unflag", "take", "release", "read"}

Idle == [pc |-> "idle"]
Requests == [pc : Locals, op : Ops, user : Users, sub : Subs,
             rec : Recs \cup {NoRecord}, left : SUBSET Subs,
             tries : 1 .. InternalRetry, store : Recs \cup {NoRecord}]

Waiting == [pc |-> "wait"]
Dead == [pc |-> "dead"]
\* The purger's steps on one record, and on one subscription of it.
Handling == {"mark", "delete", "unsubscribe"}
Visiting == {"scan", "clean"} \cup Handling
Rounds == [pc : {"next", "acquire", "purge"} \cup Visiting,
           size : Nat, seen : SUBSET (Keys \X Recs),
           key : Keys \cup {None}, rec : Recs \cup {NoRecord},
           left : SUBSET Subs, sub : Subs \cup {None},
           expired : SUBSET Subs, purge : SUBSET (Keys \X Recs)]

RequestHoldsLock == req.pc = "clear"
PurgerHoldsLock == purger.pc = "purge"

Init ==
    /\ RECORDS = [k \in Keys |-> NoRecord]
    /\ RECORD_INDEX = 0
    /\ made = 0
    /\ connected = {}
    /\ subscriptions = [r \in Recs |-> {}]
    /\ owner = [s \in Subs |-> None]
    /\ date = [s \in Subs |-> None]
    /\ expired = {}
    /\ detached = {}
    /\ registered = {}
    /\ SUBSCR_ACTIVE = 0
    /\ req = Idle
    /\ purger = Waiting
    /\ issued = {}
    /\ acknowledged = {}
    /\ lapsed = {}

-----------------------------------------------------------------------------
(* The request thread: the parts every handler shares                      *)

At(pc) == req.pc = pc
GoTo(pc) == req' = [req EXCEPT !.pc = pc]

\* The handler returns, or an exception turns into an error response.
Finish == req' = Idle

ServerErrorSlip ==
    \/ Finish
    \/ /\ req.op = "post"
       /\ req.tries <= InternalRetry
       /\ req' = [req EXCEPT !.pc = "lookup", !.rec = NoRecord, !.left = {},
                             !.tries = req.tries + 1]

ServerErrorForeverSlip ==
    \/ Finish
    \/ /\ req.op = "post"
       /\ req' = [req EXCEPT !.pc = "lookup", !.rec = NoRecord, !.left = {}]

\* The kopano server makes a call fail. on_post retries MAPIErrorNoSupport
\* up to InternalRetry times; anything else ends the request.
ServerError ==
    \/ Finish
    \/ /\ req.op = "post"
       /\ req.tries < InternalRetry
       /\ req' = [req EXCEPT !.pc = "lookup", !.rec = NoRecord, !.left = {},
                             !.tries = req.tries + 1]

Receive(op, u, s) ==
    /\ At("idle")
    /\ req' = [pc |-> "lookup", op |-> op, user |-> u, sub |-> s,
               rec |-> NoRecord, left |-> {}, tries |-> 1, store |-> NoRecord]

\* A POST gets a fresh id and its expirationDateTime; the other handlers get
\* an id, or one to ignore, from the client.
ReceivePost(u, s, d) ==
    /\ s \notin issued
    /\ Receive("post", u, s)
    /\ issued' = issued \cup {s}
    /\ date' = [date EXCEPT ![s] = d]
    /\ lapsed' = IF d = "future" THEN lapsed ELSE lapsed \cup {s}
    /\ UNCHANGED <<RECORDS, RECORD_INDEX, made, connected, subscriptions,
                   owner, expired, detached, registered, SUBSCR_ACTIVE,
                   purger, acknowledged>>

ReceiveOther(op, u, s) ==
    /\ op # "post"
    /\ s \in issued
    /\ Receive(op, u, s)
    /\ UNCHANGED <<RECORDS, RECORD_INDEX, made, connected, data,
                   SUBSCR_ACTIVE, purger, issued, acknowledged, lapsed>>

-----------------------------------------------------------------------------
(* _record: find, drop or make the Record of the authenticated user        *)

LookupSlip ==
    /\ At("lookup")
    /\ ~PurgerHoldsLock
    /\ \E k \in Keys :
        /\ Held = {} \/ k \in Held
        /\ req' = [req EXCEPT !.rec = RECORDS[k],
                              !.pc = IF Held = {} THEN "connect" ELSE "check"]
    /\ UNCHANGED <<RECORDS, RECORD_INDEX, made, connected, data,
                   SUBSCR_ACTIVE, purger, issued, acknowledged, lapsed>>

\* with thread_lock: record = RECORDS.get(auth_userid)
Lookup ==
    /\ At("lookup")
    /\ ~PurgerHoldsLock
    /\ LET r == RECORDS[Live(req.user)] IN
       req' = [req EXCEPT !.rec = r,
                          !.pc = IF r = NoRecord THEN "connect" ELSE "check"]
    /\ UNCHANGED <<RECORDS, RECORD_INDEX, made, connected, data,
                   SUBSCR_ACTIVE, purger, issued, acknowledged, lapsed>>

\* record.server.user(...) fails when the connection does, and also when the
\* purger has meanwhile set record.server to None.
CheckConnection ==
    /\ At("check")
    /\ \/ /\ req.rec \in connected
          /\ GoTo(FirstStep[req.op])
       \/ GoTo("pop")
    /\ UNCHANGED <<RECORDS, RECORD_INDEX, made, connected, data,
                   SUBSCR_ACTIVE, purger, issued, acknowledged, lapsed>>

\* Takes thread_lock, pops the record and copies its subscriptions.
PopRecord ==
    /\ At("pop")
    /\ ~PurgerHoldsLock
    /\ LET key == Live(req.user)
           old == RECORDS[key]
       IN IF old = NoRecord
          THEN /\ GoTo("connect")
               /\ UNCHANGED RECORDS
          ELSE /\ RECORDS' = [RECORDS EXCEPT ![key] = NoRecord]
               /\ req' = [req EXCEPT !.pc = "clear", !.rec = old,
                                     !.left = subscriptions[old]]
    /\ UNCHANGED <<RECORD_INDEX, made, connected, data, SUBSCR_ACTIVE,
                   purger, issued, acknowledged, lapsed>>

DangleRecordSlip ==
    /\ At("clear")
    /\ RECORD_INDEX' = RECORD_INDEX + 1
    /\ RECORDS' = [RECORDS EXCEPT ![<<req.user, RECORD_INDEX + 1>>] = req.rec]
    /\ GoTo("unsubscribe")
    /\ UNCHANGED <<made, connected, data, SUBSCR_ACTIVE, purger, issued,
                   acknowledged, lapsed>>

\* Clears the old record's subscriptions, keeps it under a dangle key for the
\* purger, and releases thread_lock.
DangleRecord ==
    /\ At("clear")
    /\ subscriptions' = [subscriptions EXCEPT ![req.rec] = {}]
    /\ RECORD_INDEX' = RECORD_INDEX + 1
    /\ RECORDS' = [RECORDS EXCEPT ![<<req.user, RECORD_INDEX + 1>>] = req.rec]
    /\ GoTo("unsubscribe")
    /\ UNCHANGED <<made, connected, owner, date, expired, detached,
                   registered, SUBSCR_ACTIVE, purger, issued, acknowledged,
                   lapsed>>

\* sink.unsubscribe(): store.unsubscribe(sink), then store = None; the caller
\* decrements the gauge. One step, as no property speaks of the gauge, which two
\* threads between the two halves would decrement twice.
Unsubscribe(s) ==
    /\ s \notin detached
    /\ registered' = registered \ {s}
    /\ detached' = detached \cup {s}
    /\ SUBSCR_ACTIVE' = SUBSCR_ACTIVE - 1

\* One turn of the loop over old_subscriptions. An exception, of the server
\* or because the sink's store is None already, leaves the loop and with it
\* the sinks that were still to come.
DropSink(s) ==
    /\ At("unsubscribe")
    /\ s \in req.left
    /\ \/ /\ Unsubscribe(s)
          /\ req' = [req EXCEPT !.left = @ \ {s}]
       \/ /\ IF s \in detached THEN Finish ELSE ServerError
          /\ UNCHANGED <<registered, detached, SUBSCR_ACTIVE>>
    /\ UNCHANGED <<RECORDS, RECORD_INDEX, made, connected, subscriptions,
                   owner, date, expired, purger, issued, acknowledged, lapsed>>

DropDone ==
    /\ At("unsubscribe")
    /\ req.left = {}
    /\ GoTo("connect")
    /\ UNCHANGED <<RECORDS, RECORD_INDEX, made, connected, data,
                   SUBSCR_ACTIVE, purger, issued, acknowledged, lapsed>>

\* Connects to the server, then takes thread_lock and stores the new Record.
Connect ==
    /\ At("connect")
    /\ \/ /\ ServerError
          /\ UNCHANGED <<RECORDS, made, connected>>
       \/ /\ made < MaxRecords
          /\ ~PurgerHoldsLock
          /\ made' = made + 1
          /\ connected' = connected \cup {made + 1}
          /\ RECORDS' = [RECORDS EXCEPT ![Live(req.user)] = made + 1]
          /\ req' = [req EXCEPT !.rec = made + 1, !.pc = FirstStep[req.op]]
    /\ UNCHANGED <<RECORD_INDEX, data, SUBSCR_ACTIVE, purger, issued,
                   acknowledged, lapsed>>

-----------------------------------------------------------------------------
(* on_post and _add_subscription                                           *)

\* _clean_notification_url and _validate_webhook; both are called with
\* record.server.auth_user, an AttributeError when record.server is None.
ValidateWebhook ==
    /\ At("webhook")
    /\ \/ /\ req.rec \in connected
          /\ GoTo("subscribe")
       \/ Finish
    /\ UNCHANGED <<RECORDS, RECORD_INDEX, made, connected, data,
                   SUBSCR_ACTIVE, purger, issued, acknowledged, lapsed>>

\* _subscription_object, the new SubscriptionSink and folder.subscribe.
Subscribe ==
    /\ At("subscribe")
    /\ \/ /\ req.rec \in connected
          /\ registered' = registered \cup {req.sub}
          /\ GoTo("store")
       \/ /\ IF req.rec \in connected THEN ServerError ELSE Finish
          /\ UNCHANGED registered
    /\ UNCHANGED <<RECORDS, RECORD_INDEX, made, connected, subscriptions,
                   owner, date, expired, detached, SUBSCR_ACTIVE, purger,
                   issued, acknowledged, lapsed>>

\* record.subscriptions[id] = (json_data, sink, record.user.userid), which is
\* an AttributeError when record.user is None.
StoreSubscription ==
    /\ At("store")
    /\ IF req.rec \in connected
       THEN /\ subscriptions' = [subscriptions EXCEPT ![req.rec] =
                                     @ \cup {req.sub}]
            /\ owner' = [owner EXCEPT ![req.sub] = req.user]
            /\ GoTo("answer")
       ELSE /\ Finish
            /\ UNCHANGED <<subscriptions, owner>>
    /\ UNCHANGED <<RECORDS, RECORD_INDEX, made, connected, date, expired,
                   detached, registered, SUBSCR_ACTIVE, purger, issued,
                   acknowledged, lapsed>>

AnswerPostSlip ==
    /\ At("answer")
    /\ IF req.rec \in connected
       THEN /\ SUBSCR_ACTIVE' = SUBSCR_ACTIVE + 1
            /\ acknowledged' = acknowledged \cup {req.sub}
            /\ Finish
       ELSE /\ ServerError
            /\ UNCHANGED <<SUBSCR_ACTIVE, acknowledged>>
    /\ UNCHANGED <<RECORDS, RECORD_INDEX, made, connected, data, purger,
                   issued, lapsed>>

\* The debug message reads record.server.auth_user once more; then 201.
AnswerPost ==
    /\ At("answer")
    /\ IF req.rec \in connected
       THEN /\ SUBSCR_ACTIVE' = SUBSCR_ACTIVE + 1
            /\ acknowledged' = acknowledged \cup {req.sub}
       ELSE UNCHANGED <<SUBSCR_ACTIVE, acknowledged>>
    /\ Finish
    /\ UNCHANGED <<RECORDS, RECORD_INDEX, made, connected, data, purger,
                   issued, lapsed>>

-----------------------------------------------------------------------------
(* on_patch_subscriptions_by_id                                            *)

\* subscription, sink, _ = record.subscriptions[subscriptionid], or 404
FindSubscription ==
    /\ At("find")
    /\ IF req.sub \in subscriptions[req.rec] THEN GoTo("date") ELSE Finish
    /\ UNCHANGED <<RECORDS, RECORD_INDEX, made, connected, data,
                   SUBSCR_ACTIVE, purger, issued, acknowledged, lapsed>>

\* subscription['expirationDateTime'] = v
SetDate(d) ==
    /\ At("date")
    /\ date' = [date EXCEPT ![req.sub] = d]
    /\ lapsed' = IF d = "future" THEN lapsed ELSE lapsed \cup {req.sub}
    /\ GoTo("unflag")
    /\ UNCHANGED <<RECORDS, RECORD_INDEX, made, connected, subscriptions,
                   owner, expired, detached, registered, SUBSCR_ACTIVE,
                   purger, issued, acknowledged>>

\* 400 when v cannot be parsed; an empty v is passed over.
KeepDate ==
    /\ At("date")
    /\ Finish \/ GoTo("unflag")
    /\ UNCHANGED <<RECORDS, RECORD_INDEX, made, connected, data,
                   SUBSCR_ACTIVE, purger, issued, acknowledged, lapsed>>

\* if sink.expired: sink.expired = False; then 200
UnflagSink ==
    /\ At("unflag")
    /\ expired' = expired \ {req.sub}
    /\ Finish
    /\ UNCHANGED <<RECORDS, RECORD_INDEX, made, connected, subscriptions,
                   owner, date, detached, registered, SUBSCR_ACTIVE, purger,
                   issued, acknowledged, lapsed>>

-----------------------------------------------------------------------------
(* on_delete_subscriptions_by_id, on_get and on_get_subscriptions_by_id    *)

\* record.store, which stands for its Record here
StoreOf(r) == IF r \in connected THEN r ELSE NoRecord

TakeSubscriptionSlip ==
    /\ At("take")
    /\ IF req.sub \in subscriptions[req.rec]
       THEN req' = [req EXCEPT !.pc = "release",
                              !.store = StoreOf(req.rec)]
       ELSE Finish
    /\ UNCHANGED <<RECORDS, RECORD_INDEX, made, connected, data,
                   SUBSCR_ACTIVE, purger, issued, acknowledged, lapsed>>

\* Reads record.store and pops the subscription, or 404.
TakeSubscription ==
    /\ At("take")
    /\ IF req.sub \in subscriptions[req.rec]
       THEN /\ subscriptions' = [subscriptions EXCEPT ![req.rec] =
                                     @ \ {req.sub}]
            /\ req' = [req EXCEPT !.pc = "release",
                                  !.store = StoreOf(req.rec)]
       ELSE /\ Finish
            /\ UNCHANGED subscriptions
    /\ UNCHANGED <<RECORDS, RECORD_INDEX, made, connected, owner, date,
                   expired, detached, registered, SUBSCR_ACTIVE, purger,
                   issued, acknowledged, lapsed>>

\* store.unsubscribe(sink), an error when the store that was read is None.
\* sink.store stays set.
ReleaseSink ==
    /\ At("release")
    /\ \/ /\ req.store # NoRecord
          /\ registered' = registered \ {req.sub}
          /\ SUBSCR_ACTIVE' = SUBSCR_ACTIVE - 1
       \/ UNCHANGED <<registered, SUBSCR_ACTIVE>>
    /\ Finish
    /\ UNCHANGED <<RECORDS, RECORD_INDEX, made, connected, subscriptions,
                   owner, date, expired, detached, purger, issued,
                   acknowledged, lapsed>>

Read ==
    /\ At("read")
    /\ Finish
    /\ UNCHANGED <<RECORDS, RECORD_INDEX, made, connected, data,
                   SUBSCR_ACTIVE, purger, issued, acknowledged, lapsed>>

-----------------------------------------------------------------------------
(* SubscriptionPurger.run                                                  *)

PurgerAt(pc) == purger.pc = pc
PurgerGoTo(pc) == purger' = [purger EXCEPT !.pc = pc]
PurgerDies == purger' = Dead

requestVars == <<RECORD_INDEX, made, owner, date, req, issued,
                 acknowledged, lapsed>>

\* exit.wait(...) times out and the loop over RECORDS.items() starts.
PurgerWake ==
    /\ PurgerAt("wait")
    /\ purger' = [pc |-> "next", size |-> Cardinality(Held), seen |-> {},
                  key |-> None, rec |-> NoRecord, left |-> {}, sub |-> None,
                  expired |-> {}, purge |-> {}]
    /\ UNCHANGED <<requestVars, RECORDS, connected, subscriptions, expired,
                   detached, registered, SUBSCR_ACTIVE>>

\* The next entry of RECORDS, and the list of its record's subscriptions. The
\* dict may not have changed its size since the loop began, and newer
\* interpreters also notice more entries than there were. An entry that is
\* moved to another key is one more entry.
PurgerNext ==
    /\ PurgerAt("next")
    /\ LET unseen == {k \in Held : <<k, RECORDS[k]>> \notin purger.seen}
       IN IF Cardinality(Held) # purger.size
          THEN PurgerDies
          ELSE \/ \E k \in unseen :
                    purger' = [purger EXCEPT
                                 !.pc = "scan", !.key = k, !.rec = RECORDS[k],
                                 !.seen = @ \cup {<<k, RECORDS[k]>>},
                                 !.left = subscriptions[RECORDS[k]]]
               \/ /\ unseen # {}
                  /\ Cardinality(purger.seen) = purger.size
                  /\ PurgerDies
               \/ /\ unseen = {}
                  /\ purger' = [purger EXCEPT !.pc = "acquire", !.size = 0,
                                              !.seen = {}]
    /\ UNCHANGED <<requestVars, RECORDS, connected, subscriptions, expired,
                   detached, registered, SUBSCR_ACTIVE>>

IsPastSlip(s) == date[s] # "naive"

\* expirationDateTime <= now
IsPast(s) == date[s] = "past"

\* Reads the expirationDateTime of one subscription and compares it with now,
\* a TypeError for a naive one.
PurgerScan ==
    /\ PurgerAt("scan")
    /\ IF purger.left = {}
       THEN purger' = [purger EXCEPT !.pc = "clean", !.left = purger.expired]
       ELSE \E s \in purger.left :
            \/ /\ date[s] = "naive"
               /\ PurgerDies
            \/ /\ date[s] # "naive"
               /\ IsPast(s)
               /\ purger' = [purger EXCEPT !.pc = "mark", !.sub = s,
                                           !.left = @ \ {s},
                                           !.expired = @ \cup {s}]
            \/ /\ date[s] # "naive"
               /\ ~IsPast(s)
               /\ purger' = [purger EXCEPT !.left = @ \ {s}]
    /\ UNCHANGED <<requestVars, RECORDS, connected, subscriptions, expired,
                   detached, registered, SUBSCR_ACTIVE>>

PurgerMarkSlip ==
    /\ PurgerAt("mark")
    /\ purger' = [purger EXCEPT !.pc = "scan", !.sub = None]
    /\ UNCHANGED <<requestVars, RECORDS, connected, data, SUBSCR_ACTIVE>>

\* sink.expired = True
PurgerMark ==
    /\ PurgerAt("mark")
    /\ expired' = expired \cup {purger.sub}
    /\ purger' = [purger EXCEPT !.pc = "scan", !.sub = None]
    /\ UNCHANGED <<requestVars, RECORDS, connected, subscriptions, detached,
                   registered, SUBSCR_ACTIVE>>

\* if sink.expired, for one entry of the dict expired, which is kept from
\* record to record.
PurgerCheck ==
    /\ PurgerAt("clean")
    /\ \E s \in purger.left :
        IF s \in expired
        THEN purger' = [purger EXCEPT !.pc = "delete", !.sub = s,
                                     !.left = @ \ {s}]
        ELSE purger' = [purger EXCEPT !.left = @ \ {s}]
    /\ UNCHANGED <<requestVars, RECORDS, connected, subscriptions, expired,
                   detached, registered, SUBSCR_ACTIVE>>

\* len(subscriptions) == 0
ToPurge == subscriptions[purger.rec] = {}

\* After the last entry: whether the record goes on the list purge.
PurgerJudge ==
    /\ PurgerAt("clean")
    /\ purger.left = {}
    /\ purger' = [purger EXCEPT
                     !.pc = "next", !.key = None, !.rec = NoRecord,
                     !.purge = IF ToPurge
                               THEN @ \cup {<<purger.key, purger.rec>>} ELSE @]
    /\ UNCHANGED <<requestVars, RECORDS, connected, subscriptions, expired,
                   detached, registered, SUBSCR_ACTIVE>>

\* del subscriptions[subscriptionid], or on to the next on a KeyError
PurgerDelete ==
    /\ PurgerAt("delete")
    /\ IF purger.sub \in subscriptions[purger.rec]
       THEN /\ subscriptions' = [subscriptions EXCEPT ![purger.rec] =
                                     @ \ {purger.sub}]
            /\ PurgerGoTo("unsubscribe")
       ELSE /\ purger' = [purger EXCEPT !.pc = "clean", !.sub = None]
            /\ UNCHANGED subscriptions
    /\ UNCHANGED <<requestVars, RECORDS, connected, expired, detached,
                   registered, SUBSCR_ACTIVE>>

\* sink.unsubscribe(); an exception is logged.
PurgerUnsubscribe ==
    /\ PurgerAt("unsubscribe")
    /\ \/ Unsubscribe(purger.sub)
       \/ UNCHANGED <<registered, detached, SUBSCR_ACTIVE>>
    /\ purger' = [purger EXCEPT !.pc = "clean", !.sub = None]
    /\ UNCHANGED <<requestVars, RECORDS, connected, subscriptions, expired>>

PurgerAcquire ==
    /\ PurgerAt("acquire")
    /\ ~RequestHoldsLock
    /\ PurgerGoTo("purge")
    /\ UNCHANGED <<requestVars, RECORDS, connected, subscriptions, expired,
                   detached, registered, SUBSCR_ACTIVE>>

RemainingSlip(k, r) == NoRecord

RemainingKeptSlip(k, r) == RECORDS[k]

\* if currentRecord is record: del RECORDS[auth_username]
Remaining(k, r) == IF RECORDS[k] = r THEN NoRecord ELSE RECORDS[k]

\* One turn of the locked loop over purge: RECORDS[auth_username] is a
\* KeyError when the key is gone; the record is closed in any other case.
PurgerPurge ==
    /\ PurgerAt("purge")
    /\ IF purger.purge = {}
       THEN /\ purger' = Waiting
            /\ UNCHANGED <<RECORDS, connected>>
       ELSE \E entry \in purger.purge :
            LET k == entry[1]
                r == entry[2]
            IN IF RECORDS[k] = NoRecord
               THEN /\ PurgerDies
                    /\ UNCHANGED <<RECORDS, connected>>
               ELSE /\ RECORDS' = [RECORDS EXCEPT ![k] = Remaining(k, r)]
                    /\ connected' = connected \ {r}
                    /\ purger' = [purger EXCEPT !.purge = @ \ {entry}]
    /\ UNCHANGED <<requestVars, subscriptions, expired, detached, registered,
                   SUBSCR_ACTIVE>>

-----------------------------------------------------------------------------
\* Time passes an expirationDateTime.
Lapse(s) ==
    /\ date[s] = "future"
    /\ "past" \in Dates
    /\ date' = [date EXCEPT ![s] = "past"]
    /\ lapsed' = lapsed \cup {s}
    /\ UNCHANGED <<RECORDS, RECORD_INDEX, made, connected, subscriptions,
                   owner, expired, detached, registered, SUBSCR_ACTIVE, req,
                   purger, issued, acknowledged>>

Request ==
    \/ Lookup \/ CheckConnection \/ PopRecord \/ DangleRecord
    \/ \E s \in Subs : DropSink(s)
    \/ DropDone \/ Connect
    \/ ValidateWebhook \/ Subscribe \/ StoreSubscription \/ AnswerPost
    \/ FindSubscription \/ (\E d \in Dates : SetDate(d)) \/ KeepDate
    \/ UnflagSink \/ TakeSubscription \/ ReleaseSink \/ Read

Purger ==
    \/ PurgerWake \/ PurgerNext \/ PurgerScan \/ PurgerMark \/ PurgerCheck
    \/ PurgerDelete \/ PurgerUnsubscribe \/ PurgerJudge
    \/ PurgerAcquire \/ PurgerPurge

Environment ==
    \/ \E u \in Users, s \in Subs, d \in Dates : ReceivePost(u, s, d)
    \/ \E op \in Ops, u \in Users, s \in Subs : ReceiveOther(op, u, s)
    \/ \E s \in Subs : Lapse(s)

Next == Request \/ Purger \/ Environment

Spec == Init /\ [][Next]_vars

\* Both threads run; nobody has to send requests. The request thread may find
\* thread_lock taken again and again, but the purger leaves it free for the
\* whole of its wait, so the request thread gets it: strong fairness.
Fairness == SF_vars(Request) /\ WF_vars(Purger)
FairSpec == Spec /\ Fairness

-----------------------------------------------------------------------------
(* Properties                                                              *)

\* Every variable has its type.
TypeOK ==
    /\ RECORDS \in [Keys -> Recs \cup {NoRecord}]
    /\ RECORD_INDEX \in Nat
    /\ made \in 0 .. MaxRecords
    /\ connected \subseteq Recs
    /\ subscriptions \in [Recs -> SUBSET Subs]
    /\ owner \in [Subs -> Users \cup {None}]
    /\ date \in [Subs -> Dates \cup {None}]
    /\ expired \subseteq Subs
    /\ detached \subseteq Subs
    /\ registered \subseteq Subs
    /\ SUBSCR_ACTIVE \in Int
    /\ req \in {Idle} \cup Requests
    /\ purger \in {Waiting, Dead} \cup Rounds
    /\ purger.pc \in Visiting => purger.key \in Keys /\ purger.rec \in Recs
    /\ purger.pc \in Handling => purger.sub \in Subs
    /\ issued \subseteq Subs
    /\ acknowledged \subseteq Subs
    /\ lapsed \subseteq Subs

\* The ids in the subscriptions dict of any Record, and those in a Record that
\* RECORDS holds.
Listed == UNION {subscriptions[r] : r \in Recs}
Recorded(s) == \E k \in Held : s \in subscriptions[RECORDS[k]]

\* A subscription that a Record lists is one the kopano server notifies,
\* whatever the request thread and the purger are in the middle of: both take
\* it off the dict before they touch the sink.
ListedIsRegistered == Listed \subseteq registered

\* A sink is listed in at most one Record, so at most one thread can take it
\* off and a DELETE that was answered cannot leave a second copy behind.
ListedOnce ==
    \A r1, r2 \in Recs :
        r1 # r2 => subscriptions[r1] \cap subscriptions[r2] = {}

\* A server connection is never forgotten: a Record that is still connected is
\* in RECORDS, where the purger will find it, or the request thread is just
\* moving it to a dangle key.
NoConnectionForgotten ==
    \A r \in connected :
        \/ \E k \in Held : RECORDS[k] = r
        \/ req.pc = "clear" /\ req.rec = r

\* The Record a userid leads to has not been closed by the purger: closing and
\* removal happen under one hold of thread_lock, and a record that a new one
\* replaced is closed without touching the new one.
LiveRecordIsConnected ==
    \A u \in Users :
        RECORDS[Live(u)] # NoRecord => RECORDS[Live(u)] \in connected

\* What a request takes away or changes belongs to the user who sent it.
OnlyOwnersAct ==
    [][\A s \in Subs :
          /\ s \in Listed \ Listed' /\ purger' = purger => owner[s] = req.user
          /\ /\ owner[s] # None
             /\ date'[s] # date[s]
             /\ req' # req
             => owner[s] = req.user]_vars

\* The purger takes away only what had an expirationDateTime that passed.
PurgesOnlyLapsed ==
    [][\A s \in Subs : s \in Listed \ Listed' /\ req' = req => s \in lapsed]_vars

\* Every request is answered: the retries of on_post and the wait for
\* thread_lock come to an end.
RequestsAreAnswered == []<>(req.pc = "idle")

\* A subscription that stays expired is taken off RECORDS, unless the purger
\* thread has died or a PATCH is resetting its flag.
ExpiredArePurgedByLivePurger ==
    \A s \in Subs :
        (Recorded(s) /\ date[s] = "past")
            ~> \/ ~Recorded(s) \/ date[s] # "past"
               \/ purger = Dead
               \/ req.pc = "unflag" /\ req.sub = s

\* Subscriptions implements SubscriptionLifecycle: a subscription has been
\* listed once it has an owner, and is removed when it no longer is listed.
Lifecycle == INSTANCE SubscriptionLifecycle
                 WITH listed <- Listed,
                      removed <- {s \in Subs : owner[s] # None} \ Listed
ImplementsLifecycle == Lifecycle!LifecycleSpec

(* What a comment promises and the code does not keep                      *)

\* "RECORDS hold the named tuple Record values for users which have active
\* subscriptions": an acknowledged subscription that is still listed in its
\* Record is in a Record of RECORDS (or that Record is being moved).
ActiveIsRecorded ==
    req.pc # "clear" => \A s \in acknowledged \cap Listed : Recorded(s)

=============================================================================
