------------------------ MODULE SubscriptionsProofs -------------------------
(***************************************************************************)
(* Proofs about Subscriptions, for every number of users, subscriptions,   *)
(* records and retries.                                                    *)
(*                                                                         *)
(* First its invariants; then its steps: that it implements the            *)
(* SubscriptionLifecycle of every subscription, that a request only acts   *)
(* on what its caller owns, and that the purger only takes away what has   *)
(* lapsed.                                                                 *)
(***************************************************************************)
EXTENDS Subscriptions, FiniteSetTheorems, TLAPS

-----------------------------------------------------------------------------
(* The control records of the two threads                                  *)

LEMMA FirstStepType == \A op \in Ops : FirstStep[op] \in Locals
    BY DEF FirstStep, Ops, Locals

LEMMA Busy ==
    ASSUME req \in {Idle} \cup Requests, NEW pc, At(pc), pc # "idle"
    PROVE  req \in Requests
    BY DEF Idle, At

LEMMA InRound ==
    ASSUME purger \in {Waiting, Dead} \cup Rounds, NEW pc, PurgerAt(pc),
           pc \notin {"wait", "dead"}
    PROVE  purger \in Rounds
    BY DEF Waiting, Dead, PurgerAt

LEMMA GoToType ==
    ASSUME req \in Requests, NEW pc \in Locals, GoTo(pc)
    PROVE  req' \in Requests
    BY DEF Requests, GoTo

LEMMA ServerErrorType ==
    ASSUME req \in Requests, ServerError
    PROVE  req' \in {Idle} \cup Requests
<1>1. CASE Finish
    BY <1>1 DEF Finish
<1>2. CASE /\ req.tries < InternalRetry
           /\ req' = [req EXCEPT !.pc = "lookup", !.rec = NoRecord, !.left = {},
                                 !.tries = req.tries + 1]
    <2>1. req.tries + 1 \in 1 .. InternalRetry
        BY <1>2, InternalRetryAssumption DEF Requests
    <2>2. "lookup" \in Locals
        BY DEF Locals
    <2> QED BY <1>2, <2>1, <2>2 DEF Requests
<1> QED BY <1>1, <1>2 DEF ServerError

LEMMA PurgerGoToType ==
    ASSUME purger \in Rounds, PurgerGoTo("acquire") \/ PurgerGoTo("purge")
                              \/ PurgerGoTo("unsubscribe")
    PROVE  purger' \in Rounds
    BY DEF Rounds, PurgerGoTo, Visiting, Handling

-----------------------------------------------------------------------------
(* Type correctness                                                        *)

LEMMA TypeInit == Init => TypeOK
    BY MaxRecordsAssumption
       DEF Init, TypeOK, Keys, Recs, NoRecord, Idle, Waiting, Visiting, Handling

LEMMA RequestType == TypeOK /\ Request => TypeOK'
<1> SUFFICES ASSUME TypeOK, Request PROVE TypeOK'
    OBVIOUS
<1> USE DEF TypeOK, data, Locals, At
<1> req \in {Idle} \cup Requests
    OBVIOUS
<1>1. CASE Lookup
    <2>1. req \in Requests
        BY <1>1, Busy DEF Lookup
    <2>2. Live(req.user) \in Keys
        BY <2>1, MaxRecordsAssumption DEF Requests, Live, Keys
    <2>3. req' \in Requests
        BY <1>1, <2>1, <2>2 DEF Lookup, Requests
    <2> QED BY <1>1, <2>3 DEF Lookup
<1>2. CASE CheckConnection
    <2>1. req \in Requests
        BY <1>2, Busy DEF CheckConnection
    <2>2. FirstStep[req.op] \in Locals
        BY <2>1, FirstStepType DEF Requests
    <2>3. GoTo(FirstStep[req.op]) \/ GoTo("pop")
        BY <1>2 DEF CheckConnection
    <2>4. req' \in Requests
        BY <2>1, <2>2, <2>3, GoToType
    <2> QED BY <1>2, <2>4 DEF CheckConnection
<1>3. CASE PopRecord
    <2>1. req \in Requests
        BY <1>3, Busy DEF PopRecord
    <2>2. Live(req.user) \in Keys
        BY <2>1, MaxRecordsAssumption DEF Requests, Live, Keys
    <2>3. req' \in Requests
        <3>1. CASE GoTo("connect")
            BY <2>1, <3>1, GoToType
        <3>2. CASE /\ RECORDS[Live(req.user)] # NoRecord
                   /\ req' = [req EXCEPT !.pc = "clear",
                                         !.rec = RECORDS[Live(req.user)],
                                         !.left = subscriptions[RECORDS[Live(req.user)]]]
            <4>1. RECORDS[Live(req.user)] \in Recs
                BY <2>2, <3>2
            <4>2. subscriptions[RECORDS[Live(req.user)]] \in SUBSET Subs
                BY <4>1
            <4> QED BY <2>1, <3>2, <4>1, <4>2 DEF Requests
        <3> QED BY <1>3, <3>1, <3>2 DEF PopRecord
    <2>4. RECORDS' \in [Keys -> Recs \cup {NoRecord}]
        BY <1>3, <2>2 DEF PopRecord
    <2> QED BY <1>3, <2>3, <2>4 DEF PopRecord
<1>4. CASE DangleRecord
    <2>1. req \in Requests
        BY <1>4, Busy DEF DangleRecord
    <2>2. req' \in Requests
        BY <1>4, <2>1, GoToType DEF DangleRecord
    <2>3. subscriptions' \in [Recs -> SUBSET Subs]
        BY <1>4 DEF DangleRecord
    <2>4. RECORDS' \in [Keys -> Recs \cup {NoRecord}]
        BY <1>4, <2>1 DEF DangleRecord, Requests
    <2> QED BY <1>4, <2>2, <2>3, <2>4 DEF DangleRecord
<1>5. ASSUME NEW s \in Subs, DropSink(s) PROVE TypeOK'
    <2>1. req \in Requests
        BY <1>5, Busy DEF DropSink
    <2>2. req' \in {Idle} \cup Requests
        BY <1>5, <2>1, ServerErrorType DEF DropSink, Requests, Finish
    <2>3. detached' \subseteq Subs /\ registered' \subseteq Subs /\ SUBSCR_ACTIVE' \in Int
        BY <1>5 DEF DropSink, Unsubscribe
    <2> QED BY <1>5, <2>2, <2>3 DEF DropSink
<1>6. CASE DropDone
    BY <1>6, Busy, GoToType DEF DropDone
<1>7. CASE Connect
    <2>1. req \in Requests
        BY <1>7, Busy DEF Connect
    <2>2. CASE ServerError /\ UNCHANGED <<RECORDS, made, connected>>
        BY <1>7, <2>1, <2>2, ServerErrorType DEF Connect
    <2>3. CASE ~(ServerError /\ UNCHANGED <<RECORDS, made, connected>>)
        <3>1. made + 1 \in Recs
            BY <1>7, <2>3, MaxRecordsAssumption DEF Connect, Recs
        <3>2. made' \in 0 .. MaxRecords /\ connected' \subseteq Recs
            BY <1>7, <2>3, <3>1, MaxRecordsAssumption DEF Connect, Recs
        <3>3. RECORDS' \in [Keys -> Recs \cup {NoRecord}]
            BY <1>7, <2>3, <3>1 DEF Connect
        <3>4. req' \in Requests
            BY <1>7, <2>1, <2>3, <3>1, FirstStepType DEF Connect, Requests
        <3> QED BY <1>7, <3>2, <3>3, <3>4 DEF Connect
    <2> QED BY <2>2, <2>3
<1>8. CASE ValidateWebhook
    BY <1>8, Busy, GoToType DEF ValidateWebhook, Finish
<1>9. CASE Subscribe
    <2>1. req \in Requests
        BY <1>9, Busy DEF Subscribe
    <2>2. req' \in {Idle} \cup Requests
        BY <1>9, <2>1, GoToType, ServerErrorType DEF Subscribe, Finish
    <2>3. registered' \subseteq Subs
        BY <1>9, <2>1 DEF Subscribe, Requests
    <2> QED BY <1>9, <2>2, <2>3 DEF Subscribe
<1>10. CASE StoreSubscription
    <2>1. req \in Requests
        BY <1>10, Busy DEF StoreSubscription
    <2>2. req' \in {Idle} \cup Requests
        BY <1>10, <2>1, GoToType DEF StoreSubscription, Finish
    <2>3. subscriptions' \in [Recs -> SUBSET Subs]
        <3>1. req.sub \in Subs
            BY <2>1 DEF Requests
        <3> QED BY <1>10, <3>1 DEF StoreSubscription
    <2>4. owner' \in [Subs -> Users \cup {None}]
        BY <1>10, <2>1 DEF StoreSubscription, Requests
    <2> QED BY <1>10, <2>2, <2>3, <2>4 DEF StoreSubscription
<1>11. CASE AnswerPost
    <2>1. req \in Requests
        BY <1>11, Busy DEF AnswerPost
    <2>2. SUBSCR_ACTIVE' \in Int /\ acknowledged' \subseteq Subs
        BY <1>11, <2>1 DEF AnswerPost, Requests
    <2> QED BY <1>11, <2>2 DEF AnswerPost, Finish
<1>12. CASE FindSubscription
    BY <1>12, Busy, GoToType DEF FindSubscription, Finish
<1>13. ASSUME NEW d \in Dates, SetDate(d) PROVE TypeOK'
    <2>1. req \in Requests
        BY <1>13, Busy DEF SetDate
    <2>2. req' \in Requests
        BY <1>13, <2>1, GoToType DEF SetDate
    <2>3. date' \in [Subs -> Dates \cup {None}] /\ lapsed' \subseteq Subs
        BY <1>13, <2>1 DEF SetDate, Requests
    <2> QED BY <1>13, <2>2, <2>3 DEF SetDate
<1>14. CASE KeepDate
    <2>1. req' \in {Idle} \cup Requests
        BY <1>14, Busy, GoToType DEF KeepDate, Finish
    <2> QED BY <1>14, <2>1 DEF KeepDate, Finish
<1>15. CASE UnflagSink
    BY <1>15 DEF UnflagSink, Finish
<1>16. CASE TakeSubscription
    <2>1. req \in Requests
        BY <1>16, Busy DEF TakeSubscription
    <2>2. req.rec \in Recs \cup {NoRecord} /\ StoreOf(req.rec) \in Recs \cup {NoRecord}
        BY <2>1 DEF StoreOf, Requests
    <2>3. req' \in {Idle} \cup Requests
        <3>1. CASE req' = [req EXCEPT !.pc = "release", !.store = StoreOf(req.rec)]
            BY <2>1, <2>2, <3>1 DEF Requests
        <3> QED BY <1>16, <3>1 DEF TakeSubscription, Finish
    <2>4. subscriptions' \in [Recs -> SUBSET Subs]
        BY <1>16 DEF TakeSubscription
    <2> QED BY <1>16, <2>3, <2>4 DEF TakeSubscription
<1>17. CASE ReleaseSink
    BY <1>17 DEF ReleaseSink, Finish
<1>18. CASE Read
    BY <1>18 DEF Read, Finish
<1> QED
    BY <1>1, <1>2, <1>3, <1>4, <1>5, <1>6, <1>7, <1>8, <1>9, <1>10, <1>11,
       <1>12, <1>13, <1>14, <1>15, <1>16, <1>17, <1>18 DEF Request

LEMMA HeldIsFinite == Cardinality(Held) \in Nat
<1>1. IsFiniteSet(0 .. MaxRecords)
    BY MaxRecordsAssumption, FS_Interval
<1>2. IsFiniteSet(Keys)
    BY <1>1, UsersAssumption, FS_Product DEF Keys
<1>3. IsFiniteSet(Held)
    BY <1>2, FS_Subset DEF Held
<1> QED BY <1>3, FS_CardinalityType

LEMMA PurgerType == TypeOK /\ Purger => TypeOK'
<1> SUFFICES ASSUME TypeOK, Purger PROVE TypeOK'
    OBVIOUS
<1> USE DEF TypeOK, requestVars, PurgerAt, Visiting, Handling
<1> purger \in {Waiting, Dead} \cup Rounds
    OBVIOUS
<1>1. CASE PurgerWake
    <2>1. purger' \in Rounds /\ purger'.pc = "next"
        BY <1>1, HeldIsFinite DEF PurgerWake, Rounds, NoRecord
    <2> QED BY <1>1, <2>1 DEF PurgerWake
<1>2. CASE PurgerNext
    <2>1. purger \in Rounds
        BY <1>2, InRound DEF PurgerNext
    <2>2. CASE PurgerDies
        BY <1>2, <2>2 DEF PurgerNext, PurgerDies, Dead
    <2>3. ASSUME NEW k \in Held,
                 purger' = [purger EXCEPT
                              !.pc = "scan", !.key = k, !.rec = RECORDS[k],
                              !.seen = @ \cup {<<k, RECORDS[k]>>},
                              !.left = subscriptions[RECORDS[k]]]
          PROVE  TypeOK'
        <3>1. k \in Keys /\ RECORDS[k] \in Recs
            BY DEF Held
        <3>2. subscriptions[RECORDS[k]] \in SUBSET Subs
            BY <3>1
        <3>3. purger.seen \cup {<<k, RECORDS[k]>>} \in SUBSET (Keys \X Recs)
            BY <2>1, <3>1 DEF Rounds
        <3>4. /\ purger' \in Rounds
              /\ purger'.pc = "scan" /\ purger'.key = k /\ purger'.rec = RECORDS[k]
            BY <2>1, <2>3, <3>1, <3>2, <3>3 DEF Rounds
        <3> QED BY <1>2, <3>1, <3>4 DEF PurgerNext
    <2>4. CASE purger' = [purger EXCEPT !.pc = "acquire", !.size = 0,
                                       !.seen = {}]
        <3>1. purger' \in Rounds /\ purger'.pc = "acquire"
            BY <2>1, <2>4 DEF Rounds
        <3> QED BY <1>2, <3>1 DEF PurgerNext
    <2> QED BY <1>2, <2>2, <2>3, <2>4 DEF PurgerNext
<1>3. CASE PurgerScan
    <2>1. purger \in Rounds
        BY <1>3, InRound DEF PurgerScan
    <2>2. CASE purger.left = {}
        <3>1. purger' = [purger EXCEPT !.pc = "clean", !.left = purger.expired]
            BY <1>3, <2>2 DEF PurgerScan
        <3>2. /\ purger' \in Rounds /\ purger'.pc = "clean"
              /\ UNCHANGED <<purger.key, purger.rec>>
            BY <2>1, <3>1 DEF Rounds
        <3> QED BY <1>3, <3>2 DEF PurgerScan
    <2>3. ASSUME NEW s \in purger.left,
                 purger' = [purger EXCEPT !.pc = "mark", !.sub = s,
                                         !.left = @ \ {s},
                                         !.expired = @ \cup {s}]
          PROVE  TypeOK'
        <3>1. s \in Subs
            BY <2>1 DEF Rounds
        <3>2. /\ purger' \in Rounds
              /\ purger'.pc = "mark" /\ purger'.sub = s
              /\ UNCHANGED <<purger.key, purger.rec>>
            BY <2>1, <2>3, <3>1 DEF Rounds
        <3> QED BY <1>3, <3>1, <3>2 DEF PurgerScan
    <2>4. ASSUME NEW s \in purger.left,
                 purger' = [purger EXCEPT !.left = @ \ {s}]
          PROVE  TypeOK'
        <3>1. /\ purger' \in Rounds
              /\ UNCHANGED <<purger.pc, purger.key, purger.rec, purger.sub>>
            BY <2>1, <2>4 DEF Rounds
        <3> QED BY <1>3, <3>1 DEF PurgerScan
    <2>5. CASE PurgerDies
        BY <1>3, <2>5 DEF PurgerScan, PurgerDies, Dead
    <2> QED BY <1>3, <2>2, <2>3, <2>4, <2>5 DEF PurgerScan
<1>4. CASE PurgerMark
    <2>1. purger \in Rounds
        BY <1>4, InRound DEF PurgerMark
    <2>2. /\ purger' \in Rounds /\ purger'.pc = "scan"
          /\ UNCHANGED <<purger.key, purger.rec>>
        BY <1>4, <2>1 DEF PurgerMark, Rounds
    <2>3. expired' \subseteq Subs
        BY <1>4 DEF PurgerMark
    <2> QED BY <1>4, <2>2, <2>3 DEF PurgerMark
<1>5. CASE PurgerCheck
    <2>1. purger \in Rounds
        BY <1>5, InRound DEF PurgerCheck
    <2>2. ASSUME NEW s \in purger.left,
                 purger' = [purger EXCEPT !.pc = "delete", !.sub = s,
                                         !.left = @ \ {s}]
          PROVE  TypeOK'
        <3>1. s \in Subs
            BY <2>1 DEF Rounds
        <3>2. /\ purger' \in Rounds
              /\ purger'.pc = "delete" /\ purger'.sub = s
              /\ UNCHANGED <<purger.key, purger.rec>>
            BY <2>1, <2>2, <3>1 DEF Rounds
        <3> QED BY <1>5, <3>1, <3>2 DEF PurgerCheck
    <2>3. ASSUME NEW s \in purger.left,
                 purger' = [purger EXCEPT !.left = @ \ {s}]
          PROVE  TypeOK'
        <3>1. /\ purger' \in Rounds
              /\ UNCHANGED <<purger.pc, purger.key, purger.rec, purger.sub>>
            BY <2>1, <2>3 DEF Rounds
        <3> QED BY <1>5, <3>1 DEF PurgerCheck
    <2> QED BY <1>5, <2>2, <2>3 DEF PurgerCheck
<1>6. CASE PurgerDelete
    <2>1. purger \in Rounds
        BY <1>6, InRound DEF PurgerDelete
    <2>2. subscriptions' \in [Recs -> SUBSET Subs]
        BY <1>6 DEF PurgerDelete
    <2>3. CASE PurgerGoTo("unsubscribe")
        <3>1. /\ purger' \in Rounds
              /\ UNCHANGED <<purger.key, purger.rec, purger.sub>>
            BY <2>1, <2>3, PurgerGoToType DEF PurgerGoTo, Rounds
        <3> QED BY <1>6, <2>2, <3>1 DEF PurgerDelete
    <2>4. CASE purger' = [purger EXCEPT !.pc = "clean", !.sub = None]
        <3>1. /\ purger' \in Rounds /\ purger'.pc = "clean"
              /\ UNCHANGED <<purger.key, purger.rec>>
            BY <2>1, <2>4 DEF Rounds
        <3> QED BY <1>6, <2>2, <3>1 DEF PurgerDelete
    <2> QED BY <1>6, <2>3, <2>4 DEF PurgerDelete
<1>7. CASE PurgerUnsubscribe
    <2>1. purger \in Rounds
        BY <1>7, InRound DEF PurgerUnsubscribe
    <2>2. /\ purger' \in Rounds /\ purger'.pc = "clean"
          /\ UNCHANGED <<purger.key, purger.rec>>
        BY <1>7, <2>1 DEF PurgerUnsubscribe, Rounds
    <2>3. detached' \subseteq Subs /\ registered' \subseteq Subs /\ SUBSCR_ACTIVE' \in Int
        BY <1>7 DEF PurgerUnsubscribe, Unsubscribe
    <2> QED BY <1>7, <2>2, <2>3 DEF PurgerUnsubscribe
<1>8. CASE PurgerJudge
    <2>1. purger \in Rounds
        BY <1>8, InRound DEF PurgerJudge
    <2>2. <<purger.key, purger.rec>> \in Keys \X Recs
        BY <1>8 DEF PurgerJudge
    <2>3. purger' \in Rounds /\ purger'.pc = "next"
        BY <1>8, <2>1, <2>2 DEF PurgerJudge, Rounds, NoRecord
    <2> QED BY <1>8, <2>3 DEF PurgerJudge
<1>9. CASE PurgerAcquire
    <2>1. purger \in Rounds
        BY <1>9, InRound DEF PurgerAcquire
    <2>2. purger' \in Rounds /\ purger'.pc = "purge"
        BY <1>9, <2>1 DEF PurgerAcquire, PurgerGoTo, Rounds
    <2> QED BY <1>9, <2>2 DEF PurgerAcquire
<1>10. CASE PurgerPurge
    <2>1. purger \in Rounds
        BY <1>10, InRound DEF PurgerPurge
    <2>2. CASE purger' \in {Waiting, Dead} /\ UNCHANGED <<RECORDS, connected>>
        BY <1>10, <2>2 DEF PurgerPurge, Waiting, Dead
    <2>3. ASSUME NEW entry \in purger.purge,
                 RECORDS' = [RECORDS EXCEPT ![entry[1]] = Remaining(entry[1], entry[2])],
                 connected' = connected \ {entry[2]},
                 purger' = [purger EXCEPT !.purge = @ \ {entry}]
          PROVE  TypeOK'
        <3>1. entry[1] \in Keys /\ entry[2] \in Recs
            BY <2>1 DEF Rounds
        <3>2. RECORDS' \in [Keys -> Recs \cup {NoRecord}]
            BY <2>3, <3>1 DEF Remaining
        <3>3. purger' \in Rounds /\ UNCHANGED purger.pc
            BY <2>1, <2>3 DEF Rounds
        <3> QED BY <1>10, <2>3, <3>2, <3>3 DEF PurgerPurge
    <2> QED BY <1>10, <2>2, <2>3 DEF PurgerPurge, PurgerDies
<1> QED
    BY <1>1, <1>2, <1>3, <1>4, <1>5, <1>6, <1>7, <1>8, <1>9, <1>10 DEF Purger

LEMMA EnvironmentType == TypeOK /\ Environment => TypeOK'
<1> SUFFICES ASSUME TypeOK, Environment PROVE TypeOK'
    OBVIOUS
<1> USE DEF TypeOK, data
<1>1. ASSUME NEW op \in Ops, NEW u \in Users, NEW s \in Subs, Receive(op, u, s)
      PROVE  req' \in Requests
    BY <1>1, InternalRetryAssumption
       DEF Receive, Requests, Locals, NoRecord
<1>2. ASSUME NEW u \in Users, NEW s \in Subs, NEW d \in Dates,
             ReceivePost(u, s, d)
      PROVE  TypeOK'
    <2>1. req' \in Requests
        BY <1>1, <1>2 DEF ReceivePost, Ops
    <2>2. date' \in [Subs -> Dates \cup {None}] /\ lapsed' \subseteq Subs
        BY <1>2 DEF ReceivePost
    <2> QED BY <1>2, <2>1, <2>2 DEF ReceivePost
<1>3. ASSUME NEW op \in Ops, NEW u \in Users, NEW s \in Subs,
             ReceiveOther(op, u, s)
      PROVE  TypeOK'
    BY <1>1, <1>3 DEF ReceiveOther
<1>4. ASSUME NEW s \in Subs, Lapse(s) PROVE TypeOK'
    BY <1>4 DEF Lapse
<1> QED BY <1>2, <1>3, <1>4 DEF Environment

\* No step of either thread or of the environment leaves the types.
THEOREM TypeCorrect == Spec => []TypeOK
<1>1. TypeOK /\ [Next]_vars => TypeOK'
    <2> SUFFICES ASSUME TypeOK, [Next]_vars PROVE TypeOK'
        OBVIOUS
    <2>1. CASE UNCHANGED vars
        BY <2>1 DEF TypeOK, vars, data
    <2> QED BY <2>1, RequestType, PurgerType, EnvironmentType DEF Next
<1> QED BY TypeInit, <1>1, PTL DEF Spec

-----------------------------------------------------------------------------
(* A listed subscription is registered, and listed once                    *)
(*                                                                         *)
(* Both threads take a subscription off its Record before they touch its   *)
(* sink, so the sink they are about to unsubscribe is in no Record. That   *)
(* the request thread cannot put it back is a matter of fresh ids: what    *)
(* the purger holds has an owner, and what a POST stores has none yet.     *)

WithRecord == {"check", "clear", "webhook", "subscribe", "store", "answer",
               "find", "date", "unflag", "take", "release", "read"}

HasRecord == req.pc \in WithRecord => req.rec \in Recs

PostSteps == req.pc \in {"webhook", "subscribe", "store", "answer"} => req.op = "post"

PostIsFresh ==
    req.pc \notin {"idle", "answer"} /\ req.op = "post" =>
        owner[req.sub] = None /\ req.sub \in issued

UnissuedIsFresh == \A s \in Subs : s \notin issued => owner[s] = None

ListedHasOwner == \A r \in Recs : \A s \in subscriptions[r] : owner[s] # None

RecordsRegistered == \A r \in Recs : subscriptions[r] \subseteq registered

StoringIsRegistered == req.pc = "store" => req.sub \in registered

DroppedIsUnlisted ==
    /\ req.pc = "clear" =>
          \A r \in Recs \ {req.rec} : req.left \cap subscriptions[r] = {}
    /\ req.pc = "unsubscribe" =>
          \A r \in Recs : req.left \cap subscriptions[r] = {}

ReleasedIsUnlisted ==
    req.pc = "release" => \A r \in Recs : req.sub \notin subscriptions[r]

PurgedIsUnlisted ==
    purger.pc = "unsubscribe" =>
        /\ owner[purger.sub] # None
        /\ \A r \in Recs : purger.sub \notin subscriptions[r]

ListingInv ==
    /\ TypeOK
    /\ HasRecord
    /\ PostSteps
    /\ PostIsFresh
    /\ UnissuedIsFresh
    /\ ListedHasOwner
    /\ ListedOnce
    /\ RecordsRegistered
    /\ StoringIsRegistered
    /\ DroppedIsUnlisted
    /\ ReleasedIsUnlisted
    /\ PurgedIsUnlisted

LEMMA FirstStepFacts ==
    \A op \in Ops : /\ FirstStep[op] \in {"webhook", "find", "take", "read"}
                    /\ FirstStep[op] = "webhook" => op = "post"
    BY DEF FirstStep, Ops

LEMMA GoToFields ==
    ASSUME req \in Requests, NEW pc, GoTo(pc)
    PROVE  /\ req'.pc = pc
           /\ UNCHANGED <<req.op, req.user, req.sub, req.rec, req.left>>
    BY DEF Requests, GoTo

LEMMA ServerErrorFields ==
    ASSUME req \in Requests, ServerError
    PROVE  \/ req' = Idle
           \/ /\ req'.pc = "lookup" /\ req'.op = "post"
              /\ req.op = "post" /\ UNCHANGED req.sub
    BY DEF Requests, ServerError, Finish

LEMMA ListingInit == Init => ListingInv
    BY TypeInit
       DEF Init, ListingInv, HasRecord, PostSteps, PostIsFresh, UnissuedIsFresh,
           ListedHasOwner, ListedOnce, RecordsRegistered, StoringIsRegistered,
           DroppedIsUnlisted, ReleasedIsUnlisted, PurgedIsUnlisted, Idle,
           Waiting, WithRecord

LEMMA ListingRequest == ListingInv /\ Request => ListingInv'
<1> SUFFICES ASSUME ListingInv, Request PROVE ListingInv'
    OBVIOUS
<1> USE DEF ListingInv, HasRecord, PostSteps, PostIsFresh, UnissuedIsFresh,
            ListedHasOwner, ListedOnce, RecordsRegistered, StoringIsRegistered,
            DroppedIsUnlisted, ReleasedIsUnlisted, PurgedIsUnlisted,
            WithRecord, data, At
<1> TypeOK'
    BY RequestType
<1>type. req \in {Idle} \cup Requests /\ subscriptions \in [Recs -> SUBSET Subs]
    BY DEF TypeOK
<1>1. CASE Lookup
    <2>1. req \in Requests
        BY <1>1, <1>type, Busy DEF Lookup
    <2>2. Live(req.user) \in Keys
        BY <2>1, MaxRecordsAssumption DEF Requests, Live, Keys
    <2>3. RECORDS[Live(req.user)] \in Recs \cup {NoRecord}
        BY <2>2 DEF TypeOK
    <2>4. /\ req'.pc \in {"connect", "check"} /\ UNCHANGED <<req.op, req.sub>>
          /\ req'.pc = "check" => req'.rec \in Recs
        BY <1>1, <2>1, <2>3 DEF Lookup, Requests
    <2> QED BY <1>1, <2>1, <2>4 DEF Lookup
<1>2. CASE CheckConnection
    <2>1. req \in Requests
        BY <1>2, <1>type, Busy DEF CheckConnection
    <2>2. /\ req'.pc \in {FirstStep[req.op], "pop"}
          /\ UNCHANGED <<req.op, req.sub, req.rec, req.left>>
        BY <1>2, <2>1, GoToFields DEF CheckConnection
    <2>3. req.op \in Ops
        BY <2>1 DEF Requests
    <2> QED BY <1>2, <2>2, <2>3, FirstStepFacts DEF CheckConnection
<1>3. CASE PopRecord
    <2>1. req \in Requests
        BY <1>3, <1>type, Busy DEF PopRecord
    <2>2. Live(req.user) \in Keys
        BY <2>1, MaxRecordsAssumption DEF Requests, Live, Keys
    <2>3. RECORDS[Live(req.user)] \in Recs \cup {NoRecord}
        BY <2>2 DEF TypeOK
    <2>4. CASE GoTo("connect")
        <3>1. req'.pc = "connect" /\ UNCHANGED <<req.op, req.sub>>
            BY <2>1, <2>4, GoToFields
        <3> QED BY <1>3, <2>1, <3>1 DEF PopRecord
    <2>5. CASE /\ RECORDS[Live(req.user)] # NoRecord
               /\ req' = [req EXCEPT !.pc = "clear",
                                     !.rec = RECORDS[Live(req.user)],
                                     !.left = subscriptions[RECORDS[Live(req.user)]]]
        <3>1. /\ req'.pc = "clear" /\ UNCHANGED <<req.op, req.sub>>
              /\ req'.rec \in Recs
              /\ req'.left = subscriptions[req'.rec]
            BY <2>1, <2>3, <2>5 DEF Requests
        <3> QED BY <1>3, <2>1, <3>1 DEF PopRecord
    <2> QED BY <1>3, <2>4, <2>5 DEF PopRecord
<1>4. CASE DangleRecord
    <2>1. req \in Requests
        BY <1>4, <1>type, Busy DEF DangleRecord
    <2>2. /\ req'.pc = "unsubscribe"
          /\ UNCHANGED <<req.op, req.sub, req.rec, req.left>>
        BY <1>4, <2>1, GoToFields DEF DangleRecord
    <2>3. \A r \in Recs : subscriptions'[r] = IF r = req.rec THEN {} ELSE subscriptions[r]
        BY <1>4, <1>type DEF DangleRecord
    <2> QED BY <1>4, <2>1, <2>2, <2>3 DEF DangleRecord
<1>5. ASSUME NEW s \in Subs, DropSink(s) PROVE ListingInv'
    <2>1. req \in Requests /\ s \in req.left
        BY <1>5, <1>type, Busy DEF DropSink
    <2>2. CASE Unsubscribe(s) /\ req' = [req EXCEPT !.left = @ \ {s}]
        <3>1. /\ req'.pc = "unsubscribe" /\ req'.left = req.left \ {s}
              /\ UNCHANGED <<req.op, req.sub>>
            BY <1>5, <2>1, <2>2 DEF DropSink, Requests
        <3>2. \A r \in Recs : s \notin subscriptions[r]
            BY <1>5, <2>1 DEF DropSink
        <3> QED BY <1>5, <2>1, <2>2, <3>1, <3>2 DEF DropSink, Unsubscribe
    <2>3. CASE /\ Finish \/ ServerError
               /\ UNCHANGED <<registered, detached, SUBSCR_ACTIVE>>
        <3>1. \/ req'.pc = "idle"
              \/ /\ req'.pc = "lookup" /\ req'.op = "post"
                 /\ req.op = "post" /\ UNCHANGED req.sub
            BY <2>1, <2>3, ServerErrorFields DEF Finish, Idle
        <3> QED BY <1>5, <2>1, <2>3, <3>1 DEF DropSink
    <2> QED BY <1>5, <2>2, <2>3 DEF DropSink
<1>6. CASE DropDone
    <2>1. req \in Requests
        BY <1>6, <1>type, Busy DEF DropDone
    <2>2. req'.pc = "connect" /\ UNCHANGED <<req.op, req.sub>>
        BY <1>6, <2>1, GoToFields DEF DropDone
    <2> QED BY <1>6, <2>1, <2>2 DEF DropDone
<1>7. CASE Connect
    <2>1. req \in Requests
        BY <1>7, <1>type, Busy DEF Connect
    <2>2. CASE ServerError
        <3>1. \/ req'.pc = "idle"
              \/ /\ req'.pc = "lookup" /\ req'.op = "post"
                 /\ req.op = "post" /\ UNCHANGED req.sub
            BY <2>1, <2>2, ServerErrorFields DEF Idle
        <3> QED BY <1>7, <2>1, <3>1 DEF Connect
    <2>3. CASE /\ made < MaxRecords
               /\ req' = [req EXCEPT !.rec = made + 1, !.pc = FirstStep[req.op]]
        <3>1. req'.rec = made + 1 /\ made + 1 \in Recs
            BY <2>1, <2>3, MaxRecordsAssumption DEF Requests, TypeOK, Recs
        <3>2. req'.pc = FirstStep[req.op] /\ UNCHANGED <<req.op, req.sub>>
            BY <2>1, <2>3 DEF Requests
        <3>3. req.op \in Ops
            BY <2>1 DEF Requests
        <3> QED BY <1>7, <2>1, <3>1, <3>2, <3>3, FirstStepFacts DEF Connect
    <2> QED BY <1>7, <2>2, <2>3 DEF Connect
<1>8. CASE ValidateWebhook
    <2>1. req \in Requests
        BY <1>8, <1>type, Busy DEF ValidateWebhook
    <2>2. \/ req'.pc = "idle"
          \/ req'.pc = "subscribe" /\ UNCHANGED <<req.op, req.sub, req.rec>>
        BY <1>8, <2>1, GoToFields DEF ValidateWebhook, Finish, Idle
    <2> QED BY <1>8, <2>1, <2>2 DEF ValidateWebhook
<1>9. CASE Subscribe
    <2>1. req \in Requests
        BY <1>9, <1>type, Busy DEF Subscribe
    <2>2. CASE /\ registered' = registered \cup {req.sub}
               /\ GoTo("store")
        <3>1. req'.pc = "store" /\ UNCHANGED <<req.op, req.sub, req.rec>>
            BY <2>1, <2>2, GoToFields
        <3> QED BY <1>9, <2>1, <2>2, <3>1 DEF Subscribe
    <2>3. CASE (Finish \/ ServerError) /\ UNCHANGED registered
        <3>1. \/ req'.pc = "idle"
              \/ /\ req'.pc = "lookup" /\ req'.op = "post"
                 /\ req.op = "post" /\ UNCHANGED req.sub
            BY <2>1, <2>3, ServerErrorFields DEF Finish, Idle
        <3> QED BY <1>9, <2>1, <2>3, <3>1 DEF Subscribe
    <2> QED BY <1>9, <2>2, <2>3 DEF Subscribe
<1>10. CASE StoreSubscription
    <2>1. req \in Requests /\ req.sub \in Subs
        BY <1>10, <1>type, Busy DEF StoreSubscription, Requests
    <2>2. CASE req.rec \in connected
        <3>1. req'.pc = "answer" /\ UNCHANGED <<req.op, req.sub, req.rec>>
            BY <1>10, <2>1, <2>2, GoToFields DEF StoreSubscription
        <3>2. \A r \in Recs : \A s :
                 s \in subscriptions'[r] <=>
                     \/ s \in subscriptions[r]
                     \/ r = req.rec /\ s = req.sub
            BY <1>10, <1>type, <2>2 DEF StoreSubscription
        <3>3. \A s \in Subs : owner'[s] = IF s = req.sub THEN req.user ELSE owner[s]
            BY <1>10, <2>2 DEF StoreSubscription, TypeOK
        <3>4. req.user # None
            BY <2>1, UsersAssumption DEF Requests
        <3>5. owner[req.sub] = None /\ req.sub \in issued /\ req.sub \in registered
            BY <1>10 DEF StoreSubscription
        <3>6. \A r \in Recs : req.sub \notin subscriptions[r]
            BY <3>5
        <3>7. ListedOnce'
            <4> SUFFICES ASSUME NEW r1 \in Recs, NEW r2 \in Recs, r1 # r2
                         PROVE  subscriptions'[r1] \cap subscriptions'[r2] = {}
                OBVIOUS
            <4>1. subscriptions[r1] \cap subscriptions[r2] = {}
                OBVIOUS
            <4> QED BY <3>2, <3>6, <4>1
        <3>8. ListedHasOwner'
            <4> SUFFICES ASSUME NEW r \in Recs, NEW s \in subscriptions'[r]
                         PROVE  owner'[s] # None
                OBVIOUS
            <4>1. s = req.sub \/ s \in subscriptions[r]
                BY <3>2
            <4>2. s \in Subs
                BY <2>1, <4>1, <1>type
            <4> QED BY <3>3, <3>4, <4>1, <4>2
        <3>9. RecordsRegistered'
            <4> SUFFICES ASSUME NEW r \in Recs, NEW s \in subscriptions'[r]
                         PROVE  s \in registered'
                OBVIOUS
            <4>1. s = req.sub \/ s \in subscriptions[r]
                BY <3>2
            <4> QED BY <1>10, <3>5, <4>1 DEF StoreSubscription
        <3>10. PurgedIsUnlisted'
            BY <1>10, <2>1, <3>2, <3>3, <3>4, <3>5 DEF StoreSubscription, TypeOK, Handling
        <3>11. UnissuedIsFresh'
            BY <1>10, <3>3, <3>5 DEF StoreSubscription
        <3> QED BY <1>10, <3>1, <3>7, <3>8, <3>9, <3>10, <3>11 DEF StoreSubscription
    <2>3. CASE req.rec \notin connected
        BY <1>10, <2>3 DEF StoreSubscription, Finish, Idle
    <2> QED BY <2>2, <2>3
<1>11. CASE AnswerPost
    BY <1>11 DEF AnswerPost, Finish, Idle
<1>12. CASE FindSubscription
    <2>1. req \in Requests
        BY <1>12, <1>type, Busy DEF FindSubscription
    <2>2. \/ req'.pc = "idle"
          \/ req'.pc = "date" /\ UNCHANGED <<req.op, req.sub, req.rec>>
        BY <1>12, <2>1, GoToFields DEF FindSubscription, Finish, Idle
    <2> QED BY <1>12, <2>1, <2>2 DEF FindSubscription
<1>13. ASSUME NEW d \in Dates, SetDate(d) PROVE ListingInv'
    <2>1. req \in Requests
        BY <1>13, <1>type, Busy DEF SetDate
    <2>2. req'.pc = "unflag" /\ UNCHANGED <<req.op, req.sub, req.rec>>
        BY <1>13, <2>1, GoToFields DEF SetDate
    <2> QED BY <1>13, <2>1, <2>2 DEF SetDate
<1>14. CASE KeepDate
    <2>1. req \in Requests
        BY <1>14, <1>type, Busy DEF KeepDate
    <2>2. \/ req'.pc = "idle"
          \/ req'.pc = "unflag" /\ UNCHANGED <<req.op, req.sub, req.rec>>
        BY <1>14, <2>1, GoToFields DEF KeepDate, Finish, Idle
    <2> QED BY <1>14, <2>1, <2>2 DEF KeepDate
<1>15. CASE UnflagSink
    BY <1>15 DEF UnflagSink, Finish, Idle
<1>16. CASE TakeSubscription
    <2>1. req \in Requests
        BY <1>16, <1>type, Busy DEF TakeSubscription
    <2>2. CASE req.sub \in subscriptions[req.rec]
        <3>1. req'.pc = "release" /\ UNCHANGED <<req.op, req.sub, req.rec>>
            <4>1. req' = [req EXCEPT !.pc = "release", !.store = StoreOf(req.rec)]
                BY <1>16, <2>2 DEF TakeSubscription
            <4> QED BY <2>1, <4>1 DEF Requests
        <3>2. \A r \in Recs :
                 subscriptions'[r] = IF r = req.rec THEN subscriptions[r] \ {req.sub}
                                     ELSE subscriptions[r]
            BY <1>16, <1>type, <2>2 DEF TakeSubscription
        <3>3. req.rec \in Recs
            BY <1>16 DEF TakeSubscription
        <3>4. \A r \in Recs : req.sub \notin subscriptions'[r]
            BY <2>2, <3>2, <3>3
        <3>5. \A r \in Recs : subscriptions'[r] \subseteq subscriptions[r]
            BY <3>2
        <3>6. ListedOnce' /\ ListedHasOwner' /\ RecordsRegistered' /\ PurgedIsUnlisted'
            BY <1>16, <3>5 DEF TakeSubscription
        <3> QED BY <1>16, <2>1, <3>1, <3>3, <3>4, <3>6 DEF TakeSubscription
    <2>3. CASE req.sub \notin subscriptions[req.rec]
        BY <1>16, <2>3 DEF TakeSubscription, Finish, Idle
    <2> QED BY <2>2, <2>3
<1>17. CASE ReleaseSink
    BY <1>17 DEF ReleaseSink, Finish, Idle
<1>18. CASE Read
    BY <1>18 DEF Read, Finish, Idle
<1> QED
    BY <1>1, <1>2, <1>3, <1>4, <1>5, <1>6, <1>7, <1>8, <1>9, <1>10, <1>11,
       <1>12, <1>13, <1>14, <1>15, <1>16, <1>17, <1>18 DEF Request

LEMMA ListingPurger == ListingInv /\ Purger => ListingInv'
<1> SUFFICES ASSUME ListingInv, Purger PROVE ListingInv'
    OBVIOUS
<1> USE DEF ListingInv, HasRecord, PostSteps, PostIsFresh, UnissuedIsFresh,
            ListedHasOwner, ListedOnce, RecordsRegistered, StoringIsRegistered,
            DroppedIsUnlisted, ReleasedIsUnlisted, PurgedIsUnlisted,
            WithRecord, requestVars, PurgerAt
<1> TypeOK'
    BY PurgerType
<1>type. /\ purger \in {Waiting, Dead} \cup Rounds
         /\ subscriptions \in [Recs -> SUBSET Subs]
    BY DEF TypeOK
\* Most steps change neither what is listed nor what is registered and do not
\* lead to "unsubscribe".
<1>1. ASSUME UNCHANGED <<requestVars, subscriptions, registered>>,
             purger'.pc # "unsubscribe"
      PROVE  ListingInv'
    BY <1>1
<1>2. CASE PurgerWake
    BY <1>1, <1>2 DEF PurgerWake
<1>3. CASE PurgerNext
    <2>1. purger \in Rounds
        BY <1>3, <1>type, InRound DEF PurgerNext
    <2>2. purger'.pc # "unsubscribe"
        <3>1. CASE PurgerDies
            BY <3>1 DEF PurgerDies, Dead
        <3>2. ASSUME NEW k,
                     purger' = [purger EXCEPT
                                  !.pc = "scan", !.key = k, !.rec = RECORDS[k],
                                  !.seen = @ \cup {<<k, RECORDS[k]>>},
                                  !.left = subscriptions[RECORDS[k]]]
              PROVE  purger'.pc = "scan"
            BY <2>1, <3>2 DEF Rounds
        <3>3. CASE purger' = [purger EXCEPT !.pc = "acquire", !.size = 0,
                                           !.seen = {}]
            BY <2>1, <3>3 DEF Rounds
        <3> QED BY <1>3, <3>1, <3>2, <3>3 DEF PurgerNext
    <2> QED BY <1>1, <1>3, <2>2 DEF PurgerNext
<1>4. CASE PurgerScan
    <2>1. purger \in Rounds
        BY <1>4, <1>type, InRound DEF PurgerScan
    <2>2. purger'.pc # "unsubscribe"
        <3>1. CASE PurgerDies
            BY <3>1 DEF PurgerDies, Dead
        <3>2. CASE purger' = [purger EXCEPT !.pc = "clean", !.left = purger.expired]
            BY <2>1, <3>2 DEF Rounds
        <3>3. ASSUME NEW s,
                     purger' = [purger EXCEPT !.pc = "mark", !.sub = s,
                                             !.left = @ \ {s},
                                             !.expired = @ \cup {s}]
              PROVE  purger'.pc = "mark"
            BY <2>1, <3>3 DEF Rounds
        <3>4. ASSUME NEW s, purger' = [purger EXCEPT !.left = @ \ {s}]
              PROVE  purger'.pc = "scan"
            BY <1>4, <2>1, <3>4 DEF PurgerScan, Rounds
        <3> QED BY <1>4, <3>1, <3>2, <3>3, <3>4 DEF PurgerScan
    <2> QED BY <1>1, <1>4, <2>2 DEF PurgerScan
<1>5. CASE PurgerMark
    <2>1. purger \in Rounds
        BY <1>5, <1>type, InRound DEF PurgerMark
    <2>2. purger'.pc # "unsubscribe"
        BY <1>5, <2>1 DEF PurgerMark, Rounds
    <2> QED BY <1>1, <1>5, <2>2 DEF PurgerMark
<1>6. CASE PurgerCheck
    <2>1. purger \in Rounds
        BY <1>6, <1>type, InRound DEF PurgerCheck
    <2>2. purger'.pc # "unsubscribe"
        <3>1. ASSUME NEW s,
                     purger' = [purger EXCEPT !.pc = "delete", !.sub = s,
                                             !.left = @ \ {s}]
              PROVE  purger'.pc = "delete"
            BY <2>1, <3>1 DEF Rounds
        <3>2. ASSUME NEW s, purger' = [purger EXCEPT !.left = @ \ {s}]
              PROVE  purger'.pc = "clean"
            BY <1>6, <2>1, <3>2 DEF PurgerCheck, Rounds
        <3> QED BY <1>6, <3>1, <3>2 DEF PurgerCheck
    <2> QED BY <1>1, <1>6, <2>2 DEF PurgerCheck
<1>7. CASE PurgerDelete
    <2>1. purger \in Rounds
        BY <1>7, <1>type, InRound DEF PurgerDelete
    <2>2. CASE purger.sub \in subscriptions[purger.rec]
        <3>1. purger'.pc = "unsubscribe" /\ UNCHANGED purger.sub
            BY <1>7, <2>1, <2>2 DEF PurgerDelete, PurgerGoTo, Rounds
        <3>2. purger.rec \in Recs
            BY <1>7 DEF PurgerDelete, TypeOK, Visiting, Handling
        <3>3. \A r \in Recs : \A s :
                 s \in subscriptions'[r] <=>
                     /\ s \in subscriptions[r]
                     /\ ~(r = purger.rec /\ s = purger.sub)
            BY <1>7, <1>type, <2>2 DEF PurgerDelete
        <3>4. \A r \in Recs : purger.sub \notin subscriptions'[r]
            BY <2>2, <3>2, <3>3
        <3>5. \A r \in Recs : subscriptions'[r] \subseteq subscriptions[r]
            BY <3>3
        <3>6. owner[purger.sub] # None
            BY <2>2, <3>2
        <3> QED BY <1>7, <3>1, <3>4, <3>5, <3>6 DEF PurgerDelete
    <2>3. CASE purger.sub \notin subscriptions[purger.rec]
        <3>1. purger'.pc # "unsubscribe"
            BY <1>7, <2>1, <2>3 DEF PurgerDelete, Rounds
        <3> QED BY <1>1, <1>7, <2>3, <3>1 DEF PurgerDelete
    <2> QED BY <2>2, <2>3
<1>8. CASE PurgerUnsubscribe
    <2>1. purger \in Rounds
        BY <1>8, <1>type, InRound DEF PurgerUnsubscribe
    <2>2. purger'.pc # "unsubscribe"
        BY <1>8, <2>1 DEF PurgerUnsubscribe, Rounds
    <2>3. registered \ {purger.sub} \subseteq registered'
        BY <1>8 DEF PurgerUnsubscribe, Unsubscribe
    <2>4. RecordsRegistered'
        BY <1>8, <2>3 DEF PurgerUnsubscribe
    <2>5. StoringIsRegistered'
        BY <1>8, <2>3 DEF PurgerUnsubscribe
    <2> QED BY <1>8, <2>2, <2>4, <2>5 DEF PurgerUnsubscribe
<1>9. CASE PurgerJudge
    <2>1. purger \in Rounds
        BY <1>9, <1>type, InRound DEF PurgerJudge
    <2>2. purger'.pc # "unsubscribe"
        BY <1>9, <2>1 DEF PurgerJudge, Rounds
    <2> QED BY <1>1, <1>9, <2>2 DEF PurgerJudge
<1>10. CASE PurgerAcquire
    <2>1. purger \in Rounds
        BY <1>10, <1>type, InRound DEF PurgerAcquire
    <2>2. purger'.pc # "unsubscribe"
        BY <1>10, <2>1 DEF PurgerAcquire, PurgerGoTo, Rounds
    <2> QED BY <1>1, <1>10, <2>2 DEF PurgerAcquire
<1>11. CASE PurgerPurge
    <2>1. purger \in Rounds
        BY <1>11, <1>type, InRound DEF PurgerPurge
    <2>2. purger'.pc # "unsubscribe"
        BY <1>11, <2>1 DEF PurgerPurge, PurgerDies, Dead, Waiting, Rounds
    <2> QED BY <1>1, <1>11, <2>2 DEF PurgerPurge
<1> QED
    BY <1>2, <1>3, <1>4, <1>5, <1>6, <1>7, <1>8, <1>9, <1>10, <1>11 DEF Purger

LEMMA ListingEnvironment == ListingInv /\ Environment => ListingInv'
<1> SUFFICES ASSUME ListingInv, Environment PROVE ListingInv'
    OBVIOUS
<1> USE DEF ListingInv, HasRecord, PostSteps, PostIsFresh, UnissuedIsFresh,
            ListedHasOwner, ListedOnce, RecordsRegistered, StoringIsRegistered,
            DroppedIsUnlisted, ReleasedIsUnlisted, PurgedIsUnlisted,
            WithRecord, data
<1> TypeOK'
    BY EnvironmentType
<1>1. ASSUME NEW u \in Users, NEW s \in Subs, NEW d \in Dates,
             ReceivePost(u, s, d)
      PROVE  ListingInv'
    BY <1>1 DEF ReceivePost, Receive
<1>2. ASSUME NEW op \in Ops, NEW u \in Users, NEW s \in Subs,
             ReceiveOther(op, u, s)
      PROVE  ListingInv'
    BY <1>2 DEF ReceiveOther, Receive
<1>3. ASSUME NEW s \in Subs, Lapse(s) PROVE ListingInv'
    BY <1>3 DEF Lapse
<1> QED BY <1>1, <1>2, <1>3 DEF Environment

LEMMA ListingInvariant == Spec => []ListingInv
<1>1. ListingInv /\ [Next]_vars => ListingInv'
    <2> SUFFICES ASSUME ListingInv, [Next]_vars PROVE ListingInv'
        OBVIOUS
    <2>1. CASE UNCHANGED vars
        <3>1. TypeOK'
            BY <2>1 DEF ListingInv, TypeOK, vars, data
        <3> QED
            BY <2>1, <3>1
               DEF ListingInv, HasRecord, PostSteps, PostIsFresh,
                   UnissuedIsFresh, ListedHasOwner, ListedOnce,
                   RecordsRegistered, StoringIsRegistered, DroppedIsUnlisted,
                   ReleasedIsUnlisted, PurgedIsUnlisted, vars, data
    <2> QED BY <2>1, ListingRequest, ListingPurger, ListingEnvironment DEF Next
<1> QED BY ListingInit, <1>1, PTL DEF Spec

\* The kopano server notifies every subscription that a Record lists: neither
\* the request thread nor the purger unregisters a sink before it is off the
\* Record (on_delete, _record, SubscriptionPurger.run).
THEOREM ListedRegistered == Spec => []ListedIsRegistered
<1>1. ListingInv => ListedIsRegistered
    BY DEF ListingInv, RecordsRegistered, ListedIsRegistered, Listed
<1> QED BY ListingInvariant, <1>1, PTL

\* A subscription is in the dict of one Record at most, although on_post
\* retries with the same id and _record moves Records to other keys.
THEOREM ListedInOneRecord == Spec => []ListedOnce
<1>1. ListingInv => ListedOnce
    BY DEF ListingInv
<1> QED BY ListingInvariant, <1>1, PTL

-----------------------------------------------------------------------------
(* The Record a userid leads to is connected                               *)
(*                                                                         *)
(* A Record is under one key at most, becomes the live one of its user     *)
(* only when it is made, and when it leaves that key never comes back to   *)
(* it. So what the purger noted under one key is not live under another.   *)

InARound == purger.pc \notin {"wait", "dead"}

OneKeyEach ==
    \A k1, k2 \in Keys :
        RECORDS[k1] = RECORDS[k2] /\ RECORDS[k1] # NoRecord => k1 = k2

HeldWasMade == \A k \in Keys : RECORDS[k] <= made

MovedIsNotHeld ==
    req.pc = "clear" => /\ req.rec \in Recs /\ req.rec <= made
                        /\ \A k \in Keys : RECORDS[k] # req.rec

VisitedKey ==
    purger.pc \in Visiting =>
        /\ purger.rec <= made
        /\ \A u \in Users : RECORDS[Live(u)] = purger.rec => purger.key = Live(u)

PurgedKeys ==
    InARound =>
        \A e \in purger.purge :
            /\ e[2] <= made
            /\ \A u \in Users : RECORDS[Live(u)] = e[2] => e[1] = Live(u)

ConnectionInv ==
    /\ TypeOK
    /\ OneKeyEach
    /\ HeldWasMade
    /\ MovedIsNotHeld
    /\ VisitedKey
    /\ PurgedKeys
    /\ LiveRecordIsConnected

LEMMA LiveIsKey == \A u \in Users : Live(u) \in Keys
    BY MaxRecordsAssumption DEF Live, Keys

LEMMA ConnectionInit == Init => ConnectionInv
    BY TypeInit, LiveIsKey
       DEF Init, ConnectionInv, OneKeyEach, HeldWasMade, MovedIsNotHeld,
           VisitedKey, PurgedKeys, InARound, LiveRecordIsConnected, Idle,
           Waiting, Visiting, Handling, NoRecord

\* The steps that touch neither RECORDS nor the connections.
LEMMA ConnectionQuiet ==
    ASSUME ConnectionInv, TypeOK', UNCHANGED <<RECORDS, made, connected, purger>>,
           req'.pc # "clear"
    PROVE  ConnectionInv'
    BY LiveIsKey
       DEF ConnectionInv, OneKeyEach, HeldWasMade, MovedIsNotHeld, VisitedKey,
           PurgedKeys, InARound, LiveRecordIsConnected, Held

LEMMA ConnectionRequest == ConnectionInv /\ Request => ConnectionInv'
<1> SUFFICES ASSUME ConnectionInv, Request PROVE ConnectionInv'
    OBVIOUS
<1> TypeOK'
    BY RequestType DEF ConnectionInv
<1>type. /\ req \in {Idle} \cup Requests
         /\ RECORDS \in [Keys -> Recs \cup {NoRecord}]
         /\ made \in 0 .. MaxRecords
         /\ connected \subseteq Recs
    BY DEF ConnectionInv, TypeOK
<1>1. CASE Lookup
    <2>1. req \in Requests
        BY <1>1, <1>type, Busy DEF Lookup
    <2>2. req'.pc \in {"connect", "check"}
        BY <1>1, <2>1 DEF Lookup, Requests
    <2> QED BY <1>1, <2>2, ConnectionQuiet DEF Lookup
<1>2. CASE CheckConnection
    <2>1. req \in Requests
        BY <1>2, <1>type, Busy DEF CheckConnection
    <2>2. req'.pc \in {FirstStep[req.op], "pop"} /\ req.op \in Ops
        BY <1>2, <2>1, GoToFields DEF CheckConnection, Requests
    <2> QED BY <1>2, <2>2, FirstStepFacts, ConnectionQuiet DEF CheckConnection
<1>3. CASE PopRecord
    <2>1. req \in Requests
        BY <1>3, <1>type, Busy DEF PopRecord
    <2>2. Live(req.user) \in Keys
        BY <2>1, LiveIsKey DEF Requests
    <2>3. CASE GoTo("connect") /\ UNCHANGED RECORDS
        <3>1. req'.pc = "connect"
            BY <2>1, <2>3, GoToFields
        <3> QED BY <1>3, <2>3, <3>1, ConnectionQuiet DEF PopRecord
    <2>4. CASE /\ RECORDS[Live(req.user)] # NoRecord
               /\ RECORDS' = [RECORDS EXCEPT ![Live(req.user)] = NoRecord]
               /\ req' = [req EXCEPT !.pc = "clear",
                                     !.rec = RECORDS[Live(req.user)],
                                     !.left = subscriptions[RECORDS[Live(req.user)]]]
        <3>1. req'.pc = "clear" /\ req'.rec = RECORDS[Live(req.user)]
            BY <2>1, <2>4 DEF Requests
        <3>2. \A k \in Keys : RECORDS'[k] = IF k = Live(req.user) THEN NoRecord
                                            ELSE RECORDS[k]
            BY <1>type, <2>4
        <3>3. NoRecord \notin Recs
            BY DEF Recs, NoRecord
        <3>4. OneKeyEach' /\ HeldWasMade'
            BY <1>3, <1>type, <2>2, <3>2
               DEF PopRecord, ConnectionInv, OneKeyEach, HeldWasMade, NoRecord
        <3>5. MovedIsNotHeld'
            BY <1>3, <1>type, <2>2, <2>4, <3>1, <3>2
               DEF PopRecord, ConnectionInv, OneKeyEach, HeldWasMade,
                   MovedIsNotHeld
        <3>6. VisitedKey' /\ PurgedKeys' /\ LiveRecordIsConnected'
            <4>1. UNCHANGED <<made, connected, purger>>
                BY <1>3 DEF PopRecord
            <4>2. VisitedKey'
                BY <3>2, <3>3, <4>1, LiveIsKey
                   DEF ConnectionInv, TypeOK, VisitedKey
            <4>3. PurgedKeys'
                <5> SUFFICES ASSUME InARound, NEW e \in purger.purge
                             PROVE  /\ e[2] <= made
                                    /\ \A u \in Users :
                                         RECORDS'[Live(u)] = e[2] => e[1] = Live(u)
                    BY <4>1 DEF PurgedKeys, InARound
                <5>1. e[2] \in Recs
                    BY DEF ConnectionInv, TypeOK, InARound, Rounds, Waiting, Dead
                <5> QED BY <3>2, <3>3, <5>1, LiveIsKey DEF ConnectionInv, PurgedKeys
            <4>4. LiveRecordIsConnected'
                BY <3>2, <4>1, LiveIsKey DEF ConnectionInv, LiveRecordIsConnected
            <4> QED BY <4>2, <4>3, <4>4
        <3> QED BY <3>4, <3>5, <3>6 DEF ConnectionInv
    <2> QED BY <1>3, <2>3, <2>4 DEF PopRecord
<1>4. CASE DangleRecord
    <2>1. req \in Requests /\ req.pc = "clear"
        BY <1>4, <1>type, Busy DEF DangleRecord, At
    <2>2. req'.pc = "unsubscribe"
        BY <1>4, <2>1, GoToFields DEF DangleRecord
    <2> DEFINE key == <<req.user, RECORD_INDEX + 1>>
    <2>3. \A k \in Keys : RECORDS'[k] = IF k = key THEN req.rec ELSE RECORDS[k]
        BY <1>4, <1>type DEF DangleRecord
    <2>4. \A u \in Users : Live(u) # key
        BY DEF Live, ConnectionInv, TypeOK
    <2>5. UNCHANGED <<made, connected, purger>>
        BY <1>4 DEF DangleRecord
    <2>6. OneKeyEach' /\ HeldWasMade'
        BY <2>1, <2>3, <2>5
           DEF ConnectionInv, OneKeyEach, HeldWasMade, MovedIsNotHeld
    <2>7. \A u \in Users : RECORDS'[Live(u)] = RECORDS[Live(u)]
        BY <2>3, <2>4, LiveIsKey
    <2>8. VisitedKey' /\ PurgedKeys' /\ LiveRecordIsConnected' /\ MovedIsNotHeld'
        BY <2>2, <2>5, <2>7
           DEF ConnectionInv, VisitedKey, PurgedKeys, InARound,
               LiveRecordIsConnected, MovedIsNotHeld
    <2> QED BY <2>6, <2>8 DEF ConnectionInv
<1>5. ASSUME NEW s \in Subs, DropSink(s) PROVE ConnectionInv'
    <2>1. req \in Requests
        BY <1>5, <1>type, Busy DEF DropSink
    <2>2. req'.pc \in {"unsubscribe", "idle", "lookup"}
        <3>1. CASE req' = [req EXCEPT !.left = @ \ {s}]
            BY <1>5, <2>1, <3>1 DEF DropSink, At, Requests
        <3> QED BY <1>5, <2>1, <3>1, ServerErrorFields DEF DropSink, Finish, Idle
    <2> QED BY <1>5, <2>2, ConnectionQuiet DEF DropSink
<1>6. CASE DropDone
    <2>1. req \in Requests
        BY <1>6, <1>type, Busy DEF DropDone
    <2>2. req'.pc = "connect"
        BY <1>6, <2>1, GoToFields DEF DropDone
    <2> QED BY <1>6, <2>2, ConnectionQuiet DEF DropDone
<1>7. CASE Connect
    <2>1. req \in Requests
        BY <1>7, <1>type, Busy DEF Connect
    <2>2. CASE ServerError /\ UNCHANGED <<RECORDS, made, connected>>
        <3>1. req'.pc \in {"idle", "lookup"}
            BY <2>1, <2>2, ServerErrorFields DEF Idle
        <3> QED BY <1>7, <2>2, <3>1, ConnectionQuiet DEF Connect
    <2>3. CASE /\ made' = made + 1
               /\ connected' = connected \cup {made + 1}
               /\ RECORDS' = [RECORDS EXCEPT ![Live(req.user)] = made + 1]
               /\ req' = [req EXCEPT !.rec = made + 1, !.pc = FirstStep[req.op]]
        <3>1. Live(req.user) \in Keys
            BY <2>1, LiveIsKey DEF Requests
        <3>2. \A k \in Keys : RECORDS'[k] = IF k = Live(req.user) THEN made + 1
                                            ELSE RECORDS[k]
            BY <1>type, <2>3
        <3>3. \A k \in Keys : RECORDS[k] <= made /\ RECORDS[k] \in Nat
            BY <1>type DEF ConnectionInv, HeldWasMade, Recs, NoRecord
        <3>4. OneKeyEach' /\ HeldWasMade'
            BY <1>type, <2>3, <3>1, <3>2, <3>3
               DEF ConnectionInv, OneKeyEach, HeldWasMade, NoRecord
        <3>5. MovedIsNotHeld'
            <4>1. req'.pc = FirstStep[req.op] /\ req.op \in Ops
                BY <2>1, <2>3 DEF Requests
            <4> QED BY <4>1, FirstStepFacts DEF MovedIsNotHeld
        <3>6. UNCHANGED purger
            BY <1>7 DEF Connect
        <3>7. VisitedKey'
            BY <1>type, <2>3, <3>2, <3>6, LiveIsKey
               DEF ConnectionInv, TypeOK, VisitedKey, Recs
        <3>8. PurgedKeys'
            <4> SUFFICES ASSUME InARound, NEW e \in purger.purge
                         PROVE  /\ e[2] <= made'
                                /\ \A u \in Users :
                                     RECORDS'[Live(u)] = e[2] => e[1] = Live(u)
                BY <3>6 DEF PurgedKeys, InARound
            <4>1. e[2] \in Recs
                BY DEF ConnectionInv, TypeOK, InARound, Rounds, Waiting, Dead
            <4>2. e[2] <= made
                BY DEF ConnectionInv, PurgedKeys
            <4>3. e[2] <= made + 1 /\ e[2] # made + 1
                BY <1>type, <4>1, <4>2 DEF Recs
            <4> QED BY <2>3, <3>2, <4>3, LiveIsKey DEF ConnectionInv, PurgedKeys
        <3>9. LiveRecordIsConnected'
            BY <2>3, <3>2, LiveIsKey DEF ConnectionInv, LiveRecordIsConnected
        <3> QED BY <3>4, <3>5, <3>7, <3>8, <3>9 DEF ConnectionInv
    <2> QED BY <1>7, <2>2, <2>3 DEF Connect
<1>8. CASE ValidateWebhook \/ Subscribe \/ StoreSubscription \/ AnswerPost
           \/ FindSubscription \/ KeepDate \/ UnflagSink \/ TakeSubscription
           \/ ReleaseSink \/ Read \/ \E d \in Dates : SetDate(d)
    <2>1. req \in Requests
        BY <1>8, <1>type, Busy
           DEF ValidateWebhook, Subscribe, StoreSubscription, AnswerPost,
               FindSubscription, KeepDate, UnflagSink, TakeSubscription,
               ReleaseSink, Read, SetDate
    <2>2. CASE ServerError \/ Finish
        <3>1. req'.pc # "clear"
            BY <2>1, <2>2, ServerErrorFields DEF Finish, Idle
        <3> QED
            BY <1>8, <3>1, ConnectionQuiet
               DEF ValidateWebhook, Subscribe, StoreSubscription, AnswerPost,
                   FindSubscription, KeepDate, UnflagSink, TakeSubscription,
                   ReleaseSink, Read, SetDate
    <2>3. ASSUME NEW pc, pc # "clear", GoTo(pc) PROVE req'.pc # "clear"
        BY <2>1, <2>3, GoToFields
    <2>4. CASE req' = [req EXCEPT !.pc = "release", !.store = StoreOf(req.rec)]
        <3>1. req'.pc # "clear"
            BY <2>1, <2>4 DEF Requests
        <3> QED
            BY <1>8, <3>1, ConnectionQuiet
               DEF ValidateWebhook, Subscribe, StoreSubscription, AnswerPost,
                   FindSubscription, KeepDate, UnflagSink, TakeSubscription,
                   ReleaseSink, Read, SetDate
    <2> QED
        BY <1>8, <2>2, <2>3, <2>4, ConnectionQuiet
           DEF ValidateWebhook, Subscribe, StoreSubscription, AnswerPost,
               FindSubscription, KeepDate, UnflagSink, TakeSubscription,
               ReleaseSink, Read, SetDate
<1> QED
    BY <1>1, <1>2, <1>3, <1>4, <1>5, <1>6, <1>7, <1>8 DEF Request

\* The purger's steps before it holds thread_lock change no shared state that
\* ConnectionInv reads; what matters is what they note.
LEMMA ConnectionNotes ==
    ASSUME ConnectionInv, TypeOK', UNCHANGED <<RECORDS, made, connected, req>>,
           VisitedKey', PurgedKeys'
    PROVE  ConnectionInv'
    BY DEF ConnectionInv, OneKeyEach, HeldWasMade, MovedIsNotHeld,
           LiveRecordIsConnected

LEMMA ConnectionKept ==
    ASSUME ConnectionInv, TypeOK', UNCHANGED <<RECORDS, made, connected, req>>,
           purger \in Rounds, InARound', UNCHANGED purger.purge,
           purger'.pc \in Visiting =>
               purger.pc \in Visiting /\ UNCHANGED <<purger.key, purger.rec>>
    PROVE  ConnectionInv'
<1>1. InARound
    BY DEF InARound, Rounds, Visiting, Handling
<1>2. VisitedKey'
    BY DEF ConnectionInv, VisitedKey
<1>3. PurgedKeys'
    BY <1>1 DEF ConnectionInv, PurgedKeys
<1> QED BY <1>2, <1>3, ConnectionNotes

LEMMA ConnectionPurger == ConnectionInv /\ Purger => ConnectionInv'
<1> SUFFICES ASSUME ConnectionInv, Purger PROVE ConnectionInv'
    OBVIOUS
<1> USE DEF requestVars
<1> TypeOK'
    BY PurgerType DEF ConnectionInv
<1>type. /\ purger \in {Waiting, Dead} \cup Rounds
         /\ RECORDS \in [Keys -> Recs \cup {NoRecord}]
         /\ made \in 0 .. MaxRecords
    BY DEF ConnectionInv, TypeOK
<1>out. ASSUME UNCHANGED <<RECORDS, made, connected, req>>,
               purger' \in {Waiting, Dead}
        PROVE  ConnectionInv'
    <2>1. VisitedKey' /\ PurgedKeys'
        BY <1>out DEF VisitedKey, PurgedKeys, InARound, Waiting, Dead,
                      Visiting, Handling
    <2> QED BY <1>out, <2>1, ConnectionNotes
<1>1. CASE PurgerWake
    <2>1. purger'.pc = "next" /\ purger'.purge = {}
        BY <1>1 DEF PurgerWake
    <2>2. VisitedKey' /\ PurgedKeys'
        BY <2>1 DEF VisitedKey, PurgedKeys, Visiting, Handling
    <2> QED BY <1>1, <2>2, ConnectionNotes DEF PurgerWake
<1>2. CASE PurgerNext
    <2>1. purger \in Rounds /\ purger.pc = "next"
        BY <1>2, <1>type, InRound DEF PurgerNext, PurgerAt
    <2>2. CASE PurgerDies
        BY <1>2, <2>2, <1>out DEF PurgerNext, PurgerDies
    <2>3. ASSUME NEW k \in Held,
                 purger' = [purger EXCEPT
                              !.pc = "scan", !.key = k, !.rec = RECORDS[k],
                              !.seen = @ \cup {<<k, RECORDS[k]>>},
                              !.left = subscriptions[RECORDS[k]]]
          PROVE  ConnectionInv'
        <3>1. /\ purger'.pc = "scan" /\ purger'.key = k
              /\ purger'.rec = RECORDS[k] /\ UNCHANGED purger.purge
            BY <2>1, <2>3 DEF Rounds
        <3>2. k \in Keys /\ RECORDS[k] # NoRecord
            BY DEF Held
        <3>3. UNCHANGED <<RECORDS, made, connected, req>>
            BY <1>2 DEF PurgerNext
        <3>4. VisitedKey'
            BY <3>1, <3>2, <3>3, LiveIsKey
               DEF VisitedKey, ConnectionInv, OneKeyEach, HeldWasMade
        <3>5. PurgedKeys'
            BY <2>1, <3>1, <3>3 DEF PurgedKeys, ConnectionInv, InARound
        <3> QED BY <3>3, <3>4, <3>5, ConnectionNotes
    <2>4. CASE purger' = [purger EXCEPT !.pc = "acquire", !.size = 0,
                                       !.seen = {}]
        <3>1. purger'.pc = "acquire" /\ UNCHANGED purger.purge
            BY <2>1, <2>4 DEF Rounds
        <3> QED
            BY <1>2, <2>1, <3>1, ConnectionKept
               DEF PurgerNext, InARound, Visiting, Handling
    <2> QED BY <1>2, <2>2, <2>3, <2>4 DEF PurgerNext
<1>3. CASE PurgerScan
    <2>1. purger \in Rounds /\ purger.pc = "scan"
        BY <1>3, <1>type, InRound DEF PurgerScan, PurgerAt
    <2>2. CASE PurgerDies
        BY <1>3, <2>2, <1>out DEF PurgerScan, PurgerDies
    <2>3. CASE ~PurgerDies
        <3>1. /\ purger'.pc \in {"scan", "clean", "mark"}
              /\ UNCHANGED <<purger.purge, purger.key, purger.rec>>
            <4>1. CASE purger' = [purger EXCEPT !.pc = "clean", !.left = purger.expired]
                BY <2>1, <4>1 DEF Rounds
            <4>2. ASSUME NEW s,
                         purger' = [purger EXCEPT !.pc = "mark", !.sub = s,
                                                 !.left = @ \ {s},
                                                 !.expired = @ \cup {s}]
                  PROVE  /\ purger'.pc \in {"scan", "clean", "mark"}
                         /\ UNCHANGED <<purger.purge, purger.key, purger.rec>>
                BY <2>1, <4>2 DEF Rounds
            <4>3. ASSUME NEW s, purger' = [purger EXCEPT !.left = @ \ {s}]
                  PROVE  /\ purger'.pc \in {"scan", "clean", "mark"}
                         /\ UNCHANGED <<purger.purge, purger.key, purger.rec>>
                BY <2>1, <4>3 DEF Rounds
            <4> QED BY <1>3, <2>3, <4>1, <4>2, <4>3 DEF PurgerScan
        <3> QED
            BY <1>3, <2>1, <3>1, ConnectionKept
               DEF PurgerScan, InARound, Visiting, Handling
    <2> QED BY <2>2, <2>3
<1>4. CASE PurgerMark
    <2>1. purger \in Rounds /\ purger.pc = "mark"
        BY <1>4, <1>type, InRound DEF PurgerMark, PurgerAt
    <2>2. /\ purger'.pc = "scan"
          /\ UNCHANGED <<purger.purge, purger.key, purger.rec>>
        BY <1>4, <2>1 DEF PurgerMark, Rounds
    <2> QED
        BY <1>4, <2>1, <2>2, ConnectionKept
           DEF PurgerMark, InARound, Visiting, Handling
<1>5. CASE PurgerCheck
    <2>1. purger \in Rounds /\ purger.pc = "clean"
        BY <1>5, <1>type, InRound DEF PurgerCheck, PurgerAt
    <2>2. /\ purger'.pc \in {"clean", "delete"}
          /\ UNCHANGED <<purger.purge, purger.key, purger.rec>>
        <3>1. ASSUME NEW s,
                     purger' = [purger EXCEPT !.pc = "delete", !.sub = s,
                                             !.left = @ \ {s}]
              PROVE  /\ purger'.pc \in {"clean", "delete"}
                     /\ UNCHANGED <<purger.purge, purger.key, purger.rec>>
            BY <2>1, <3>1 DEF Rounds
        <3>2. ASSUME NEW s, purger' = [purger EXCEPT !.left = @ \ {s}]
              PROVE  /\ purger'.pc \in {"clean", "delete"}
                     /\ UNCHANGED <<purger.purge, purger.key, purger.rec>>
            BY <2>1, <3>2 DEF Rounds
        <3> QED BY <1>5, <3>1, <3>2 DEF PurgerCheck
    <2> QED
        BY <1>5, <2>1, <2>2, ConnectionKept
           DEF PurgerCheck, InARound, Visiting, Handling
<1>6. CASE PurgerDelete
    <2>1. purger \in Rounds /\ purger.pc = "delete"
        BY <1>6, <1>type, InRound DEF PurgerDelete, PurgerAt
    <2>2. /\ purger'.pc \in {"clean", "unsubscribe"}
          /\ UNCHANGED <<purger.purge, purger.key, purger.rec>>
        BY <1>6, <2>1 DEF PurgerDelete, PurgerGoTo, Rounds
    <2> QED
        BY <1>6, <2>1, <2>2, ConnectionKept
           DEF PurgerDelete, InARound, Visiting, Handling
<1>7. CASE PurgerUnsubscribe
    <2>1. purger \in Rounds /\ purger.pc = "unsubscribe"
        BY <1>7, <1>type, InRound DEF PurgerUnsubscribe, PurgerAt
    <2>2. /\ purger'.pc = "clean"
          /\ UNCHANGED <<purger.purge, purger.key, purger.rec>>
        BY <1>7, <2>1 DEF PurgerUnsubscribe, Rounds
    <2> QED
        BY <1>7, <2>1, <2>2, ConnectionKept
           DEF PurgerUnsubscribe, InARound, Visiting, Handling
<1>8. CASE PurgerJudge
    <2>1. purger \in Rounds /\ purger.pc = "clean"
        BY <1>8, <1>type, InRound DEF PurgerJudge, PurgerAt
    <2>2. /\ purger'.pc = "next"
          /\ purger'.purge \subseteq purger.purge \cup {<<purger.key, purger.rec>>}
        BY <1>8, <2>1 DEF PurgerJudge, Rounds
    <2>3. VisitedKey'
        BY <2>2 DEF VisitedKey, Visiting, Handling
    <2>4. PurgedKeys'
        <3> SUFFICES ASSUME NEW e \in purger'.purge
                     PROVE  /\ e[2] <= made
                            /\ \A u \in Users : RECORDS[Live(u)] = e[2] => e[1] = Live(u)
            BY <1>8 DEF PurgerJudge, PurgedKeys
        <3>1. CASE e = <<purger.key, purger.rec>>
            BY <2>1, <3>1 DEF ConnectionInv, VisitedKey, Visiting, Handling
        <3>2. CASE e \in purger.purge
            BY <2>1, <3>2 DEF ConnectionInv, PurgedKeys, InARound
        <3> QED BY <2>2, <3>1, <3>2
    <2> QED BY <1>8, <2>3, <2>4, ConnectionNotes DEF PurgerJudge
<1>9. CASE PurgerAcquire
    <2>1. purger \in Rounds /\ purger.pc = "acquire"
        BY <1>9, <1>type, InRound DEF PurgerAcquire, PurgerAt
    <2>2. purger'.pc = "purge" /\ UNCHANGED purger.purge
        BY <1>9, <2>1 DEF PurgerAcquire, PurgerGoTo, Rounds
    <2> QED
        BY <1>9, <2>1, <2>2, ConnectionKept
           DEF PurgerAcquire, InARound, Visiting, Handling
<1>10. CASE PurgerPurge
    <2>1. purger \in Rounds /\ purger.pc = "purge"
        BY <1>10, <1>type, InRound DEF PurgerPurge, PurgerAt
    <2>2. CASE purger' \in {Waiting, Dead} /\ UNCHANGED <<RECORDS, connected>>
        BY <1>10, <2>2, <1>out DEF PurgerPurge
    <2>3. ASSUME NEW entry \in purger.purge,
                 RECORDS' = [RECORDS EXCEPT ![entry[1]] = Remaining(entry[1], entry[2])],
                 connected' = connected \ {entry[2]},
                 purger' = [purger EXCEPT !.purge = @ \ {entry}]
          PROVE  ConnectionInv'
        <3>1. entry[1] \in Keys /\ entry[2] \in Recs /\ NoRecord \notin Recs
            BY <2>1 DEF Rounds, Recs, NoRecord
        <3>2. \A k \in Keys :
                 RECORDS'[k] = IF k = entry[1] /\ RECORDS[k] = entry[2]
                               THEN NoRecord ELSE RECORDS[k]
            BY <1>type, <2>3, <3>1 DEF Remaining
        <3>3. UNCHANGED <<made, req>>
            BY <1>10 DEF PurgerPurge
        <3>4. purger'.pc = "purge" /\ purger'.purge \subseteq purger.purge
            BY <2>1, <2>3 DEF Rounds
        <3>5. OneKeyEach' /\ HeldWasMade'
            BY <1>type, <3>2, <3>3
               DEF ConnectionInv, OneKeyEach, HeldWasMade, NoRecord
        <3>6. MovedIsNotHeld'
            BY <3>1, <3>2, <3>3 DEF ConnectionInv, MovedIsNotHeld
        <3>7. VisitedKey'
            BY <3>4 DEF VisitedKey, Visiting, Handling
        <3>8. PurgedKeys'
            <4> SUFFICES ASSUME NEW e \in purger.purge
                         PROVE  /\ e[2] <= made
                                /\ \A u \in Users :
                                     RECORDS'[Live(u)] = e[2] => e[1] = Live(u)
                BY <3>3, <3>4 DEF PurgedKeys
            <4>1. e[2] \in Recs
                BY <2>1 DEF Rounds
            <4>2. /\ e[2] <= made
                  /\ \A u \in Users : RECORDS[Live(u)] = e[2] => e[1] = Live(u)
                BY <2>1 DEF ConnectionInv, PurgedKeys, InARound
            <4> QED BY <3>1, <3>2, <4>1, <4>2, LiveIsKey
        <3>9. LiveRecordIsConnected'
            <4> SUFFICES ASSUME NEW u \in Users, RECORDS'[Live(u)] # NoRecord
                         PROVE  RECORDS'[Live(u)] \in connected'
                BY DEF LiveRecordIsConnected
            <4>1. RECORDS'[Live(u)] = RECORDS[Live(u)]
                BY <3>2, LiveIsKey
            <4>2. RECORDS[Live(u)] \in connected
                BY <4>1 DEF ConnectionInv, LiveRecordIsConnected
            <4>3. RECORDS[Live(u)] = entry[2] => entry[1] = Live(u)
                BY <2>1 DEF ConnectionInv, PurgedKeys, InARound
            <4>4. RECORDS[Live(u)] # entry[2]
                BY <3>2, <4>3, LiveIsKey
            <4> QED BY <2>3, <4>1, <4>2, <4>4
        <3> QED BY <3>5, <3>6, <3>7, <3>8, <3>9 DEF ConnectionInv
    <2> QED BY <1>10, <2>2, <2>3 DEF PurgerPurge, PurgerDies
<1> QED
    BY <1>1, <1>2, <1>3, <1>4, <1>5, <1>6, <1>7, <1>8, <1>9, <1>10 DEF Purger

LEMMA ConnectionEnvironment == ConnectionInv /\ Environment => ConnectionInv'
<1> SUFFICES ASSUME ConnectionInv, Environment PROVE ConnectionInv'
    OBVIOUS
<1> TypeOK'
    BY EnvironmentType DEF ConnectionInv
<1>1. ASSUME NEW u \in Users, NEW s \in Subs, NEW d \in Dates,
             ReceivePost(u, s, d)
      PROVE  ConnectionInv'
    BY <1>1, ConnectionQuiet DEF ReceivePost, Receive
<1>2. ASSUME NEW op \in Ops, NEW u \in Users, NEW s \in Subs,
             ReceiveOther(op, u, s)
      PROVE  ConnectionInv'
    BY <1>2, ConnectionQuiet DEF ReceiveOther, Receive
<1>3. ASSUME NEW s \in Subs, Lapse(s) PROVE ConnectionInv'
    <2>1. UNCHANGED <<RECORDS, made, connected, req, purger>>
        BY <1>3 DEF Lapse
    <2>2. VisitedKey' /\ PurgedKeys'
        BY <2>1 DEF ConnectionInv, VisitedKey, PurgedKeys, InARound
    <2> QED BY <2>1, <2>2, ConnectionNotes
<1> QED BY <1>1, <1>2, <1>3 DEF Environment

LEMMA ConnectionInvariant == Spec => []ConnectionInv
<1>1. ConnectionInv /\ [Next]_vars => ConnectionInv'
    <2> SUFFICES ASSUME ConnectionInv, [Next]_vars PROVE ConnectionInv'
        OBVIOUS
    <2>1. CASE UNCHANGED vars
        <3>1. TypeOK'
            BY <2>1 DEF ConnectionInv, TypeOK, vars, data
        <3>2. UNCHANGED <<RECORDS, made, connected, req, purger>>
            BY <2>1 DEF vars
        <3>3. VisitedKey' /\ PurgedKeys'
            BY <3>2 DEF ConnectionInv, VisitedKey, PurgedKeys, InARound
        <3> QED BY <3>1, <3>2, <3>3, ConnectionNotes
    <2> QED BY <2>1, ConnectionRequest, ConnectionPurger, ConnectionEnvironment DEF Next
<1> QED BY ConnectionInit, <1>1, PTL DEF Spec

\* The Record that RECORDS holds for a userid has not been closed by the
\* purger, although the purger decides to close without thread_lock and the
\* request thread may have replaced the Record since.
THEOREM LiveConnected == Spec => []LiveRecordIsConnected
<1>1. ConnectionInv => LiveRecordIsConnected
    BY DEF ConnectionInv
<1> QED BY ConnectionInvariant, <1>1, PTL

-----------------------------------------------------------------------------
(* No server connection is forgotten                                       *)
(*                                                                         *)
(* RECORDS never overwrites an entry: the live key that Connect writes was *)
(* found free, or cleared, by the same request, and the dangle key carries *)
(* a number that no key had before. That this number is a key of the model *)
(* is a count: every Record made is live, dangled once, or being moved.    *)

Replacing == {"clear", "unsubscribe", "connect"}

ReplacedIsFree ==
    req.pc \in Replacing => RECORDS[Live(req.user)] = NoRecord

KeysAreCounted == \A k \in Keys : RECORDS[k] # NoRecord => k[2] <= RECORD_INDEX

ConnectedWasMade == \A r \in connected : r <= made

LiveUsers == {u \in Users : RECORDS[Live(u)] # NoRecord}

MovedAreMade ==
    RECORD_INDEX + Cardinality(LiveUsers) + (IF req.pc = "clear" THEN 1 ELSE 0)
        <= made

KeepingInv ==
    /\ ReplacedIsFree
    /\ KeysAreCounted
    /\ ConnectedWasMade
    /\ MovedAreMade
    /\ NoConnectionForgotten

LEMMA LiveUsersCount ==
    /\ IsFiniteSet(LiveUsers)
    /\ Cardinality(LiveUsers) \in Nat
<1>1. LiveUsers \subseteq Users
    BY DEF LiveUsers
<1>2. IsFiniteSet(LiveUsers)
    BY <1>1, UsersAssumption, FS_Subset
<1> QED BY <1>2, FS_CardinalityType

LEMMA KeepingInit == Init => KeepingInv
<1> SUFFICES ASSUME Init PROVE KeepingInv
    OBVIOUS
<1>1. LiveUsers = {}
    BY LiveIsKey DEF Init, LiveUsers
<1>2. Cardinality(LiveUsers) = 0
    BY <1>1, FS_EmptySet
<1>3. ReplacedIsFree /\ KeysAreCounted /\ ConnectedWasMade /\ NoConnectionForgotten
    BY DEF Init, Idle, ReplacedIsFree, Replacing, KeysAreCounted,
           ConnectedWasMade, NoConnectionForgotten
<1>4. MovedAreMade
    BY <1>2 DEF Init, Idle, MovedAreMade
<1> QED BY <1>3, <1>4 DEF KeepingInv

\* The steps that change neither RECORDS nor what the caller is replacing.
LEMMA KeepingQuiet ==
    ASSUME KeepingInv, UNCHANGED <<RECORDS, RECORD_INDEX, made, connected>>,
           req.pc # "clear", req'.pc # "clear",
           req'.pc \in Replacing => RECORDS[Live(req'.user)] = NoRecord
    PROVE  KeepingInv'
<1>1. LiveUsers' = LiveUsers
    BY DEF LiveUsers
<1>2. ReplacedIsFree' /\ KeysAreCounted' /\ ConnectedWasMade'
    BY DEF KeepingInv, ReplacedIsFree, KeysAreCounted, ConnectedWasMade
<1>3. MovedAreMade'
    BY <1>1 DEF KeepingInv, MovedAreMade
<1>4. NoConnectionForgotten'
    BY DEF KeepingInv, NoConnectionForgotten, Held
<1> QED BY <1>2, <1>3, <1>4 DEF KeepingInv

\* Apart from the steps of _record on RECORDS, a request goes on with what it
\* was replacing, or replaces nothing.
LEMMA RequestGoesOn ==
    ASSUME TypeOK, Request, ~Lookup, ~PopRecord, ~DangleRecord, UNCHANGED made
    PROVE  /\ UNCHANGED <<RECORDS, RECORD_INDEX, connected>>
           /\ req.pc # "clear" /\ req'.pc # "clear"
           /\ req'.pc \in Replacing => req.pc \in Replacing /\ UNCHANGED req.user
<1>type. req \in {Idle} \cup Requests /\ made \in Nat
    BY DEF TypeOK
<1> USE DEF Replacing, At
<1>1. ASSUME NEW s \in Subs, DropSink(s)
      PROVE  /\ UNCHANGED <<RECORDS, RECORD_INDEX, connected>>
             /\ req.pc = "unsubscribe" /\ req'.pc # "clear"
             /\ req'.pc \in Replacing => UNCHANGED req.user
    <2>1. req \in Requests
        BY <1>1, <1>type, Busy DEF DropSink
    <2>2. CASE req' = [req EXCEPT !.left = @ \ {s}]
        BY <1>1, <2>1, <2>2 DEF DropSink, Requests
    <2>3. CASE Finish \/ ServerError
        <3>1. req'.pc \in {"idle", "lookup"}
            BY <2>1, <2>3, ServerErrorFields DEF Finish, Idle
        <3> QED BY <1>1, <3>1 DEF DropSink
    <2> QED BY <1>1, <2>2, <2>3 DEF DropSink
<1>2. CASE DropDone
    <2>1. req \in Requests
        BY <1>2, <1>type, Busy DEF DropDone
    <2>2. req'.pc = "connect" /\ req.pc = "unsubscribe" /\ UNCHANGED req.user
        BY <1>2, <2>1, GoToFields DEF DropDone
    <2> QED BY <1>2, <2>2 DEF DropDone
<1>3. CASE Connect
    <2>1. req \in Requests /\ req.pc = "connect"
        BY <1>3, <1>type, Busy DEF Connect
    <2>2. made + 1 # made
        BY <1>type
    <2>3. ServerError /\ UNCHANGED <<RECORDS, connected, RECORD_INDEX>>
        BY <1>3, <2>2 DEF Connect
    <2>4. req'.pc \in {"idle", "lookup"}
        BY <2>1, <2>3, ServerErrorFields DEF Idle
    <2> QED BY <2>1, <2>3, <2>4
<1>4. CASE CheckConnection
    <2>1. req \in Requests
        BY <1>4, <1>type, Busy DEF CheckConnection
    <2>2. req'.pc \in {FirstStep[req.op], "pop"} /\ req.op \in Ops
        BY <1>4, <2>1, GoToFields DEF CheckConnection, Requests
    <2>3. req'.pc \notin Replacing
        BY <2>2, FirstStepFacts
    <2> QED BY <1>4, <2>3 DEF CheckConnection
<1> DEFINE Later == \/ ValidateWebhook \/ Subscribe \/ StoreSubscription
                    \/ AnswerPost \/ FindSubscription \/ KeepDate \/ UnflagSink
                    \/ TakeSubscription \/ ReleaseSink \/ Read
                    \/ \E d \in Dates : SetDate(d)
<1>5. CASE Later
    <2> USE DEF ValidateWebhook, Subscribe, StoreSubscription, AnswerPost,
                FindSubscription, KeepDate, UnflagSink, TakeSubscription,
                ReleaseSink, Read, SetDate
    <2>1. req \in Requests
        BY <1>5, <1>type, Busy
    <2>2. ASSUME NEW pc, pc \notin Replacing, GoTo(pc) PROVE req'.pc \notin Replacing
        BY <2>1, <2>2, GoToFields
    <2>3. ASSUME ServerError \/ Finish PROVE req'.pc \notin Replacing
        <3>1. req'.pc \in {"idle", "lookup"}
            BY <2>1, <2>3, ServerErrorFields DEF Finish, Idle
        <3> QED BY <3>1
    <2>4. ASSUME req' = [req EXCEPT !.pc = "release", !.store = StoreOf(req.rec)]
          PROVE  req'.pc \notin Replacing
        <3>1. req'.pc = "release"
            BY <2>1, <2>4 DEF Requests
        <3> QED BY <3>1
    <2>5. req'.pc \notin Replacing
        <3>1. \/ ServerError \/ Finish
              \/ req' = [req EXCEPT !.pc = "release", !.store = StoreOf(req.rec)]
              \/ \E pc \in {"subscribe", "store", "answer", "date", "unflag"} : GoTo(pc)
            BY <1>5
        <3> QED BY <2>2, <2>3, <2>4, <3>1
    <2>6. req.pc # "clear"
        BY <1>5
    <2>7. UNCHANGED <<RECORDS, RECORD_INDEX, connected>>
        BY <1>5
    <2> QED BY <2>5, <2>6, <2>7
<1>6. DropDone \/ Connect \/ CheckConnection \/ Later \/ \E s \in Subs : DropSink(s)
    BY DEF Request
<1> HIDE DEF Later
<1> QED BY <1>1, <1>2, <1>3, <1>4, <1>5, <1>6

LEMMA KeepingRequest ==
    ASSUME ConnectionInv, KeepingInv, Request
    PROVE  KeepingInv'
<1>type. /\ TypeOK
         /\ req \in {Idle} \cup Requests
         /\ RECORDS \in [Keys -> Recs \cup {NoRecord}]
         /\ made \in 0 .. MaxRecords /\ RECORD_INDEX \in Nat
         /\ connected \subseteq Recs
    BY DEF ConnectionInv, TypeOK
<1>1. CASE Lookup
    <2>1. req \in Requests /\ req.pc = "lookup"
        BY <1>1, <1>type, Busy DEF Lookup, At
    <2>2. /\ req'.pc \in {"connect", "check"} /\ UNCHANGED req.user
          /\ req'.pc = "connect" => RECORDS[Live(req.user)] = NoRecord
        BY <1>1, <2>1 DEF Lookup, Requests
    <2> QED BY <1>1, <2>1, <2>2, KeepingQuiet DEF Lookup, Replacing
<1>2. CASE PopRecord
    <2>1. req \in Requests /\ req.pc = "pop"
        BY <1>2, <1>type, Busy DEF PopRecord, At
    <2>2. Live(req.user) \in Keys /\ req.user \in Users
        BY <2>1, LiveIsKey DEF Requests
    <2>3. CASE /\ RECORDS[Live(req.user)] = NoRecord
               /\ GoTo("connect") /\ UNCHANGED RECORDS
        <3>1. req'.pc = "connect" /\ UNCHANGED req.user
            BY <2>1, <2>3, GoToFields
        <3> QED BY <1>2, <2>1, <2>3, <3>1, KeepingQuiet DEF PopRecord
    <2>4. CASE /\ RECORDS[Live(req.user)] # NoRecord
               /\ RECORDS' = [RECORDS EXCEPT ![Live(req.user)] = NoRecord]
               /\ req' = [req EXCEPT !.pc = "clear",
                                     !.rec = RECORDS[Live(req.user)],
                                     !.left = subscriptions[RECORDS[Live(req.user)]]]
        <3>1. /\ req'.pc = "clear" /\ UNCHANGED req.user
              /\ req'.rec = RECORDS[Live(req.user)]
            BY <2>1, <2>4 DEF Requests
        <3>2. \A k \in Keys : RECORDS'[k] = IF k = Live(req.user) THEN NoRecord
                                            ELSE RECORDS[k]
            BY <1>type, <2>4
        <3>3. UNCHANGED <<RECORD_INDEX, made, connected>>
            BY <1>2 DEF PopRecord
        <3>4. ReplacedIsFree'
            BY <2>2, <3>1, <3>2 DEF ReplacedIsFree
        <3>5. KeysAreCounted' /\ ConnectedWasMade'
            BY <3>2, <3>3 DEF KeepingInv, KeysAreCounted, ConnectedWasMade
        <3>6. MovedAreMade'
            <4>1. LiveUsers' = LiveUsers \ {req.user} /\ req.user \in LiveUsers
                BY <2>2, <2>4, <3>2, LiveIsKey DEF LiveUsers, Live
            <4>2. Cardinality(LiveUsers') = Cardinality(LiveUsers) - 1
                BY <4>1, LiveUsersCount, FS_RemoveElement
            <4>3. RECORD_INDEX + Cardinality(LiveUsers) <= made
                BY <1>type, <2>1, LiveUsersCount DEF KeepingInv, MovedAreMade
            <4> QED BY <1>type, <3>1, <3>3, <4>2, <4>3, LiveUsersCount DEF MovedAreMade
        <3>7. NoConnectionForgotten'
            <4> SUFFICES ASSUME NEW r \in connected, r # req'.rec
                         PROVE  \E k \in Keys : RECORDS'[k] # NoRecord /\ RECORDS'[k] = r
                BY <3>1, <3>3 DEF NoConnectionForgotten, Held
            <4>1. PICK k \in Keys : RECORDS[k] # NoRecord /\ RECORDS[k] = r
                BY <2>1 DEF KeepingInv, NoConnectionForgotten, Held
            <4>2. k # Live(req.user)
                BY <3>1, <4>1
            <4> QED BY <3>2, <4>1, <4>2
        <3> QED BY <3>4, <3>5, <3>6, <3>7 DEF KeepingInv
    <2> QED BY <1>2, <2>3, <2>4 DEF PopRecord
<1>3. CASE DangleRecord
    <2>1. req \in Requests /\ req.pc = "clear" /\ req.user \in Users
        BY <1>3, <1>type, Busy DEF DangleRecord, At, Requests
    <2>2. req'.pc = "unsubscribe" /\ UNCHANGED <<req.user, req.rec>>
        BY <1>3, <2>1, GoToFields DEF DangleRecord
    <2>3. UNCHANGED <<made, connected>> /\ RECORD_INDEX' = RECORD_INDEX + 1
        BY <1>3 DEF DangleRecord
    <2> DEFINE key == <<req.user, RECORD_INDEX + 1>>
    <2>4. RECORD_INDEX + Cardinality(LiveUsers) + 1 <= made
        BY <2>1 DEF KeepingInv, MovedAreMade
    <2>5. RECORD_INDEX + 1 \in 0 .. MaxRecords
        BY <1>type, <2>4, LiveUsersCount, MaxRecordsAssumption
    <2>6. key \in Keys /\ key[2] = RECORD_INDEX + 1
        BY <2>1, <2>5 DEF Keys
    <2>7. RECORDS[key] = NoRecord
        <3>1. ~(RECORD_INDEX + 1 <= RECORD_INDEX)
            BY <1>type
        <3> QED BY <2>6, <3>1 DEF KeepingInv, KeysAreCounted
    <2>8. \A k \in Keys : RECORDS'[k] = IF k = key THEN req.rec ELSE RECORDS[k]
        BY <1>3, <1>type DEF DangleRecord
    <2>9. \A u \in Users : Live(u) # key
        BY <1>type DEF Live
    <2>10. \A u \in Users : RECORDS'[Live(u)] = RECORDS[Live(u)]
        BY <2>8, <2>9, LiveIsKey
    <2>11. ReplacedIsFree'
        BY <2>1, <2>2, <2>10 DEF KeepingInv, ReplacedIsFree, Replacing
    <2>12. KeysAreCounted'
        <3> SUFFICES ASSUME NEW k \in Keys, RECORDS'[k] # NoRecord
                     PROVE  k[2] <= RECORD_INDEX + 1
            BY <2>3 DEF KeysAreCounted
        <3>1. k[2] \in Nat
            BY MaxRecordsAssumption DEF Keys
        <3>2. CASE k = key
            BY <1>type, <2>6, <3>2
        <3>3. CASE k # key
            <4>1. k[2] <= RECORD_INDEX
                BY <2>8, <3>3 DEF KeepingInv, KeysAreCounted
            <4> QED BY <1>type, <3>1, <4>1
        <3> QED BY <3>2, <3>3
    <2>13. ConnectedWasMade'
        BY <2>3 DEF KeepingInv, ConnectedWasMade
    <2>14. MovedAreMade'
        <3>1. LiveUsers' = LiveUsers
            BY <2>10 DEF LiveUsers
        <3> QED BY <1>type, <2>2, <2>3, <2>4, <3>1, LiveUsersCount DEF MovedAreMade
    <2>15. NoConnectionForgotten'
        <3> SUFFICES ASSUME NEW r \in connected
                     PROVE  \E k \in Keys : RECORDS'[k] # NoRecord /\ RECORDS'[k] = r
            BY <2>3 DEF NoConnectionForgotten, Held
        <3>1. r # NoRecord
            BY <1>type DEF Recs, NoRecord
        <3>2. CASE r = req.rec
            BY <2>6, <2>8, <3>1, <3>2
        <3>3. CASE r # req.rec
            <4>1. PICK k \in Keys : RECORDS[k] # NoRecord /\ RECORDS[k] = r
                BY <3>3 DEF KeepingInv, NoConnectionForgotten, Held
            <4>2. k # key
                BY <2>7, <4>1
            <4> QED BY <2>8, <4>1, <4>2
        <3> QED BY <3>2, <3>3
    <2> QED BY <2>11, <2>12, <2>13, <2>14, <2>15 DEF KeepingInv
<1>4. CASE Connect /\ ~UNCHANGED made
    <2>1. req \in Requests /\ req.pc = "connect"
        BY <1>4, <1>type, Busy DEF Connect, At
    <2>2. /\ made' = made + 1
          /\ connected' = connected \cup {made + 1}
          /\ RECORDS' = [RECORDS EXCEPT ![Live(req.user)] = made + 1]
          /\ req' = [req EXCEPT !.rec = made + 1, !.pc = FirstStep[req.op]]
          /\ UNCHANGED RECORD_INDEX
        BY <1>4 DEF Connect
    <2>3. Live(req.user) \in Keys /\ req.user \in Users
        BY <2>1, LiveIsKey DEF Requests
    <2>4. RECORDS[Live(req.user)] = NoRecord
        BY <2>1 DEF KeepingInv, ReplacedIsFree, Replacing
    <2>5. \A k \in Keys : RECORDS'[k] = IF k = Live(req.user) THEN made + 1
                                        ELSE RECORDS[k]
        BY <1>type, <2>2
    <2>6. req'.pc = FirstStep[req.op] /\ req.op \in Ops
        BY <2>1, <2>2 DEF Requests
    <2>7. ReplacedIsFree'
        BY <2>6, FirstStepFacts DEF ReplacedIsFree, Replacing
    <2>8. made + 1 # NoRecord
        BY <1>type DEF NoRecord
    <2>9. KeysAreCounted'
        <3> SUFFICES ASSUME NEW k \in Keys, RECORDS'[k] # NoRecord
                     PROVE  k[2] <= RECORD_INDEX
            BY <2>2 DEF KeysAreCounted
        <3>1. CASE k = Live(req.user)
            BY <1>type, <3>1 DEF Live
        <3>2. CASE k # Live(req.user)
            BY <2>5, <3>2 DEF KeepingInv, KeysAreCounted
        <3> QED BY <3>1, <3>2
    <2>10. ConnectedWasMade'
        <3> SUFFICES ASSUME NEW r \in connected' PROVE r <= made + 1
            BY <2>2 DEF ConnectedWasMade
        <3>1. CASE r = made + 1
            BY <1>type, <3>1
        <3>2. CASE r \in connected
            <4>1. r <= made /\ r \in Nat
                BY <1>type, <3>2 DEF KeepingInv, ConnectedWasMade, Recs
            <4> QED BY <1>type, <4>1
        <3> QED BY <2>2, <3>1, <3>2
    <2>11. MovedAreMade'
        <3>1. LiveUsers' = LiveUsers \cup {req.user} /\ req.user \notin LiveUsers
            BY <2>3, <2>4, <2>5, <2>8, LiveIsKey DEF LiveUsers, Live
        <3>2. Cardinality(LiveUsers') = Cardinality(LiveUsers) + 1
            BY <3>1, LiveUsersCount, FS_AddElement
        <3>3. req'.pc # "clear"
            BY <2>6, FirstStepFacts
        <3>4. RECORD_INDEX + Cardinality(LiveUsers) <= made
            BY <1>type, <2>1, LiveUsersCount DEF KeepingInv, MovedAreMade
        <3> QED BY <1>type, <2>2, <3>2, <3>3, <3>4, LiveUsersCount DEF MovedAreMade
    <2>12. NoConnectionForgotten'
        <3> SUFFICES ASSUME NEW r \in connected'
                     PROVE  \E k \in Keys : RECORDS'[k] # NoRecord /\ RECORDS'[k] = r
            BY DEF NoConnectionForgotten, Held
        <3>1. CASE r = made + 1
            BY <2>3, <2>5, <2>8, <3>1
        <3>2. CASE r \in connected
            <4>1. PICK k \in Keys : RECORDS[k] # NoRecord /\ RECORDS[k] = r
                BY <2>1, <3>2 DEF KeepingInv, NoConnectionForgotten, Held
            <4>2. k # Live(req.user)
                BY <2>4, <4>1
            <4> QED BY <2>5, <4>1, <4>2
        <3> QED BY <2>2, <3>1, <3>2
    <2> QED BY <2>7, <2>9, <2>10, <2>11, <2>12 DEF KeepingInv
<1>5. CASE ~Lookup /\ ~PopRecord /\ ~DangleRecord /\ UNCHANGED made
    <2>1. /\ UNCHANGED <<RECORDS, RECORD_INDEX, connected>>
          /\ req.pc # "clear" /\ req'.pc # "clear"
          /\ req'.pc \in Replacing => req.pc \in Replacing /\ UNCHANGED req.user
        BY <1>5, <1>type, RequestGoesOn
    <2>2. req'.pc \in Replacing => RECORDS[Live(req'.user)] = NoRecord
        BY <2>1 DEF KeepingInv, ReplacedIsFree
    <2> QED BY <1>5, <2>1, <2>2, KeepingQuiet
<1>6. UNCHANGED made \/ Connect
    BY DEF Request, Lookup, CheckConnection, PopRecord, DangleRecord, DropSink,
           DropDone, ValidateWebhook, Subscribe, StoreSubscription, AnswerPost,
           FindSubscription, KeepDate, UnflagSink, TakeSubscription,
           ReleaseSink, Read, SetDate
<1> QED BY <1>1, <1>2, <1>3, <1>4, <1>5, <1>6

LEMMA KeepingPurger ==
    ASSUME ConnectionInv, KeepingInv, Purger
    PROVE  KeepingInv'
<1> USE DEF requestVars
<1>type. /\ purger \in {Waiting, Dead} \cup Rounds
         /\ RECORDS \in [Keys -> Recs \cup {NoRecord}]
         /\ made \in 0 .. MaxRecords /\ RECORD_INDEX \in Nat
    BY DEF ConnectionInv, TypeOK
<1>still. ASSUME UNCHANGED <<RECORDS, RECORD_INDEX, made, connected, req>>
          PROVE  KeepingInv'
    <2>1. LiveUsers' = LiveUsers
        BY <1>still DEF LiveUsers
    <2> QED
        BY <1>still, <2>1
           DEF KeepingInv, ReplacedIsFree, KeysAreCounted, ConnectedWasMade,
               MovedAreMade, NoConnectionForgotten, Held
<1>1. CASE PurgerPurge /\ purger.purge # {}
    <2>1. purger \in Rounds
        BY <1>1, <1>type, InRound DEF PurgerPurge
    <2>2. CASE UNCHANGED <<RECORDS, connected>>
        BY <1>1, <2>2, <1>still DEF PurgerPurge
    <2>3. ASSUME NEW entry \in purger.purge,
                 RECORDS' = [RECORDS EXCEPT ![entry[1]] = Remaining(entry[1], entry[2])],
                 connected' = connected \ {entry[2]}
          PROVE  KeepingInv'
        <3>1. \A k \in Keys :
                 RECORDS'[k] = IF k = entry[1] /\ RECORDS[k] = entry[2]
                               THEN NoRecord ELSE RECORDS[k]
            BY <1>type, <2>3 DEF Remaining
        <3>2. UNCHANGED <<RECORD_INDEX, made, req>>
            BY <1>1 DEF PurgerPurge
        <3>3. ReplacedIsFree'
            <4> SUFFICES ASSUME req.pc \in Replacing
                         PROVE  RECORDS'[Live(req.user)] = NoRecord
                BY <3>2 DEF ReplacedIsFree
            <4>1. req \in Requests /\ req.user \in Users
                BY DEF ConnectionInv, TypeOK, Idle, Replacing, Requests
            <4> QED BY <3>1, <4>1, LiveIsKey DEF KeepingInv, ReplacedIsFree
        <3>4. KeysAreCounted' /\ ConnectedWasMade'
            BY <2>3, <3>1, <3>2 DEF KeepingInv, KeysAreCounted, ConnectedWasMade
        <3>5. MovedAreMade'
            <4>1. LiveUsers' \subseteq LiveUsers
                BY <3>1, LiveIsKey DEF LiveUsers
            <4>2. /\ Cardinality(LiveUsers') \in Nat
                  /\ Cardinality(LiveUsers') <= Cardinality(LiveUsers)
                <5>1. IsFiniteSet(LiveUsers')
                    BY <4>1, LiveUsersCount, FS_Subset
                <5> QED BY <4>1, <5>1, LiveUsersCount, FS_Subset, FS_CardinalityType
            <4> QED
                BY <1>type, <3>2, <4>2, LiveUsersCount DEF KeepingInv, MovedAreMade
        <3>6. NoConnectionForgotten'
            <4> SUFFICES ASSUME NEW r \in connected, r # entry[2]
                         PROVE  \/ \E k \in Keys : RECORDS'[k] # NoRecord /\ RECORDS'[k] = r
                                \/ req.pc = "clear" /\ req.rec = r
                BY <2>3, <3>2 DEF NoConnectionForgotten, Held
            <4>1. ASSUME NEW k \in Keys, RECORDS[k] # NoRecord, RECORDS[k] = r
                  PROVE  RECORDS'[k] # NoRecord /\ RECORDS'[k] = r
                BY <3>1, <4>1
            <4> QED BY <4>1 DEF KeepingInv, NoConnectionForgotten, Held
        <3> QED BY <3>3, <3>4, <3>5, <3>6 DEF KeepingInv
    <2> QED BY <1>1, <2>2, <2>3 DEF PurgerPurge
<1>2. CASE ~(PurgerPurge /\ purger.purge # {})
    <2>1. UNCHANGED <<RECORDS, RECORD_INDEX, made, connected, req>>
        BY <1>2 DEF Purger, PurgerWake, PurgerNext, PurgerScan, PurgerMark,
                    PurgerCheck, PurgerDelete, PurgerUnsubscribe, PurgerJudge,
                    PurgerAcquire, PurgerPurge
    <2> QED BY <2>1, <1>still
<1> QED BY <1>1, <1>2

LEMMA KeepingEnvironment ==
    ASSUME KeepingInv, Environment \/ UNCHANGED vars
    PROVE  KeepingInv'
<1>1. CASE UNCHANGED <<RECORDS, RECORD_INDEX, made, connected, req>>
    <2>1. LiveUsers' = LiveUsers
        BY <1>1 DEF LiveUsers
    <2> QED
        BY <1>1, <2>1
           DEF KeepingInv, ReplacedIsFree, KeysAreCounted, ConnectedWasMade,
               MovedAreMade, NoConnectionForgotten, Held
<1>2. CASE /\ UNCHANGED <<RECORDS, RECORD_INDEX, made, connected>>
           /\ req.pc = "idle" /\ req'.pc = "lookup"
    BY <1>2, KeepingQuiet DEF Replacing
<1> QED
    BY <1>1, <1>2
       DEF Environment, ReceivePost, ReceiveOther, Receive, Lapse, At, vars, data

\* A server connection is never forgotten: whatever request and purger
\* interleave, a Record that is still connected is one that the purger will
\* find in RECORDS, or that _record is just moving there.
THEOREM ConnectionsKept == Spec => []NoConnectionForgotten
<1>1. Init => KeepingInv
    BY KeepingInit
<1>2. ConnectionInv /\ KeepingInv /\ [Next]_vars => KeepingInv'
    BY KeepingRequest, KeepingPurger, KeepingEnvironment DEF Next
<1>3. KeepingInv => NoConnectionForgotten
    BY DEF KeepingInv
<1> QED BY <1>1, <1>2, <1>3, ConnectionInvariant, PTL DEF Spec

-----------------------------------------------------------------------------
(* The refinement                                                          *)
(*                                                                         *)
(* Beside ListingInv it takes one fact: a sink that a thread is about to   *)
(* unregister had been listed, so its subscription has an owner.           *)

TakenHasOwner ==
    /\ req.pc \in {"clear", "unsubscribe"} => \A s \in req.left : owner[s] # None
    /\ req.pc = "release" => owner[req.sub] # None

LEMMA TakenInit == Init => TakenHasOwner
    BY DEF Init, Idle, TakenHasOwner

\* An owner is set once and for all, by StoreSubscription.
LEMMA OwnersStay ==
    ASSUME ListingInv, Next, NEW s \in Subs, owner[s] # None
    PROVE  UNCHANGED owner[s]
<1>1. CASE StoreSubscription
    <2>1. req \in Requests
        BY <1>1, Busy DEF StoreSubscription, ListingInv, TypeOK
    <2>2. req.pc = "store" /\ req.op = "post"
        BY <1>1 DEF StoreSubscription, At, ListingInv, PostSteps
    <2>3. owner[req.sub] = None
        BY <2>2 DEF ListingInv, PostIsFresh
    <2> QED BY <1>1, <2>3 DEF StoreSubscription, ListingInv, TypeOK
<1>2. CASE Request /\ ~StoreSubscription
    BY <1>2 DEF Request, Lookup, CheckConnection, PopRecord, DangleRecord,
                DropSink, DropDone, Connect, ValidateWebhook, Subscribe,
                AnswerPost, FindSubscription, KeepDate, UnflagSink,
                TakeSubscription, ReleaseSink, Read, SetDate, data
<1>3. CASE Purger
    BY <1>3 DEF Purger, PurgerWake, PurgerNext, PurgerScan, PurgerMark,
                PurgerCheck, PurgerDelete, PurgerUnsubscribe, PurgerJudge,
                PurgerAcquire, PurgerPurge, requestVars
<1>4. CASE Environment
    BY <1>4 DEF Environment, ReceivePost, ReceiveOther, Lapse, data
<1> QED BY <1>1, <1>2, <1>3, <1>4 DEF Next

\* What the request thread takes off a Record, or goes on holding.
LEMMA TakenRequest ==
    ASSUME ListingInv, Request
    PROVE  /\ req'.pc \in {"clear", "unsubscribe"} =>
                 \/ \E r \in Recs : req'.left = subscriptions[r]
                 \/ req.pc \in {"clear", "unsubscribe"} /\ req'.left \subseteq req.left
           /\ req'.pc = "release" => \E r \in Recs : req'.sub \in subscriptions[r]
<1>type. /\ req \in {Idle} \cup Requests
         /\ RECORDS \in [Keys -> Recs \cup {NoRecord}]
    BY DEF ListingInv, TypeOK
<1>1. CASE PopRecord
    <2>1. req \in Requests
        BY <1>1, <1>type, Busy DEF PopRecord
    <2>2. RECORDS[Live(req.user)] \in Recs \cup {NoRecord}
        BY <1>type, <2>1, LiveIsKey DEF Requests
    <2>3. CASE GoTo("connect")
        BY <2>1, <2>3, GoToFields
    <2>4. CASE /\ RECORDS[Live(req.user)] # NoRecord
               /\ req' = [req EXCEPT !.pc = "clear",
                                     !.rec = RECORDS[Live(req.user)],
                                     !.left = subscriptions[RECORDS[Live(req.user)]]]
        <3>1. /\ req'.pc = "clear"
              /\ req'.left = subscriptions[RECORDS[Live(req.user)]]
            BY <2>1, <2>4 DEF Requests
        <3> QED BY <2>2, <2>4, <3>1
    <2> QED BY <1>1, <2>3, <2>4 DEF PopRecord
<1>2. CASE DangleRecord
    <2>1. req \in Requests /\ req.pc = "clear"
        BY <1>2, <1>type, Busy DEF DangleRecord, At
    <2>2. req'.pc = "unsubscribe" /\ req'.left = req.left
        BY <1>2, <2>1, GoToFields DEF DangleRecord
    <2> QED BY <2>1, <2>2
<1>3. ASSUME NEW s \in Subs, DropSink(s)
      PROVE  /\ req.pc = "unsubscribe" /\ req'.pc # "release"
             /\ req'.pc \in {"clear", "unsubscribe"} => req'.left \subseteq req.left
    <2>1. req \in Requests
        BY <1>3, <1>type, Busy DEF DropSink
    <2>2. CASE req' = [req EXCEPT !.left = @ \ {s}]
        BY <1>3, <2>1, <2>2 DEF DropSink, At, Requests
    <2>3. CASE Finish \/ ServerError
        <3>1. req'.pc \in {"idle", "lookup"}
            BY <2>1, <2>3, ServerErrorFields DEF Finish, Idle
        <3> QED BY <1>3, <3>1 DEF DropSink, At
    <2> QED BY <1>3, <2>2, <2>3 DEF DropSink
<1>4. CASE TakeSubscription
    <2>1. req \in Requests
        BY <1>4, <1>type, Busy DEF TakeSubscription
    <2>2. req.rec \in Recs
        BY <1>4 DEF TakeSubscription, At, ListingInv, HasRecord, WithRecord
    <2>3. CASE Finish
        BY <2>3 DEF Finish, Idle
    <2>4. CASE /\ req.sub \in subscriptions[req.rec]
               /\ req' = [req EXCEPT !.pc = "release", !.store = StoreOf(req.rec)]
        <3>1. req'.pc = "release" /\ req'.sub = req.sub
            BY <2>1, <2>4 DEF Requests
        <3> QED BY <2>2, <2>4, <3>1
    <2> QED BY <1>4, <2>3, <2>4 DEF TakeSubscription
<1>5. ASSUME Lookup \/ CheckConnection \/ DropDone \/ Connect
             \/ ValidateWebhook \/ Subscribe \/ StoreSubscription \/ AnswerPost
             \/ FindSubscription \/ KeepDate \/ UnflagSink \/ ReleaseSink
             \/ Read \/ \E d \in Dates : SetDate(d)
      PROVE  req'.pc \notin {"clear", "unsubscribe", "release"}
    <2> USE DEF Lookup, CheckConnection, DropDone, Connect, ValidateWebhook,
                Subscribe, StoreSubscription, AnswerPost, FindSubscription,
                KeepDate, UnflagSink, ReleaseSink, Read, SetDate
    <2>1. req \in Requests
        BY <1>5, <1>type, Busy
    <2>2. req.op \in Ops
        BY <2>1 DEF Requests
    <2>3. ASSUME NEW pc, pc \notin {"clear", "unsubscribe", "release"}, GoTo(pc)
          PROVE  req'.pc = pc
        BY <2>1, <2>3, GoToFields
    <2>4. ASSUME ServerError \/ Finish PROVE req'.pc \in {"idle", "lookup"}
        BY <2>1, <2>4, ServerErrorFields DEF Finish, Idle
    <2>5. CASE Lookup
        <3>1. req'.pc \in {"connect", "check"}
            BY <2>1, <2>5 DEF Requests
        <3> QED BY <3>1
    <2>6. CASE req' = [req EXCEPT !.rec = made + 1, !.pc = FirstStep[req.op]]
        <3>1. req'.pc = FirstStep[req.op]
            BY <2>1, <2>6 DEF Requests
        <3> QED BY <2>2, <3>1, FirstStepFacts
    <2>7. CASE \/ ServerError \/ Finish
               \/ \E pc \in {"pop", "connect", "subscribe", "store", "answer",
                             "date", "unflag"} : GoTo(pc)
        BY <2>3, <2>4, <2>7
    <2>8. CASE GoTo(FirstStep[req.op])
        BY <2>2, <2>3, <2>8, FirstStepFacts
    <2> QED BY <1>5, <2>5, <2>6, <2>7, <2>8
<1> QED BY <1>1, <1>2, <1>3, <1>4, <1>5 DEF Request

LEMMA TakenNext ==
    ASSUME ListingInv, TakenHasOwner, [Next]_vars
    PROVE  TakenHasOwner'
<1>type. /\ req \in {Idle} \cup Requests
         /\ subscriptions \in [Recs -> SUBSET Subs]
    BY DEF ListingInv, TypeOK
<1>1. CASE Request
    <2>1. Next
        BY <1>1 DEF Next
    <2>2. ASSUME req'.pc \in {"clear", "unsubscribe"}, NEW s \in req'.left
          PROVE  owner'[s] # None
        <3>1. CASE \E r \in Recs : req'.left = subscriptions[r]
            <4>1. PICK r \in Recs : s \in subscriptions[r]
                BY <3>1
            <4>2. s \in Subs /\ owner[s] # None
                BY <1>type, <4>1 DEF ListingInv, ListedHasOwner
            <4> QED BY <2>1, <4>2, OwnersStay
        <3>2. CASE req.pc \in {"clear", "unsubscribe"} /\ req'.left \subseteq req.left
            <4>1. s \in Subs /\ owner[s] # None
                BY <1>type, <3>2 DEF TakenHasOwner, Idle, Requests
            <4> QED BY <2>1, <4>1, OwnersStay
        <3> QED BY <1>1, <2>2, <3>1, <3>2, TakenRequest
    <2>3. ASSUME req'.pc = "release" PROVE owner'[req'.sub] # None
        <3>1. PICK r \in Recs : req'.sub \in subscriptions[r]
            BY <1>1, <2>3, TakenRequest
        <3>2. req'.sub \in Subs /\ owner[req'.sub] # None
            BY <1>type, <3>1 DEF ListingInv, ListedHasOwner
        <3> QED BY <2>1, <3>2, OwnersStay
    <2> QED BY <2>2, <2>3 DEF TakenHasOwner
<1>2. CASE UNCHANGED <<req, owner>>
    BY <1>2 DEF TakenHasOwner
<1>3. CASE req'.pc = "lookup"
    BY <1>3 DEF TakenHasOwner
<1>4. Purger => UNCHANGED <<req, owner>>
    BY DEF Purger, PurgerWake, PurgerNext, PurgerScan, PurgerMark, PurgerCheck,
           PurgerDelete, PurgerUnsubscribe, PurgerJudge, PurgerAcquire,
           PurgerPurge, requestVars
<1>5. Environment => UNCHANGED <<req, owner>> \/ req'.pc = "lookup"
    BY DEF Environment, ReceivePost, ReceiveOther, Receive, Lapse
<1> QED BY <1>1, <1>2, <1>3, <1>4, <1>5 DEF Next, vars, data

\* The abstract variable removed.
Removed == {s \in Subs : owner[s] # None} \ Listed

\* A step of the abstract specification, or a stutter.
LifecycleStep == [Lifecycle!LifecycleNext]_<<registered, Listed, Removed>>

LEMMA ListedIsOwned ==
    ASSUME ListingInv
    PROVE  /\ Listed \subseteq Subs \cap registered
           /\ \A s \in Listed : owner[s] # None
    BY DEF ListingInv, TypeOK, Listed, ListedHasOwner, RecordsRegistered

LEMMA StutterStep ==
    ASSUME UNCHANGED <<subscriptions, owner, registered>>
    PROVE  LifecycleStep
<1>1. Listed' = Listed
    BY DEF Listed
<1>2. Removed' = Removed
    BY <1>1 DEF Removed
<1> QED BY <1>1, <1>2 DEF LifecycleStep

\* Taking subscriptions off one Record unlists them, for good.
LEMMA UnlistStep ==
    ASSUME ListingInv, UNCHANGED <<owner, registered>>,
           NEW r \in Recs, NEW S \in SUBSET subscriptions[r],
           subscriptions' = [subscriptions EXCEPT ![r] = @ \ S]
    PROVE  LifecycleStep
<1>type. subscriptions \in [Recs -> SUBSET Subs]
    BY DEF ListingInv, TypeOK
<1>1. \A q \in Recs : subscriptions'[q] = IF q = r THEN subscriptions[q] \ S
                                          ELSE subscriptions[q]
    BY <1>type
<1>2. S \subseteq Listed
    BY DEF Listed
<1>3. Listed' = Listed \ S
    <2>1. \A q \in Recs : q # r => subscriptions[q] \cap S = {}
        BY DEF ListingInv, ListedOnce
    <2>2. \A q \in Recs : subscriptions'[q] = subscriptions[q] \ S
        BY <1>1, <2>1
    <2> QED BY <2>2 DEF Listed
<1>4. Removed' = Removed \cup S
    BY <1>2, <1>3, ListedIsOwned DEF Removed
<1>5. CASE S = {}
    BY <1>3, <1>4, <1>5 DEF LifecycleStep
<1>6. CASE S # {}
    <2>1. Lifecycle!Unlist(S)
        BY <1>2, <1>3, <1>4, <1>6 DEF Lifecycle!Unlist, Removed
    <2>2. S \in SUBSET Subs
        BY <1>2, ListedIsOwned
    <2> QED BY <2>1, <2>2 DEF LifecycleStep, Lifecycle!LifecycleNext
<1> QED BY <1>5, <1>6

\* Unregistering the sink of a subscription that has been taken off.
LEMMA UnregisterStep ==
    ASSUME UNCHANGED <<subscriptions, owner>>,
           NEW s \in Subs, owner[s] # None, \A r \in Recs : s \notin subscriptions[r],
           registered' = registered \ {s}
    PROVE  LifecycleStep
<1>1. Listed' = Listed
    BY DEF Listed
<1>2. Removed' = Removed
    BY <1>1 DEF Removed
<1>3. s \in Removed
    BY DEF Removed, Listed
<1>4. CASE s \in registered
    <2>1. Lifecycle!Unregister(s)
        BY <1>1, <1>2, <1>3, <1>4 DEF Lifecycle!Unregister, Removed
    <2> QED BY <2>1 DEF LifecycleStep, Lifecycle!LifecycleNext
<1>5. CASE s \notin registered
    BY <1>1, <1>2, <1>5 DEF LifecycleStep
<1> QED BY <1>4, <1>5

LEMMA LifecycleRequest ==
    ASSUME ListingInv, TakenHasOwner, Request
    PROVE  LifecycleStep
<1> USE DEF At, data
<1>type. /\ req \in {Idle} \cup Requests
         /\ subscriptions \in [Recs -> SUBSET Subs]
         /\ owner \in [Subs -> Users \cup {None}]
    BY DEF ListingInv, TypeOK
<1>rec. req.pc \in {"clear", "store", "take"} => req.rec \in Recs
    BY DEF ListingInv, HasRecord, WithRecord
<1>1. CASE DangleRecord
    <2>1. req.rec \in Recs
        BY <1>1, <1>rec DEF DangleRecord
    <2>2. subscriptions' = [subscriptions EXCEPT ![req.rec] =
                                @ \ subscriptions[req.rec]]
        BY <1>1, <1>type, <2>1 DEF DangleRecord
    <2>3. UNCHANGED <<owner, registered>>
        BY <1>1 DEF DangleRecord
    <2> QED BY <2>1, <2>2, <2>3, UnlistStep
<1>2. ASSUME NEW s \in Subs, DropSink(s) PROVE LifecycleStep
    <2>1. s \in req.left /\ req.pc = "unsubscribe"
        BY <1>2 DEF DropSink
    <2>2. owner[s] # None /\ \A r \in Recs : s \notin subscriptions[r]
        BY <2>1 DEF TakenHasOwner, ListingInv, DroppedIsUnlisted
    <2>3. UNCHANGED <<subscriptions, owner>>
        BY <1>2 DEF DropSink
    <2>4. registered' = registered \ {s} \/ UNCHANGED registered
        BY <1>2 DEF DropSink, Unsubscribe
    <2> QED BY <2>2, <2>3, <2>4, UnregisterStep, StutterStep
<1>3. CASE Subscribe
    <2>1. req \in Requests /\ req.pc = "subscribe"
        BY <1>3, <1>type, Busy DEF Subscribe
    <2>2. req.op = "post"
        BY <2>1 DEF ListingInv, PostSteps
    <2>3. owner[req.sub] = None /\ req.sub \in Subs
        BY <2>1, <2>2 DEF ListingInv, PostIsFresh, Requests
    <2>4. UNCHANGED <<subscriptions, owner>>
        BY <1>3 DEF Subscribe
    <2>5. Listed' = Listed /\ Removed' = Removed
        BY <2>4 DEF Listed, Removed
    <2>6. CASE registered' = registered \cup {req.sub} /\ req.sub \notin registered
        <3>1. Lifecycle!Register(req.sub)
            BY <2>3, <2>5, <2>6 DEF Lifecycle!Register, Removed
        <3> QED BY <2>3, <3>1 DEF LifecycleStep, Lifecycle!LifecycleNext
    <2>7. CASE UNCHANGED registered
        BY <2>4, <2>7, StutterStep
    <2>8. registered' = registered \cup {req.sub} \/ UNCHANGED registered
        BY <1>3 DEF Subscribe
    <2> QED BY <2>6, <2>7, <2>8
<1>4. CASE StoreSubscription
    <2>1. req \in Requests /\ req.pc = "store" /\ req.rec \in Recs
        BY <1>4, <1>type, <1>rec, Busy DEF StoreSubscription
    <2>2. req.op = "post"
        BY <2>1 DEF ListingInv, PostSteps
    <2>3. /\ owner[req.sub] = None /\ req.sub \in Subs
          /\ req.user # None /\ req.sub \in registered
        BY <2>1, <2>2, UsersAssumption
           DEF ListingInv, PostIsFresh, StoringIsRegistered, Requests
    <2>4. CASE req.rec \notin connected
        BY <1>4, <2>4, StutterStep DEF StoreSubscription
    <2>5. CASE req.rec \in connected
        <3>1. /\ subscriptions' = [subscriptions EXCEPT ![req.rec] = @ \cup {req.sub}]
              /\ owner' = [owner EXCEPT ![req.sub] = req.user]
              /\ UNCHANGED registered
            BY <1>4, <2>5 DEF StoreSubscription
        <3>2. \A q \in Recs : \A s :
                 s \in subscriptions'[q] <=> \/ s \in subscriptions[q]
                                             \/ q = req.rec /\ s = req.sub
            BY <1>type, <3>1
        <3>3. Listed' = Listed \cup {req.sub}
            BY <2>1, <3>2 DEF Listed
        <3>4. \A s \in Subs : owner'[s] = IF s = req.sub THEN req.user ELSE owner[s]
            BY <1>type, <3>1
        <3>5. Removed' = Removed
            BY <2>3, <3>3, <3>4 DEF Removed
        <3>6. req.sub \notin Listed
            BY <2>3, ListedIsOwned
        <3>7. Lifecycle!List(req.sub)
            BY <2>3, <3>1, <3>3, <3>5, <3>6 DEF Lifecycle!List, Removed
        <3> QED BY <2>3, <3>7 DEF LifecycleStep, Lifecycle!LifecycleNext
    <2> QED BY <2>4, <2>5
<1>5. CASE TakeSubscription
    <2>1. req.rec \in Recs
        BY <1>5, <1>rec DEF TakeSubscription
    <2>2. CASE req.sub \in subscriptions[req.rec]
        <3>1. /\ subscriptions' = [subscriptions EXCEPT ![req.rec] = @ \ {req.sub}]
              /\ UNCHANGED <<owner, registered>>
            BY <1>5, <2>2 DEF TakeSubscription
        <3>2. {req.sub} \in SUBSET subscriptions[req.rec]
            BY <2>2
        <3> QED BY <2>1, <3>1, <3>2, UnlistStep
    <2>3. CASE req.sub \notin subscriptions[req.rec]
        BY <1>5, <2>3, StutterStep DEF TakeSubscription
    <2> QED BY <2>2, <2>3
<1>6. CASE ReleaseSink
    <2>1. req \in Requests /\ req.pc = "release"
        BY <1>6, <1>type, Busy DEF ReleaseSink
    <2>2. /\ owner[req.sub] # None /\ req.sub \in Subs
          /\ \A r \in Recs : req.sub \notin subscriptions[r]
        BY <2>1 DEF TakenHasOwner, ListingInv, ReleasedIsUnlisted, Requests
    <2>3. UNCHANGED <<subscriptions, owner>>
        BY <1>6 DEF ReleaseSink
    <2>4. registered' = registered \ {req.sub} \/ UNCHANGED registered
        BY <1>6 DEF ReleaseSink
    <2> QED BY <2>2, <2>3, <2>4, UnregisterStep, StutterStep
<1>7. ASSUME Lookup \/ CheckConnection \/ PopRecord \/ DropDone \/ Connect
             \/ ValidateWebhook \/ AnswerPost \/ FindSubscription \/ KeepDate
             \/ UnflagSink \/ Read \/ \E d \in Dates : SetDate(d)
      PROVE  LifecycleStep
    <2>1. UNCHANGED <<subscriptions, owner, registered>>
        BY <1>7
           DEF Lookup, CheckConnection, PopRecord, DropDone, Connect,
               ValidateWebhook, AnswerPost, FindSubscription, KeepDate,
               UnflagSink, Read, SetDate
    <2> QED BY <2>1, StutterStep
<1> QED BY <1>1, <1>2, <1>3, <1>4, <1>5, <1>6, <1>7 DEF Request

LEMMA LifecyclePurger ==
    ASSUME ListingInv, Purger
    PROVE  LifecycleStep
<1> USE DEF PurgerAt, requestVars
<1>type. /\ purger.pc \in Visiting => purger.rec \in Recs
         /\ purger.pc \in Handling => purger.sub \in Subs
    BY DEF ListingInv, TypeOK
<1>1. CASE PurgerDelete
    <2>1. purger.rec \in Recs
        BY <1>1, <1>type DEF PurgerDelete, Visiting, Handling
    <2>2. CASE purger.sub \in subscriptions[purger.rec]
        <3>1. /\ subscriptions' = [subscriptions EXCEPT ![purger.rec] = @ \ {purger.sub}]
              /\ UNCHANGED <<owner, registered>>
            BY <1>1, <2>2 DEF PurgerDelete
        <3>2. {purger.sub} \in SUBSET subscriptions[purger.rec]
            BY <2>2
        <3> QED BY <2>1, <3>1, <3>2, UnlistStep
    <2>3. CASE purger.sub \notin subscriptions[purger.rec]
        BY <1>1, <2>3, StutterStep DEF PurgerDelete
    <2> QED BY <2>2, <2>3
<1>2. CASE PurgerUnsubscribe
    <2>1. /\ purger.sub \in Subs /\ owner[purger.sub] # None
          /\ \A r \in Recs : purger.sub \notin subscriptions[r]
        BY <1>2, <1>type DEF PurgerUnsubscribe, Handling, ListingInv, PurgedIsUnlisted
    <2>2. UNCHANGED <<subscriptions, owner>>
        BY <1>2 DEF PurgerUnsubscribe
    <2>3. registered' = registered \ {purger.sub} \/ UNCHANGED registered
        BY <1>2 DEF PurgerUnsubscribe, Unsubscribe
    <2> QED BY <2>1, <2>2, <2>3, UnregisterStep, StutterStep
<1>3. CASE ~PurgerDelete /\ ~PurgerUnsubscribe
    <2>1. UNCHANGED <<subscriptions, owner, registered>>
        BY <1>3 DEF Purger, PurgerWake, PurgerNext, PurgerScan, PurgerMark,
                    PurgerCheck, PurgerJudge, PurgerAcquire, PurgerPurge
    <2> QED BY <2>1, StutterStep
<1> QED BY <1>1, <1>2, <1>3

LEMMA LifecycleOther ==
    ASSUME Environment \/ UNCHANGED vars
    PROVE  LifecycleStep
<1>1. UNCHANGED <<subscriptions, owner, registered>>
    BY DEF Environment, ReceivePost, ReceiveOther, Lapse, vars, data
<1> QED BY <1>1, StutterStep

\* Every webhook subscription goes through the life that
\* SubscriptionLifecycle states, whatever the threads interleave: it is
\* registered before a Record lists it, a Record lists it once, and its
\* registration is given up only after it is off the Record for good.
THEOREM LifecycleImplemented == Spec => ImplementsLifecycle
<1>1. Init => Lifecycle!LifecycleInit
    <2> SUFFICES ASSUME Init PROVE Lifecycle!LifecycleInit
        OBVIOUS
    <2>1. Listed = {} /\ registered = {}
        BY DEF Init, Listed
    <2>2. {s \in Subs : owner[s] # None} \ Listed = {}
        BY DEF Init
    <2> QED BY <2>1, <2>2 DEF Lifecycle!LifecycleInit
<1>2. Init => TakenHasOwner
    BY TakenInit
<1>3. ListingInv /\ TakenHasOwner /\ [Next]_vars => TakenHasOwner'
    BY TakenNext
<1>4. ListingInv /\ TakenHasOwner /\ [Next]_vars =>
          [Lifecycle!LifecycleNext]_Lifecycle!lifecycle
    <2>1. ListingInv /\ TakenHasOwner /\ [Next]_vars => LifecycleStep
        BY LifecycleRequest, LifecyclePurger, LifecycleOther DEF Next
    <2>2. LifecycleStep => [Lifecycle!LifecycleNext]_Lifecycle!lifecycle
        BY DEF LifecycleStep, Lifecycle!lifecycle, Removed
    <2> QED BY <2>1, <2>2
<1> QED
    BY <1>1, <1>2, <1>3, <1>4, ListingInvariant, PTL
       DEF Spec, ImplementsLifecycle, Lifecycle!LifecycleSpec

-----------------------------------------------------------------------------
(* Whose Records, whose subscriptions                                      *)
(*                                                                         *)
(* A Record never changes its user: it is made for one, is found under the *)
(* keys of that one only, and lists what the requests of that one stored.  *)

UnmadeAreEmpty == \A r \in Recs : r > made => subscriptions[r] = {}

RequestRecordWasMade == req.pc \in WithRecord => req.rec <= made

RecordsOfUsers ==
    \A k \in Keys : RECORDS[k] # NoRecord =>
        \A s \in subscriptions[RECORDS[k]] : owner[s] = k[1]

RecordOfCaller ==
    req.pc \in WithRecord =>
        /\ \A s \in subscriptions[req.rec] : owner[s] = req.user
        /\ \A k \in Keys : RECORDS[k] = req.rec => k[1] = req.user

DatedIsOwn == req.pc = "date" => owner[req.sub] = req.user

OwnersInv ==
    /\ UnmadeAreEmpty
    /\ RequestRecordWasMade
    /\ RecordsOfUsers
    /\ RecordOfCaller
    /\ DatedIsOwn

LEMMA OwnersInit == Init => OwnersInv
    BY DEF Init, Idle, OwnersInv, UnmadeAreEmpty, RequestRecordWasMade,
           RecordsOfUsers, RecordOfCaller, DatedIsOwn, WithRecord

\* The steps that add nothing: they may take subscriptions off Records and
\* keys out of RECORDS, and the request keeps its Record or lets go of it.
LEMMA OwnersKept ==
    ASSUME ListingInv, OwnersInv, UNCHANGED made,
           \A r \in Recs : subscriptions'[r] \subseteq subscriptions[r],
           \A r \in Recs : \A s \in subscriptions[r] : UNCHANGED owner[s],
           \A k \in Keys : RECORDS'[k] \in {RECORDS[k], NoRecord},
           req'.pc \in WithRecord =>
               req.pc \in WithRecord /\ UNCHANGED <<req.rec, req.user>>,
           DatedIsOwn'
    PROVE  OwnersInv'
<1>type. RECORDS \in [Keys -> Recs \cup {NoRecord}]
    BY DEF ListingInv, TypeOK
<1>1. UnmadeAreEmpty' /\ RequestRecordWasMade'
    BY DEF OwnersInv, UnmadeAreEmpty, RequestRecordWasMade
<1>2. RecordsOfUsers'
    <2> SUFFICES ASSUME NEW k \in Keys, RECORDS'[k] # NoRecord,
                        NEW s \in subscriptions'[RECORDS'[k]]
                 PROVE  owner'[s] = k[1]
        BY DEF RecordsOfUsers
    <2>1. RECORDS'[k] = RECORDS[k] /\ RECORDS[k] \in Recs
        BY <1>type
    <2>2. s \in subscriptions[RECORDS[k]]
        BY <2>1
    <2> QED BY <2>1, <2>2 DEF OwnersInv, RecordsOfUsers
<1>3. RecordOfCaller'
    <2> SUFFICES ASSUME req'.pc \in WithRecord
                 PROVE  /\ \A s \in subscriptions'[req'.rec] : owner'[s] = req'.user
                        /\ \A k \in Keys : RECORDS'[k] = req'.rec => k[1] = req'.user
        BY DEF RecordOfCaller
    <2>1. req.pc \in WithRecord /\ req'.rec = req.rec /\ req'.user = req.user
        OBVIOUS
    <2>2. req.rec \in Recs /\ req.rec # NoRecord
        BY <2>1 DEF ListingInv, HasRecord, Recs, NoRecord
    <2> QED BY <2>1, <2>2 DEF OwnersInv, RecordOfCaller
<1> QED BY <1>1, <1>2, <1>3 DEF OwnersInv

\* The steps of a request that leave its Record, and everybody's, alone.
LEMMA RequestKeepsRecord ==
    ASSUME TypeOK, Request, UNCHANGED made, ~Lookup, ~PopRecord, ~DangleRecord,
           ~StoreSubscription, ~FindSubscription, ~TakeSubscription
    PROVE  /\ UNCHANGED <<RECORDS, subscriptions, owner>>
           /\ req'.pc # "date"
           /\ req'.pc \in WithRecord =>
                  req.pc \in WithRecord /\ UNCHANGED <<req.rec, req.user>>
<1>type. req \in {Idle} \cup Requests /\ made \in Nat
    BY DEF TypeOK
<1> USE DEF WithRecord, At, data
<1>1. UNCHANGED <<RECORDS, subscriptions, owner>>
    <2>1. made + 1 # made
        BY <1>type
    <2>2. Connect => UNCHANGED <<RECORDS, subscriptions, owner>>
        BY <2>1 DEF Connect
    <2> QED
        BY <2>2
           DEF Request, CheckConnection, DropSink, DropDone, ValidateWebhook,
               Subscribe, AnswerPost, KeepDate, UnflagSink, ReleaseSink, Read,
               SetDate
<1>2. ASSUME req \in Requests, ServerError \/ Finish
      PROVE  req'.pc \in {"idle", "lookup"}
    BY <1>2, ServerErrorFields DEF Finish, Idle
<1>3. ASSUME NEW s \in Subs, DropSink(s)
      PROVE  req'.pc \in {"idle", "lookup", "unsubscribe"}
    <2>1. req \in Requests
        BY <1>3, <1>type, Busy DEF DropSink
    <2>2. CASE req' = [req EXCEPT !.left = @ \ {s}]
        BY <1>3, <2>1, <2>2 DEF DropSink, Requests
    <2>3. CASE Finish \/ ServerError
        BY <1>2, <2>1, <2>3
    <2> QED BY <1>3, <2>2, <2>3 DEF DropSink
<1>4. CASE Connect
    <2>1. req \in Requests /\ made + 1 # made
        BY <1>4, <1>type, Busy DEF Connect
    <2>2. req'.pc \in {"idle", "lookup"}
        BY <1>2, <1>4, <2>1 DEF Connect
    <2> QED BY <1>1, <2>2
<1>5. CASE DropDone
    <2>1. req \in Requests
        BY <1>5, <1>type, Busy DEF DropDone
    <2>2. req'.pc = "connect"
        BY <1>5, <2>1, GoToFields DEF DropDone
    <2> QED BY <1>1, <2>2
<1>6. CASE CheckConnection
    <2>1. req \in Requests /\ req.op \in Ops
        BY <1>6, <1>type, Busy DEF CheckConnection, Requests
    <2>2. /\ req'.pc \in {FirstStep[req.op], "pop"}
          /\ UNCHANGED <<req.rec, req.user>>
        BY <1>6, <2>1, GoToFields DEF CheckConnection
    <2> QED BY <1>1, <1>6, <2>1, <2>2, FirstStepFacts DEF CheckConnection
<1>7. ASSUME ValidateWebhook \/ Subscribe \/ AnswerPost \/ KeepDate
             \/ UnflagSink \/ ReleaseSink \/ Read \/ \E d \in Dates : SetDate(d)
      PROVE  /\ req'.pc # "date"
             /\ req'.pc \in WithRecord =>
                    req.pc \in WithRecord /\ UNCHANGED <<req.rec, req.user>>
    <2> USE DEF ValidateWebhook, Subscribe, AnswerPost, KeepDate, UnflagSink,
                ReleaseSink, Read, SetDate
    <2>1. req \in Requests /\ req.pc \in WithRecord
        BY <1>7, <1>type, Busy
    <2>2. \/ ServerError \/ Finish
          \/ \E pc \in {"subscribe", "store", "unflag"} : GoTo(pc)
        BY <1>7
    <2>3. ASSUME NEW pc, GoTo(pc)
          PROVE  req'.pc = pc /\ UNCHANGED <<req.rec, req.user>>
        BY <2>1, <2>3, GoToFields
    <2> QED BY <1>2, <2>1, <2>2, <2>3
<1>8. ASSUME NEW s \in Subs, DropSink(s)
      PROVE  req'.pc # "date" /\ req'.pc \notin WithRecord
    BY <1>3, <1>8
<1> QED BY <1>1, <1>4, <1>5, <1>6, <1>7, <1>8 DEF Request

LEMMA OwnersRequest ==
    ASSUME ListingInv, ConnectionInv, OwnersInv, Request
    PROVE  OwnersInv'
<1> USE DEF At, data
<1>type. /\ TypeOK
         /\ req \in {Idle} \cup Requests
         /\ RECORDS \in [Keys -> Recs \cup {NoRecord}]
         /\ subscriptions \in [Recs -> SUBSET Subs]
         /\ owner \in [Subs -> Users \cup {None}]
         /\ made \in 0 .. MaxRecords
    BY DEF ListingInv, TypeOK
<1>stay. \A r \in Recs : \A s \in subscriptions[r] : UNCHANGED owner[s]
    BY <1>type, OwnersStay DEF Next, ListingInv, ListedHasOwner
<1>1. CASE Lookup
    <2>1. req \in Requests
        BY <1>1, <1>type, Busy DEF Lookup
    <2>2. Live(req.user) \in Keys /\ Live(req.user)[1] = req.user
        BY <2>1, LiveIsKey DEF Requests, Live
    <2>3. /\ req'.rec = RECORDS[Live(req.user)] /\ req'.user = req.user
          /\ req'.pc = IF RECORDS[Live(req.user)] = NoRecord THEN "connect" ELSE "check"
          /\ UNCHANGED <<RECORDS, made, subscriptions, owner>>
        BY <1>1, <2>1 DEF Lookup, Requests
    <2>4. UnmadeAreEmpty' /\ RecordsOfUsers' /\ DatedIsOwn'
        BY <2>3 DEF OwnersInv, UnmadeAreEmpty, RecordsOfUsers, DatedIsOwn
    <2>5. RequestRecordWasMade'
        BY <2>2, <2>3 DEF RequestRecordWasMade, ConnectionInv, HeldWasMade
    <2>6. RecordOfCaller'
        <3> SUFFICES ASSUME req'.pc \in WithRecord
                     PROVE  /\ \A s \in subscriptions[req'.rec] : owner[s] = req.user
                            /\ \A k \in Keys : RECORDS[k] = req'.rec => k[1] = req.user
            BY <2>3 DEF RecordOfCaller
        <3>1. RECORDS[Live(req.user)] # NoRecord
            BY <2>3 DEF WithRecord
        <3>2. \A s \in subscriptions[req'.rec] : owner[s] = req.user
            BY <2>2, <2>3, <3>1 DEF OwnersInv, RecordsOfUsers
        <3>3. \A k \in Keys : RECORDS[k] = req'.rec => k = Live(req.user)
            BY <2>2, <2>3, <3>1 DEF ConnectionInv, OneKeyEach
        <3> QED BY <2>2, <3>2, <3>3
    <2> QED BY <2>4, <2>5, <2>6 DEF OwnersInv
<1>2. CASE PopRecord
    <2>1. req \in Requests
        BY <1>2, <1>type, Busy DEF PopRecord
    <2>2. Live(req.user) \in Keys /\ Live(req.user)[1] = req.user
        BY <2>1, LiveIsKey DEF Requests, Live
    <2>3. UNCHANGED <<made, subscriptions, owner>>
        BY <1>2 DEF PopRecord
    <2>4. CASE GoTo("connect") /\ UNCHANGED RECORDS
        <3>1. req'.pc = "connect"
            BY <2>1, <2>4, GoToFields
        <3> QED BY <2>3, <2>4, <3>1, OwnersKept DEF WithRecord, DatedIsOwn
    <2>5. CASE /\ RECORDS[Live(req.user)] # NoRecord
               /\ RECORDS' = [RECORDS EXCEPT ![Live(req.user)] = NoRecord]
               /\ req' = [req EXCEPT !.pc = "clear",
                                     !.rec = RECORDS[Live(req.user)],
                                     !.left = subscriptions[RECORDS[Live(req.user)]]]
        <3>1. /\ req'.pc = "clear" /\ req'.user = req.user
              /\ req'.rec = RECORDS[Live(req.user)]
            BY <2>1, <2>5 DEF Requests
        <3>2. \A k \in Keys : RECORDS'[k] = IF k = Live(req.user) THEN NoRecord
                                            ELSE RECORDS[k]
            BY <1>type, <2>5
        <3>3. UnmadeAreEmpty' /\ RecordsOfUsers' /\ DatedIsOwn'
            BY <2>3, <3>1, <3>2 DEF OwnersInv, UnmadeAreEmpty, RecordsOfUsers, DatedIsOwn
        <3>4. RequestRecordWasMade'
            BY <2>2, <2>3, <3>1 DEF RequestRecordWasMade, ConnectionInv, HeldWasMade
        <3>5. \A s \in subscriptions[req'.rec] : owner[s] = req.user
            BY <2>2, <2>5, <3>1 DEF OwnersInv, RecordsOfUsers
        <3>6. \A k \in Keys : RECORDS'[k] # req'.rec
            BY <2>2, <2>5, <3>1, <3>2 DEF ConnectionInv, OneKeyEach
        <3>7. RecordOfCaller'
            BY <2>3, <3>1, <3>5, <3>6 DEF RecordOfCaller
        <3> QED BY <3>3, <3>4, <3>7 DEF OwnersInv
    <2> QED BY <1>2, <2>4, <2>5 DEF PopRecord
<1>3. CASE DangleRecord
    <2>1. req \in Requests /\ req.pc = "clear" /\ req.rec \in Recs
        BY <1>3, <1>type, Busy
           DEF DangleRecord, ListingInv, HasRecord, WithRecord
    <2>2. req'.pc = "unsubscribe"
        BY <1>3, <2>1, GoToFields DEF DangleRecord
    <2>3. UNCHANGED <<made, owner>>
        BY <1>3 DEF DangleRecord
    <2>4. \A r \in Recs : subscriptions'[r] = IF r = req.rec THEN {} ELSE subscriptions[r]
        BY <1>3, <1>type DEF DangleRecord
    <2>5. \A k \in Keys : RECORDS'[k] \in {RECORDS[k], req.rec}
        BY <1>3, <1>type DEF DangleRecord
    <2>6. UnmadeAreEmpty'
        BY <2>3, <2>4 DEF OwnersInv, UnmadeAreEmpty
    <2>7. RecordsOfUsers'
        <3> SUFFICES ASSUME NEW k \in Keys, RECORDS'[k] # NoRecord,
                            NEW s \in subscriptions'[RECORDS'[k]]
                     PROVE  owner[s] = k[1]
            BY <2>3 DEF RecordsOfUsers
        <3>1. RECORDS'[k] # req.rec
            BY <2>1, <2>4
        <3>2. RECORDS'[k] = RECORDS[k] /\ RECORDS[k] \in Recs
            BY <1>type, <2>5, <3>1
        <3>3. s \in subscriptions[RECORDS[k]]
            BY <2>4, <3>1, <3>2
        <3> QED BY <3>2, <3>3 DEF OwnersInv, RecordsOfUsers
    <2>8. RequestRecordWasMade' /\ RecordOfCaller' /\ DatedIsOwn'
        BY <2>2 DEF RequestRecordWasMade, RecordOfCaller, DatedIsOwn, WithRecord
    <2> QED BY <2>6, <2>7, <2>8 DEF OwnersInv
<1>4. CASE Connect /\ ~UNCHANGED made
    <2>1. req \in Requests /\ req.op \in Ops
        BY <1>4, <1>type, Busy DEF Connect, Requests
    <2>2. /\ made' = made + 1 /\ made + 1 \in Recs
          /\ RECORDS' = [RECORDS EXCEPT ![Live(req.user)] = made + 1]
          /\ req' = [req EXCEPT !.rec = made + 1, !.pc = FirstStep[req.op]]
          /\ UNCHANGED <<subscriptions, owner>>
        BY <1>4, <1>type, MaxRecordsAssumption DEF Connect, Recs
    <2>3. /\ req'.pc = FirstStep[req.op] /\ req'.rec = made + 1
          /\ req'.user = req.user
        BY <2>1, <2>2 DEF Requests
    <2>4. Live(req.user) \in Keys /\ Live(req.user)[1] = req.user
        BY <2>1, LiveIsKey DEF Requests, Live
    <2>5. \A k \in Keys : RECORDS'[k] = IF k = Live(req.user) THEN made + 1
                                        ELSE RECORDS[k]
        BY <1>type, <2>2
    <2>6. subscriptions[made + 1] = {}
        <3>1. made + 1 > made
            BY <1>type
        <3> QED BY <2>2, <3>1 DEF OwnersInv, UnmadeAreEmpty
    <2>7. UnmadeAreEmpty'
        <3>1. \A r \in Recs : r > made + 1 => r > made
            BY <1>type DEF Recs
        <3> QED BY <2>2, <3>1 DEF OwnersInv, UnmadeAreEmpty
    <2>8. RequestRecordWasMade'
        BY <1>type, <2>2, <2>3 DEF RequestRecordWasMade
    <2>9. RecordsOfUsers'
        <3> SUFFICES ASSUME NEW k \in Keys, RECORDS'[k] # NoRecord,
                            NEW s \in subscriptions[RECORDS'[k]]
                     PROVE  owner[s] = k[1]
            BY <2>2 DEF RecordsOfUsers
        <3>1. k # Live(req.user)
            BY <2>5, <2>6
        <3> QED BY <2>5, <3>1 DEF OwnersInv, RecordsOfUsers
    <2>10. RecordOfCaller'
        <3>1. \A k \in Keys : RECORDS[k] # made + 1
            <4> SUFFICES ASSUME NEW k \in Keys PROVE RECORDS[k] # made + 1
                OBVIOUS
            <4>1. RECORDS[k] <= made
                BY DEF ConnectionInv, HeldWasMade
            <4>2. ~(made + 1 <= made)
                BY <1>type
            <4> QED BY <4>1, <4>2
        <3>2. \A k \in Keys : RECORDS'[k] = req'.rec => k[1] = req'.user
            BY <2>3, <2>4, <2>5, <3>1
        <3>3. \A s \in subscriptions'[req'.rec] : owner'[s] = req'.user
            BY <2>2, <2>3, <2>6
        <3> QED BY <3>2, <3>3 DEF RecordOfCaller
    <2>11. DatedIsOwn'
        BY <2>1, <2>3, FirstStepFacts DEF DatedIsOwn
    <2> QED BY <2>7, <2>8, <2>9, <2>10, <2>11 DEF OwnersInv
<1>5. CASE StoreSubscription
    <2>1. req \in Requests /\ req.pc = "store" /\ req.rec \in Recs
        BY <1>5, <1>type, Busy
           DEF StoreSubscription, ListingInv, HasRecord, WithRecord
    <2>2. req.sub \in Subs
        BY <2>1 DEF Requests
    <2>3. CASE req.rec \notin connected
        <3>1. req'.pc = "idle"
            BY <1>5, <2>3 DEF StoreSubscription, Finish, Idle
        <3>2. UNCHANGED <<RECORDS, made, subscriptions, owner>>
            BY <1>5, <2>3 DEF StoreSubscription
        <3> QED BY <3>1, <3>2, OwnersKept DEF WithRecord, DatedIsOwn
    <2>4. CASE req.rec \in connected
        <3>1. /\ subscriptions' = [subscriptions EXCEPT ![req.rec] = @ \cup {req.sub}]
              /\ owner' = [owner EXCEPT ![req.sub] = req.user]
              /\ GoTo("answer")
              /\ UNCHANGED <<RECORDS, made>>
            BY <1>5, <2>4 DEF StoreSubscription
        <3>2. req'.pc = "answer" /\ req'.rec = req.rec /\ req'.user = req.user
            BY <2>1, <3>1, GoToFields
        <3>3. \A r \in Recs : \A s :
                 s \in subscriptions'[r] <=>
                     s \in subscriptions[r] \/ (r = req.rec /\ s = req.sub)
            BY <1>type, <3>1
        <3>4. owner'[req.sub] = req.user
            BY <1>type, <2>2, <3>1
        <3>5. /\ \A s \in subscriptions[req.rec] : owner[s] = req.user
              /\ \A k \in Keys : RECORDS[k] = req.rec => k[1] = req.user
              /\ req.rec <= made
            BY <2>1 DEF OwnersInv, RecordOfCaller, RequestRecordWasMade, WithRecord
        <3>6. UnmadeAreEmpty'
            <4> SUFFICES ASSUME NEW r \in Recs, r > made PROVE subscriptions'[r] = {}
                BY <3>1 DEF UnmadeAreEmpty
            <4>1. r # req.rec
                BY <1>type, <2>1, <3>5 DEF Recs
            <4>2. subscriptions[r] = {}
                BY DEF OwnersInv, UnmadeAreEmpty
            <4> QED BY <3>3, <4>1, <4>2
        <3>7. RecordsOfUsers'
            <4> SUFFICES ASSUME NEW k \in Keys, RECORDS[k] # NoRecord,
                                NEW s \in subscriptions'[RECORDS[k]]
                         PROVE  owner'[s] = k[1]
                BY <3>1 DEF RecordsOfUsers
            <4>1. RECORDS[k] \in Recs
                BY <1>type
            <4>2. CASE s \in subscriptions[RECORDS[k]]
                BY <1>stay, <4>1, <4>2 DEF OwnersInv, RecordsOfUsers
            <4>3. CASE RECORDS[k] = req.rec /\ s = req.sub
                BY <3>4, <3>5, <4>3
            <4> QED BY <3>3, <4>1, <4>2, <4>3
        <3>8. RecordOfCaller'
            <4>1. \A s \in subscriptions'[req.rec] : owner'[s] = req.user
                BY <1>stay, <2>1, <3>3, <3>4, <3>5
            <4> QED BY <3>1, <3>2, <3>5, <4>1 DEF RecordOfCaller
        <3>9. RequestRecordWasMade' /\ DatedIsOwn'
            BY <3>1, <3>2, <3>5 DEF RequestRecordWasMade, DatedIsOwn
        <3> QED BY <3>6, <3>7, <3>8, <3>9 DEF OwnersInv
    <2> QED BY <2>3, <2>4
<1>6. CASE FindSubscription
    <2>1. req \in Requests /\ req.pc = "find"
        BY <1>6, <1>type, Busy DEF FindSubscription
    <2>2. UNCHANGED <<RECORDS, made, subscriptions, owner>>
        BY <1>6 DEF FindSubscription
    <2>3. CASE GoTo("date") /\ req.sub \in subscriptions[req.rec]
        <3>1. req'.pc = "date" /\ UNCHANGED <<req.rec, req.user, req.sub>>
            BY <2>1, <2>3, GoToFields
        <3>2. DatedIsOwn'
            BY <2>1, <2>2, <2>3, <3>1 DEF DatedIsOwn, OwnersInv, RecordOfCaller, WithRecord
        <3> QED BY <2>1, <2>2, <3>1, <3>2, OwnersKept DEF WithRecord
    <2>4. CASE Finish
        <3>1. req'.pc = "idle"
            BY <2>4 DEF Finish, Idle
        <3> QED BY <2>2, <3>1, OwnersKept DEF WithRecord, DatedIsOwn
    <2> QED BY <1>6, <2>3, <2>4 DEF FindSubscription
<1>7. CASE TakeSubscription
    <2>1. req \in Requests /\ req.pc = "take"
        BY <1>7, <1>type, Busy DEF TakeSubscription
    <2>2. UNCHANGED <<RECORDS, made, owner>>
        BY <1>7 DEF TakeSubscription
    <2>3. \A r \in Recs : subscriptions'[r] \subseteq subscriptions[r]
        BY <1>7, <1>type DEF TakeSubscription
    <2>4. \/ req'.pc = "release" /\ UNCHANGED <<req.rec, req.user>>
          \/ req'.pc = "idle"
        <3>1. CASE req' = [req EXCEPT !.pc = "release", !.store = StoreOf(req.rec)]
            BY <2>1, <3>1 DEF Requests
        <3>2. CASE Finish
            BY <3>2 DEF Finish, Idle
        <3> QED BY <1>7, <3>1, <3>2 DEF TakeSubscription
    <2> QED BY <2>1, <2>2, <2>3, <2>4, OwnersKept DEF WithRecord, DatedIsOwn
<1>8. CASE /\ UNCHANGED made
           /\ ~Lookup /\ ~PopRecord /\ ~DangleRecord /\ ~StoreSubscription
           /\ ~FindSubscription /\ ~TakeSubscription
    <2>1. /\ UNCHANGED <<RECORDS, subscriptions, owner>>
          /\ req'.pc # "date"
          /\ req'.pc \in WithRecord =>
                 req.pc \in WithRecord /\ UNCHANGED <<req.rec, req.user>>
        BY <1>8, <1>type, RequestKeepsRecord
    <2> QED BY <1>8, <2>1, OwnersKept DEF DatedIsOwn
<1>9. UNCHANGED made \/ Connect
    BY DEF Request, Lookup, CheckConnection, PopRecord, DangleRecord, DropSink,
           DropDone, ValidateWebhook, Subscribe, StoreSubscription, AnswerPost,
           FindSubscription, KeepDate, UnflagSink, TakeSubscription,
           ReleaseSink, Read, SetDate
<1> QED BY <1>1, <1>2, <1>3, <1>4, <1>5, <1>6, <1>7, <1>8, <1>9

LEMMA OwnersPurger ==
    ASSUME ListingInv, OwnersInv, Purger
    PROVE  OwnersInv'
<1> USE DEF requestVars
<1>type. /\ RECORDS \in [Keys -> Recs \cup {NoRecord}]
         /\ subscriptions \in [Recs -> SUBSET Subs]
    BY DEF ListingInv, TypeOK
<1>1. UNCHANGED <<made, owner, req>>
    BY DEF Purger, PurgerWake, PurgerNext, PurgerScan, PurgerMark, PurgerCheck,
           PurgerDelete, PurgerUnsubscribe, PurgerJudge, PurgerAcquire, PurgerPurge
<1>2. \A r \in Recs : subscriptions'[r] \subseteq subscriptions[r]
    <2>1. CASE PurgerDelete
        BY <1>type, <2>1 DEF PurgerDelete
    <2>2. CASE ~PurgerDelete
        BY <2>2 DEF Purger, PurgerWake, PurgerNext, PurgerScan, PurgerMark,
                    PurgerCheck, PurgerUnsubscribe, PurgerJudge, PurgerAcquire,
                    PurgerPurge
    <2> QED BY <2>1, <2>2
<1>3. \A k \in Keys : RECORDS'[k] \in {RECORDS[k], NoRecord}
    <2>1. CASE PurgerPurge
        BY <1>type, <2>1 DEF PurgerPurge, Remaining
    <2>2. CASE ~PurgerPurge
        BY <2>2 DEF Purger, PurgerWake, PurgerNext, PurgerScan, PurgerMark,
                    PurgerCheck, PurgerDelete, PurgerUnsubscribe, PurgerJudge,
                    PurgerAcquire
    <2> QED BY <2>1, <2>2
<1>4. DatedIsOwn'
    BY <1>1 DEF OwnersInv, DatedIsOwn
<1> QED BY <1>1, <1>2, <1>3, <1>4, OwnersKept

LEMMA OwnersOther ==
    ASSUME ListingInv, OwnersInv, Environment \/ UNCHANGED vars
    PROVE  OwnersInv'
<1>1. UNCHANGED <<RECORDS, made, subscriptions, owner>>
    BY DEF Environment, ReceivePost, ReceiveOther, Lapse, vars, data
<1>2. CASE UNCHANGED req
    <2>1. DatedIsOwn'
        BY <1>1, <1>2 DEF OwnersInv, DatedIsOwn
    <2> QED BY <1>1, <1>2, <2>1, OwnersKept
<1>3. CASE req'.pc = "lookup"
    BY <1>1, <1>3, OwnersKept DEF WithRecord, DatedIsOwn
<1>4. UNCHANGED req \/ req'.pc = "lookup"
    BY DEF Environment, ReceivePost, ReceiveOther, Receive, Lapse, vars, data
<1> QED BY <1>2, <1>3, <1>4

LEMMA OwnersInvariant == Spec => []OwnersInv
<1>1. ListingInv /\ ConnectionInv /\ OwnersInv /\ [Next]_vars => OwnersInv'
    BY OwnersRequest, OwnersPurger, OwnersOther DEF Next
<1> QED BY OwnersInit, <1>1, ListingInvariant, ConnectionInvariant, PTL DEF Spec

\* What a request unlists, or dates anew, is its caller's.
LEMMA RequestsOfOwners ==
    ASSUME ListingInv, OwnersInv, Request, NEW s \in Subs
    PROVE  /\ s \in Listed \ Listed' => owner[s] = req.user
           /\ date'[s] # date[s] => owner[s] = req.user
<1> USE DEF At, data
<1>type. /\ req \in {Idle} \cup Requests
         /\ subscriptions \in [Recs -> SUBSET Subs]
         /\ date \in [Subs -> Dates \cup {None}]
    BY DEF ListingInv, TypeOK
<1>1. CASE DangleRecord
    <2>1. req.pc = "clear" /\ UNCHANGED date
        BY <1>1 DEF DangleRecord
    <2>2. \A r \in Recs : r # req.rec => subscriptions'[r] = subscriptions[r]
        BY <1>1, <1>type DEF DangleRecord
    <2>3. s \in Listed \ Listed' => s \in subscriptions[req.rec]
        BY <2>2 DEF Listed
    <2> QED BY <2>1, <2>3 DEF OwnersInv, RecordOfCaller, WithRecord
<1>2. CASE TakeSubscription
    <2>1. req.pc = "take" /\ UNCHANGED date
        BY <1>2 DEF TakeSubscription
    <2>2. \A r \in Recs : r # req.rec => subscriptions'[r] = subscriptions[r]
        BY <1>2, <1>type DEF TakeSubscription
    <2>3. s \in Listed \ Listed' => s \in subscriptions[req.rec]
        BY <2>2 DEF Listed
    <2> QED BY <2>1, <2>3 DEF OwnersInv, RecordOfCaller, WithRecord
<1>3. CASE StoreSubscription
    <2>1. UNCHANGED date
        BY <1>3 DEF StoreSubscription
    <2>2. \A r \in Recs : subscriptions[r] \subseteq subscriptions'[r]
        BY <1>3, <1>type DEF StoreSubscription
    <2>3. s \notin Listed \ Listed'
        BY <2>2 DEF Listed
    <2> QED BY <2>1, <2>3
<1>4. CASE \E d \in Dates : SetDate(d)
    <2>1. req.pc = "date" /\ UNCHANGED subscriptions
        BY <1>4 DEF SetDate
    <2>2. date'[s] # date[s] => s = req.sub
        BY <1>4, <1>type DEF SetDate
    <2>3. Listed' = Listed
        BY <2>1 DEF Listed
    <2> QED BY <2>1, <2>2, <2>3 DEF OwnersInv, DatedIsOwn
<1>5. ASSUME ~DangleRecord, ~TakeSubscription, ~StoreSubscription,
             ~\E d \in Dates : SetDate(d)
      PROVE  UNCHANGED <<subscriptions, date>>
    BY <1>5 DEF Request, Lookup, CheckConnection, PopRecord, DropSink, DropDone,
                Connect, ValidateWebhook, Subscribe, AnswerPost,
                FindSubscription, KeepDate, UnflagSink, ReleaseSink, Read
<1>6. CASE UNCHANGED <<subscriptions, date>>
    <2>1. Listed' = Listed
        BY <1>6 DEF Listed
    <2> QED BY <1>6, <2>1
<1> QED BY <1>1, <1>2, <1>3, <1>4, <1>5, <1>6

\* The purger's only step that unlists.
LEMMA PurgerUnlists ==
    ASSUME ListingInv, Purger, NEW s \in Listed \ Listed'
    PROVE  PurgerDelete /\ s = purger.sub /\ ~UNCHANGED purger
<1> USE DEF PurgerAt, requestVars
<1>type. /\ purger \in {Waiting, Dead} \cup Rounds
         /\ subscriptions \in [Recs -> SUBSET Subs]
    BY DEF ListingInv, TypeOK
<1>1. ~UNCHANGED subscriptions
    BY DEF Listed
<1>2. PurgerDelete
    BY <1>1 DEF Purger, PurgerWake, PurgerNext, PurgerScan, PurgerMark,
                PurgerCheck, PurgerUnsubscribe, PurgerJudge, PurgerAcquire,
                PurgerPurge
<1>3. subscriptions' = [subscriptions EXCEPT ![purger.rec] = @ \ {purger.sub}]
    BY <1>1, <1>2 DEF PurgerDelete
<1>4. \A r \in Recs : subscriptions[r] \ {purger.sub} \subseteq subscriptions'[r]
    BY <1>type, <1>3
<1>5. s = purger.sub
    BY <1>4 DEF Listed
<1>6. purger \in Rounds /\ purger.pc = "delete"
    BY <1>2, <1>type, InRound DEF PurgerDelete
<1>7. PurgerGoTo("unsubscribe")
    BY <1>1, <1>2 DEF PurgerDelete
<1>8. purger'.pc = "unsubscribe"
    BY <1>6, <1>7 DEF PurgerGoTo, Rounds
<1> QED BY <1>2, <1>5, <1>6, <1>8

\* What a request takes away (a DELETE, or _record dropping a Record whose
\* connection failed) or changes (a PATCH) is a subscription of its caller.
THEOREM OwnersOnly == Spec => OnlyOwnersAct
<1> DEFINE Own == \A s \in Subs :
                     /\ s \in Listed \ Listed' /\ purger' = purger =>
                            owner[s] = req.user
                     /\ /\ owner[s] # None
                        /\ date'[s] # date[s]
                        /\ req' # req
                        => owner[s] = req.user
<1>1. ListingInv /\ OwnersInv /\ [Next]_vars => [Own]_vars
    <2> SUFFICES ASSUME ListingInv, OwnersInv, [Next]_vars, ~UNCHANGED vars,
                        NEW s \in Subs
                 PROVE  /\ s \in Listed \ Listed' /\ purger' = purger =>
                               owner[s] = req.user
                        /\ /\ owner[s] # None
                           /\ date'[s] # date[s]
                           /\ req' # req
                           => owner[s] = req.user
        OBVIOUS
    <2>1. CASE Request
        BY <2>1, RequestsOfOwners
    <2>2. CASE Purger
        <3>1. UNCHANGED date
            BY <2>2 DEF Purger, PurgerWake, PurgerNext, PurgerScan, PurgerMark,
                        PurgerCheck, PurgerDelete, PurgerUnsubscribe,
                        PurgerJudge, PurgerAcquire, PurgerPurge, requestVars
        <3>2. s \in Listed \ Listed' => ~UNCHANGED purger
            BY <2>2, PurgerUnlists
        <3> QED BY <3>1, <3>2
    <2>3. CASE Environment
        <3>1. UNCHANGED subscriptions
            BY <2>3 DEF Environment, ReceivePost, ReceiveOther, Lapse, data
        <3>2. Listed' = Listed
            BY <3>1 DEF Listed
        <3>3. UNCHANGED req \/ owner[s] = None \/ date'[s] = date[s]
            BY <2>3
               DEF Environment, ReceivePost, ReceiveOther, Lapse, data,
                   ListingInv, UnissuedIsFresh, TypeOK
        <3> QED BY <3>2, <3>3
    <2> QED BY <2>1, <2>2, <2>3 DEF Next
<1>2. [][Own]_vars => OnlyOwnersAct
    BY PTL DEF OnlyOwnersAct
<1> QED BY <1>1, <1>2, ListingInvariant, OwnersInvariant, PTL DEF Spec

-----------------------------------------------------------------------------
(* What the purger has noted has lapsed                                    *)

PastIsLapsed == \A s \in Subs : date[s] = "past" => s \in lapsed

NotedIsLapsed ==
    /\ InARound => purger.expired \subseteq lapsed
    /\ purger.pc \in {"clean", "delete", "unsubscribe"} => purger.left \subseteq lapsed
    /\ purger.pc = "delete" => purger.sub \in lapsed

LapsedInv == PastIsLapsed /\ NotedIsLapsed

LEMMA LapsedInit == Init => LapsedInv
<1> SUFFICES ASSUME Init PROVE LapsedInv
    OBVIOUS
<1>1. PastIsLapsed
    BY DatesAssumption DEF Init, PastIsLapsed
<1>2. NotedIsLapsed
    BY DEF Init, NotedIsLapsed, InARound, Waiting
<1> QED BY <1>1, <1>2 DEF LapsedInv

\* What has lapsed stays so.
LEMMA LapsedGrows ==
    ASSUME Next
    PROVE  lapsed \subseteq lapsed'
<1>1. CASE Request
    BY <1>1 DEF Request, Lookup, CheckConnection, PopRecord, DangleRecord,
                DropSink, DropDone, Connect, ValidateWebhook, Subscribe,
                StoreSubscription, AnswerPost, FindSubscription, SetDate,
                KeepDate, UnflagSink, TakeSubscription, ReleaseSink, Read
<1>2. CASE Purger
    BY <1>2 DEF Purger, PurgerWake, PurgerNext, PurgerScan, PurgerMark,
                PurgerCheck, PurgerDelete, PurgerUnsubscribe, PurgerJudge,
                PurgerAcquire, PurgerPurge, requestVars
<1>3. CASE Environment
    BY <1>3 DEF Environment, ReceivePost, ReceiveOther, Lapse
<1> QED BY <1>1, <1>2, <1>3 DEF Next

LEMMA PastNext ==
    ASSUME ListingInv, PastIsLapsed, [Next]_vars
    PROVE  PastIsLapsed'
<1>type. date \in [Subs -> Dates \cup {None}] /\ req \in {Idle} \cup Requests
    BY DEF ListingInv, TypeOK
<1>1. CASE UNCHANGED <<date, lapsed>>
    BY <1>1 DEF PastIsLapsed
<1>2. ASSUME NEW s, NEW d \in Dates, date' = [date EXCEPT ![s] = d],
             lapsed' = IF d = "future" THEN lapsed ELSE lapsed \cup {s}
      PROVE  PastIsLapsed'
    BY <1>type, <1>2 DEF PastIsLapsed
<1>3. ASSUME NEW s \in Subs, Lapse(s) PROVE PastIsLapsed'
    BY <1>3, <1>type DEF Lapse, PastIsLapsed
<1>4. CASE Request
    <2>1. (\E d \in Dates : SetDate(d)) \/ UNCHANGED <<date, lapsed>>
        BY <1>4 DEF Request, Lookup, CheckConnection, PopRecord, DangleRecord,
                    DropSink, DropDone, Connect, ValidateWebhook, Subscribe,
                    StoreSubscription, AnswerPost, FindSubscription,
                    KeepDate, UnflagSink, TakeSubscription, ReleaseSink,
                    Read, data
    <2> QED BY <1>1, <1>2, <2>1 DEF SetDate
<1>5. CASE Purger
    <2>1. UNCHANGED <<date, lapsed>>
        BY <1>5 DEF Purger, PurgerWake, PurgerNext, PurgerScan, PurgerMark,
                    PurgerCheck, PurgerDelete, PurgerUnsubscribe, PurgerJudge,
                    PurgerAcquire, PurgerPurge, requestVars
    <2> QED BY <1>1, <2>1
<1>6. CASE Environment
    BY <1>1, <1>2, <1>3, <1>6 DEF Environment, ReceivePost, ReceiveOther, data
<1> QED BY <1>1, <1>4, <1>5, <1>6 DEF Next, vars, data

LEMMA NotedPurger ==
    ASSUME ListingInv, LapsedInv, Purger
    PROVE  NotedIsLapsed'
<1> USE DEF PurgerAt, requestVars, InARound
<1>type. /\ purger \in {Waiting, Dead} \cup Rounds
         /\ purger.pc \in Handling => purger.sub \in Subs
    BY DEF ListingInv, TypeOK
<1>grow. lapsed \subseteq lapsed'
    BY LapsedGrows DEF Next
<1>noted. ASSUME purger \in Rounds
          PROVE  purger.expired \subseteq lapsed'
    BY <1>noted, <1>grow
       DEF LapsedInv, NotedIsLapsed, Rounds, Visiting, Handling
<1>out. ASSUME purger' \in {Waiting, Dead} PROVE NotedIsLapsed'
    BY <1>out DEF NotedIsLapsed, Waiting, Dead
\* The steps that go on with what was noted.
<1>on. ASSUME purger \in Rounds, purger'.expired = purger.expired,
              purger'.pc \notin {"clean", "delete", "unsubscribe"}
       PROVE  NotedIsLapsed'
    BY <1>on, <1>noted DEF NotedIsLapsed
<1>1. CASE PurgerWake
    <2>1. purger'.pc = "next" /\ purger'.expired = {}
        BY <1>1 DEF PurgerWake
    <2> QED BY <2>1 DEF NotedIsLapsed
<1>2. CASE PurgerNext
    <2>1. purger \in Rounds
        BY <1>2, <1>type, InRound DEF PurgerNext
    <2>2. CASE PurgerDies
        BY <2>2, <1>out DEF PurgerDies
    <2>3. ASSUME NEW k \in Held,
                 purger' = [purger EXCEPT
                              !.pc = "scan", !.key = k, !.rec = RECORDS[k],
                              !.seen = @ \cup {<<k, RECORDS[k]>>},
                              !.left = subscriptions[RECORDS[k]]]
          PROVE  NotedIsLapsed'
        <3>1. purger'.pc = "scan" /\ purger'.expired = purger.expired
            BY <2>1, <2>3 DEF Rounds
        <3> QED BY <2>1, <3>1, <1>on
    <2>4. CASE purger' = [purger EXCEPT !.pc = "acquire", !.size = 0, !.seen = {}]
        <3>1. purger'.pc = "acquire" /\ purger'.expired = purger.expired
            BY <2>1, <2>4 DEF Rounds
        <3> QED BY <2>1, <3>1, <1>on
    <2> QED BY <1>2, <2>2, <2>3, <2>4 DEF PurgerNext
<1>3. CASE PurgerScan
    <2>1. purger \in Rounds /\ purger.pc = "scan"
        BY <1>3, <1>type, InRound DEF PurgerScan
    <2>2. CASE PurgerDies
        BY <2>2, <1>out DEF PurgerDies
    <2>3. CASE purger' = [purger EXCEPT !.pc = "clean", !.left = purger.expired]
        <3>1. /\ purger'.pc = "clean" /\ purger'.left = purger.expired
              /\ purger'.expired = purger.expired
            BY <2>1, <2>3 DEF Rounds
        <3> QED BY <2>1, <3>1, <1>noted DEF NotedIsLapsed
    <2>4. ASSUME NEW s \in purger.left, date[s] # "naive", IsPast(s),
                 purger' = [purger EXCEPT !.pc = "mark", !.sub = s,
                                         !.left = @ \ {s},
                                         !.expired = @ \cup {s}]
          PROVE  NotedIsLapsed'
        <3>1. purger'.pc = "mark" /\ purger'.expired = purger.expired \cup {s}
            BY <2>1, <2>4 DEF Rounds
        <3>2. s \in Subs
            BY <2>1 DEF Rounds
        <3>3. s \in lapsed'
            BY <1>grow, <2>4, <3>2 DEF IsPast, LapsedInv, PastIsLapsed
        <3> QED BY <2>1, <3>1, <3>3, <1>noted DEF NotedIsLapsed
    <2>5. ASSUME NEW s \in purger.left, purger' = [purger EXCEPT !.left = @ \ {s}]
          PROVE  NotedIsLapsed'
        <3>1. purger'.pc = "scan" /\ purger'.expired = purger.expired
            BY <2>1, <2>5 DEF Rounds
        <3> QED BY <2>1, <3>1, <1>on
    <2> QED BY <1>3, <2>2, <2>3, <2>4, <2>5 DEF PurgerScan
<1>4. CASE PurgerMark
    <2>1. purger \in Rounds
        BY <1>4, <1>type, InRound DEF PurgerMark
    <2>2. purger'.pc = "scan" /\ purger'.expired = purger.expired
        BY <1>4, <2>1 DEF PurgerMark, Rounds
    <2> QED BY <2>1, <2>2, <1>on
<1>5. CASE PurgerCheck
    <2>1. purger \in Rounds /\ purger.pc = "clean" /\ purger.left \subseteq lapsed'
        BY <1>5, <1>type, <1>grow, InRound DEF PurgerCheck, LapsedInv, NotedIsLapsed
    <2>2. ASSUME NEW s \in purger.left,
                 purger' = [purger EXCEPT !.pc = "delete", !.sub = s,
                                         !.left = @ \ {s}]
          PROVE  NotedIsLapsed'
        <3>1. /\ purger'.pc = "delete" /\ purger'.sub = s
              /\ purger'.left \subseteq purger.left
              /\ purger'.expired = purger.expired
            BY <2>1, <2>2 DEF Rounds
        <3> QED BY <2>1, <3>1, <1>noted DEF NotedIsLapsed
    <2>3. ASSUME NEW s \in purger.left, purger' = [purger EXCEPT !.left = @ \ {s}]
          PROVE  NotedIsLapsed'
        <3>1. /\ purger'.pc = "clean"
              /\ purger'.left \subseteq purger.left
              /\ purger'.expired = purger.expired
            BY <2>1, <2>3 DEF Rounds
        <3> QED BY <2>1, <3>1, <1>noted DEF NotedIsLapsed
    <2> QED BY <1>5, <2>2, <2>3 DEF PurgerCheck
<1>6. CASE PurgerDelete \/ PurgerUnsubscribe
    <2>1. /\ purger \in Rounds /\ purger.pc \in {"delete", "unsubscribe"}
          /\ purger.left \subseteq lapsed'
        BY <1>6, <1>type, <1>grow, InRound
           DEF PurgerDelete, PurgerUnsubscribe, LapsedInv, NotedIsLapsed
    <2>2. PurgerGoTo("unsubscribe") \/ purger' = [purger EXCEPT !.pc = "clean", !.sub = None]
        BY <1>6 DEF PurgerDelete, PurgerUnsubscribe
    <2>3. /\ purger'.pc \in {"clean", "unsubscribe"}
          /\ purger'.left = purger.left /\ purger'.expired = purger.expired
        BY <2>1, <2>2 DEF PurgerGoTo, Rounds
    <2> QED BY <2>1, <2>3, <1>noted DEF NotedIsLapsed
<1>7. CASE PurgerJudge
    <2>1. purger \in Rounds
        BY <1>7, <1>type, InRound DEF PurgerJudge
    <2>2. purger'.pc = "next" /\ purger'.expired = purger.expired
        BY <1>7, <2>1 DEF PurgerJudge, Rounds
    <2> QED BY <2>1, <2>2, <1>on
<1>8. CASE PurgerAcquire
    <2>1. purger \in Rounds
        BY <1>8, <1>type, InRound DEF PurgerAcquire
    <2>2. purger'.pc = "purge" /\ purger'.expired = purger.expired
        BY <1>8, <2>1 DEF PurgerAcquire, PurgerGoTo, Rounds
    <2> QED BY <2>1, <2>2, <1>on
<1>9. CASE PurgerPurge
    <2>1. purger \in Rounds /\ purger.pc = "purge"
        BY <1>9, <1>type, InRound DEF PurgerPurge
    <2>2. CASE purger' \in {Waiting, Dead}
        BY <2>2, <1>out
    <2>3. ASSUME NEW entry, purger' = [purger EXCEPT !.purge = @ \ {entry}]
          PROVE  NotedIsLapsed'
        <3>1. purger'.pc = "purge" /\ purger'.expired = purger.expired
            BY <2>1, <2>3 DEF Rounds
        <3> QED BY <2>1, <3>1, <1>on
    <2> QED BY <1>9, <2>2, <2>3 DEF PurgerPurge, PurgerDies
<1> QED
    BY <1>1, <1>2, <1>3, <1>4, <1>5, <1>6, <1>7, <1>8, <1>9 DEF Purger

LEMMA LapsedInvariant == Spec => []LapsedInv
<1>1. ListingInv /\ LapsedInv /\ [Next]_vars => LapsedInv'
    <2> SUFFICES ASSUME ListingInv, LapsedInv, [Next]_vars PROVE LapsedInv'
        OBVIOUS
    <2>1. PastIsLapsed'
        BY PastNext DEF LapsedInv
    <2>2. CASE Purger
        BY <2>1, <2>2, NotedPurger DEF LapsedInv
    <2>3. CASE UNCHANGED vars
        BY <2>1, <2>3 DEF LapsedInv, NotedIsLapsed, InARound, vars, data
    <2>4. CASE Request \/ Environment
        <3>1. UNCHANGED purger
            BY <2>4
               DEF Request, Lookup, CheckConnection, PopRecord, DangleRecord,
                   DropSink, DropDone, Connect, ValidateWebhook, Subscribe,
                   StoreSubscription, AnswerPost, FindSubscription, SetDate,
                   KeepDate, UnflagSink, TakeSubscription, ReleaseSink, Read,
                   Environment, ReceivePost, ReceiveOther, Lapse
        <3>2. lapsed \subseteq lapsed'
            BY <2>4, LapsedGrows DEF Next
        <3>3. NotedIsLapsed'
            BY <3>1, <3>2 DEF LapsedInv, NotedIsLapsed, InARound
        <3> QED BY <2>1, <3>3 DEF LapsedInv
    <2> QED BY <2>2, <2>3, <2>4 DEF Next
<1> QED BY LapsedInit, <1>1, ListingInvariant, PTL DEF Spec

\* A step of the request thread that unlists moves that thread on.
LEMMA RequestUnlists ==
    ASSUME ListingInv, Request, NEW s \in Listed \ Listed'
    PROVE  ~UNCHANGED req
<1> USE DEF At, data
<1>type. /\ req \in {Idle} \cup Requests
         /\ subscriptions \in [Recs -> SUBSET Subs]
    BY DEF ListingInv, TypeOK
<1>1. CASE DangleRecord
    <2>1. req \in Requests /\ req.pc = "clear"
        BY <1>1, <1>type, Busy DEF DangleRecord
    <2>2. req'.pc = "unsubscribe"
        BY <1>1, <2>1, GoToFields DEF DangleRecord
    <2> QED BY <2>1, <2>2
<1>2. CASE TakeSubscription
    <2>1. req \in Requests /\ req.pc = "take"
        BY <1>2, <1>type, Busy DEF TakeSubscription
    <2>2. CASE req' = [req EXCEPT !.pc = "release", !.store = StoreOf(req.rec)]
        <3>1. req'.pc = "release"
            BY <2>1, <2>2 DEF Requests
        <3> QED BY <2>1, <3>1
    <2>3. CASE Finish
        BY <2>1, <2>3 DEF Finish, Idle
    <2> QED BY <1>2, <2>2, <2>3 DEF TakeSubscription
<1>3. CASE StoreSubscription
    <2>1. \A r \in Recs : subscriptions[r] \subseteq subscriptions'[r]
        BY <1>3, <1>type DEF StoreSubscription
    <2> QED BY <2>1 DEF Listed
<1>4. CASE UNCHANGED subscriptions
    BY <1>4 DEF Listed
<1>5. DangleRecord \/ TakeSubscription \/ StoreSubscription \/ UNCHANGED subscriptions
    BY DEF Request, Lookup, CheckConnection, PopRecord, DropSink, DropDone,
           Connect, ValidateWebhook, Subscribe, AnswerPost, FindSubscription,
           SetDate, KeepDate, UnflagSink, ReleaseSink, Read
<1> QED BY <1>1, <1>2, <1>3, <1>4, <1>5

\* The purger takes away a subscription only if its expirationDateTime passed
\* at some time: the flag it goes by is set from the date it read.
THEOREM LapsedOnly == Spec => PurgesOnlyLapsed
<1> DEFINE Due == \A s \in Subs : s \in Listed \ Listed' /\ req' = req => s \in lapsed
<1>1. ListingInv /\ LapsedInv /\ [Next]_vars => [Due]_vars
    <2> SUFFICES ASSUME ListingInv, LapsedInv, Next,
                        NEW s \in Subs, s \in Listed \ Listed', req' = req
                 PROVE  s \in lapsed
        BY DEF vars
    <2>1. ~Request
        BY RequestUnlists
    <2>2. ~Environment
        <3>1. Environment => UNCHANGED subscriptions
            BY DEF Environment, ReceivePost, ReceiveOther, Lapse, data
        <3> QED BY <3>1 DEF Listed
    <2>3. PurgerDelete /\ s = purger.sub
        BY <2>1, <2>2, PurgerUnlists DEF Next
    <2> QED BY <2>3 DEF PurgerDelete, PurgerAt, LapsedInv, NotedIsLapsed
<1>2. [][Due]_vars => PurgesOnlyLapsed
    BY PTL DEF PurgesOnlyLapsed
<1> QED BY <1>1, <1>2, ListingInvariant, LapsedInvariant, PTL DEF Spec

=============================================================================
