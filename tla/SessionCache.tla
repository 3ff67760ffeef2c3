---------------------------- MODULE SessionCache ----------------------------
(***************************************************************************)
(* The cached kopano sessions of one rest worker                           *)
(* (grapi/backend/kopano/utils.py): _server finds, probes, replaces and    *)
(* makes the session of a caller, _server_store runs it again with a forced*)
(* reconnect when the session turns out to be unconfigured, and the        *)
(* SessionPurger thread removes token sessions nobody used for a while.    *)
(*                                                                         *)
(* The worker answers one request at a time, so one control record, req,   *)
(* is enough. The request thread takes threadLock for single steps only;   *)
(* the purger holds it from PurgerAcquire to PurgerRelease. Basic          *)
(* authentication caches nothing and is left out.                          *)
(***************************************************************************)
EXTENDS Naturals, Integers, FiniteSets

CONSTANTS
    Tokens,         \* bearer tokens
    EmptyToken,     \* b'', the token that is never a cacheid
    Users,          \* X-Kopano-UserEntryID of passthrough authentication
    MaxSessions,    \* bound: sessions ever made
    PurgeMax,       \* 100: the purger goes on in its next round after more
    None            \* no key

ASSUME SessionCacheAssumption == MaxSessions \in Nat /\ PurgeMax \in Nat

VARIABLES
    sessions,       \* TOKEN_SESSION and PASSTHROUGH_SESSION: key -> session
    DANGLE_INDEX,
    made,           \* sessions made so far are 1 .. made
    madeFor,        \* history: session -> the caller it was made for
    stale,          \* sessions whose ts is before the deadline
    active,         \* TOKEN_SESSION_ACTIVE and PASSTHROUGH_SESSIONS_ACTIVE
    req,            \* the request thread
    purger          \* the SessionPurger thread

vars == <<sessions, DANGLE_INDEX, made, madeFor, stale, active, req, purger>>

Callers == ({"bearer"} \X Tokens) \cup ({"passthrough"} \X Users)
Methods == {"bearer", "passthrough"}
NoSession == 0
Sessions == 1 .. MaxSessions

LiveSlip(c) == <<CHOOSE d \in Callers : d[1] = c[1], 0>>

\* The key cacheid is Live(c); with a dangle index n it is <<c, n>>.
Live(c) == <<c, 0>>

Keys == Callers \X (0 .. MaxSessions)
Cached(method) == {k \in Keys : k[1][1] = method /\ sessions[k] # NoSession}

Idle == [pc |-> "idle"]

\* The store that _server_store found, or what it or ResourcePatcher raises
\* instead: HTTPForbidden, HTTPNotFound, HTTPBadRequest, or anything else.
Outcomes == {"store", "forbidden", "not found", "bad request", "other"}

Requests ==
    [pc : {"done"}, caller : Callers, session : Sessions \cup {NoSession}, outcome : Outcomes]
        \cup
    [pc : {"get", "probe", "replace", "connect", "store", "count", "resolve"},
     caller : Callers, session : Sessions \cup {NoSession},
     forced : {"no", "yes"}, again : {"no", "yes"}, connects : 0 .. 2]

Waiting == [pc |-> "wait"]
Dead == [pc |-> "dead"]
Rounds == [pc : {"purge", "delete"}, left : SUBSET Keys,
           key : Keys \cup {None}, count : 0 .. PurgeMax]

PurgerHoldsLock == purger.pc \in {"purge", "delete"}

Init ==
    /\ sessions = [k \in Keys |-> NoSession]
    /\ DANGLE_INDEX = 0
    /\ made = 0
    /\ madeFor = [s \in Sessions |-> None]
    /\ stale = {}
    /\ active = [m \in Methods |-> 0]
    /\ req = Idle
    /\ purger = Waiting

-----------------------------------------------------------------------------
(* _server                                                                 *)

At(pc) == req.pc = pc

\* The store is returned, or an exception ends the search.
Finish(outcome) ==
    req' = [pc |-> "done", caller |-> req.caller, session |-> req.session, outcome |-> outcome]

\* _auth has found a bearer token or a passthrough user.
Receive(c) ==
    /\ At("idle")
    /\ req' = [pc |-> "get", caller |-> c, session |-> NoSession,
               forced |-> "no", again |-> "no", connects |-> 0]
    /\ UNCHANGED <<sessions, DANGLE_INDEX, made, madeFor, stale, active, purger>>

\* with threadLock: sessiondata = TOKEN_SESSION.get(cacheid)
Get ==
    /\ At("get")
    /\ ~PurgerHoldsLock
    /\ LET s == sessions[Live(req.caller)]
       IN req' = [req EXCEPT !.session = s,
                             !.pc = IF s = NoSession THEN "connect"
                                    ELSE IF req.forced = "yes" THEN "replace"
                                    ELSE "probe"]
    /\ UNCHANGED <<sessions, DANGLE_INDEX, made, madeFor, stale, active, purger>>

\* server.user(userid=userid) succeeds, and sessiondata[1] = now, without the
\* lock and whether the session is still cached or not; or it fails.
Probe ==
    /\ At("probe")
    /\ \/ /\ stale' = stale \ {req.session}
          /\ req' = [req EXCEPT !.pc = "resolve"]
       \/ /\ req' = [req EXCEPT !.pc = "replace", !.forced = "yes"]
          /\ UNCHANGED stale
    /\ UNCHANGED <<sessions, DANGLE_INDEX, made, madeFor, active, purger>>

ReplaceSlip ==
    /\ At("replace")
    /\ ~PurgerHoldsLock
    /\ sessions' = [sessions EXCEPT ![Live(req.caller)] = NoSession]
    /\ req' = [req EXCEPT !.pc = "connect", !.session = NoSession]
    /\ UNCHANGED <<DANGLE_INDEX, made, madeFor, stale, active, purger>>

\* Moves the session to a dangle key. pop is a KeyError when the purger has
\* removed it since Get; nothing catches it.
Replace ==
    /\ At("replace")
    /\ ~PurgerHoldsLock
    /\ IF sessions[Live(req.caller)] = NoSession
       THEN Finish("other") /\ UNCHANGED <<sessions, DANGLE_INDEX>>
       ELSE /\ DANGLE_INDEX' = DANGLE_INDEX + 1
            /\ sessions' = [sessions EXCEPT ![Live(req.caller)] = NoSession,
                                            ![<<req.caller, DANGLE_INDEX + 1>>] =
                                               sessions[Live(req.caller)]]
            /\ req' = [req EXCEPT !.pc = "connect", !.session = NoSession]
    /\ UNCHANGED <<made, madeFor, stale, active, purger>>

\* kopano.server(...) and kopano.Store(...), which may not let the caller in.
Connect ==
    /\ At("connect")
    /\ \/ /\ made < MaxSessions
          /\ made' = made + 1
          /\ madeFor' = [madeFor EXCEPT ![made + 1] = req.caller]
          /\ req' = [req EXCEPT !.pc = "store", !.session = made + 1,
                                !.connects = @ + 1]
       \/ /\ \E outcome \in {"forbidden", "other"} : Finish(outcome)
          /\ UNCHANGED <<made, madeFor>>
    /\ UNCHANGED <<sessions, DANGLE_INDEX, stale, active, purger>>

\* The session of an empty token only gets a dangle key.
Store ==
    /\ At("store")
    /\ ~PurgerHoldsLock
    /\ IF req.caller = <<"bearer", EmptyToken>>
       THEN /\ DANGLE_INDEX' = DANGLE_INDEX + 1
            /\ sessions' = [sessions EXCEPT ![<<req.caller, DANGLE_INDEX + 1>>] =
                                               req.session]
       ELSE /\ sessions' = [sessions EXCEPT ![Live(req.caller)] = req.session]
            /\ UNCHANGED DANGLE_INDEX
    /\ req' = [req EXCEPT !.pc = "count"]
    /\ UNCHANGED <<made, madeFor, stale, active, purger>>

\* TOKEN_SESSION_ACTIVE.inc() or PASSTHROUGH_SESSIONS_ACTIVE.inc()
Count ==
    /\ At("count")
    /\ active' = [active EXCEPT ![req.caller[1]] = @ + 1]
    /\ req' = [req EXCEPT !.pc = "resolve"]
    /\ UNCHANGED <<sessions, DANGLE_INDEX, made, madeFor, stale, purger>>

-----------------------------------------------------------------------------
(* _server_store                                                           *)

\* The store is found, or the request refused; a MAPIErrorUnconfigured runs
\* the whole again with forceReconnect, once.
Resolve ==
    /\ At("resolve")
    /\ \/ \E outcome \in Outcomes : Finish(outcome)
       \/ /\ req.again = "no"
          /\ req' = [req EXCEPT !.pc = "get", !.again = "yes", !.forced = "yes"]
    /\ UNCHANGED <<sessions, DANGLE_INDEX, made, madeFor, stale, active, purger>>

-----------------------------------------------------------------------------
(* SessionPurger.run                                                       *)

ToScanSlip == {k \in Cached("bearer") : k[2] = 0}

\* list(TOKEN_SESSION.items())
ToScan == Cached("bearer")

\* exit.wait(...) times out and threadLock is acquired.
PurgerAcquire ==
    /\ purger = Waiting
    /\ purger' = [pc |-> "purge", left |-> ToScan, key |-> None, count |-> 0]
    /\ UNCHANGED <<sessions, DANGLE_INDEX, made, madeFor, stale, active, req>>

\* if ts < deadline, for one entry
PurgerCheck ==
    /\ purger.pc = "purge"
    /\ \E k \in purger.left :
        purger' = IF sessions[k] \in stale
                  THEN [purger EXCEPT !.pc = "delete", !.key = k,
                                      !.left = @ \ {k}]
                  ELSE [purger EXCEPT !.left = @ \ {k}]
    /\ UNCHANGED <<sessions, DANGLE_INDEX, made, madeFor, stale, active, req>>

EnoughSlip(count) == count > PurgeMax + 1

\* if count > 100: quick = True; break
Enough(count) == count > PurgeMax

\* del TOKEN_SESSION[cacheid], which raises a KeyError when it is gone.
PurgerDelete ==
    /\ purger.pc = "delete"
    /\ IF sessions[purger.key] = NoSession
       THEN purger' = Dead /\ UNCHANGED <<sessions, active>>
       ELSE /\ sessions' = [sessions EXCEPT ![purger.key] = NoSession]
            /\ active' = [active EXCEPT !["bearer"] = @ - 1]
            /\ purger' = IF Enough(purger.count + 1) THEN Waiting
                         ELSE [purger EXCEPT !.pc = "purge", !.key = None,
                                             !.count = @ + 1]
    /\ UNCHANGED <<DANGLE_INDEX, made, madeFor, stale, req>>

PurgerReleaseSlip ==
    /\ purger.pc = "purge"
    /\ purger.left = {}
    /\ purger' = [purger EXCEPT !.left = ToScan, !.count = 0]
    /\ UNCHANGED <<sessions, DANGLE_INDEX, made, madeFor, stale, active, req>>

\* The loop is over and threadLock is released.
PurgerRelease ==
    /\ purger.pc = "purge"
    /\ purger.left = {}
    /\ purger' = Waiting
    /\ UNCHANGED <<sessions, DANGLE_INDEX, made, madeFor, stale, active, req>>

-----------------------------------------------------------------------------
\* The token session s is cached.
Held(s) == \E k \in Cached("bearer") : sessions[k] = s

\* TOKEN_SESSION_CACHE_TIME passes since a token session was last used.
Age(s) ==
    /\ Held(s)
    /\ s \notin stale
    /\ stale' = stale \cup {s}
    /\ UNCHANGED <<sessions, DANGLE_INDEX, made, madeFor, active, req, purger>>

\* The request is through with its session.
Leave ==
    /\ At("done")
    /\ req' = Idle
    /\ UNCHANGED <<sessions, DANGLE_INDEX, made, madeFor, stale, active, purger>>

Request ==
    Get \/ Probe \/ Replace \/ Connect \/ Store \/ Count \/ Resolve
Purger == PurgerAcquire \/ PurgerCheck \/ PurgerDelete \/ PurgerRelease

Next ==
    \/ Request \/ Leave
    \/ Purger
    \/ \E c \in Callers : Receive(c)
    \/ \E s \in Sessions : Age(s)

Spec == Init /\ [][Next]_vars

\* The purger runs and time passes; a request need not come.
Fairness == WF_vars(Purger) /\ \A s \in Sessions : WF_vars(Age(s))
FairSpec == Spec /\ Fairness

-----------------------------------------------------------------------------
(* Properties                                                              *)

TypeOK ==
    /\ sessions \in [Keys -> Sessions \cup {NoSession}]
    /\ DANGLE_INDEX \in 0 .. MaxSessions
    /\ made \in 0 .. MaxSessions
    /\ madeFor \in [Sessions -> Callers \cup {None}]
    /\ stale \subseteq 1 .. made
    /\ active \in [Methods -> Int]
    /\ req \in {Idle} \cup Requests
    /\ purger \in {Waiting, Dead} \cup Rounds
    /\ purger.pc = "delete" => purger.key \in Keys

\* The gauges count the cached sessions, except one that was cached this
\* moment and is about to be counted.
GaugesAreExact ==
    \A m \in Methods :
        active[m] = Cardinality(Cached(m))
                      - IF At("count") /\ req.caller[1] = m THEN 1 ELSE 0

\* A token session that is not used any more is dropped in the end, also one
\* that was put aside under a dangle key, and the purger survives it: nobody
\* changes the keys while it works through its list.
StaleArePurged ==
    \A s \in Sessions :
        Held(s) /\ s \in stale ~> ~Held(s) \/ s \notin stale

=============================================================================
