----------------------------- MODULE RestProofs -----------------------------
(***************************************************************************)
(* Proofs about SessionCache and Rest, for any tokens and users: a handler *)
(* works with a session of its own caller, a request ends with the status  *)
(* of what went wrong, and the metrics are those of what happened.         *)
(***************************************************************************)
EXTENDS Rest, FiniteSetTheorems, TLAPS

Searches ==
    [pc : {"get", "probe", "replace", "connect", "store", "count", "resolve"},
     caller : Callers, session : Sessions \cup {NoSession},
     forced : {"no", "yes"}, again : {"no", "yes"}, connects : 0 .. 2]

Results ==
    [pc : {"done"}, caller : Callers, session : Sessions \cup {NoSession}, outcome : Outcomes]

BearerKeys == {k \in Keys : k[1][1] = "bearer"}
LiveKeys == {k \in Keys : k[2] = 0 /\ sessions[k] # NoSession}

\* The purger only lists token sessions.
PurgerInv ==
    /\ purger \in Rounds => purger.left \subseteq BearerKeys
    /\ purger.pc = "delete" => purger.key \in BearerKeys

\* A forced reconnect happens once, so there are at most two connects.
ConnectsInv ==
    req \in Searches =>
        /\ req.connects <= IF req.again = "no" THEN 1 ELSE 2
        /\ req.pc \in {"get", "probe", "replace", "connect"} =>
              req.connects <= IF req.again = "no" THEN 0 ELSE 1

\* Every session is cached for the caller that it was made for, and in the
\* hands of that caller only.
HasSession ==
    \/ req.pc \in {"probe", "replace", "store", "count", "resolve"}
    \/ req.pc = "done" /\ req.outcome = "store"

OwnerInv ==
    /\ \A k \in Keys : sessions[k] # NoSession =>
          sessions[k] <= made /\ madeFor[sessions[k]] = k[1]
    /\ HasSession => req.session \in 1 .. made /\ madeFor[req.session] = req.caller

\* The keys that are still to be used are free.
FreeInv ==
    /\ \A k \in Keys : k[2] > DANGLE_INDEX => sessions[k] = NoSession
    /\ req.pc \in {"connect", "store"} => sessions[Live(req.caller)] = NoSession

\* Every session is put aside at most once.
RoomInv ==
    /\ IsFiniteSet(LiveKeys)
    /\ DANGLE_INDEX + Cardinality(LiveKeys) + (IF At("store") THEN 1 ELSE 0) <= made

GaugeInv ==
    /\ \A m \in Methods : IsFiniteSet(Cached(m))
    /\ GaugesAreExact

SessionInv ==
    /\ TypeOK
    /\ PurgerInv
    /\ ConnectsInv
    /\ OwnerInv
    /\ FreeInv
    /\ RoomInv
    /\ GaugeInv

-----------------------------------------------------------------------------
(* Keys and requests                                                       *)

LEMMA KeyFacts ==
    /\ \A c \in Callers : c[1] \in Methods /\ Live(c) \in Keys
                          /\ Live(c)[1] = c /\ Live(c)[2] = 0
    /\ \A c \in Callers, n \in 0 .. MaxSessions :
          <<c, n>> \in Keys /\ <<c, n>>[1] = c /\ <<c, n>>[2] = n
    /\ \A k \in Keys : /\ k[1] \in Callers /\ k[2] \in 0 .. MaxSessions
                       /\ k[1][1] \in Methods /\ k = <<k[1], k[2]>>
    /\ NoSession \notin Sessions
BY SessionCacheAssumption
   DEF Callers, Methods, Keys, Live, NoSession, Sessions

LEMMA RequestFacts ==
    ASSUME TypeOK
    PROVE  /\ req.pc = "idle" => req = Idle
           /\ req.pc = "done" => req \in Results
           /\ req.pc \notin {"idle", "done"} => req \in Searches
           /\ req \in Searches => req.pc \notin {"idle", "done"}
           /\ purger.pc \in {"purge", "delete"} => purger \in Rounds
           /\ purger \in Rounds => purger.pc \in {"purge", "delete"}
<1>1. req \in {Idle} \cup Results \cup Searches
    BY DEF TypeOK, Requests, Results, Searches
<1>2. purger \in {Waiting, Dead} \cup Rounds
    BY DEF TypeOK
<1>3. Waiting.pc = "wait" /\ Dead.pc = "dead" /\ Idle.pc = "idle"
    BY DEF Waiting, Dead, Idle
<1>4. \A r \in Rounds : r.pc \in {"purge", "delete"}
    BY DEF Rounds
<1>5. /\ \A r \in Results : r.pc = "done"
      /\ \A r \in Searches : r.pc \notin {"idle", "done"}
    BY DEF Results, Searches
<1> QED BY <1>1, <1>2, <1>3, <1>4, <1>5

(* What is cached after a key was given a session or lost it.              *)

LEMMA PutKey ==
    ASSUME TypeOK, NEW k \in Keys, NEW s \in Sessions, sessions[k] = NoSession,
           sessions' = [sessions EXCEPT ![k] = s]
    PROVE  /\ sessions' \in [Keys -> Sessions \cup {NoSession}]
           /\ LiveKeys' = IF k[2] = 0 THEN LiveKeys \cup {k} ELSE LiveKeys
           /\ k \notin LiveKeys
           /\ \A m \in Methods :
                 /\ Cached(m)' = IF k[1][1] = m THEN Cached(m) \cup {k} ELSE Cached(m)
                 /\ k \notin Cached(m)
BY KeyFacts DEF TypeOK, LiveKeys, Cached

LEMMA DropKey ==
    ASSUME TypeOK, NEW k \in Keys, sessions[k] # NoSession,
           sessions' = [sessions EXCEPT ![k] = NoSession]
    PROVE  /\ sessions' \in [Keys -> Sessions \cup {NoSession}]
           /\ LiveKeys' = LiveKeys \ {k}
           /\ \A m \in Methods :
                 /\ Cached(m)' = Cached(m) \ {k}
                 /\ k[1][1] = m => k \in Cached(m)
                 /\ k[1][1] # m => k \notin Cached(m)
BY KeyFacts DEF TypeOK, LiveKeys, Cached

LEMMA MoveKey ==
    ASSUME TypeOK, NEW k \in Keys, NEW l \in Keys,
           sessions[k] # NoSession, sessions[l] = NoSession,
           k[1] = l[1], k[2] = 0, l[2] # 0,
           sessions' = [sessions EXCEPT ![k] = NoSession, ![l] = sessions[k]]
    PROVE  /\ sessions' \in [Keys -> Sessions \cup {NoSession}]
           /\ LiveKeys' = LiveKeys \ {k}
           /\ k \in LiveKeys
           /\ \A m \in Methods :
                 IF k[1][1] = m
                 THEN /\ Cached(m)' = (Cached(m) \ {k}) \cup {l}
                      /\ k \in Cached(m) /\ l \notin Cached(m)
                 ELSE Cached(m)' = Cached(m)
BY KeyFacts DEF TypeOK, LiveKeys, Cached

-----------------------------------------------------------------------------
(* The session cache: the invariant and the request thread                 *)

LEMMA SessionInit == Init => SessionInv
<1> SUFFICES ASSUME Init PROVE SessionInv
    OBVIOUS
<1>1. \A k \in Keys : sessions[k] = NoSession
    BY DEF Init
<1>2. req = Idle /\ req.pc = "idle" /\ purger = Waiting /\ purger.pc = "wait"
    BY DEF Init, Idle, Waiting
<1>3. LiveKeys = {} /\ \A m \in Methods : Cached(m) = {}
    BY <1>1 DEF LiveKeys, Cached
<1>4. TypeOK
    <2>1. \A k \in Keys : NoSession \in Sessions \cup {NoSession}
        OBVIOUS
    <2> QED BY <1>2, SessionCacheAssumption DEF Init, TypeOK
<1>5. req \notin Searches /\ purger \notin Rounds
    BY <1>2, <1>4, RequestFacts
<1>6. PurgerInv /\ ConnectsInv
    BY <1>2, <1>5 DEF PurgerInv, ConnectsInv
<1>7. OwnerInv
    BY <1>1, <1>2 DEF OwnerInv, HasSession
<1>8. FreeInv
    BY <1>1, <1>2 DEF FreeInv
<1>9. RoomInv
    BY <1>2, <1>3, FS_EmptySet DEF RoomInv, Init, At
<1>10. GaugeInv
    BY <1>2, <1>3, FS_EmptySet DEF GaugeInv, GaugesAreExact, Init, At
<1> QED BY <1>4, <1>6, <1>7, <1>8, <1>9, <1>10 DEF SessionInv

\* A step that leaves the cache alone keeps what is said of it.
LEMMA CacheUnchanged ==
    ASSUME SessionInv,
           UNCHANGED <<sessions, DANGLE_INDEX, made, madeFor, active, purger>>,
           req' \in {Idle} \cup Requests,
           stale' \subseteq 1 .. made,
           At("store") => At("store")', At("store")' => At("store"),
           ~At("count"), ~At("count")',
           ConnectsInv',
           HasSession' => req'.session \in 1 .. made /\ madeFor[req'.session] = req'.caller,
           req'.pc \in {"connect", "store"} => sessions[Live(req'.caller)] = NoSession
    PROVE  SessionInv'
<1>1. LiveKeys' = LiveKeys /\ \A m \in Methods : Cached(m)' = Cached(m)
    BY DEF LiveKeys, Cached
<1>2. TypeOK'
    BY DEF SessionInv, TypeOK
<1>3. PurgerInv'
    BY DEF SessionInv, PurgerInv
<1>4. OwnerInv'
    BY DEF SessionInv, OwnerInv
<1>5. FreeInv'
    BY DEF SessionInv, FreeInv, Live
<1>6. RoomInv'
    BY <1>1 DEF SessionInv, RoomInv
<1>7. GaugeInv'
    BY <1>1 DEF SessionInv, GaugeInv, GaugesAreExact
<1> QED BY <1>2, <1>3, <1>4, <1>5, <1>6, <1>7 DEF SessionInv

LEMMA ReceiveStep ==
    ASSUME SessionInv, NEW c \in Callers, Receive(c)
    PROVE  SessionInv'
<1>1. /\ req.pc = "idle" /\ req'.pc = "get" /\ req'.connects = 0
      /\ UNCHANGED <<sessions, DANGLE_INDEX, made, madeFor, stale, active, purger>>
    BY DEF Receive, At
<1>2. req' \in Searches
    BY DEF Receive, Searches
<1> QED BY <1>1, <1>2, CacheUnchanged
        DEF SessionInv, TypeOK, At, ConnectsInv, HasSession, Requests, Searches

LEMMA GetStep ==
    ASSUME SessionInv, Get
    PROVE  SessionInv'
<1> DEFINE s == sessions[Live(req.caller)]
<1>1. /\ req.pc = "get"
      /\ req' = [req EXCEPT !.session = s,
                            !.pc = IF s = NoSession THEN "connect"
                                   ELSE IF req.forced = "yes" THEN "replace"
                                   ELSE "probe"]
      /\ UNCHANGED <<sessions, DANGLE_INDEX, made, madeFor, stale, active, purger>>
    BY DEF Get, At
<1>2. req \in Searches /\ req.caller \in Callers /\ Live(req.caller) \in Keys
    BY <1>1, RequestFacts, KeyFacts DEF SessionInv, Searches
<1>3. s \in Sessions \cup {NoSession}
    BY <1>2 DEF SessionInv, TypeOK
<1>4. s # NoSession => s \in 1 .. made /\ madeFor[s] = req.caller
    BY <1>2, <1>3, KeyFacts DEF SessionInv, OwnerInv, TypeOK, Sessions
<1> HIDE DEF s
<1>5. /\ req' \in Searches /\ req'.session = s /\ req'.caller = req.caller
      /\ req'.pc \in {"connect", "replace", "probe"}
      /\ req'.pc = "connect" <=> s = NoSession
      /\ req'.again = req.again /\ req'.connects = req.connects
    BY <1>1, <1>2, <1>3 DEF Searches
<1>6. ConnectsInv'
    BY <1>1, <1>2, <1>5 DEF SessionInv, ConnectsInv
<1> QED BY <1>1, <1>4, <1>5, <1>6, CacheUnchanged
        DEF SessionInv, TypeOK, At, HasSession, Requests, Searches, s

LEMMA ProbeStep ==
    ASSUME SessionInv, Probe
    PROVE  SessionInv'
<1>1. /\ req.pc = "probe"
      /\ UNCHANGED <<sessions, DANGLE_INDEX, made, madeFor, active, purger>>
      /\ \/ /\ stale' = stale \ {req.session}
            /\ req' = [req EXCEPT !.pc = "resolve"]
         \/ /\ req' = [req EXCEPT !.pc = "replace", !.forced = "yes"]
            /\ UNCHANGED stale
    BY DEF Probe, At
<1>2. req \in Searches
    BY <1>1, RequestFacts DEF SessionInv
<1>3. /\ req' \in Searches /\ req'.pc \in {"resolve", "replace"}
      /\ req'.session = req.session /\ req'.caller = req.caller
      /\ req'.again = req.again /\ req'.connects = req.connects
    BY <1>1, <1>2 DEF Searches
<1>4. ConnectsInv'
    <2>1. req.connects <= (IF req.again = "no" THEN 0 ELSE 1) /\ req.connects \in 0 .. 2
        BY <1>1, <1>2 DEF SessionInv, ConnectsInv, Searches
    <2> QED BY <1>3, <2>1 DEF ConnectsInv
<1>5. req.session \in 1 .. made /\ madeFor[req.session] = req.caller
    BY <1>1 DEF SessionInv, OwnerInv, HasSession
<1>6. stale' \subseteq 1 .. made
    BY <1>1 DEF SessionInv, TypeOK
<1>7. req' \in {Idle} \cup Requests
    BY <1>3 DEF Requests, Searches
<1> QED BY <1>1, <1>3, <1>4, <1>5, <1>6, <1>7, CacheUnchanged DEF At, HasSession

LEMMA FinishType ==
    ASSUME req \in Searches, NEW outcome \in Outcomes, Finish(outcome)
    PROVE  /\ req' \in Results /\ req'.pc = "done" /\ req'.outcome = outcome
           /\ req'.session = req.session /\ req'.caller = req.caller
           /\ req' \in {Idle} \cup Requests
           /\ req' \notin Searches
BY DEF Finish, Searches, Results, Requests

LEMMA ReplaceStep ==
    ASSUME SessionInv, Replace
    PROVE  SessionInv'
<1> DEFINE k == Live(req.caller)
           l == <<req.caller, DANGLE_INDEX + 1>>
<1>1. req.pc = "replace" /\ UNCHANGED <<made, madeFor, stale, active, purger>>
    BY DEF Replace, At
<1>2. req \in Searches /\ req.caller \in Callers /\ k \in Keys /\ k[1] = req.caller /\ k[2] = 0
    BY <1>1, RequestFacts, KeyFacts DEF SessionInv, Searches
<1>3. CASE sessions[k] = NoSession
    <2>1. Finish("other") /\ UNCHANGED <<sessions, DANGLE_INDEX>>
        BY <1>3 DEF Replace
    <2>2. /\ req' \in {Idle} \cup Requests /\ req' \notin Searches
          /\ req'.pc = "done" /\ req'.outcome = "other"
        BY <1>2, <2>1, FinishType DEF Outcomes
    <2>3. stale' \subseteq 1 .. made
        BY <1>1 DEF SessionInv, TypeOK
    <2> QED BY <1>1, <2>1, <2>2, <2>3, CacheUnchanged DEF At, ConnectsInv, HasSession
<1>4. CASE sessions[k] # NoSession
    <2>1. /\ DANGLE_INDEX' = DANGLE_INDEX + 1
          /\ sessions' = [sessions EXCEPT ![k] = NoSession, ![l] = sessions[k]]
          /\ req' = [req EXCEPT !.pc = "connect", !.session = NoSession]
        BY <1>4 DEF Replace
    <2>2. /\ DANGLE_INDEX \in 0 .. MaxSessions /\ made \in 0 .. MaxSessions
          /\ IsFiniteSet(LiveKeys) /\ Cardinality(LiveKeys) \in Nat
          /\ DANGLE_INDEX + Cardinality(LiveKeys) <= made
        BY <1>1, FS_CardinalityType DEF SessionInv, TypeOK, RoomInv, At
    <2>3. k \in LiveKeys
        BY <1>2, <1>4 DEF LiveKeys
    <2>4. Cardinality(LiveKeys \ {k}) = Cardinality(LiveKeys) - 1
          /\ IsFiniteSet(LiveKeys \ {k}) /\ Cardinality(LiveKeys \ {k}) \in Nat
        BY <2>2, <2>3, FS_RemoveElement, FS_CardinalityType
    <2>5. DANGLE_INDEX + 1 \in 1 .. made /\ DANGLE_INDEX + 1 \in 1 .. MaxSessions
        BY <2>2, <2>4, SessionCacheAssumption
    <2>6. l \in Keys /\ l[1] = req.caller /\ l[2] = DANGLE_INDEX + 1 /\ l[2] # 0
        BY <1>2, <2>5, KeyFacts, SessionCacheAssumption
    <2>7. sessions[l] = NoSession
        BY <2>2, <2>6 DEF SessionInv, FreeInv
    <2> HIDE DEF k, l
    <2>8. /\ sessions' \in [Keys -> Sessions \cup {NoSession}]
          /\ LiveKeys' = LiveKeys \ {k}
          /\ \A m \in Methods :
                IF k[1][1] = m
                THEN /\ Cached(m)' = (Cached(m) \ {k}) \cup {l}
                     /\ k \in Cached(m) /\ l \notin Cached(m)
                ELSE Cached(m)' = Cached(m)
        BY <1>2, <1>4, <2>1, <2>6, <2>7, MoveKey DEF SessionInv
    <2>9. /\ req' \in Searches /\ req'.pc = "connect" /\ req'.caller = req.caller
          /\ req'.again = req.again /\ req'.connects = req.connects
          /\ req' \in {Idle} \cup Requests
        BY <1>2, <2>1 DEF Searches, Requests
    <2>10. TypeOK'
        BY <1>1, <2>1, <2>5, <2>8, <2>9, <2>2 DEF SessionInv, TypeOK
    <2>11. PurgerInv' /\ ConnectsInv'
        BY <1>1, <1>2, <2>9 DEF SessionInv, PurgerInv, ConnectsInv
    <2>12. \A j \in Keys : sessions'[j] = IF j = l THEN sessions[k]
                                          ELSE IF j = k THEN NoSession ELSE sessions[j]
        BY <2>1, <2>6, <1>2 DEF SessionInv, TypeOK
    <2>13. OwnerInv'
        BY <1>1, <1>2, <1>4, <2>6, <2>9, <2>12
           DEF SessionInv, OwnerInv, HasSession
    <2>14. FreeInv'
        <3>1. \A j \in Keys : j[2] > DANGLE_INDEX + 1 => sessions'[j] = NoSession
            BY <1>2, <2>2, <2>6, <2>12, KeyFacts DEF SessionInv, FreeInv
        <3>2. sessions'[k] = NoSession /\ Live(req'.caller) = k
            BY <1>2, <2>6, <2>9, <2>12 DEF k
        <3> QED BY <2>1, <3>1, <3>2 DEF FreeInv, Live
    <2>15. RoomInv'
        BY <1>1, <2>1, <2>2, <2>4, <2>8, <2>9 DEF RoomInv, At
    <2>16. GaugeInv'
        <3> SUFFICES ASSUME NEW m \in Methods
                     PROVE  /\ IsFiniteSet(Cached(m)')
                            /\ active[m] = Cardinality(Cached(m)')
            BY <1>1, <2>9, FS_CardinalityType DEF GaugeInv, GaugesAreExact, At
        <3>1. IsFiniteSet(Cached(m)) /\ active[m] = Cardinality(Cached(m))
              /\ Cardinality(Cached(m)) \in Nat
            BY <1>1, FS_CardinalityType DEF SessionInv, GaugeInv, GaugesAreExact, At, TypeOK
        <3>2. CASE k[1][1] = m
            <4> DEFINE rest == Cached(m) \ {k}
            <4>1. /\ Cached(m)' = rest \cup {l}
                  /\ k \in Cached(m) /\ l \notin rest
                BY <2>8, <3>2
            <4>2. IsFiniteSet(rest) /\ Cardinality(rest) = Cardinality(Cached(m)) - 1
                BY <3>1, <4>1, FS_RemoveElement
            <4> HIDE DEF rest
            <4>3. /\ IsFiniteSet(rest \cup {l})
                  /\ Cardinality(rest \cup {l}) = Cardinality(rest) + 1
                BY <4>1, <4>2, FS_AddElement
            <4> QED BY <3>1, <4>1, <4>2, <4>3
        <3>3. CASE k[1][1] # m
            BY <2>8, <3>1, <3>3
        <3> QED BY <3>2, <3>3
    <2> QED BY <2>10, <2>11, <2>13, <2>14, <2>15, <2>16 DEF SessionInv
<1> QED BY <1>3, <1>4

LEMMA ConnectStep ==
    ASSUME SessionInv, Connect
    PROVE  SessionInv'
<1>1. /\ req.pc = "connect"
      /\ UNCHANGED <<sessions, DANGLE_INDEX, stale, active, purger>>
    BY DEF Connect, At
<1>2. req \in Searches /\ req.caller \in Callers
    BY <1>1, RequestFacts DEF SessionInv, Searches
<1>3. ASSUME NEW outcome \in {"forbidden", "other"}, Finish(outcome),
             UNCHANGED <<made, madeFor>>
      PROVE  SessionInv'
    <2>1. /\ req' \in {Idle} \cup Requests /\ req' \notin Searches
          /\ req'.pc = "done" /\ req'.outcome = outcome
        BY <1>2, <1>3, FinishType DEF Outcomes
    <2>2. stale' \subseteq 1 .. made
        BY <1>1 DEF SessionInv, TypeOK
    <2> QED BY <1>1, <1>3, <2>1, <2>2, CacheUnchanged DEF At, ConnectsInv, HasSession
<1>4. ASSUME made < MaxSessions,
             made' = made + 1,
             madeFor' = [madeFor EXCEPT ![made + 1] = req.caller],
             req' = [req EXCEPT !.pc = "store", !.session = made + 1, !.connects = @ + 1]
      PROVE  SessionInv'
    <2>1. made + 1 \in Sessions /\ made' \in 0 .. MaxSessions /\ made \in Nat
        BY <1>4, SessionCacheAssumption DEF SessionInv, TypeOK, Sessions
    <2>2. req.connects <= (IF req.again = "no" THEN 0 ELSE 1) /\ req.connects \in 0 .. 2
        BY <1>1, <1>2 DEF SessionInv, ConnectsInv, Searches
    <2>3. /\ req' \in Searches /\ req'.pc = "store" /\ req'.caller = req.caller
          /\ req'.session = made + 1
          /\ req'.again = req.again /\ req'.connects = req.connects + 1
        <3>1. req.connects + 1 \in 0 .. 2 /\ req.again \in {"no", "yes"}
            BY <1>2, <2>2 DEF Searches
        <3>2. req' = [req EXCEPT !.pc = "store", !.session = made + 1,
                                 !.connects = req.connects + 1]
            BY <1>2, <1>4 DEF Searches
        <3> QED BY <1>2, <2>1, <3>1, <3>2 DEF Searches
    <2>4. /\ madeFor' \in [Sessions -> Callers \cup {None}]
          /\ madeFor'[made + 1] = req.caller
          /\ \A s \in 1 .. made : madeFor'[s] = madeFor[s]
        BY <1>2, <1>4, <2>1 DEF SessionInv, TypeOK, Sessions
    <2>5. LiveKeys' = LiveKeys /\ \A m \in Methods : Cached(m)' = Cached(m)
        BY <1>1 DEF LiveKeys, Cached
    <2>6. TypeOK'
        <3>1. stale' \subseteq 1 .. made'
            BY <1>1, <1>4, <2>1 DEF SessionInv, TypeOK
        <3> QED BY <1>1, <2>1, <2>3, <2>4, <3>1 DEF SessionInv, TypeOK, Requests, Searches
    <2>7. PurgerInv' /\ ConnectsInv'
        BY <1>1, <2>2, <2>3 DEF SessionInv, PurgerInv, ConnectsInv
    <2>8. OwnerInv'
        <3>1. ASSUME NEW k \in Keys, sessions[k] # NoSession
              PROVE  sessions[k] <= made' /\ madeFor'[sessions[k]] = k[1]
            <4>1. sessions[k] \in 1 .. made /\ madeFor[sessions[k]] = k[1]
                BY <3>1, <2>1 DEF SessionInv, OwnerInv, TypeOK, Sessions
            <4> QED BY <1>4, <2>1, <2>4, <4>1
        <3> QED BY <1>1, <1>4, <2>1, <2>3, <2>4, <3>1 DEF OwnerInv
    <2>9. FreeInv'
        BY <1>1, <2>3 DEF SessionInv, FreeInv, Live
    <2>10. RoomInv'
        <3>1. Cardinality(LiveKeys) \in Nat /\ DANGLE_INDEX \in Nat
            BY FS_CardinalityType, SessionCacheAssumption DEF SessionInv, RoomInv, TypeOK
        <3> QED BY <1>1, <1>4, <2>1, <2>3, <2>5, <3>1 DEF SessionInv, RoomInv, At
    <2>11. GaugeInv'
        BY <1>1, <2>3, <2>5 DEF SessionInv, GaugeInv, GaugesAreExact, At
    <2> QED BY <2>6, <2>7, <2>8, <2>9, <2>10, <2>11 DEF SessionInv
<1> QED BY <1>3, <1>4 DEF Connect

\* The key that the session gets was free, whichever it is.
LEMMA StoreStep ==
    ASSUME SessionInv, Store
    PROVE  SessionInv'
<1> DEFINE s == req.session
<1>1. /\ req.pc = "store" /\ req' = [req EXCEPT !.pc = "count"]
      /\ UNCHANGED <<made, madeFor, stale, active, purger>>
    BY DEF Store, At
<1>2. req \in Searches /\ req.caller \in Callers
    BY <1>1, RequestFacts DEF SessionInv, Searches
<1>3. s \in Sessions /\ s \in 1 .. made /\ madeFor[s] = req.caller /\ s # NoSession
    BY <1>1, SessionCacheAssumption
       DEF SessionInv, OwnerInv, HasSession, TypeOK, Sessions, NoSession
<1>4. /\ req' \in Searches /\ req'.pc = "count" /\ req'.caller = req.caller
      /\ req'.session = s /\ req'.again = req.again /\ req'.connects = req.connects
      /\ req' \in {Idle} \cup Requests
    BY <1>1, <1>2 DEF Searches, Requests
<1>5. /\ DANGLE_INDEX \in 0 .. MaxSessions /\ made \in 0 .. MaxSessions
      /\ IsFiniteSet(LiveKeys) /\ Cardinality(LiveKeys) \in Nat
      /\ DANGLE_INDEX + Cardinality(LiveKeys) + 1 <= made
    BY <1>1, FS_CardinalityType DEF SessionInv, TypeOK, RoomInv, At
<1>6. PICK k \in Keys :
        /\ k[1] = req.caller
        /\ sessions[k] = NoSession
        /\ sessions' = [sessions EXCEPT ![k] = s]
        /\ \/ k[2] = 0 /\ DANGLE_INDEX' = DANGLE_INDEX
           \/ k[2] = DANGLE_INDEX + 1 /\ DANGLE_INDEX' = DANGLE_INDEX + 1
    <2>1. CASE req.caller = <<"bearer", EmptyToken>>
        <3> DEFINE k == <<req.caller, DANGLE_INDEX + 1>>
        <3>1. DANGLE_INDEX' = DANGLE_INDEX + 1 /\ sessions' = [sessions EXCEPT ![k] = s]
            BY <2>1 DEF Store
        <3>2. DANGLE_INDEX + 1 \in 0 .. MaxSessions
            BY <1>5, SessionCacheAssumption
        <3>3. k \in Keys /\ k[1] = req.caller /\ k[2] = DANGLE_INDEX + 1
            BY <1>2, <3>2, KeyFacts
        <3> HIDE DEF k
        <3>4. sessions[k] = NoSession
            BY <1>5, <3>3 DEF SessionInv, FreeInv
        <3> QED BY <3>1, <3>3, <3>4
    <2>2. CASE req.caller # <<"bearer", EmptyToken>>
        <3>1. DANGLE_INDEX' = DANGLE_INDEX /\ sessions' = [sessions EXCEPT ![Live(req.caller)] = s]
            BY <2>2 DEF Store
        <3>2. sessions[Live(req.caller)] = NoSession
            BY <1>1 DEF SessionInv, FreeInv
        <3> QED BY <1>2, <3>1, <3>2, KeyFacts
    <2> QED BY <2>1, <2>2
<1>7. /\ sessions' \in [Keys -> Sessions \cup {NoSession}]
      /\ LiveKeys' = IF k[2] = 0 THEN LiveKeys \cup {k} ELSE LiveKeys
      /\ k \notin LiveKeys
      /\ \A m \in Methods :
            /\ Cached(m)' = IF k[1][1] = m THEN Cached(m) \cup {k} ELSE Cached(m)
            /\ k \notin Cached(m)
    BY <1>3, <1>6, PutKey DEF SessionInv
<1>8. \A j \in Keys : sessions'[j] = IF j = k THEN s ELSE sessions[j]
    BY <1>6 DEF SessionInv, TypeOK
<1>9. DANGLE_INDEX' \in DANGLE_INDEX .. DANGLE_INDEX + 1 /\ DANGLE_INDEX' \in 0 .. MaxSessions
    BY <1>5, <1>6, SessionCacheAssumption
<1> HIDE DEF s
<1>10. TypeOK'
    BY <1>1, <1>4, <1>7, <1>9 DEF SessionInv, TypeOK
<1>11. PurgerInv' /\ ConnectsInv'
    BY <1>1, <1>2, <1>4 DEF SessionInv, PurgerInv, ConnectsInv
<1>12. OwnerInv'
    BY <1>1, <1>3, <1>4, <1>6, <1>8 DEF SessionInv, OwnerInv
<1>13. FreeInv'
    <2> SUFFICES ASSUME NEW j \in Keys, j[2] > DANGLE_INDEX'
                 PROVE  sessions'[j] = NoSession
        BY <1>4 DEF FreeInv
    <2>1. j[2] \in Nat /\ j[2] > DANGLE_INDEX /\ j # k
        BY <1>5, <1>6, <1>9, KeyFacts, SessionCacheAssumption
    <2> QED BY <1>8, <2>1 DEF SessionInv, FreeInv
<1>14. RoomInv'
    <2>1. /\ IsFiniteSet(LiveKeys \cup {k})
          /\ Cardinality(LiveKeys \cup {k}) = Cardinality(LiveKeys) + 1
        BY <1>5, <1>7, FS_AddElement
    <2>2. k[2] = 0 => DANGLE_INDEX' = DANGLE_INDEX
        BY <1>5, <1>6
    <2> QED BY <1>1, <1>4, <1>5, <1>7, <1>9, <2>1, <2>2 DEF RoomInv, At
<1>15. GaugeInv'
    <2> SUFFICES ASSUME NEW m \in Methods
                 PROVE  /\ IsFiniteSet(Cached(m)')
                        /\ active[m] = Cardinality(Cached(m)')
                                         - IF req.caller[1] = m THEN 1 ELSE 0
        BY <1>1, <1>4 DEF GaugeInv, GaugesAreExact, At
    <2>1. IsFiniteSet(Cached(m)) /\ active[m] = Cardinality(Cached(m))
          /\ Cardinality(Cached(m)) \in Nat
        BY <1>1, FS_CardinalityType DEF SessionInv, GaugeInv, GaugesAreExact, At, TypeOK
    <2>2. /\ IsFiniteSet(Cached(m) \cup {k})
          /\ Cardinality(Cached(m) \cup {k}) = Cardinality(Cached(m)) + 1
        BY <1>7, <2>1, FS_AddElement
    <2>3. CASE req.caller[1] = m
        <3>1. Cached(m)' = Cached(m) \cup {k}
            BY <1>6, <1>7, <2>3
        <3> QED BY <2>1, <2>2, <2>3, <3>1
    <2>4. CASE req.caller[1] # m
        <3>1. Cached(m)' = Cached(m)
            BY <1>6, <1>7, <2>4
        <3> QED BY <2>1, <2>4, <3>1
    <2> QED BY <2>3, <2>4
<1> QED BY <1>10, <1>11, <1>12, <1>13, <1>14, <1>15 DEF SessionInv

LEMMA CountStep ==
    ASSUME SessionInv, Count
    PROVE  SessionInv'
<1>1. /\ req.pc = "count"
      /\ active' = [active EXCEPT ![req.caller[1]] = @ + 1]
      /\ req' = [req EXCEPT !.pc = "resolve"]
      /\ UNCHANGED <<sessions, DANGLE_INDEX, made, madeFor, stale, purger>>
    BY DEF Count, At
<1>2. req \in Searches /\ req.caller \in Callers /\ req.caller[1] \in Methods
    BY <1>1, RequestFacts, KeyFacts DEF SessionInv, Searches
<1>3. /\ req' \in Searches /\ req'.pc = "resolve" /\ req'.caller = req.caller
      /\ req'.session = req.session /\ req'.again = req.again /\ req'.connects = req.connects
      /\ req' \in {Idle} \cup Requests
    BY <1>1, <1>2 DEF Searches, Requests
<1>4. LiveKeys' = LiveKeys /\ \A m \in Methods : Cached(m)' = Cached(m)
    BY <1>1 DEF LiveKeys, Cached
<1>5. /\ active' \in [Methods -> Int]
      /\ \A m \in Methods : active'[m] = active[m] + IF req.caller[1] = m THEN 1 ELSE 0
    BY <1>1, <1>2 DEF SessionInv, TypeOK
<1>6. TypeOK'
    BY <1>1, <1>3, <1>5 DEF SessionInv, TypeOK
<1>7. PurgerInv' /\ ConnectsInv'
    BY <1>1, <1>2, <1>3 DEF SessionInv, PurgerInv, ConnectsInv
<1>8. OwnerInv' /\ FreeInv'
    BY <1>1, <1>3 DEF SessionInv, OwnerInv, HasSession, FreeInv
<1>9. RoomInv'
    BY <1>1, <1>3, <1>4 DEF SessionInv, RoomInv, At
<1>10. GaugeInv'
    <2> SUFFICES ASSUME NEW m \in Methods
                 PROVE  IsFiniteSet(Cached(m)) /\ active'[m] = Cardinality(Cached(m))
        BY <1>3, <1>4, FS_CardinalityType DEF GaugeInv, GaugesAreExact, At
    <2>1. /\ IsFiniteSet(Cached(m)) /\ Cardinality(Cached(m)) \in Nat
          /\ active[m] = Cardinality(Cached(m)) - IF req.caller[1] = m THEN 1 ELSE 0
        BY <1>1, FS_CardinalityType DEF SessionInv, GaugeInv, GaugesAreExact, At
    <2> QED BY <1>5, <2>1
<1> QED BY <1>6, <1>7, <1>8, <1>9, <1>10 DEF SessionInv

LEMMA ResolveStep ==
    ASSUME SessionInv, Resolve
    PROVE  SessionInv'
<1>1. /\ req.pc = "resolve"
      /\ UNCHANGED <<sessions, DANGLE_INDEX, made, madeFor, stale, active, purger>>
    BY DEF Resolve, At
<1>2. req \in Searches /\ req.connects \in 0 .. 2
    BY <1>1, RequestFacts DEF SessionInv, Searches
<1>3. req.session \in 1 .. made /\ madeFor[req.session] = req.caller
    BY <1>1 DEF SessionInv, OwnerInv, HasSession
<1>4. stale' \subseteq 1 .. made
    BY <1>1 DEF SessionInv, TypeOK
<1>5. ASSUME NEW outcome \in Outcomes, Finish(outcome)
      PROVE  SessionInv'
    <2>1. /\ req' \in {Idle} \cup Requests /\ req' \notin Searches /\ req'.pc = "done"
          /\ req'.session = req.session /\ req'.caller = req.caller
        BY <1>2, <1>5, FinishType
    <2> QED BY <1>1, <1>3, <1>4, <2>1, CacheUnchanged DEF At, ConnectsInv
<1>6. ASSUME req.again = "no",
             req' = [req EXCEPT !.pc = "get", !.again = "yes", !.forced = "yes"]
      PROVE  SessionInv'
    <2>1. /\ req' \in Searches /\ req'.pc = "get" /\ req'.again = "yes"
          /\ req'.connects = req.connects
          /\ req' \in {Idle} \cup Requests
        BY <1>2, <1>6 DEF Searches, Requests
    <2>2. ConnectsInv'
        <3>1. req.connects <= 1
            BY <1>2, <1>6 DEF SessionInv, ConnectsInv
        <3> QED BY <1>2, <2>1, <3>1 DEF ConnectsInv
    <2> QED BY <1>1, <1>4, <2>1, <2>2, CacheUnchanged DEF At, HasSession
<1> QED BY <1>5, <1>6 DEF Resolve

LEMMA LeaveStep ==
    ASSUME SessionInv, Leave
    PROVE  SessionInv'
<1>1. /\ req.pc = "done" /\ req' = Idle /\ req'.pc = "idle"
      /\ UNCHANGED <<sessions, DANGLE_INDEX, made, madeFor, stale, active, purger>>
    BY DEF Leave, At, Idle
<1>2. req' \notin Searches
    BY <1>1 DEF Searches
<1>3. stale' \subseteq 1 .. made
    BY <1>1 DEF SessionInv, TypeOK
<1> QED BY <1>1, <1>2, <1>3, CacheUnchanged DEF At, ConnectsInv, HasSession

LEMMA AgeStep ==
    ASSUME SessionInv, NEW s \in Sessions, Age(s)
    PROVE  SessionInv'
<1>1. /\ stale' = stale \cup {s} /\ Held(s)
      /\ UNCHANGED <<sessions, DANGLE_INDEX, made, madeFor, active, req, purger>>
    BY DEF Age
<1>2. s \in 1 .. made
    <2>1. PICK k \in Keys : sessions[k] = s /\ sessions[k] # NoSession
        BY <1>1 DEF Held, Cached
    <2> QED BY <2>1, SessionCacheAssumption DEF SessionInv, OwnerInv, Sessions, TypeOK
<1>3. TypeOK'
    BY <1>1, <1>2 DEF SessionInv, TypeOK
<1>4. PurgerInv' /\ ConnectsInv' /\ OwnerInv' /\ FreeInv'
    BY <1>1 DEF SessionInv, PurgerInv, ConnectsInv, OwnerInv, HasSession, FreeInv, Live
<1>5. LiveKeys' = LiveKeys /\ \A m \in Methods : Cached(m)' = Cached(m)
    BY <1>1 DEF LiveKeys, Cached
<1>6. RoomInv' /\ GaugeInv'
    BY <1>1, <1>5 DEF SessionInv, RoomInv, GaugeInv, GaugesAreExact, At
<1> QED BY <1>3, <1>4, <1>6 DEF SessionInv

-----------------------------------------------------------------------------
(* The session cache: the purger                                           *)

\* While the purger only reads, nothing changes for the requests.
LEMMA PurgerReads ==
    ASSUME SessionInv,
           UNCHANGED <<sessions, DANGLE_INDEX, made, madeFor, stale, active, req>>,
           purger' \in {Waiting, Dead} \cup Rounds,
           purger' \in Rounds => purger'.left \subseteq BearerKeys,
           purger'.pc = "delete" => purger'.key \in BearerKeys
    PROVE  SessionInv'
<1>1. LiveKeys' = LiveKeys /\ \A m \in Methods : Cached(m)' = Cached(m)
    BY DEF LiveKeys, Cached
<1>2. TypeOK'
    BY DEF SessionInv, TypeOK, BearerKeys
<1>3. PurgerInv'
    BY DEF PurgerInv
<1>4. ConnectsInv' /\ OwnerInv' /\ FreeInv'
    BY DEF SessionInv, ConnectsInv, OwnerInv, HasSession, FreeInv
<1>5. RoomInv' /\ GaugeInv'
    BY <1>1 DEF SessionInv, RoomInv, GaugeInv, GaugesAreExact, At
<1> QED BY <1>2, <1>3, <1>4, <1>5 DEF SessionInv

LEMMA PurgerReadsStep ==
    ASSUME SessionInv, PurgerAcquire \/ PurgerCheck \/ PurgerRelease
    PROVE  SessionInv'
<1>1. ASSUME PurgerAcquire PROVE SessionInv'
    <2>1. /\ purger' = [pc |-> "purge", left |-> ToScan, key |-> None, count |-> 0]
          /\ UNCHANGED <<sessions, DANGLE_INDEX, made, madeFor, stale, active, req>>
        BY <1>1 DEF PurgerAcquire
    <2>2. ToScan \subseteq BearerKeys /\ BearerKeys \subseteq Keys
        BY DEF ToScan, Cached, BearerKeys
    <2>3. purger' \in Rounds /\ purger'.left = ToScan /\ purger'.pc = "purge"
        BY <2>1, <2>2, SessionCacheAssumption DEF Rounds
    <2> QED BY <2>1, <2>2, <2>3, PurgerReads
<1>2. ASSUME PurgerCheck PROVE SessionInv'
    <2>1. PICK k \in purger.left :
            purger' = IF sessions[k] \in stale
                      THEN [purger EXCEPT !.pc = "delete", !.key = k,
                                          !.left = @ \ {k}]
                      ELSE [purger EXCEPT !.left = @ \ {k}]
        BY <1>2 DEF PurgerCheck
    <2>2. /\ purger \in Rounds /\ purger.left \subseteq BearerKeys /\ purger.pc = "purge"
          /\ UNCHANGED <<sessions, DANGLE_INDEX, made, madeFor, stale, active, req>>
        BY <1>2, RequestFacts DEF PurgerCheck, SessionInv, PurgerInv
    <2>3. k \in BearerKeys /\ k \in Keys
        BY <2>2 DEF BearerKeys
    <2>4. /\ purger' \in Rounds /\ purger'.left = purger.left \ {k}
          /\ purger'.pc = "delete" => purger'.key = k
        BY <2>1, <2>2, <2>3 DEF Rounds
    <2> QED BY <2>2, <2>3, <2>4, PurgerReads
<1>3. ASSUME PurgerRelease PROVE SessionInv'
    <2>1. /\ purger' = Waiting /\ purger'.pc = "wait"
          /\ UNCHANGED <<sessions, DANGLE_INDEX, made, madeFor, stale, active, req>>
        BY <1>3 DEF PurgerRelease, Waiting
    <2>2. purger' \notin Rounds
        BY <2>1 DEF Rounds
    <2> QED BY <2>1, <2>2, PurgerReads
<1> QED BY <1>1, <1>2, <1>3

LEMMA PurgerDeleteStep ==
    ASSUME SessionInv, PurgerDelete
    PROVE  SessionInv'
<1> DEFINE k == purger.key
<1>1. /\ purger.pc = "delete" /\ purger \in Rounds /\ purger.left \subseteq BearerKeys
      /\ k \in Keys /\ k[1][1] = "bearer" /\ "bearer" \in Methods
      /\ UNCHANGED <<DANGLE_INDEX, made, madeFor, stale, req>>
    BY RequestFacts DEF PurgerDelete, SessionInv, PurgerInv, BearerKeys, Methods
<1>2. CASE sessions[k] = NoSession
    <2>1. /\ purger' = Dead /\ purger'.pc = "dead" /\ purger' \notin Rounds
          /\ UNCHANGED <<sessions, active>>
        BY <1>2 DEF PurgerDelete, Dead, Rounds
    <2> QED BY <1>1, <2>1, PurgerReads
<1>3. CASE sessions[k] # NoSession
    <2>1. /\ sessions' = [sessions EXCEPT ![k] = NoSession]
          /\ active' = [active EXCEPT !["bearer"] = @ - 1]
          /\ purger' = IF Enough(purger.count + 1) THEN Waiting
                       ELSE [purger EXCEPT !.pc = "purge", !.key = None,
                                           !.count = @ + 1]
        BY <1>3 DEF PurgerDelete
    <2>2. /\ purger' \in {Waiting} \cup Rounds
          /\ purger' \in Rounds => purger'.left = purger.left
          /\ purger'.pc \in {"wait", "purge"}
        <3>1. CASE Enough(purger.count + 1)
            <4>1. purger' = Waiting
                BY <2>1, <3>1
            <4> QED BY <4>1 DEF Waiting, Rounds
        <3>2. CASE ~Enough(purger.count + 1)
            <4>1. purger.count + 1 \in 0 .. PurgeMax
                BY <1>1, <3>2, SessionCacheAssumption DEF Enough, Rounds
            <4>2. purger' = [purger EXCEPT !.pc = "purge", !.key = None,
                                           !.count = purger.count + 1]
                BY <1>1, <2>1, <3>2 DEF Rounds
            <4> QED BY <1>1, <4>1, <4>2 DEF Rounds
        <3> QED BY <3>1, <3>2
    <2> HIDE DEF k
    <2>3. /\ sessions' \in [Keys -> Sessions \cup {NoSession}]
          /\ LiveKeys' = LiveKeys \ {k}
          /\ \A m \in Methods :
                /\ Cached(m)' = Cached(m) \ {k}
                /\ k[1][1] = m => k \in Cached(m)
                /\ k[1][1] # m => k \notin Cached(m)
        BY <1>1, <1>3, <2>1, DropKey DEF SessionInv
    <2>4. \A j \in Keys : sessions'[j] = IF j = k THEN NoSession ELSE sessions[j]
        BY <1>1, <2>1 DEF SessionInv, TypeOK
    <2>5. /\ active' \in [Methods -> Int]
          /\ \A m \in Methods : active'[m] = IF m = "bearer" THEN active[m] - 1 ELSE active[m]
        BY <1>1, <2>1 DEF SessionInv, TypeOK
    <2>6. TypeOK'
        BY <1>1, <2>2, <2>3, <2>5 DEF SessionInv, TypeOK
    <2>7. PurgerInv' /\ ConnectsInv'
        BY <1>1, <2>2 DEF SessionInv, PurgerInv, ConnectsInv
    <2>8. OwnerInv'
        BY <1>1, <2>4 DEF SessionInv, OwnerInv, HasSession
    <2>9. FreeInv'
        <3>1. ASSUME req.pc \in {"connect", "store"}
              PROVE  sessions'[Live(req.caller)] = NoSession
            <4>1. req.caller \in Callers
                BY <3>1, RequestFacts DEF SessionInv, Searches
            <4> QED BY <2>4, <3>1, <4>1, KeyFacts DEF SessionInv, FreeInv
        <3> QED BY <1>1, <2>4, <3>1 DEF SessionInv, FreeInv, Live
    <2>10. RoomInv'
        <3>1. IsFiniteSet(LiveKeys) /\ Cardinality(LiveKeys) \in Nat
            BY FS_CardinalityType DEF SessionInv, RoomInv
        <3>2. /\ IsFiniteSet(LiveKeys \ {k}) /\ Cardinality(LiveKeys \ {k}) \in Nat
              /\ Cardinality(LiveKeys \ {k}) <= Cardinality(LiveKeys)
            <4>1. LiveKeys \ {k} \subseteq LiveKeys
                OBVIOUS
            <4> QED BY <3>1, <4>1, FS_Subset, FS_CardinalityType
        <3>3. DANGLE_INDEX \in Nat /\ made \in Nat
            BY SessionCacheAssumption DEF SessionInv, TypeOK
        <3> QED BY <1>1, <2>3, <3>1, <3>2, <3>3 DEF SessionInv, RoomInv, At
    <2>11. GaugeInv'
        <3> DEFINE one(m) == IF At("count") /\ req.caller[1] = m THEN 1 ELSE 0
        <3> SUFFICES ASSUME NEW m \in Methods
                     PROVE  /\ IsFiniteSet(Cached(m)')
                            /\ active'[m] = Cardinality(Cached(m)') - one(m)
            BY <1>1 DEF GaugeInv, GaugesAreExact, At
        <3>1. IsFiniteSet(Cached(m)) /\ Cardinality(Cached(m)) \in Nat /\ one(m) \in 0 .. 1
              /\ active[m] = Cardinality(Cached(m)) - one(m)
            BY FS_CardinalityType DEF SessionInv, GaugeInv, GaugesAreExact
        <3> HIDE DEF one
        <3>2. CASE m = "bearer"
            <4>1. Cached(m)' = Cached(m) \ {k} /\ k \in Cached(m)
                BY <1>1, <2>3, <3>2
            <4>2. /\ IsFiniteSet(Cached(m) \ {k})
                  /\ Cardinality(Cached(m) \ {k}) = Cardinality(Cached(m)) - 1
                BY <3>1, <4>1, FS_RemoveElement
            <4> QED BY <2>5, <3>1, <3>2, <4>1, <4>2
        <3>3. CASE m # "bearer"
            <4>1. Cached(m)' = Cached(m)
                BY <1>1, <2>3, <3>3
            <4> QED BY <2>5, <3>1, <3>3, <4>1
        <3> QED BY <3>2, <3>3
    <2> QED BY <2>6, <2>7, <2>8, <2>9, <2>10, <2>11 DEF SessionInv
<1> QED BY <1>2, <1>3

LEMMA SessionNext == SessionInv /\ [Next]_vars => SessionInv'
<1> SUFFICES ASSUME SessionInv, [Next]_vars PROVE SessionInv'
    OBVIOUS
<1>1. CASE UNCHANGED vars
    <2>1. UNCHANGED <<sessions, DANGLE_INDEX, made, madeFor, stale, active, req, purger>>
        BY <1>1 DEF vars
    <2>2. /\ purger' \in {Waiting, Dead} \cup Rounds
          /\ purger' \in Rounds => purger'.left \subseteq BearerKeys
          /\ purger'.pc = "delete" => purger'.key \in BearerKeys
        BY <2>1 DEF SessionInv, TypeOK, PurgerInv
    <2> QED BY <2>1, <2>2, PurgerReads
<1>2. CASE Next
    BY <1>2, ReceiveStep, GetStep, ProbeStep, ReplaceStep, ConnectStep, StoreStep,
       CountStep, ResolveStep, LeaveStep, AgeStep, PurgerReadsStep, PurgerDeleteStep
       DEF Next, Request, Purger
<1> QED BY <1>1, <1>2

-----------------------------------------------------------------------------
(* What becomes of an exception                                            *)

Expected(cause) ==
    CASE cause = "nothing" -> 200
      [] cause = "bad request" -> 400
      [] cause \in {"forbidden", "MAPIErrorNoAccess"} -> 403
      [] cause = "not found" -> 404
      [] cause = "not allowed" -> 405
      [] cause = "MAPIErrorStoreFull" -> 507
      [] cause = "other" -> 500

LEMMA StatusOfFacts ==
    /\ StatusOf("bad request") = 400
    /\ StatusOf("forbidden") = 403
    /\ StatusOf("not found") = 404
    /\ StatusOf("not allowed") = 405
BY DEF StatusOf

LEMMA StatusFacts ==
    ASSUME NEW cause \in Causes
    PROVE  /\ cause \in HttpErrors => StatusOf(cause) = Expected(cause)
           /\ cause \in {"MAPIErrorNoAccess", "forbidden"} => Expected(cause) = 403
           /\ cause = "MAPIErrorStoreFull" => Expected(cause) = 507
           /\ cause = "other" <=> Expected(cause) = 500
           /\ Expected(cause) \in Statuses
<1>1. CASE cause = "nothing"
    <2>1. Expected(cause) = 200
        BY <1>1 DEF Expected
    <2> QED BY <1>1, <2>1 DEF HttpErrors, Statuses
<1>2. CASE cause = "bad request"
    <2>1. Expected(cause) = 400
        BY <1>2 DEF Expected
    <2>2. StatusOf(cause) = 400
        BY <1>2, StatusOfFacts, Zenon
    <2>3. StatusOf(cause) = Expected(cause)
        BY <2>1, <2>2, Zenon
    <2>4. Expected(cause) # 500 /\ Expected(cause) \in Statuses
        BY <2>1 DEF Statuses
    <2>5. cause \notin {"other", "MAPIErrorNoAccess", "MAPIErrorStoreFull", "forbidden"}
        BY <1>2
    <2> QED BY <2>3, <2>4, <2>5
<1>3. CASE cause = "forbidden"
    <2>1. Expected(cause) = 403
        BY <1>3 DEF Expected
    <2>2. StatusOf(cause) = 403
        BY <1>3, StatusOfFacts, Zenon
    <2>3. StatusOf(cause) = Expected(cause)
        BY <2>1, <2>2, Zenon
    <2>4. Expected(cause) # 500 /\ Expected(cause) \in Statuses
        BY <2>1 DEF Statuses
    <2>5. cause \notin {"other", "MAPIErrorNoAccess", "MAPIErrorStoreFull"}
        BY <1>3
    <2> QED BY <2>1, <2>3, <2>4, <2>5
<1>4. CASE cause = "MAPIErrorNoAccess"
    <2>1. Expected(cause) = 403
        BY <1>4 DEF Expected
    <2> QED BY <1>4, <2>1 DEF HttpErrors, Statuses
<1>5. CASE cause = "not found"
    <2>1. Expected(cause) = 404
        BY <1>5 DEF Expected
    <2>2. StatusOf(cause) = 404
        BY <1>5, StatusOfFacts, Zenon
    <2>3. StatusOf(cause) = Expected(cause)
        BY <2>1, <2>2, Zenon
    <2>4. Expected(cause) # 500 /\ Expected(cause) \in Statuses
        BY <2>1 DEF Statuses
    <2>5. cause \notin {"other", "MAPIErrorNoAccess", "MAPIErrorStoreFull", "forbidden"}
        BY <1>5
    <2> QED BY <2>3, <2>4, <2>5
<1>6. CASE cause = "not allowed"
    <2>1. Expected(cause) = 405
        BY <1>6 DEF Expected
    <2>2. StatusOf(cause) = 405
        BY <1>6, StatusOfFacts, Zenon
    <2>3. StatusOf(cause) = Expected(cause)
        BY <2>1, <2>2, Zenon
    <2>4. Expected(cause) # 500 /\ Expected(cause) \in Statuses
        BY <2>1 DEF Statuses
    <2>5. cause \notin {"other", "MAPIErrorNoAccess", "MAPIErrorStoreFull", "forbidden"}
        BY <1>6
    <2> QED BY <2>3, <2>4, <2>5
<1>7. CASE cause = "MAPIErrorStoreFull"
    <2>1. Expected(cause) = 507
        BY <1>7 DEF Expected
    <2> QED BY <1>7, <2>1 DEF HttpErrors, Statuses
<1>8. CASE cause = "other"
    <2>1. Expected(cause) = 500
        BY <1>8 DEF Expected
    <2> QED BY <1>8, <2>1 DEF HttpErrors, Statuses
<1> QED BY <1>1, <1>2, <1>3, <1>4, <1>5, <1>6, <1>7, <1>8 DEF Causes

LEMMA ExpectedNothing == Expected("nothing") = 200
BY DEF Expected

LEMMA HandlerFacts ==
    ASSUME NEW cause \in Causes
    PROVE  HandlerOf(cause) = IF cause \in {"MAPIErrorNoAccess", "MAPIErrorStoreFull"}
                              THEN cause ELSE "Exception"
<1> DEFINE fit == {i \in DOMAIN ErrorHandlers : ErrorHandlers[i] \in Classes(cause)}
           last == CHOOSE i \in fit : \A j \in fit : j <= i
<1>1. /\ DOMAIN ErrorHandlers = 1 .. 4
      /\ ErrorHandlers[1] = "HTTPError" /\ ErrorHandlers[2] = "Exception"
      /\ ErrorHandlers[3] = "MAPIErrorNoAccess" /\ ErrorHandlers[4] = "MAPIErrorStoreFull"
    BY DEF ErrorHandlers
<1>2. fit = {i \in 1 .. 4 : ErrorHandlers[i] \in Classes(cause)}
    BY <1>1
<1>3. HandlerOf(cause) = ErrorHandlers[last]
    BY DEF HandlerOf
<1>4. ASSUME NEW n \in fit, \A j \in fit : j <= n
      PROVE  last = n
    <2>1. last \in fit /\ \A j \in fit : j <= last
        BY <1>4
    <2>2. last <= n /\ n <= last /\ last \in 1 .. 4 /\ n \in 1 .. 4
        BY <1>2, <1>4, <2>1
    <2> HIDE DEF last
    <2> QED BY <2>2
<1> HIDE DEF fit, last
<1>5. CASE cause = "MAPIErrorNoAccess"
    <2>1. fit = {2, 3}
        BY <1>1, <1>2, <1>5 DEF Classes, HttpErrors
    <2> QED BY <1>1, <1>3, <1>4, <1>5, <2>1
<1>6. CASE cause = "MAPIErrorStoreFull"
    <2>1. fit = {2, 4}
        BY <1>1, <1>2, <1>6 DEF Classes, HttpErrors
    <2> QED BY <1>1, <1>3, <1>4, <1>6, <2>1
<1>7. CASE cause \in HttpErrors
    <2>1. Classes(cause) = {"Exception", "HTTPError"}
        BY <1>7 DEF Classes
    <2>3. fit = {1, 2}
        BY <1>1, <1>2, <2>1
    <2>2. cause \notin {"MAPIErrorNoAccess", "MAPIErrorStoreFull"}
        BY <1>7 DEF HttpErrors
    <2> QED BY <1>1, <1>3, <1>4, <2>2, <2>3
<1>8. CASE cause \in {"nothing", "other"}
    <2>1. Classes(cause) = {"Exception", cause} /\ cause \notin {"HTTPError", "Exception",
             "MAPIErrorNoAccess", "MAPIErrorStoreFull"}
        BY <1>8 DEF Classes, HttpErrors
    <2>2. fit = {2}
        BY <1>1, <1>2, <2>1
    <2> QED BY <1>1, <1>3, <1>4, <1>8, <2>2
<1> QED BY <1>5, <1>6, <1>7, <1>8 DEF Causes, HttpErrors

LEMMA HandledFacts ==
    ASSUME NEW r \in HttpRequests, r.counted \in 0 .. 1, NEW cause \in Causes \ {"nothing"},
           NEW h, h = Handled(r, cause)
    PROVE  /\ h \in HttpRequests
           /\ h.pc = r.pc /\ h.label = r.label /\ h.caller = r.caller /\ h.cause = r.cause
           /\ h.timed = r.timed /\ h.profiled = r.profiled
           /\ h.status = Expected(cause)
           /\ h.counted = r.counted + IF Expected(cause) = 500 THEN 1 ELSE 0
<1> DEFINE status == IF cause \in HttpErrors THEN StatusOf(cause)
                     ELSE CASE HandlerOf(cause) = "MAPIErrorNoAccess" -> 403
                            [] HandlerOf(cause) = "MAPIErrorStoreFull" -> 507
                            [] OTHER -> 500
           one == IF cause = "other" THEN 1 ELSE 0
<1>1. status = Expected(cause)
    <2>1. CASE cause \in HttpErrors
        BY <2>1, StatusFacts
    <2>2. CASE cause \in {"MAPIErrorNoAccess", "MAPIErrorStoreFull"}
        <3>1. HandlerOf(cause) = cause /\ cause \notin HttpErrors
            BY <2>2, HandlerFacts DEF HttpErrors
        <3>2. Expected(cause) = IF cause = "MAPIErrorNoAccess" THEN 403 ELSE 507
            BY <2>2, StatusFacts
        <3> QED BY <2>2, <3>1, <3>2
    <2>3. CASE cause = "other"
        <3>1. HandlerOf(cause) = "Exception" /\ cause \notin HttpErrors
            BY <2>3, HandlerFacts DEF HttpErrors
        <3>2. Expected(cause) = 500
            BY <2>3, StatusFacts
        <3> QED BY <3>1, <3>2
    <2> QED BY <2>1, <2>2, <2>3 DEF Causes, HttpErrors
<1>2. Counted(cause) = one
    BY HandlerFacts DEF Counted, Causes, HttpErrors
<1>3. h = [r EXCEPT !.status = status, !.counted = r.counted + Counted(cause)]
    BY DEF Handled, HttpRequests
<1>4. /\ Expected(cause) \in Statuses
      /\ one = IF Expected(cause) = 500 THEN 1 ELSE 0
    BY StatusFacts, Zenon
<1>5. r.counted + one \in 0 .. 2
    OBVIOUS
<1> HIDE DEF status, one
<1>6. h = [r EXCEPT !.status = Expected(cause), !.counted = r.counted + one]
    BY <1>1, <1>2, <1>3
<1>7. /\ h \in HttpRequests
      /\ h.pc = r.pc /\ h.label = r.label /\ h.caller = r.caller /\ h.cause = r.cause
      /\ h.timed = r.timed /\ h.profiled = r.profiled
      /\ h.status = Expected(cause)
      /\ h.counted = r.counted + one
    <2>1. h.label = r.label /\ h.profiled = r.profiled
        BY <1>6 DEF HttpRequests
    <2>2. h.pc = r.pc /\ h.caller = r.caller /\ h.cause = r.cause /\ h.timed = r.timed
        BY <1>6 DEF HttpRequests
    <2>3. h.status = Expected(cause) /\ h.counted = r.counted + one
        BY <1>6 DEF HttpRequests
    <2>4. h \in HttpRequests
        <3> DEFINE n == r.counted + one
                   e == Expected(cause)
        <3>1. e \in Statuses /\ n \in 0 .. 2
            BY <1>4, <1>5
        <3>2. h = [r EXCEPT !.status = e, !.counted = n]
            BY <1>6
        <3> HIDE DEF n, e
        <3> QED BY <3>1, <3>2 DEF HttpRequests
    <2> QED BY <2>1, <2>2, <2>3, <2>4
<1> QED BY <1>4, <1>7

-----------------------------------------------------------------------------
(* The request: the invariant                                              *)

\* The search for a session belongs to the request, and a handler has what it
\* found.
SearchInv ==
    /\ http.pc = "patch" => http.caller = None
    /\ req.pc # "idle" => http.pc \in {"session", "handle"}
    /\ http.pc = "session" => req.pc # "idle" /\ req.caller = http.caller
    /\ http.pc = "handle" =>
          \/ http.caller = None /\ req.pc = "idle"
          \/ req.pc = "done" /\ req.outcome = "store" /\ req.caller = http.caller

One(condition) == IF condition THEN 1 ELSE 0

\* What is known of the answer before, in and after process_response.
AnswerInv ==
    /\ http.pc \in {"patch", "session", "handle"} =>
          /\ http.label /\ ~http.profiled /\ http.timed = 0 /\ http.counted = 0
          /\ http.status = 200 /\ http.cause = "nothing"
    /\ http.pc = "response" =>
          /\ ~http.profiled /\ http.timed = 0
          /\ http.status = Expected(http.cause)
          /\ http.counted = One(http.status = 500)
          /\ ~http.label => http.status # 500
    /\ http.pc = "answered" =>
          /\ ~http.profiled => http.status = Expected(http.cause)
          /\ http.counted = One(http.status = 500)
          /\ http.timed = One(http.label)

RestInv ==
    /\ SessionInv
    /\ http \in HttpRequests
    /\ SearchInv
    /\ AnswerInv

LEMMA NewRequestType ==
    /\ NewRequest \in HttpRequests
    /\ NewRequest.pc = "patch" /\ NewRequest.label = FALSE /\ NewRequest.profiled = FALSE
    /\ NewRequest.status = 200 /\ NewRequest.cause = "nothing"
    /\ NewRequest.timed = 0 /\ NewRequest.counted = 0 /\ NewRequest.caller = None
<1>1. TRUE \in BOOLEAN /\ FALSE \in BOOLEAN
    BY Zenon
<1> QED BY <1>1 DEF NewRequest, HttpRequests, Causes, Stages, Statuses

LEMMA RestInitInv == RestInit => RestInv
<1> SUFFICES ASSUME RestInit PROVE RestInv
    OBVIOUS
<1>1. SessionInv /\ req.pc = "idle"
    BY SessionInit DEF RestInit, Init, Idle
<1>2. /\ http = [NewRequest EXCEPT !.pc = "answered"]
      /\ http \in HttpRequests /\ http.pc = "answered"
      /\ http.status = 200 /\ http.cause = "nothing" /\ http.label = FALSE
      /\ http.timed = 0 /\ http.counted = 0
    BY NewRequestType DEF RestInit, HttpRequests, Stages
<1>3. Expected("nothing") = 200
    BY ExpectedNothing
<1>4. SearchInv
    BY <1>1, <1>2 DEF SearchInv
<1>5. AnswerInv
    BY <1>2, <1>3 DEF AnswerInv, One
<1> QED BY <1>1, <1>2, <1>4, <1>5 DEF RestInv

\* All that comes to its outcome before process_response.
LEMMA OutcomeType ==
    ASSUME http \in HttpRequests, AnswerInv, http.pc \in {"patch", "session", "handle"},
           NEW cause \in Causes, Outcome(cause)
    PROVE  http' \in HttpRequests /\ http'.pc = "response" /\ AnswerInv'
<1> DEFINE r == IF cause = "nothing" THEN http ELSE Handled(http, cause)
           one == IF Expected(cause) = 500 THEN 1 ELSE 0
<1>1. /\ http.label /\ ~http.profiled /\ http.timed = 0 /\ http.counted = 0
      /\ http.status = 200 /\ http.cause = "nothing"
    BY DEF AnswerInv
<1>2. /\ r \in HttpRequests
      /\ r.status = Expected(cause) /\ r.counted = one
      /\ r.label = http.label /\ r.profiled = http.profiled /\ r.timed = http.timed
    <2>1. CASE cause = "nothing"
        <3>1. Expected(cause) = 200
            BY <2>1, ExpectedNothing, Zenon
        <3>2. one = 0
            BY <3>1
        <3>3. r = http
            BY <2>1
        <3> QED BY <1>1, <3>1, <3>2, <3>3
    <2>2. CASE cause # "nothing"
        <3>1. http.counted \in 0 .. 1 /\ r = Handled(http, cause)
            BY <1>1, <2>2
        <3> HIDE DEF r
        <3>2. /\ r \in HttpRequests
              /\ r.label = http.label /\ r.profiled = http.profiled /\ r.timed = http.timed
              /\ r.status = Expected(cause) /\ r.counted = http.counted + one
            BY <2>2, <3>1, HandledFacts
        <3> QED BY <1>1, <3>2
    <2> QED BY <2>1, <2>2
<1>3. http' = [r EXCEPT !.pc = "response", !.cause = cause, !.caller = None]
    BY DEF Outcome
<1> HIDE DEF r, one
<1>4. /\ http' \in HttpRequests /\ http'.pc = "response" /\ http'.cause = cause
      /\ http'.label = http.label /\ http'.profiled = http.profiled /\ http'.timed = http.timed
      /\ http'.status = Expected(cause) /\ http'.counted = one
    <2>1. http'.label = r.label /\ http'.profiled = r.profiled
        BY <1>2, <1>3 DEF HttpRequests
    <2>2. http'.pc = "response" /\ http'.cause = cause /\ http'.timed = r.timed
          /\ http'.status = r.status /\ http'.counted = r.counted
        BY <1>2, <1>3 DEF HttpRequests
    <2>3. http' \in HttpRequests
        <3>1. "response" \in Stages
            BY DEF Stages
        <3> QED BY <1>2, <1>3, <3>1 DEF HttpRequests
    <2> QED BY <1>2, <2>1, <2>2, <2>3
<1>5. one = One(Expected(cause) = 500)
    BY DEF One, one
<1>6. http'.label /\ ~http'.profiled
    BY <1>1, <1>4
<1> QED BY <1>1, <1>4, <1>5, <1>6 DEF AnswerInv

-----------------------------------------------------------------------------
(* The request: its steps                                                  *)

\* Every step of the request is one of the session cache or leaves that alone.
LEMMA RestStepsCache ==
    ASSUME RestInv, [RestNext]_restVars
    PROVE  SessionInv'
<1>1. [Next]_vars
    BY DEF RestNext, Work, ArriveUnrouted, Arrive, PatchRefuses, PatchWithoutStore,
           PatchWithStore, Search, Patched, Through, RefuseBody, RefuseMethod, Handle,
           ProcessResponse, Next, restVars, vars
<1> QED BY <1>1, SessionNext DEF RestInv

LEMMA ArriveUnroutedStep ==
    ASSUME RestInv, NEW cause \in Causes, ArriveUnrouted(cause)
    PROVE  http' \in HttpRequests /\ SearchInv' /\ AnswerInv'
<1> DEFINE h == Handled(NewRequest, cause)
<1>1. /\ http.pc = "answered" /\ cause \in {"bad request", "not found"}
      /\ http' = [h EXCEPT !.pc = "response", !.cause = cause]
      /\ UNCHANGED req
    BY DEF ArriveUnrouted, vars
<1>2. NewRequest.counted \in 0 .. 1 /\ cause # "nothing"
    <2>1. NewRequest.counted = 0
        BY NewRequestType
    <2>2. NewRequest.counted \in 0 .. 1
        BY <2>1
    <2>3. cause # "nothing"
        BY <1>1
    <2> QED BY <2>2, <2>3
<1>3. /\ h \in HttpRequests /\ h.label = FALSE /\ h.profiled = FALSE /\ h.timed = 0
      /\ h.caller = None
      /\ h.status = Expected(cause)
      /\ h.counted = NewRequest.counted + IF Expected(cause) = 500 THEN 1 ELSE 0
    BY <1>2, NewRequestType, HandledFacts
<1>4. Expected(cause) # 500
    <2>1. cause # "other"
        BY <1>1
    <2> QED BY <2>1, StatusFacts
<1>5. h.counted = 0
    BY <1>3, <1>4, NewRequestType
<1> HIDE DEF h
<1>6. "response" \in Stages
    BY DEF Stages
<1>7. http' \in HttpRequests
    BY <1>1, <1>3, <1>6 DEF HttpRequests
<1>8. /\ http'.label = h.label /\ http'.profiled = h.profiled
      /\ http'.pc = "response" /\ http'.cause = cause
    BY <1>1, <1>3 DEF HttpRequests
<1>9. /\ http'.timed = 0 /\ http'.counted = 0 /\ http'.status = Expected(cause)
    BY <1>1, <1>3, <1>5 DEF HttpRequests
<1>10. SearchInv'
    <2>1. req.pc = "idle"
        BY <1>1 DEF RestInv, SearchInv
    <2> QED BY <1>1, <1>8, <2>1 DEF SearchInv
<1>11. ~http'.profiled
    BY <1>3, <1>8
<1>12. AnswerInv'
    BY <1>4, <1>8, <1>9, <1>11 DEF AnswerInv, One
<1> QED BY <1>7, <1>10, <1>12

LEMMA ArriveStep ==
    ASSUME RestInv, NEW resource \in Routes, Arrive(resource)
    PROVE  http' \in HttpRequests /\ SearchInv' /\ AnswerInv'
<1> DEFINE pc == IF resource = "BackendResource" THEN "patch" ELSE "handle"
<1>1. /\ http.pc = "answered"
      /\ http' = [NewRequest EXCEPT !.label = TRUE, !.pc = pc]
      /\ UNCHANGED req
    BY DEF Arrive, vars
<1>2. pc \in {"patch", "handle"} /\ pc \in Stages
    BY DEF Stages
<1> HIDE DEF pc
<1>3. TRUE \in BOOLEAN
    BY Zenon
<1>4. http' \in HttpRequests
    BY <1>1, <1>2, <1>3, NewRequestType DEF HttpRequests
<1>5. /\ http'.pc = pc /\ http'.caller = None /\ http'.cause = "nothing"
      /\ http'.status = 200 /\ http'.timed = 0 /\ http'.counted = 0
    BY <1>1, NewRequestType DEF HttpRequests
<1>6. http'.label = TRUE /\ http'.profiled = NewRequest.profiled
    BY <1>1, NewRequestType DEF HttpRequests
<1>7. http'.label /\ ~http'.profiled
    BY <1>6, NewRequestType
<1>8. req.pc = "idle"
    BY <1>1 DEF RestInv, SearchInv
<1>9. SearchInv'
    BY <1>1, <1>2, <1>5, <1>8 DEF SearchInv
<1>10. AnswerInv'
    BY <1>2, <1>5, <1>7 DEF AnswerInv
<1> QED BY <1>4, <1>9, <1>10

\* The steps that only lead on to a later stage before the outcome.
LEMMA StageStep ==
    ASSUME RestInv, http.pc \in {"patch", "session"},
           NEW pc \in {"session", "handle"}, NEW c \in Callers \cup {None},
           http' = [http EXCEPT !.pc = pc, !.caller = c]
    PROVE  http' \in HttpRequests /\ http'.pc = pc /\ http'.caller = c /\ AnswerInv'
<1>1. pc \in Stages /\ http \in HttpRequests
    BY DEF Stages, RestInv
<1>2. http' \in HttpRequests
    BY <1>1 DEF HttpRequests
<1>3. /\ http'.pc = pc /\ http'.caller = c /\ http'.cause = http.cause
      /\ http'.status = http.status /\ http'.timed = http.timed /\ http'.counted = http.counted
    BY <1>1 DEF HttpRequests
<1>4. http'.label = http.label /\ http'.profiled = http.profiled
    BY <1>1 DEF HttpRequests
<1>5. http.label /\ ~http.profiled /\ http.timed = 0 /\ http.counted = 0
      /\ http.status = 200 /\ http.cause = "nothing"
    BY DEF RestInv, AnswerInv
<1>6. http'.label /\ ~http'.profiled
    BY <1>4, <1>5
<1> QED BY <1>2, <1>3, <1>5, <1>6 DEF AnswerInv

LEMMA PatchStep ==
    ASSUME RestInv,
           \/ \E cause \in Causes : PatchRefuses(cause)
           \/ PatchWithoutStore
           \/ \E c \in Callers : PatchWithStore(c)
    PROVE  http' \in HttpRequests /\ SearchInv' /\ AnswerInv'
<1>1. http \in HttpRequests /\ http.pc = "patch" /\ http.caller = None /\ req.pc = "idle"
    BY DEF RestInv, SearchInv, PatchRefuses, PatchWithoutStore, PatchWithStore
<1>2. ASSUME NEW cause \in Causes, PatchRefuses(cause)
      PROVE  http' \in HttpRequests /\ SearchInv' /\ AnswerInv'
    <2>1. Outcome(cause) /\ UNCHANGED req
        BY <1>2 DEF PatchRefuses, vars
    <2>2. http' \in HttpRequests /\ http'.pc = "response" /\ AnswerInv'
        BY <1>1, <2>1, OutcomeType DEF RestInv
    <2> QED BY <1>1, <2>1, <2>2 DEF SearchInv
<1>3. ASSUME PatchWithoutStore
      PROVE  http' \in HttpRequests /\ SearchInv' /\ AnswerInv'
    <2>1. http' = [http EXCEPT !.pc = "handle"] /\ UNCHANGED req
        BY <1>3 DEF PatchWithoutStore, vars
    <2>2. http' = [http EXCEPT !.pc = "handle", !.caller = None]
        BY <1>1, <2>1 DEF HttpRequests
    <2>3. http' \in HttpRequests /\ http'.pc = "handle" /\ http'.caller = None /\ AnswerInv'
        BY <1>1, <2>2, StageStep
    <2> QED BY <1>1, <2>1, <2>3 DEF SearchInv
<1>4. ASSUME NEW c \in Callers, PatchWithStore(c)
      PROVE  http' \in HttpRequests /\ SearchInv' /\ AnswerInv'
    <2>1. /\ http' = [http EXCEPT !.pc = "session", !.caller = c]
          /\ req'.pc = "get" /\ req'.caller = c
        BY <1>4 DEF PatchWithStore, Receive
    <2>2. http' \in HttpRequests /\ http'.pc = "session" /\ http'.caller = c /\ AnswerInv'
        BY <1>1, <2>1, StageStep
    <2> QED BY <2>1, <2>2 DEF SearchInv
<1> QED BY <1>2, <1>3, <1>4

LEMMA RequestKeepsCaller ==
    ASSUME SessionInv, Request
    PROVE  req'.pc # "idle" /\ req'.caller = req.caller
<1>1. req \in Searches
    BY RequestFacts
       DEF SessionInv, Request, Get, Probe, Replace, Connect, Store, Count, Resolve, At
<1>2. ASSUME NEW outcome \in Outcomes, Finish(outcome)
      PROVE  req'.pc # "idle" /\ req'.caller = req.caller
    BY <1>1, <1>2, FinishType
<1>3. ASSUME Get \/ Probe \/ Store \/ Count
      PROVE  req'.pc # "idle" /\ req'.caller = req.caller
    BY <1>1, <1>3 DEF Get, Probe, Store, Count, Searches
<1>4. ASSUME Replace \/ Connect \/ Resolve
      PROVE  req'.pc # "idle" /\ req'.caller = req.caller
    BY <1>1, <1>2, <1>4 DEF Replace, Connect, Resolve, Searches, Outcomes
<1> QED BY <1>3, <1>4 DEF Request

LEMMA SearchStep ==
    ASSUME RestInv, Search
    PROVE  http' \in HttpRequests /\ SearchInv' /\ AnswerInv'
<1>1. http.pc = "session" /\ Request /\ UNCHANGED http
    BY DEF Search
<1>2. req'.pc # "idle" /\ req'.caller = req.caller
    BY <1>1, RequestKeepsCaller DEF RestInv
<1> QED BY <1>1, <1>2 DEF RestInv, SearchInv, AnswerInv

LEMMA PatchedStep ==
    ASSUME RestInv, Patched
    PROVE  http' \in HttpRequests /\ SearchInv' /\ AnswerInv'
<1>1. /\ http \in HttpRequests /\ http.pc = "session" /\ req.pc = "done"
      /\ req.caller = http.caller /\ req \in Results
    BY RequestFacts DEF RestInv, SessionInv, SearchInv, Patched, At
<1>2. CASE req.outcome = "store"
    <2>1. http' = [http EXCEPT !.pc = "handle"] /\ UNCHANGED req
        BY <1>2 DEF Patched, vars
    <2>2. http' = [http EXCEPT !.pc = "handle", !.caller = http.caller]
          /\ http.caller \in Callers \cup {None}
        BY <1>1, <2>1 DEF HttpRequests
    <2>3. http' \in HttpRequests /\ http'.pc = "handle" /\ http'.caller = http.caller
          /\ AnswerInv'
        BY <1>1, <2>2, StageStep
    <2> QED BY <1>1, <1>2, <2>1, <2>3 DEF SearchInv
<1>3. CASE req.outcome # "store"
    <2>1. Outcome(req.outcome) /\ Leave
        BY <1>3 DEF Patched
    <2>2. req.outcome \in Causes
        BY <1>1, <1>3 DEF Results, Outcomes, Causes
    <2>3. http' \in HttpRequests /\ http'.pc = "response" /\ AnswerInv'
        BY <1>1, <2>1, <2>2, OutcomeType DEF RestInv
    <2>4. req'.pc = "idle"
        BY <2>1 DEF Leave, Idle
    <2> QED BY <2>3, <2>4 DEF SearchInv
<1> QED BY <1>2, <1>3

LEMMA ThroughStep ==
    ASSUME RestInv, NEW cause \in Causes, Through(cause)
    PROVE  http' \in HttpRequests /\ SearchInv' /\ AnswerInv'
<1>1. /\ http \in HttpRequests /\ http.pc = "handle" /\ req.pc \in {"idle", "done"}
      /\ Outcome(cause)
    BY DEF RestInv, SearchInv, Through
<1>2. http' \in HttpRequests /\ http'.pc = "response" /\ AnswerInv'
    BY <1>1, OutcomeType DEF RestInv
<1>3. req'.pc = "idle"
    BY <1>1 DEF Through, At, Leave, Idle, vars
<1> QED BY <1>2, <1>3 DEF SearchInv

\* Only a request without a label makes the profiler fail, and none of those has
\* been answered 500 before.
LEMMA ProcessResponseStep ==
    ASSUME RestInv, NEW cprofile \in Profiling, ProcessResponse(cprofile)
    PROVE  http' \in HttpRequests /\ SearchInv' /\ AnswerInv'
<1> DEFINE r == Profiled(http, cprofile)
<1>1. /\ http \in HttpRequests /\ http.pc = "response"
      /\ http' = [Timed(r) EXCEPT !.pc = "answered"]
      /\ UNCHANGED req
    BY DEF ProcessResponse, RestInv, vars
<1>2. /\ ~http.profiled /\ http.timed = 0
      /\ http.status = Expected(http.cause)
      /\ http.counted = One(http.status = 500)
      /\ ~http.label => http.status # 500
    BY <1>1 DEF RestInv, AnswerInv
<1>3. /\ r \in HttpRequests
      /\ r.label = http.label /\ r.timed = 0
      /\ ~r.profiled => r.status = Expected(r.cause)
      /\ r.counted = One(r.status = 500)
    <2>1. CASE cprofile /\ ~http.label
        <3> DEFINE q == [http EXCEPT !.profiled = TRUE]
        <3>1. r = Handled(q, "other")
            BY <2>1 DEF Profiled
        <3>2. TRUE \in BOOLEAN
            BY Zenon
        <3>3. q \in HttpRequests /\ q.timed = http.timed /\ q.counted = http.counted
            BY <1>1, <3>2 DEF HttpRequests
        <3>4. q.label = http.label /\ q.profiled = TRUE
            BY <1>1 DEF HttpRequests
        <3>5. q.counted = 0
            BY <1>2, <2>1, <3>3 DEF One
        <3> HIDE DEF q, r
        <3>6. "other" \in Causes \ {"nothing"} /\ q.counted \in 0 .. 1
            BY <3>5 DEF Causes
        <3>7. /\ r \in HttpRequests /\ r.label = q.label /\ r.profiled = q.profiled
              /\ r.timed = q.timed
              /\ r.status = Expected("other")
              /\ r.counted = q.counted + IF Expected("other") = 500 THEN 1 ELSE 0
            BY <3>1, <3>3, <3>6, HandledFacts
        <3>8. Expected("other") = 500
            BY DEF Expected
        <3>9. r.status = 500 /\ r.counted = 1
            BY <3>5, <3>7, <3>8
        <3>10. r.profiled
            BY <3>4, <3>7
        <3> QED BY <1>2, <3>3, <3>4, <3>7, <3>9, <3>10 DEF One
    <2>2. CASE ~(cprofile /\ ~http.label)
        <3>1. r = http
            BY <2>2 DEF Profiled
        <3> QED BY <1>1, <1>2, <3>1
    <2> QED BY <2>1, <2>2
<1> HIDE DEF r
<1> DEFINE n == One(r.label)
<1>4. n \in 0 .. 2 /\ "answered" \in Stages
    BY DEF One, Stages
<1>5. http' = [r EXCEPT !.timed = n, !.pc = "answered"]
    BY <1>1, <1>3 DEF Timed, One, HttpRequests
<1> HIDE DEF n
<1>6. http' \in HttpRequests
    <2>1. r \in HttpRequests
        BY <1>3
    <2> QED BY <1>4, <1>5, <2>1 DEF HttpRequests
<1>7. /\ http'.pc = "answered" /\ http'.cause = r.cause /\ http'.status = r.status
      /\ http'.counted = r.counted /\ http'.timed = n
    BY <1>3, <1>5 DEF HttpRequests
<1>8. http'.label = r.label /\ http'.profiled = r.profiled
    BY <1>3, <1>5 DEF HttpRequests
<1>9. http'.timed = One(http'.label)
    BY <1>7, <1>8 DEF n
<1>10. AnswerInv'
    <2>1. ~http'.profiled => http'.status = Expected(http'.cause)
        BY <1>3, <1>7, <1>8
    <2>2. http'.counted = One(http'.status = 500)
        BY <1>3, <1>7
    <2> QED BY <1>7, <1>9, <2>1, <2>2 DEF AnswerInv
<1>11. SearchInv'
    <2>1. req.pc = "idle"
        BY <1>1 DEF RestInv, SearchInv
    <2> QED BY <1>1, <1>7, <2>1 DEF SearchInv
<1> QED BY <1>6, <1>10, <1>11

LEMMA RestNextInv == RestInv /\ [RestNext]_restVars => RestInv'
<1> SUFFICES ASSUME RestInv, [RestNext]_restVars PROVE RestInv'
    OBVIOUS
<1>1. ASSUME UNCHANGED <<http, req>>
      PROVE  http' \in HttpRequests /\ SearchInv' /\ AnswerInv'
    BY <1>1 DEF RestInv, SearchInv, AnswerInv
<1>2. ASSUME UNCHANGED restVars
      PROVE  UNCHANGED <<http, req>>
    BY <1>2 DEF restVars, vars
<1>3. ASSUME (Purger /\ UNCHANGED http) \/ (\E s \in Sessions : Age(s) /\ UNCHANGED http)
      PROVE  UNCHANGED <<http, req>>
    BY <1>3 DEF Purger, PurgerAcquire, PurgerCheck, PurgerDelete, PurgerRelease, Age
<1>4. "bad request" \in Causes /\ "not allowed" \in Causes
    BY DEF Causes
<1>5. ASSUME RefuseBody \/ RefuseMethod \/ \E cause \in Causes : Handle(cause)
      PROVE  \E cause \in Causes : Through(cause)
    BY <1>4, <1>5 DEF RefuseBody, RefuseMethod, Handle
<1>6. ASSUME RestNext
      PROVE  http' \in HttpRequests /\ SearchInv' /\ AnswerInv'
    BY <1>1, <1>3, <1>5, <1>6, ArriveUnroutedStep, ArriveStep, PatchStep, SearchStep,
       PatchedStep, ThroughStep, ProcessResponseStep DEF RestNext, Work
<1>7. SessionInv'
    BY RestStepsCache
<1> QED BY <1>1, <1>2, <1>6, <1>7 DEF RestInv

THEOREM InvariantHolds == RestSpec => []RestInv
<1> QED BY RestInitInv, RestNextInv, PTL DEF RestSpec

-----------------------------------------------------------------------------
(* The properties of the run                                               *)

\* Every variable keeps its type, and a search for a session belongs to a request
\* that waits for it: DANGLE_INDEX never passes the sessions made, each of which
\* is put aside at most once.
THEOREM TypeCorrect == RestSpec => []RestTypeOK
<1>1. RestInv => RestTypeOK
    BY RequestFacts DEF RestInv, SessionInv, SearchInv, RestTypeOK
<1> QED BY <1>1, InvariantHolds, PTL

\* ResourcePatcher gives a handler a session that was made for its own caller.
THEOREM OwnSessions == RestSpec => []HandlersWorkForTheirCaller
<1>1. RestInv => HandlersWorkForTheirCaller
    BY DEF RestInv, SessionInv, SearchInv, OwnerInv, HasSession, HandlersWorkForTheirCaller
<1> QED BY <1>1, InvariantHolds, PTL

\* What goes wrong reaches the client with its own status, through error_handler
\* and the handlers of the backend.
THEOREM StatusKept == RestSpec => []ErrorsKeepTheirStatus
<1>1. RestInv => ErrorsKeepTheirStatus
    BY DEF RestInv, AnswerInv, ErrorsKeepTheirStatus, Expected
<1> QED BY <1>1, InvariantHolds, PTL

\* The gauges are the numbers of cached sessions, and every answer is counted as
\* what it was.
THEOREM MetricsCorrect == RestSpec => []MetricsAddUp
<1>1. RestInv => MetricsAddUp
    BY DEF RestInv, SessionInv, GaugeInv, AnswerInv, One, MetricsAddUp
<1> QED BY <1>1, InvariantHolds, PTL

=============================================================================
