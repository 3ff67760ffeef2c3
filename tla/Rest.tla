-------------------------------- MODULE Rest --------------------------------
(***************************************************************************)
(* One request of a rest worker, from its arrival to its answer            *)
(* (grapi/mfr/__init__.py, grapi/api/v1): the middleware, ResourcePatcher  *)
(* with the search for a session and store of module SessionCache, the     *)
(* responder and what becomes of its exceptions. The worker is at one      *)
(* request at a time, next to the SessionPurger thread; a batch brings its *)
(* requests through the same way.                                          *)
(*                                                                         *)
(* Falcon calls process_request of every middleware, routes the request,   *)
(* calls process_resource of every middleware if there is a route, then    *)
(* the responder, and in any case process_response in reverse order; what  *)
(* any of them raises goes to the error handler that was added last of     *)
(* those for its class. The worker runs with_metrics.                      *)
(***************************************************************************)
EXTENDS SessionCache, Sequences

CONSTANT
    Profiling       \* the values of WITH_CPROFILE, one of which a worker has

ASSUME RestAssumption == Profiling \subseteq BOOLEAN

VARIABLE
    http            \* the request

restVars == <<vars, http>>

\* What a request comes to: nothing wrong, an HTTPError, an exception that a
\* backend has a handler for, or any other exception.
Causes == {"nothing", "bad request", "forbidden", "not found", "not allowed",
           "MAPIErrorNoAccess", "MAPIErrorStoreFull", "other"}

\* Some of falcon's HTTPErrors, which differ in their status.
HttpErrors == {"bad request", "forbidden", "not found", "not allowed"}

\* timed and counted are what this request adds to REQUEST_TIME and
\* EXCEPTION_COUNT.
NewRequest == [pc |-> "patch", label |-> FALSE, caller |-> None, cause |-> "nothing", status |-> 200,
               timed |-> 0, counted |-> 0, profiled |-> FALSE]

Stages == {"patch", "session", "handle", "response", "answered"}
Statuses == {200, 400, 403, 404, 405, 500, 507}
HttpRequests == [pc : Stages, label : BOOLEAN, caller : Callers \cup {None},
                 cause : Causes, status : Statuses,
                 timed : 0 .. 2, counted : 0 .. 2, profiled : BOOLEAN]

RestInit == Init /\ http = [NewRequest EXCEPT !.pc = "answered"]

-----------------------------------------------------------------------------
(* Exceptions.                                                             *)

ErrorHandlersSlip == <<"HTTPError", "MAPIErrorNoAccess", "MAPIErrorStoreFull", "Exception">>

\* In the order they were added: falcon's own, that of the worker, those of the
\* backend.
ErrorHandlers == <<"HTTPError", "Exception", "MAPIErrorNoAccess", "MAPIErrorStoreFull">>

Classes(cause) == {"Exception"} \cup IF cause \in HttpErrors THEN {"HTTPError"} ELSE {cause}

\* The handler that was added last of those for a class of the exception.
HandlerOf(cause) ==
    LET fit == {i \in DOMAIN ErrorHandlers : ErrorHandlers[i] \in Classes(cause)}
    IN ErrorHandlers[CHOOSE i \in fit : \A j \in fit : j <= i]

StatusOf(error) ==
    CASE error = "bad request" -> 400
      [] error = "forbidden" -> 403
      [] error = "not found" -> 404
      [] error = "not allowed" -> 405

CountedSlip(cause) == IF HandlerOf(cause) = "Exception" THEN 1 ELSE 0

\* EXCEPTION_COUNT.inc() of error_handler, which is also given HTTPErrors.
Counted(cause) == IF HandlerOf(cause) = "Exception" /\ cause \notin HttpErrors THEN 1 ELSE 0

\* error_handler raises an HTTPError again, and a 500 otherwise; the handlers of
\* the backend raise a 403 and a 507.
Handled(r, cause) ==
    [r EXCEPT !.status = IF cause \in HttpErrors THEN StatusOf(cause)
                         ELSE CASE HandlerOf(cause) = "MAPIErrorNoAccess" -> 403
                                [] HandlerOf(cause) = "MAPIErrorStoreFull" -> 507
                                [] OTHER -> 500,
              !.counted = @ + Counted(cause)]

\* All before process_response is done, with this outcome.
Outcome(cause) ==
    LET r == IF cause = "nothing" THEN http ELSE Handled(http, cause)
    IN http' = [r EXCEPT !.pc = "response", !.cause = cause, !.caller = None]

-----------------------------------------------------------------------------
(* Up to the responder.                                                    *)

\* process_request, where RequestBodyExtractor refuses a body that is not JSON,
\* and a path without a route: process_resource is not called, and what ends
\* the request ends it before FalconLabel gave it a label.
ArriveUnrouted(cause) ==
    /\ http.pc = "answered"
    /\ cause \in {"bad request", "not found"}
    /\ http' = [Handled(NewRequest, cause) EXCEPT !.pc = "response", !.cause = cause]
    /\ UNCHANGED vars

\* What the routes lead to: the health check, batches, or one of the resources
\* of a backend.
Routes == {"HealthCheckResource", "BatchResource", "BackendResource"}

\* A route: FalconLabel.process_resource sets the label first. Only a
\* BackendResource has something to patch.
Arrive(resource) ==
    /\ http.pc = "answered"
    /\ http' = [NewRequest EXCEPT !.label = TRUE,
                                 !.pc = IF resource = "BackendResource" THEN "patch" ELSE "handle"]
    /\ UNCHANGED vars

\* A time zone that is not known, no or malformed credentials, a backend that
\* lacks the class of the resource, or a first backend without _server_store,
\* which is asked whichever backend serves the request.
PatchRefuses(cause) ==
    /\ http.pc = "patch"
    /\ cause \in {"bad request", "forbidden", "other"}
    /\ Outcome(cause)
    /\ UNCHANGED vars

\* The class does not need a store.
PatchWithoutStore ==
    /\ http.pc = "patch"
    /\ http' = [http EXCEPT !.pc = "handle"]
    /\ UNCHANGED vars

PatchWithStore(c) ==
    /\ http.pc = "patch"
    /\ Receive(c)
    /\ http' = [http EXCEPT !.pc = "session", !.caller = c]

Search == http.pc = "session" /\ Request /\ UNCHANGED http

\* server_store is set, or the exception of the search goes on.
Patched ==
    /\ http.pc = "session" /\ At("done")
    /\ IF req.outcome = "store"
       THEN http' = [http EXCEPT !.pc = "handle"] /\ UNCHANGED vars
       ELSE Outcome(req.outcome) /\ Leave

-----------------------------------------------------------------------------
(* The responder and process_response.                                     *)

\* The request is through, and with the session it has, if it has one.
Through(cause) ==
    /\ http.pc = "handle"
    /\ Outcome(cause)
    /\ IF At("done") THEN Leave ELSE UNCHANGED vars

\* RequestBodyExtractor.process_resource comes after ResourcePatcher: the
\* resource has a schema for this method, which refuses the body.
RefuseBody == Through("bad request")

\* Falcon answers for the methods that map_http_methods found no responder for.
RefuseMethod == Through("not allowed")

\* The handler, of which nothing is run when the resource has none for the
\* method or is experimental ("not found"), and whatever it raises.
Handle(cause) == cause # "not allowed" /\ Through(cause)

\* FalconRequestProfiler takes the label for granted.
Profiled(r, cprofile) ==
    IF cprofile /\ ~r.label THEN Handled([r EXCEPT !.profiled = TRUE], "other") ELSE r

\* FalconMetrics
Timed(r) == [r EXCEPT !.timed = @ + IF r.label THEN 1 ELSE 0]

\* In reverse order of the middleware, also after one of them raised.
ProcessResponse(cprofile) ==
    /\ http.pc = "response"
    /\ http' = [Timed(Profiled(http, cprofile)) EXCEPT !.pc = "answered"]
    /\ UNCHANGED vars

Work ==
    \/ \E cause \in Causes : PatchRefuses(cause) \/ Handle(cause)
    \/ RefuseBody \/ RefuseMethod
    \/ PatchWithoutStore
    \/ \E c \in Callers : PatchWithStore(c)
    \/ Search \/ Patched
    \/ \E cprofile \in Profiling : ProcessResponse(cprofile)

RestNext ==
    \/ \E cause \in Causes : ArriveUnrouted(cause)
    \/ \E resource \in Routes : Arrive(resource)
    \/ Work
    \/ Purger /\ UNCHANGED http
    \/ \E s \in Sessions : Age(s) /\ UNCHANGED http

RestSpec == RestInit /\ [][RestNext]_restVars

\* A request that has come is worked on, and gets threadLock when that is free
\* time and again, as it is while the purger sleeps.
RestFairness ==
    /\ SF_restVars(Work)
    /\ WF_restVars(Purger /\ UNCHANGED http)
    /\ \A s \in Sessions : WF_restVars(Age(s) /\ UNCHANGED http)

FairRestSpec == RestSpec /\ RestFairness

-----------------------------------------------------------------------------
(* Properties.                                                             *)

\* The types; and a search for a session belongs to a request that waits for it.
RestTypeOK ==
    /\ TypeOK
    /\ http \in HttpRequests
    /\ req # Idle => http.pc \in {"session", "handle"}

\* What goes wrong, wherever it does, reaches the client with the status that it
\* has, whatever handlers it passes: the backend's errors get past the handler
\* for every exception (run_rest: LIFO order). The one exception is a request
\* without a label in a worker with the request profiler.
ErrorsKeepTheirStatus ==
    http.pc = "answered" /\ ~http.profiled =>
        http.status = CASE http.cause = "nothing" -> 200
                        [] http.cause = "bad request" -> 400
                        [] http.cause \in {"forbidden", "MAPIErrorNoAccess"} -> 403
                        [] http.cause = "not found" -> 404
                        [] http.cause = "not allowed" -> 405
                        [] http.cause = "MAPIErrorStoreFull" -> 507
                        [] http.cause = "other" -> 500

\* The metrics add up: the gauges count the cached sessions, whatever replaces
\* or purges them; a request counts as an unhandled exception exactly when its
\* client was answered 500, once, and what has a route is timed exactly once,
\* however it ended (error_handler, FalconMetrics).
MetricsAddUp ==
    /\ GaugesAreExact
    /\ http.pc = "answered" =>
          /\ http.counted = IF http.status = 500 THEN 1 ELSE 0
          /\ http.timed = IF http.label THEN 1 ELSE 0

\* A handler that works with a store has the session of a login of its own
\* caller, whatever was replaced, purged or put aside on the way, and none works
\* after a search that found no store (ResourcePatcher).
HandlersWorkForTheirCaller ==
    http.pc = "handle" /\ http.caller # None =>
        /\ req.outcome = "store"
        /\ madeFor[req.session] = http.caller

\* Every request is answered, next to a purger that takes the same lock and to
\* reconnects that start the search again.
EveryRequestIsAnswered == http.pc # "answered" ~> http.pc = "answered"

=============================================================================
