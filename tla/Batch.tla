------------------------------- MODULE Batch --------------------------------
(***************************************************************************)
(* A $batch request (grapi/api/v1/batch.py) and the dependency graph behind*)
(* it (grapi/api/v1/graph.py): process_request reads the requests into an  *)
(* adjacency matrix, topological_sort orders them, and on_post executes    *)
(* them in that order; what depends on a failed request is answered with   *)
(* 424 Failed Dependency instead.                                          *)
(*                                                                         *)
(* A request is named by its vertex, int(id) - 1: the schema makes ids of  *)
(* 1 and more, and leaves dependsOn to any strings. What a request does is *)
(* nondeterministic, a good status or not.                                 *)
(***************************************************************************)
EXTENDS Naturals, Sequences, FiniteSets

CONSTANT MaxRequests    \* bound: requests in one batch

ASSUME MaxRequestsAssumption == MaxRequests \in Nat \ {0}

VARIABLES
    size,        \* len(data['requests']), the number of vertices
    unread,      \* how many of them process_request has not read yet
    requests,    \* vertices with an entry in the dict requests
    edges,       \* the matrix: <<v, w>> when w depends on v
    phase,       \* where on_post is, or how it ended
    indegree,    \* the table of topological_sort
    queue,       \* its queue of vertices with no unsorted dependency
    order,       \* its result
    cursor,      \* the next of order to execute
    processed,   \* vertices marked as processed
    executed,    \* those whose request was made
    failed,      \* those whose request was made and did not succeed
    answers      \* how many responses of the batch have the vertex's id

graph == <<size, unread, requests, edges>>
sorting == <<indegree, queue, order>>
running == <<cursor, processed, executed, failed, answers>>
vars == <<graph, phase, sorting, running>>

Vertices == 0 .. size - 1
Ids == 0 .. MaxRequests

\* "refused" and "cycle" end with status 400, "crashed" with 500.
Ends == {"done", "refused", "cycle", "crashed"}
Phases == {"read", "sort", "run"} \cup Ends

Init ==
    /\ size \in 1 .. MaxRequests
    /\ unread = size
    /\ requests = {}
    /\ edges = {}
    /\ phase = "read"
    /\ indegree = [v \in Ids |-> 0]
    /\ queue = <<>>
    /\ order = <<>>
    /\ cursor = 1
    /\ processed = {}
    /\ executed = {}
    /\ failed = {}
    /\ answers = [v \in Ids |-> 0]

-----------------------------------------------------------------------------
(* process_request                                                         *)

AcceptableSlip(v, dependencies) ==
    /\ v <= size
    /\ dependencies # {} => v \in Vertices

\* No other request has the id, and it is not above the number of vertices;
\* add_edge wants a vertex.
Acceptable(v, dependencies) ==
    /\ v \notin requests
    /\ v <= size
    /\ dependencies # {} => v \in Vertices

ReadRequest(v, dependencies) ==
    /\ phase = "read"
    /\ unread > 0
    /\ IF Acceptable(v, dependencies)
       THEN /\ requests' = requests \cup {v}
            /\ edges' = edges \cup (dependencies \X {v})
            /\ unread' = unread - 1
            /\ UNCHANGED phase
       ELSE /\ phase' = "refused"
            /\ UNCHANGED <<requests, edges, unread>>
    /\ UNCHANGED <<size, sorting, running>>

\* A dependency that is no number, no vertex, or there twice ("1" and "01").
RefuseDependency ==
    /\ phase = "read"
    /\ unread > 0
    /\ phase' = "refused"
    /\ UNCHANGED <<graph, sorting, running>>

-----------------------------------------------------------------------------
(* topological_sort                                                        *)

Indegree(w) == Cardinality({v \in Vertices : <<v, w>> \in edges})
Adjacent(v) == {w \in Vertices : <<v, w>> \in edges}

\* The loops over range(num_vertices) go through a set from below.
Ascending(S) ==
    CHOOSE s \in [1 .. Cardinality(S) -> S] :
        \A i, j \in DOMAIN s : i < j => s[i] < s[j]

StartSort ==
    /\ phase = "read"
    /\ unread = 0
    /\ LET free == {v \in Vertices : Indegree(v) = 0}
       IN /\ queue' = Ascending(free)
          /\ phase' = IF free = {} THEN "cycle" ELSE "sort"
    /\ indegree' = [v \in Ids |-> IF v \in Vertices THEN Indegree(v) ELSE 0]
    /\ UNCHANGED <<graph, order, running>>

FreedSlip(v) == Adjacent(v)

\* What is left without an unsorted dependency when v is sorted.
Freed(v) == {w \in Adjacent(v) : indegree[w] = 1}

SortVertex ==
    /\ phase = "sort"
    /\ queue # <<>>
    /\ LET v == Head(queue)
       IN /\ order' = Append(order, v)
          /\ queue' = Tail(queue) \o Ascending(Freed(v))
          /\ indegree' = [w \in Ids |-> IF w \in Adjacent(v)
                                        THEN indegree[w] - 1 ELSE indegree[w]]
    /\ UNCHANGED <<graph, phase, running>>

EndSortSlip ==
    /\ phase = "sort"
    /\ queue = <<>>
    /\ phase' = "run"
    /\ UNCHANGED <<graph, sorting, running>>

EndSort ==
    /\ phase = "sort"
    /\ queue = <<>>
    /\ phase' = IF Len(order) = size THEN "run" ELSE "cycle"
    /\ UNCHANGED <<graph, sorting, running>>

-----------------------------------------------------------------------------
(* BatchResource.on_post                                                   *)

ChainSlip(v) == {v} \X (Adjacent(v) \ {0})

\* What _get_vertices_connections gets to from v: the least set with v in it
\* that goes on along the edges; vertex 0 is false and so not followed.
Reached(v) ==
    {u \in Vertices :
        \A S \in SUBSET Vertices :
            v \in S /\ (\A x \in S : Adjacent(x) \ {0} \subseteq S) => u \in S}

\* get_vertices_chain(v), as the pairs of a vertex and a member of its set.
Chain(v) ==
    {p \in Reached(v) \X Vertices : p[2] \in Adjacent(p[1]) \ {0}}

FailedDependencySlip(v, w) == IF <<v, w>> \in Chain(v) THEN 1 ELSE 0

\* fail_dependent_requests: how many 424 responses w gets when v fails.
FailedDependency(v, w) == Cardinality({p \in Chain(v) : p[2] = w})

\* requests[request_id]["processed"] is False
Unprocessed == requests \ processed

\* requests[request_id] is a KeyError when no request had that id.
Crash ==
    /\ phase = "run"
    /\ cursor <= Len(order)
    /\ order[cursor] \notin requests
    /\ phase' = "crashed"
    /\ UNCHANGED <<graph, sorting, running>>

Skip ==
    /\ phase = "run"
    /\ cursor <= Len(order)
    /\ order[cursor] \in requests \cap processed
    /\ cursor' = cursor + 1
    /\ UNCHANGED <<graph, phase, sorting, processed, executed, failed, answers>>

\* The response has one of GOOD_STATUS_CODES.
Succeed ==
    /\ phase = "run"
    /\ cursor <= Len(order)
    /\ order[cursor] \in Unprocessed
    /\ LET v == order[cursor]
       IN /\ processed' = processed \cup {v}
          /\ executed' = executed \cup {v}
          /\ answers' = [answers EXCEPT ![v] = @ + 1]
    /\ cursor' = cursor + 1
    /\ UNCHANGED <<graph, phase, sorting, failed>>

\* It has one of 200 and 201, but its body is no JSON: response.json raises.
CrashOnBody ==
    /\ phase = "run"
    /\ cursor <= Len(order)
    /\ order[cursor] \in Unprocessed
    /\ processed' = processed \cup {order[cursor]}
    /\ executed' = executed \cup {order[cursor]}
    /\ phase' = "crashed"
    /\ UNCHANGED <<graph, sorting, cursor, failed, answers>>

\* It has another one, or the path makes the client raise an AssertionError.
Fail ==
    /\ phase = "run"
    /\ cursor <= Len(order)
    /\ order[cursor] \in Unprocessed
    /\ LET v == order[cursor]
       IN /\ processed' = processed \cup {v} \cup {p[2] : p \in Chain(v)}
          /\ executed' = executed \cup {v}
          /\ failed' = failed \cup {v}
          /\ answers' = [w \in Ids |-> answers[w] + FailedDependency(v, w)
                                         + IF w = v THEN 1 ELSE 0]
    /\ cursor' = cursor + 1
    /\ UNCHANGED <<graph, phase, sorting>>

Respond ==
    /\ phase = "run"
    /\ cursor > Len(order)
    /\ phase' = "done"
    /\ UNCHANGED <<graph, sorting, running>>

Next ==
    \/ \E v \in 0 .. MaxRequests + 1, D \in SUBSET Vertices : ReadRequest(v, D)
    \/ RefuseDependency
    \/ StartSort \/ SortVertex \/ EndSort
    \/ Crash \/ Skip \/ Succeed \/ CrashOnBody \/ Fail \/ Respond

Spec == Init /\ [][Next]_vars

-----------------------------------------------------------------------------
(* Properties                                                              *)

TypeOK ==
    /\ size \in 1 .. MaxRequests
    /\ unread \in 0 .. size
    /\ requests \subseteq 0 .. size
    /\ Cardinality(requests) = size - unread
    /\ edges \subseteq Vertices \X Vertices
    /\ phase \in Phases
    /\ indegree \in [Ids -> Nat]
    /\ queue \in Seq(Vertices)
    /\ order \in Seq(Vertices)
    /\ cursor \in 1 .. Len(order) + 1
    /\ processed \subseteq Ids
    /\ executed \subseteq processed
    /\ failed \subseteq executed
    /\ answers \in [Ids -> Nat]

\* topological_sort puts a request after everything it depends on, and at most
\* once.
SortedByDependency ==
    \A j \in DOMAIN order :
        /\ \A i \in DOMAIN order : order[i] = order[j] => i = j
        /\ \A e \in edges :
              e[2] = order[j] => \E i \in 1 .. j - 1 : order[i] = e[1]

\* Requests none of which can be first: each depends on another one of them.
HasCycle ==
    \E S \in (SUBSET Vertices) \ {{}} :
        \A w \in S : \E v \in S : <<v, w>> \in edges

\* A batch is refused for a cycle if and only if it has one.
CyclesAreRefused ==
    /\ phase = "cycle" => HasCycle
    /\ phase \in {"run", "done"} => ~HasCycle

\* A batch is sorted by its dependencies, or refused for the cycle in them.
SortedOrRefused == SortedByDependency /\ CyclesAreRefused

\* A batch that is answered answers each of its requests.
EveryoneIsAnswered == phase = "done" => \A v \in requests : answers[v] > 0

\* What w depends on, directly or through other requests than the first one: the
\* least set with the dependencies of w and of its members other than vertex 0.
Needed(w) ==
    {v \in Vertices :
        \A S \in SUBSET Vertices :
            (\A e \in edges : e[2] \in {w} \cup (S \ {0}) => e[1] \in S) => v \in S}

\* A request other than the first one is executed only after everything it
\* needs has been executed and has succeeded, however many dependencies lie
\* between it and the request that failed. Vertex 0 is the exception: it is
\* executed whatever became of its dependencies, and what depends on a failed
\* request through vertex 0 alone is executed when that succeeds (graph.py:173).
ExecutedAfterSuccess ==
    \A w \in executed \ {0} : Needed(w) \subseteq executed \ failed

(* What a comment promises and the code does not keep                      *)

\* "Mark all dependent requests as failed": the same of the first request.
DependentsAreFailed ==
    \A e \in edges : e[2] \in executed => e[1] \in executed \ failed

=============================================================================
