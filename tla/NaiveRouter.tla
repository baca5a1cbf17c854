---------------------------- MODULE NaiveRouter ----------------------------
(***************************************************************************)
(* The reward-model router: each request is given to the worker with the   *)
(* least request count, is tried there up to max_attempts times, and gives *)
(* its count back only when it succeeds.                                   *)
(***************************************************************************)
EXTENDS Integers, FiniteSets

CONSTANTS
    Workers,         \* worker_urls
    HttpRequests,    \* the requests made of the router
    max_attempts,
    NoWorker         \* the worker of a request that has none yet

ASSUME RouterAssumption ==
    /\ Workers # {} /\ IsFiniteSet(Workers) /\ NoWorker \notin Workers
    /\ IsFiniteSet(HttpRequests)
    /\ max_attempts \in Nat \ {0}

VARIABLES
    request_counts,  \* request_counts[w]
    request          \* request[q]: where it stands, its worker and its attempt

routerVars == <<request_counts, request>>

Unsent == [at |-> "new", worker |-> NoWorker, attempt |-> 0]

RouterInit ==
    /\ request_counts = [w \in Workers |-> 0]
    /\ request = [q \in HttpRequests |-> Unsent]

LeastBusy == {w \in Workers : \A v \in Workers : request_counts[w] <= request_counts[v]}

_select_worker(q) ==
    /\ request[q].at = "new"
    /\ \E w \in LeastBusy :
         /\ request_counts' = [request_counts EXCEPT ![w] = @ + 1]
         /\ request' = [request EXCEPT ![q] = [at |-> "body", worker |-> w, attempt |-> 0]]

Becomes(q, at) == request' = [request EXCEPT ![q].at = at]

\* await request.body(): the client may be gone.
ReadBody(q) ==
    /\ request[q].at = "body"
    /\ Becomes(q, "trying") \/ Becomes(q, "raised")
    /\ UNCHANGED request_counts

\* Mutant of ReleaseWorker: the count is not given back.
NotReleased(w) == request_counts
ReleaseWorker(w) ==
    [request_counts EXCEPT ![w] = IF @ > 0 THEN @ - 1 ELSE 0]

Succeeds(q) ==
    /\ request[q].at = "trying"
    /\ request_counts' = ReleaseWorker(request[q].worker)
    /\ Becomes(q, "answered")

\* ClientResponseError is raised at once; a timeout, a connection error or
\* another exception sleeps and tries the same worker again, and is raised
\* after the last attempt.
HttpError(q) ==
    /\ request[q].at = "trying"
    /\ Becomes(q, "raised")
    /\ UNCHANGED request_counts

AttemptFails(q) ==
    /\ request[q].at = "trying"
    /\ IF request[q].attempt < max_attempts - 1
       THEN Becomes(q, "sleeping") ELSE Becomes(q, "raised")
    /\ UNCHANGED request_counts

Retry(q) ==
    /\ request[q].at = "sleeping"
    /\ request' = [request EXCEPT ![q].at = "trying", ![q].attempt = @ + 1]
    /\ UNCHANGED request_counts

Ended == {"answered", "raised"}
RouterOver == (\A q \in HttpRequests : request[q].at \in Ended) /\ UNCHANGED routerVars

_make_async_request(q) ==
    \/ _select_worker(q) \/ ReadBody(q) \/ Succeeds(q)
    \/ HttpError(q) \/ AttemptFails(q) \/ Retry(q)

RouterNext == (\E q \in HttpRequests : _make_async_request(q)) \/ RouterOver
RouterSpec == RouterInit /\ [][RouterNext]_routerVars

-----------------------------------------------------------------------------

RouterTypeOK ==
    /\ request_counts \in [Workers -> Nat]
    /\ request \in [HttpRequests ->
                      [at : {"new", "body", "trying", "sleeping"} \union Ended,
                       worker : Workers \union {NoWorker}, attempt : 0..max_attempts - 1]]

\* What a worker is held to be busy with: the requests it works on and those that
\* failed at it for good, which are never taken off its count.
Burden(w) == {q \in HttpRequests : request[q].worker = w /\ request[q].at # "answered"}

\* The count by which workers are chosen is exactly that burden, through retries,
\* failures and answers in any order: nothing is counted twice, and the
\* subtraction never meets its floor of zero.
CountIsBurden == \A w \in Workers : request_counts[w] = Cardinality(Burden(w))
=============================================================================
