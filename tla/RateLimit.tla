----------------------------- MODULE RateLimit -----------------------------
(***************************************************************************)
(* The rate limiter of the search and sandbox tools: the Ray actor named   *)
(* "rate-limiter" (TokenBucketWorker), a semaphore behind two concurrency  *)
(* groups, and the executions that go through it.  One thread serves       *)
(* acquire, in the order of the calls, and blocks in the semaphore; other  *)
(* threads serve release.  Both tools ask for the actor by the same name,  *)
(* so the tool that is created first decides how many permits there are.   *)
(***************************************************************************)
EXTENDS Integers, Sequences, FiniteSets

CONSTANTS
    Tools,          \* the tools that create an execution pool
    rate_limit,     \* rate_limit[t]: the limit tool t is configured with
    Executions,     \* the calls of execute()
    ToolOf          \* the tool of each execution

ASSUME RateLimitAssumption ==
    /\ rate_limit \in [Tools -> Nat \ {0}]
    /\ ToolOf \in [Executions -> Tools]
    /\ IsFiniteSet(Executions)

VARIABLES
    limiter,        \* the limit the actor was created with, 0 before it exists
    created,        \* the tools that have their execution pool
    permits,        \* the value of the semaphore
    acquiring,      \* the calls of acquire in the actor, in their order
    execution,      \* where each execution stands
    releasing       \* the calls of release on their way to the actor

limitVars == <<limiter, created, permits, acquiring, execution, releasing>>

LimitInit ==
    /\ limiter = 0 /\ created = {} /\ permits = 0
    /\ acquiring = <<>> /\ releasing = {}
    /\ execution = [e \in Executions |-> "new"]

\* _init_rate_limit: get_if_exists gives every later tool the first one's actor.
CreateTool(t) ==
    /\ t \notin created
    /\ created' = created \union {t}
    /\ IF limiter = 0 THEN limiter' = rate_limit[t] /\ permits' = rate_limit[t]
                      ELSE UNCHANGED <<limiter, permits>>
    /\ UNCHANGED <<acquiring, execution, releasing>>

\* execute() registers the release and waits for acquire.
Ask(e) ==
    /\ execution[e] = "new" /\ ToolOf[e] \in created
    /\ execution' = [execution EXCEPT ![e] = "asking"]
    /\ acquiring' = Append(acquiring, e)
    /\ UNCHANGED <<limiter, created, permits, releasing>>

\* Mutant of MayAcquire: the semaphore does not block.
NeverBlocks == TRUE
MayAcquire == permits > 0

\* The thread of the acquire group gets the semaphore, and fn runs.
acquire ==
    /\ acquiring # <<>> /\ MayAcquire
    /\ permits' = permits - 1
    /\ execution' = [execution EXCEPT ![Head(acquiring)] = "running"]
    /\ acquiring' = Tail(acquiring)
    /\ UNCHANGED <<limiter, created, releasing>>

\* Mutant of ReleasedBy: an exception of fn skips the release.
OnlyOnSuccess(e, outcome) == IF outcome = "result" THEN {e} ELSE {}
\* The ExitStack sends the release, whatever fn did.
ReleasedBy(e, outcome) == {e}

\* fn returns its result, or raises: the exception is swallowed and the caller
\* gets None.
Finish(e, outcome) ==
    /\ execution[e] = "running"
    /\ execution' = [execution EXCEPT ![e] = outcome]
    /\ releasing' = releasing \union ReleasedBy(e, outcome)
    /\ UNCHANGED <<limiter, created, permits, acquiring>>

release(e) ==
    /\ e \in releasing
    /\ releasing' = releasing \ {e}
    /\ permits' = permits + 1
    /\ UNCHANGED <<limiter, created, acquiring, execution>>

LimitOver ==
    /\ \A e \in Executions : execution[e] \in {"result", "None"}
    /\ releasing = {} /\ created = Tools
    /\ UNCHANGED limitVars

LimitStep ==
    \/ \E t \in Tools : CreateTool(t)
    \/ \E e \in Executions : Ask(e) \/ release(e) \/ \E o \in {"result", "None"} : Finish(e, o)
    \/ acquire

LimitNext == LimitStep \/ LimitOver

\* Remote calls are served, and the tools' functions have timeouts.
LimitProgress ==
    \/ acquire
    \/ \E e \in Executions : release(e) \/ Finish(e, "result") \/ Finish(e, "None")
LimitFairness == WF_limitVars(LimitProgress)

LimitSpec == LimitInit /\ [][LimitNext]_limitVars
FairLimitSpec == LimitSpec /\ LimitFairness

-----------------------------------------------------------------------------

Running == {e \in Executions : execution[e] = "running"}

LimitTypeOK ==
    /\ limiter \in Nat /\ permits \in Int
    /\ created \subseteq Tools
    /\ acquiring \in Seq(Executions)
    /\ execution \in [Executions -> {"new", "asking", "running", "result", "None"}]
    /\ releasing \subseteq Executions

\* Every permit is in the semaphore, in the hands of a running execution or on
\* its way back: never more executions at once than the limiter allows, and no
\* permit lost to an exception.
PermitsConserved ==
    /\ permits + Cardinality(Running) + Cardinality(releasing) = limiter
    /\ permits >= 0

\* Every execution that waits for a permit gets to run, whichever others fail: the
\* queue of the limiter is empty again and again.
EveryoneRuns == (acquiring # <<>>) ~> (acquiring = <<>>)
=============================================================================
