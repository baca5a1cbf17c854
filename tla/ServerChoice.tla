--------------------------- MODULE ServerChoice ---------------------------
(***************************************************************************)
(* AsyncLLMServerManager: which LLM server a request goes to.  A request   *)
(* the manager remembers goes to the server it went to before (its prefix  *)
(* is cached there); a new one goes to the server chosen least often.  The *)
(* memory is an LRU cache, kept as the sequence of its keys from the least *)
(* to the most recently used.                                              *)
(***************************************************************************)
EXTENDS Integers, Sequences, FiniteSets, SequencesExt

CONSTANTS
    LLMServers,      \* server_handles
    RequestIds,      \* request ids: one per episode, all its turns use it
    MaxCacheSize,    \* max_cache_size (10000 in the code)
    MaxChoices       \* bound: calls of generate

ASSUME ServerChoiceAssumption ==
    /\ LLMServers # {} /\ IsFiniteSet(LLMServers)
    /\ MaxCacheSize \in Nat \ {0} /\ MaxChoices \in Nat

VARIABLES
    weight,      \* weight[s]: how often s was chosen for a new request
    lru,         \* request_id_to_server: its keys in order of use
    went_to,     \* the server of each remembered request
    choices,     \* bound counter of MaxChoices
    last,        \* history: where each request went last, {} before
    since        \* history: the other requests that called since it did

choiceVars == <<weight, lru, went_to, choices, last, since>>

ChoiceInit ==
    /\ weight = [s \in LLMServers |-> 0]
    /\ lru = <<>>
    /\ went_to = [q \in {} |-> q]
    /\ choices = 0
    /\ last = [q \in RequestIds |-> {}]
    /\ since = [q \in RequestIds |-> {}]

\* Mutant of Least: any server.
AnyServer == LLMServers
\* The root of the heap is a server of least weight.
Least == {s \in LLMServers : \A t \in LLMServers : weight[s] <= weight[t]}

\* Mutant of UsedNow: a hit does not renew the entry.
NotRenewed(q) == IF q \in DOMAIN went_to THEN lru ELSE Append(lru, q)
UsedNow(q) ==
    IF q \in DOMAIN went_to
    THEN Append(RemoveAt(lru, CHOOSE i \in DOMAIN lru : lru[i] = q), q)
    ELSE Append(lru, q)

\* Mutant of Remembered: nothing is ever dropped.
NeverEvicted(q) == UsedNow(q)
\* The entries once q has used its own: the least recently used one is dropped
\* when there are too many.
Remembered(q) ==
    LET used == UsedNow(q) IN IF Len(used) > MaxCacheSize THEN Tail(used) ELSE used

CalledNow(q, s) ==
    /\ last' = [last EXCEPT ![q] = {s}]
    /\ since' = [p \in RequestIds |-> IF p = q THEN {} ELSE since[p] \union {q}]
    /\ choices' = choices + 1

Hit(q) ==
    /\ choices < MaxChoices
    /\ q \in DOMAIN went_to
    /\ lru' = UsedNow(q)
    /\ CalledNow(q, went_to[q])
    /\ UNCHANGED <<weight, went_to>>

Miss(q) ==
    /\ choices < MaxChoices
    /\ q \notin DOMAIN went_to
    /\ \E s \in Least :
         /\ weight' = [weight EXCEPT ![s] = @ + 1]
         /\ lru' = Remembered(q)
         /\ went_to' = [p \in ToSet(Remembered(q)) |-> IF p = q THEN s ELSE went_to[p]]
         /\ CalledNow(q, s)

ChoicesOver == choices = MaxChoices /\ UNCHANGED choiceVars

_choose_server == \E q \in RequestIds : Hit(q) \/ Miss(q)
ChoiceNext == _choose_server \/ ChoicesOver

ChoiceSpec == ChoiceInit /\ [][ChoiceNext]_choiceVars

-----------------------------------------------------------------------------

ChoiceTypeOK ==
    /\ weight \in [LLMServers -> Nat]
    /\ DOMAIN went_to = ToSet(lru) /\ ToSet(lru) \subseteq RequestIds
    /\ \A q \in DOMAIN went_to : went_to[q] \in LLMServers
    /\ Len(lru) <= MaxCacheSize
    /\ choices \in 0..MaxChoices
    /\ last \in [RequestIds -> SUBSET LLMServers] /\ since \in [RequestIds -> SUBSET RequestIds]

\* New requests are spread evenly: no server is ever chosen twice more often
\* than another one.
LoadSpread == \A s \in LLMServers, t \in LLMServers : weight[s] <= weight[t] + 1

\* The turns of an episode find the server that has their prefix as long as fewer
\* than max_cache_size other episodes have called since the last turn.
StickySession ==
    [][\A q \in RequestIds :
         last[q] # {} /\ Cardinality(since[q]) < MaxCacheSize => last'[q] = last[q]]_choiceVars
=============================================================================
