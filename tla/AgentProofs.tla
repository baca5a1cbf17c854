---------------------------- MODULE AgentProofs -----------------------------
(***************************************************************************)
(* Theorems about the agent loop: where its requests go, and what its tools *)
(* do.                                                                     *)
(*                                                                         *)
(*   LoadSpreadCorrect           ServerChoice: the load of the LLM servers  *)
(*                               stays even              SpreadInv         *)
(*   StickySessionCorrect        ServerChoice: the turns of an episode stay *)
(*                               on one server           StickyInv         *)
(*   CountIsBurdenCorrect        NaiveRouter: the counts of the router are  *)
(*                               its workers' burdens    RouterInv         *)
(*   PermitsConservedCorrect     RateLimit: no permit is lost or made      *)
(*                                                       LimitInv          *)
(*   InstancesReleasedCorrect    ToolAgent               CallInv           *)
(*   ToolsLeaveRoomCorrect,                                                *)
(*   MaskMarksGeneratedCorrect   ToolAgent               TextInv           *)
(*                                                                         *)
(* for any number of servers, workers, requests, attempts, tools and        *)
(* executions, and any limits, prompts, answers and tool calls.  On the     *)
(* right the inductive invariant.                                          *)
(***************************************************************************)
EXTENDS ServerChoice, NaiveRouter, RateLimit, ToolAgent,
        FiniteSetTheorems, SequenceTheorems, TLAPS

-----------------------------------------------------------------------------
(* ServerChoice *)

WeightType == weight \in [LLMServers -> Nat]

\* A new request goes to a server of least weight, which is then ahead of the
\* others by at most one; nothing else changes a weight.
SpreadInv == WeightType /\ LoadSpread

LEMMA SpreadInit == ChoiceInit => SpreadInv
BY DEF ChoiceInit, SpreadInv, WeightType, LoadSpread

LEMMA SpreadMiss ==
    ASSUME SpreadInv, NEW q \in RequestIds, Miss(q)
    PROVE  SpreadInv'
<1>1. PICK s \in Least : weight' = [weight EXCEPT ![s] = @ + 1]
  BY DEF Miss
<1>2. s \in LLMServers /\ \A t \in LLMServers : weight[s] <= weight[t]
  BY <1>1 DEF Least
<1>3. WeightType'
  BY <1>1, <1>2 DEF SpreadInv, WeightType
<1>4. LoadSpread'
  <2> SUFFICES ASSUME NEW u \in LLMServers, NEW t \in LLMServers
               PROVE  weight'[u] <= weight'[t] + 1
    BY DEF LoadSpread
  <2>1. weight[u] \in Nat /\ weight[t] \in Nat /\ weight[s] \in Nat
    BY <1>2 DEF SpreadInv, WeightType
  <2>2. weight[t] <= weight'[t]
    BY <1>1, <1>2, <2>1 DEF SpreadInv, WeightType
  <2>3. CASE u = s
    BY <1>1, <1>2, <2>1, <2>2, <2>3 DEF SpreadInv, WeightType
  <2>4. CASE u # s
    <3>1. weight'[u] = weight[u]
      BY <1>1, <2>4 DEF SpreadInv, WeightType
    <3> QED  BY <3>1, <2>1, <2>2, <1>3 DEF SpreadInv, LoadSpread, WeightType
  <2> QED  BY <2>3, <2>4
<1> QED  BY <1>3, <1>4 DEF SpreadInv

LEMMA SpreadNext == SpreadInv /\ [ChoiceNext]_choiceVars => SpreadInv'
<1> SUFFICES ASSUME SpreadInv, [ChoiceNext]_choiceVars
             PROVE  SpreadInv'
  OBVIOUS
<1>1. ASSUME NEW q \in RequestIds, Hit(q) PROVE SpreadInv'
  BY <1>1 DEF Hit, SpreadInv, WeightType, LoadSpread
<1>2. ASSUME NEW q \in RequestIds, Miss(q) PROVE SpreadInv'
  BY <1>2, SpreadMiss
<1>3. CASE UNCHANGED choiceVars
  BY <1>3 DEF choiceVars, SpreadInv, WeightType, LoadSpread
<1> QED  BY <1>1, <1>2, <1>3 DEF ChoiceNext, _choose_server, ChoicesOver

\* AsyncLLMServerManager._choose_server: however requests are remembered and
\* forgotten, no server is chosen twice more often than another one.
THEOREM LoadSpreadCorrect == ChoiceSpec => []LoadSpread
<1>1. SpreadInv => LoadSpread  BY DEF SpreadInv
<1> QED  BY SpreadInit, SpreadNext, <1>1, PTL DEF ChoiceSpec

\* An entry moved to the end: those behind it move up.
LEMMA MovedToEnd ==
    ASSUME NEW s \in Seq(RequestIds), NEW k \in 1..Len(s)
    PROVE  LET u == Append(RemoveAt(s, k), s[k])
           IN  /\ u \in Seq(RequestIds) /\ Len(u) = Len(s) /\ u[Len(s)] = s[k]
               /\ \A i \in 1..Len(s) - 1 : u[i] = s[IF i < k THEN i ELSE i + 1]
<1> DEFINE before == SubSeq(s, 1, k - 1)
           behind == SubSeq(s, k + 1, Len(s))
           rest == RemoveAt(s, k)
<1>1. PICK c \in Nat : c = Len(s) /\ k \in 1..c
  OBVIOUS
<1>2. \A i \in 1..c : s[i] \in RequestIds
  BY <1>1
<1>3. /\ before \in Seq(RequestIds) /\ Len(before) = k - 1
      /\ \A i \in 1..k - 1 : before[i] = s[i]
  <2>1. 1 \in Int /\ k - 1 \in Int /\ \A i \in 1..k - 1 : s[i] \in RequestIds
    BY <1>1, <1>2
  <2>2. /\ before \in Seq(RequestIds)
        /\ Len(before) = IF 1 <= k - 1 THEN k - 1 - 1 + 1 ELSE 0
        /\ \A i \in 1..k - 1 - 1 + 1 : before[i] = s[1 + i - 1]
    BY <2>1, SubSeqProperties
  <2>3. \A i \in 1..k - 1 : i \in 1..k - 1 - 1 + 1 /\ 1 + i - 1 = i
    BY <1>1
  <2> QED BY <1>1, <2>2, <2>3
<1>4. /\ behind \in Seq(RequestIds) /\ Len(behind) = c - k
      /\ \A i \in 1..c - k : behind[i] = s[k + i]
  <2>1. k + 1 \in Int /\ c \in Int /\ \A i \in k + 1..c : s[i] \in RequestIds
    BY <1>1, <1>2
  <2>2. /\ behind \in Seq(RequestIds)
        /\ Len(behind) = IF k + 1 <= c THEN c - (k + 1) + 1 ELSE 0
        /\ \A i \in 1..c - (k + 1) + 1 : behind[i] = s[k + 1 + i - 1]
    BY <1>1, <2>1, SubSeqProperties
  <2>3. \A i \in 1..c - k : i \in 1..c - (k + 1) + 1 /\ k + 1 + i - 1 = k + i
    BY <1>1
  <2> QED BY <1>1, <2>2, <2>3
<1>5. rest = before \o behind
  BY DEF RemoveAt
<1> HIDE DEF before, behind, rest
<1>6. /\ rest \in Seq(RequestIds) /\ Len(rest) = c - 1
      /\ \A i \in 1..c - 1 : rest[i] = s[IF i < k THEN i ELSE i + 1]
  <2>1. /\ rest \in Seq(RequestIds) /\ Len(rest) = (k - 1) + (c - k)
        /\ \A i \in 1..(k - 1) + (c - k) : rest[i] = IF i <= k - 1 THEN before[i] ELSE behind[i - (k - 1)]
    <3>1. /\ rest \in Seq(RequestIds) /\ Len(rest) = Len(before) + Len(behind)
          /\ \A i \in 1..Len(before) + Len(behind) :
                rest[i] = IF i <= Len(before) THEN before[i] ELSE behind[i - Len(before)]
      <4>1. before \in Seq(RequestIds) /\ behind \in Seq(RequestIds)
        BY <1>3, <1>4
      <4> QED BY <1>5, <4>1, ConcatProperties
    <3> QED BY <1>3, <1>4, <3>1
  <2>2. ASSUME NEW i \in 1..c - 1 PROVE rest[i] = s[IF i < k THEN i ELSE i + 1]
    <3>1. i \in 1..(k - 1) + (c - k)
      BY <1>1
    <3>2. CASE i < k
      <4>1. i \in 1..k - 1 /\ i <= k - 1
        BY <1>1, <3>2
      <4> QED BY <1>3, <2>1, <3>1, <3>2, <4>1
    <3>3. CASE ~(i < k)
      <4>1. i - (k - 1) \in 1..c - k /\ k + (i - (k - 1)) = i + 1 /\ ~(i <= k - 1)
        BY <1>1, <3>3
      <4>2. rest[i] = s[i + 1]
        BY <1>4, <2>1, <3>1, <4>1
      <4> QED BY <3>3, <4>2
    <3> QED BY <3>2, <3>3
  <2> QED BY <1>1, <2>1, <2>2
<1>7. s[k] \in RequestIds
  BY <1>1, <1>2
<1>8. /\ Append(rest, s[k]) \in Seq(RequestIds) /\ Len(Append(rest, s[k])) = (c - 1) + 1
      /\ \A i \in 1..c - 1 : Append(rest, s[k])[i] = rest[i]
      /\ Append(rest, s[k])[(c - 1) + 1] = s[k]
  BY <1>6, <1>7, AppendProperties
<1>9. (c - 1) + 1 = c
  BY <1>1
<1> QED BY <1>1, <1>6, <1>8, <1>9 DEF rest

-----------------------------------------------------------------------------
(* The memory: the requests behind an entry called since the entry was used, *)
(* so that one which is dropped has as many since as there are entries.      *)

Entries == 1..Len(lru)
LruType ==
    /\ lru \in Seq(RequestIds) /\ Len(lru) <= MaxCacheSize
    /\ \A q : q \in DOMAIN went_to <=> \E i \in Entries : lru[i] = q
    /\ last \in [RequestIds -> SUBSET LLMServers]
    /\ since \in [RequestIds -> SUBSET RequestIds]
    /\ \A q \in RequestIds : IsFiniteSet(since[q])
EntriesDiffer == \A i, j \in Entries : lru[i] = lru[j] => i = j
SinceInOrder == \A i, j \in Entries : i < j => lru[j] \in since[lru[i]]
RememberedIsLast == \A q \in DOMAIN went_to : last[q] = {went_to[q]}
ForgottenLate ==
    \A q \in RequestIds \ DOMAIN went_to : last[q] # {} => Cardinality(since[q]) >= MaxCacheSize

StickyInv == LruType /\ EntriesDiffer /\ SinceInOrder /\ RememberedIsLast /\ ForgottenLate

LEMMA StickyInit == ChoiceInit => StickyInv
<1> SUFFICES ASSUME ChoiceInit PROVE StickyInv
  OBVIOUS
<1>1. LruType
  BY FS_EmptySet, ServerChoiceAssumption DEF ChoiceInit, LruType, Entries
<1> QED BY <1>1 DEF ChoiceInit, StickyInv, EntriesDiffer, SinceInOrder, RememberedIsLast, ForgottenLate, Entries

\* The caller starts afresh, and every other request has one more since.
LEMMA SinceGrows ==
    ASSUME StickyInv, NEW q \in RequestIds, NEW s \in LLMServers, CalledNow(q, s)
    PROVE  /\ last' \in [RequestIds -> SUBSET LLMServers] /\ since' \in [RequestIds -> SUBSET RequestIds]
           /\ last'[q] = {s} /\ \A p \in RequestIds \ {q} : last'[p] = last[p]
           /\ \A p \in RequestIds \ {q} :
                /\ since'[p] = since[p] \union {q}
                /\ Cardinality(since'[p]) \in Nat /\ Cardinality(since[p]) \in Nat
                /\ Cardinality(since'[p]) >= Cardinality(since[p])
           /\ \A p \in RequestIds : IsFiniteSet(since'[p])
<1>1. /\ last' \in [RequestIds -> SUBSET LLMServers] /\ since' \in [RequestIds -> SUBSET RequestIds]
      /\ last'[q] = {s} /\ \A p \in RequestIds \ {q} : last'[p] = last[p]
      /\ since'[q] = {} /\ \A p \in RequestIds \ {q} : since'[p] = since[p] \union {q}
  BY DEF CalledNow, StickyInv, LruType
<1>2. ASSUME NEW p \in RequestIds \ {q}
      PROVE  /\ IsFiniteSet(since'[p])
             /\ Cardinality(since'[p]) \in Nat /\ Cardinality(since[p]) \in Nat
             /\ Cardinality(since'[p]) >= Cardinality(since[p])
  <2>1. IsFiniteSet(since[p]) /\ since'[p] = since[p] \union {q}
    BY <1>1 DEF StickyInv, LruType
  <2>2. /\ IsFiniteSet(since'[p])
        /\ Cardinality(since'[p]) = IF q \in since[p] THEN Cardinality(since[p]) ELSE Cardinality(since[p]) + 1
    BY <2>1, FS_AddElement
  <2>3. Cardinality(since[p]) \in Nat /\ Cardinality(since'[p]) \in Nat
    BY <2>1, <2>2, FS_CardinalityType
  <2> QED BY <2>2, <2>3
<1>3. IsFiniteSet(since'[q])
  BY <1>1, FS_EmptySet
<1> QED BY <1>1, <1>2, <1>3

LEMMA StickyHit ==
    ASSUME StickyInv, NEW q \in RequestIds, Hit(q)
    PROVE  StickyInv' /\ last'[q] = last[q] /\ \A p \in RequestIds \ {q} : last'[p] = last[p]
<1> DEFINE k == CHOOSE i \in DOMAIN lru : lru[i] = q
<1>1. q \in DOMAIN went_to /\ went_to' = went_to /\ CalledNow(q, went_to[q])
      /\ lru' = Append(RemoveAt(lru, k), q)
  BY DEF Hit, UsedNow
<1>2. PICK c \in Nat : c = Len(lru) /\ DOMAIN lru = 1..c /\ Entries = 1..c /\ c <= MaxCacheSize
  BY DEF StickyInv, LruType, Entries
<1>3. k \in 1..c /\ lru[k] = q
  <2>1. \E i \in 1..c : lru[i] = q
    BY <1>1, <1>2 DEF StickyInv, LruType
  <2> QED BY <1>2, <2>1
<1> HIDE DEF k
<1>4. /\ lru' \in Seq(RequestIds) /\ Len(lru') = c /\ lru'[c] = q /\ lru[k] = q
      /\ \A i \in 1..c - 1 : lru'[i] = lru[IF i < k THEN i ELSE i + 1]
  <2>1. lru \in Seq(RequestIds) /\ k \in 1..Len(lru)
    BY <1>2, <1>3 DEF StickyInv, LruType
  <2> QED BY <1>1, <1>2, <1>3, <2>1, MovedToEnd
<1>5. went_to[q] \in LLMServers /\ last[q] = {went_to[q]}
  BY <1>1 DEF StickyInv, RememberedIsLast, LruType
<1>6. /\ last' \in [RequestIds -> SUBSET LLMServers] /\ since' \in [RequestIds -> SUBSET RequestIds]
      /\ last'[q] = {went_to[q]} /\ \A p \in RequestIds \ {q} : last'[p] = last[p]
      /\ \A p \in RequestIds \ {q} :
                /\ since'[p] = since[p] \union {q}
                /\ Cardinality(since'[p]) \in Nat /\ Cardinality(since[p]) \in Nat
                /\ Cardinality(since'[p]) >= Cardinality(since[p])
      /\ \A p \in RequestIds : IsFiniteSet(since'[p])
  BY <1>1, <1>5, SinceGrows
\* The place in lru of each entry of lru'.
<1> DEFINE from(i) == IF i = c THEN k ELSE IF i < k THEN i ELSE i + 1
<1>7. ASSUME NEW i \in 1..c
      PROVE  from(i) \in 1..c /\ lru'[i] = lru[from(i)]
  BY <1>2, <1>3, <1>4
<1>8. \A i, j \in 1..c : (from(i) = from(j) => i = j) /\ (i < j /\ j # c => from(i) < from(j))
  BY <1>3
<1>9. \A j \in 1..c : \E i \in 1..c : from(i) = j
  <2> TAKE j \in 1..c
  <2>1. CASE j = k
    <3>1. c \in 1..c /\ from(c) = k
      BY <1>3
    <3> QED BY <2>1, <3>1
  <2>2. CASE j < k
    <3>1. j \in 1..c /\ j # c /\ from(j) = j
      BY <1>3, <2>2
    <3> QED BY <3>1
  <2>3. CASE j > k
    <3>1. j - 1 \in 1..c /\ from(j - 1) = j
      BY <1>3, <2>3
    <3> QED BY <3>1
  <2> QED BY <1>3, <2>1, <2>2, <2>3
<1>10. from(c) = k
  OBVIOUS
<1> HIDE DEF from
<1>11. \A p : p \in DOMAIN went_to <=> \E i \in 1..c : lru'[i] = p
  <2>1. \A p : p \in DOMAIN went_to <=> \E i \in 1..c : lru[i] = p
    BY <1>2 DEF StickyInv, LruType
  <2> QED BY <2>1, <1>7, <1>9
<1>12. LruType'
  BY <1>1, <1>2, <1>4, <1>6, <1>11 DEF LruType, Entries
<1>13. EntriesDiffer'
  <2>1. \A i, j \in 1..c : lru[i] = lru[j] => i = j
    BY <1>2 DEF StickyInv, EntriesDiffer
  <2>2. \A i, j \in 1..c : lru'[i] = lru'[j] => i = j
    BY <1>7, <1>8, <2>1
  <2> QED BY <1>4, <2>2 DEF EntriesDiffer, Entries
<1>14. SinceInOrder'
  <2> SUFFICES ASSUME NEW i \in 1..c, NEW j \in 1..c, i < j PROVE lru'[j] \in since'[lru'[i]]
    BY <1>4 DEF SinceInOrder, Entries
  <2>1. i # c
    BY <1>2
  <2>2. lru'[i] \in RequestIds \ {q}
    <3>1. from(i) # k
      BY <1>8, <1>10, <2>1, <1>2
    <3>2. lru[from(i)] # q
      BY <1>2, <1>3, <1>7, <3>1 DEF StickyInv, EntriesDiffer
    <3>3. lru'[i] \in RequestIds
      BY <1>4
    <3> QED BY <1>7, <3>2, <3>3
  <2>3. since'[lru'[i]] = since[lru'[i]] \union {q}
    BY <1>6, <2>2
  <2>4. CASE j = c
    BY <1>4, <2>3, <2>4
  <2>5. CASE j # c
    <3>1. from(i) < from(j)
      BY <1>8, <2>5
    <3>2. lru[from(j)] \in since[lru[from(i)]]
      BY <1>2, <1>7, <3>1 DEF StickyInv, SinceInOrder
    <3> QED BY <1>7, <2>3, <3>2
  <2> QED BY <2>4, <2>5
<1>15. RememberedIsLast'
  <2>1. DOMAIN went_to \subseteq RequestIds
    BY DEF StickyInv, LruType, Entries
  <2> QED BY <1>1, <1>6, <2>1 DEF StickyInv, RememberedIsLast
<1>16. ForgottenLate'
  <2> SUFFICES ASSUME NEW p \in RequestIds \ DOMAIN went_to, last'[p] # {}
               PROVE  Cardinality(since'[p]) >= MaxCacheSize
    BY <1>1 DEF ForgottenLate
  <2>1. p # q
    BY <1>1
  <2>2. Cardinality(since[p]) >= MaxCacheSize
    BY <1>6, <2>1 DEF StickyInv, ForgottenLate
  <2> QED BY <1>6, <2>1, <2>2, ServerChoiceAssumption
<1> QED BY <1>5, <1>6, <1>12, <1>13, <1>14, <1>15, <1>16 DEF StickyInv

LEMMA StickyMiss ==
    ASSUME StickyInv, NEW q \in RequestIds, Miss(q)
    PROVE  StickyInv' /\ q \notin DOMAIN went_to /\ \A p \in RequestIds \ {q} : last'[p] = last[p]
<1> DEFINE u == Append(lru, q)
<1>1. /\ q \notin DOMAIN went_to
      /\ lru' = IF Len(u) > MaxCacheSize THEN Tail(u) ELSE u
  BY DEF Miss, UsedNow, Remembered
<1>2. PICK s \in LLMServers :
        /\ CalledNow(q, s)
        /\ went_to' = [p \in ToSet(lru') |-> IF p = q THEN s ELSE went_to[p]]
  BY DEF Miss, Least
<1>3. PICK c \in Nat : c = Len(lru) /\ Entries = 1..c /\ c <= MaxCacheSize
  BY DEF StickyInv, LruType, Entries
<1>4. /\ u \in Seq(RequestIds) /\ Len(u) = c + 1 /\ u[c + 1] = q
      /\ \A i \in 1..c : u[i] = lru[i]
  BY <1>3, AppendProperties DEF StickyInv, LruType
<1> HIDE DEF u
<1>5. /\ last' \in [RequestIds -> SUBSET LLMServers] /\ since' \in [RequestIds -> SUBSET RequestIds]
      /\ last'[q] = {s} /\ \A p \in RequestIds \ {q} : last'[p] = last[p]
      /\ \A p \in RequestIds \ {q} :
                /\ since'[p] = since[p] \union {q}
                /\ Cardinality(since'[p]) \in Nat /\ Cardinality(since[p]) \in Nat
                /\ Cardinality(since'[p]) >= Cardinality(since[p])
      /\ \A p \in RequestIds : IsFiniteSet(since'[p])
  BY <1>2, SinceGrows
<1>6. \A p : p \in DOMAIN went_to <=> \E i \in 1..c : lru[i] = p
  BY <1>3 DEF StickyInv, LruType
<1>7. \A i \in 1..c : u[i] # q /\ u[i] \in RequestIds
  BY <1>1, <1>4, <1>6
<1>8. \A i, j \in 1..c + 1 : u[i] = u[j] => i = j
  <2>1. \A i, j \in 1..c : lru[i] = lru[j] => i = j
    BY <1>3 DEF StickyInv, EntriesDiffer
  <2>2. \A i \in 1..c + 1 : i \in 1..c \/ i = c + 1
    OBVIOUS
  <2> QED BY <1>4, <1>7, <2>1, <2>2
<1>9. ASSUME NEW i \in 1..c + 1, NEW j \in 1..c + 1, i < j PROVE u[j] \in since'[u[i]]
  <2>1. i \in 1..c
    BY <1>9
  <2>2. since'[u[i]] = since[u[i]] \union {q}
    BY <1>5, <1>7, <2>1
  <2>3. CASE j = c + 1
    BY <1>4, <2>2, <2>3
  <2>4. CASE j \in 1..c
    <3>1. lru[j] \in since[lru[i]]
      BY <1>3, <1>9, <2>1, <2>4 DEF StickyInv, SinceInOrder
    <3> QED BY <1>4, <2>1, <2>2, <2>4, <3>1
  <2> QED BY <2>3, <2>4
\* The first d entries are dropped.
<1>10. PICK d \in {0, 1} :
         /\ lru' \in Seq(RequestIds) /\ Len(lru') = c + 1 - d /\ c + 1 - d <= MaxCacheSize
         /\ d = 1 => c = MaxCacheSize
         /\ d = 0 \/ c + 1 - d >= 1
         /\ \A i \in 1..c + 1 - d : lru'[i] = u[i + d] /\ i + d \in 1..c + 1
  <2>1. CASE Len(u) > MaxCacheSize
    <3>1. lru' = Tail(u) /\ u # <<>>
      BY <1>1, <1>4, <2>1
    <3>2. /\ Tail(u) \in Seq(RequestIds) /\ Len(Tail(u)) = Len(u) - 1
          /\ \A i \in 1..Len(Tail(u)) : Tail(u)[i] = u[i + 1]
      BY <1>4, <3>1, HeadTailProperties
    <3>3. lru' \in Seq(RequestIds) /\ Len(lru') = c /\ \A i \in 1..c : lru'[i] = u[i + 1]
      BY <1>4, <3>1, <3>2
    <3>4. c = MaxCacheSize /\ c >= 1 /\ c + 1 - 1 = c
      BY <1>3, <1>4, <2>1, ServerChoiceAssumption
    <3>5. \A i \in 1..c : i + 1 \in 1..c + 1
      OBVIOUS
    <3> QED BY <1>3, <3>3, <3>4, <3>5
  <2>2. CASE ~(Len(u) > MaxCacheSize)
    <3>1. lru' = u /\ c + 1 <= MaxCacheSize /\ c + 1 - 0 = c + 1
      BY <1>1, <1>3, <1>4, <2>2, ServerChoiceAssumption
    <3>2. \A i \in 1..c + 1 : i + 0 = i
      OBVIOUS
    <3> QED BY <1>4, <3>1, <3>2
  <2> QED BY <2>1, <2>2
<1>11. PICK e \in Nat : e = c + 1 - d /\ Len(lru') = e /\ e + d = c + 1 /\ e >= 1
  <2>1. (d = 0 \/ d = 1) /\ (d = 0 \/ c + 1 - d >= 1) /\ Len(lru') = c + 1 - d
    BY <1>10
  <2>2. c + 1 - d \in Nat /\ (c + 1 - d) + d = c + 1 /\ c + 1 - d >= 1
    BY <2>1
  <2> QED BY <2>1, <2>2
<1>12. \A p : p \in DOMAIN went_to' <=> \E i \in 1..e : lru'[i] = p
  <2>1. DOMAIN lru' = 1..e
    BY <1>10, <1>11
  <2> QED BY <1>2, <2>1 DEF ToSet
<1>13. \A i \in 1..e : lru'[i] = u[i + d] /\ i + d \in 1..c + 1
  BY <1>10, <1>11
<1>14. q \in DOMAIN went_to'
  <2>1. lru'[e] = q
    BY <1>4, <1>11, <1>13
  <2> QED BY <1>11, <1>12, <2>1
<1>15. LruType'
  BY <1>5, <1>10, <1>11, <1>12 DEF LruType, Entries
<1>16. EntriesDiffer'
  <2>1. \A i, j \in 1..e : lru'[i] = lru'[j] => i = j
    BY <1>8, <1>10, <1>11, <1>13
  <2> QED BY <1>11, <2>1 DEF EntriesDiffer, Entries
<1>17. SinceInOrder'
  <2> SUFFICES ASSUME NEW i \in 1..e, NEW j \in 1..e, i < j PROVE lru'[j] \in since'[lru'[i]]
    BY <1>11 DEF SinceInOrder, Entries
  <2>1. i + d < j + d
    BY <1>10
  <2> QED BY <1>9, <1>13, <2>1
<1>18. \A p \in DOMAIN went_to' : p \in RequestIds /\ (p # q => p \in DOMAIN went_to)
  <2> TAKE p \in DOMAIN went_to'
  <2>1. PICK i \in 1..e : lru'[i] = p
    BY <1>12
  <2>2. i + d \in 1..c + 1 /\ u[i + d] = p
    BY <1>13, <2>1
  <2>3. CASE i + d = c + 1
    BY <1>4, <2>2, <2>3
  <2>4. CASE i + d \in 1..c
    <3>1. u[i + d] = lru[i + d] /\ u[i + d] \in RequestIds
      BY <1>4, <1>7, <2>4
    <3> QED BY <1>6, <2>2, <2>4, <3>1
  <2> QED BY <2>2, <2>3, <2>4
<1>19. RememberedIsLast'
  BY <1>2, <1>5, <1>18 DEF StickyInv, RememberedIsLast
<1>20. ForgottenLate'
  <2> SUFFICES ASSUME NEW p \in RequestIds \ DOMAIN went_to', last'[p] # {}
               PROVE  Cardinality(since'[p]) >= MaxCacheSize
    BY DEF ForgottenLate
  <2>1. p # q
    BY <1>14
  <2>2. CASE p \notin DOMAIN went_to
    <3>1. Cardinality(since[p]) >= MaxCacheSize
      BY <1>5, <2>1, <2>2 DEF StickyInv, ForgottenLate
    <3> QED BY <1>5, <2>1, <3>1, ServerChoiceAssumption
  <2>3. CASE p \in DOMAIN went_to
    <3>1. PICK i \in 1..c : lru[i] = p
      BY <1>6, <2>3
    <3>2. d = 1 /\ i = 1
      <4>1. ASSUME i - d \in 1..e PROVE FALSE
        <5>1. i - d + d = i
          BY <1>10
        <5>2. lru'[i - d] = p
          BY <1>4, <1>13, <3>1, <4>1, <5>1
        <5> QED BY <1>12, <4>1, <5>2
      <4> QED BY <1>10, <1>11, <4>1
    <3>3. c = MaxCacheSize /\ e = c /\ u[1] = p
      BY <1>4, <1>10, <1>11, <3>1, <3>2
    <3> DEFINE f == [j \in 1..c |-> u[j + 1]]
    <3>4. f \in Injection(1..c, since'[p])
      <4>1. \A j \in 1..c : j + 1 \in 1..c + 1 /\ 1 \in 1..c + 1 /\ 1 < j + 1
        OBVIOUS
      <4>2. \A j \in 1..c : u[j + 1] \in since'[p]
        BY <1>9, <3>3, <4>1
      <4>3. \A j, k \in 1..c : u[j + 1] = u[k + 1] => j = k
        BY <1>8, <4>1
      <4>4. f \in [1..c -> since'[p]]
        BY <4>2
      <4>5. \A j, k \in 1..c : f[j] = f[k] => j = k
        BY <4>3
      <4> HIDE DEF f
      <4> QED BY <4>4, <4>5 DEF Injection, IsInjective
    <3> HIDE DEF f
    <3>5. Cardinality(1..c) <= Cardinality(since'[p])
      BY <1>5, <3>4, FS_Injection
    <3>6. Cardinality(1..c) = c
      <4>1. 1 \in Int /\ c \in Int /\ (IF 1 > c THEN 0 ELSE c - 1 + 1) = c
        OBVIOUS
      <4> QED BY <4>1, FS_Interval
    <3>7. Cardinality(since'[p]) \in Nat
      BY <1>5, FS_CardinalityType
    <3> QED BY <3>3, <3>5, <3>6, <3>7
  <2> QED BY <2>2, <2>3
<1> QED BY <1>1, <1>5, <1>15, <1>16, <1>17, <1>19, <1>20 DEF StickyInv

LEMMA StickyStutter == StickyInv /\ UNCHANGED choiceVars => StickyInv'
  BY DEF StickyInv, choiceVars, LruType, EntriesDiffer, SinceInOrder, RememberedIsLast, ForgottenLate, Entries

LEMMA StickyNext == StickyInv /\ [ChoiceNext]_choiceVars => StickyInv'
  BY StickyHit, StickyMiss, StickyStutter DEF ChoiceNext, _choose_server, ChoicesOver

\* AsyncLLMServerManager._choose_server: the turns of an episode go to the same server
\* as long as fewer than max_cache_size other requests have called since its last turn.
THEOREM StickySessionCorrect == ChoiceSpec => StickySession
<1> DEFINE Stays == \A q \in RequestIds :
              last[q] # {} /\ Cardinality(since[q]) < MaxCacheSize => last'[q] = last[q]
<1>1. StickyInv /\ [ChoiceNext]_choiceVars => Stays
  <2> SUFFICES ASSUME StickyInv, [ChoiceNext]_choiceVars, NEW q \in RequestIds,
                      last[q] # {}, Cardinality(since[q]) < MaxCacheSize
               PROVE  last'[q] = last[q]
    OBVIOUS
  <2>1. q \in DOMAIN went_to
    <3>1. Cardinality(since[q]) \in Nat
      BY FS_CardinalityType DEF StickyInv, LruType
    <3>2. ~(Cardinality(since[q]) >= MaxCacheSize)
      BY <3>1, ServerChoiceAssumption
    <3> QED BY <3>2 DEF StickyInv, ForgottenLate
  <2>2. ASSUME NEW p \in RequestIds, Hit(p) PROVE last'[q] = last[q]
    BY <2>2, StickyHit
  <2>3. ASSUME NEW p \in RequestIds, Miss(p) PROVE last'[q] = last[q]
    BY <2>1, <2>3, StickyMiss
  <2>4. CASE UNCHANGED choiceVars
    BY <2>4 DEF choiceVars
  <2> QED BY <2>2, <2>3, <2>4 DEF ChoiceNext, _choose_server, ChoicesOver
<1>2. StickyInv /\ [ChoiceNext]_choiceVars => [Stays]_choiceVars
  BY <1>1
<1> QED BY StickyInit, StickyNext, <1>2, PTL DEF ChoiceSpec, StickySession

\* A remembered request went to a server, and the calls are within their bound.
ChoiceTypes ==
    /\ StickyInv /\ SpreadInv
    /\ \A q \in DOMAIN went_to : went_to[q] \in LLMServers
    /\ choices \in 0..MaxChoices

LEMMA ChoiceTypesInit == ChoiceInit => ChoiceTypes
<1> SUFFICES ASSUME ChoiceInit PROVE ChoiceTypes
  OBVIOUS
<1>1. StickyInv /\ SpreadInv
  BY StickyInit, SpreadInit
<1>2. DOMAIN went_to = {} /\ choices \in 0..MaxChoices
  BY ServerChoiceAssumption DEF ChoiceInit
<1> QED  BY <1>1, <1>2 DEF ChoiceTypes

LEMMA ChoiceTypesNext == ChoiceTypes /\ [ChoiceNext]_choiceVars => ChoiceTypes'
<1> SUFFICES ASSUME ChoiceTypes, [ChoiceNext]_choiceVars PROVE ChoiceTypes'
  OBVIOUS
<1>1. StickyInv' /\ SpreadInv'
  BY StickyNext, SpreadNext DEF ChoiceTypes
<1>2. choices' \in 0..MaxChoices
  BY ServerChoiceAssumption
  DEF ChoiceTypes, ChoiceNext, _choose_server, Hit, Miss, CalledNow, ChoicesOver, choiceVars
<1>3. \A q \in DOMAIN went_to' : went_to'[q] \in LLMServers
  <2>1. ASSUME NEW q \in RequestIds, Miss(q)
        PROVE  \A p \in DOMAIN went_to' : went_to'[p] \in LLMServers
    <3>1. PICK s \in LLMServers :
            went_to' = [p \in ToSet(Remembered(q)) |-> IF p = q THEN s ELSE went_to[p]]
      BY <2>1 DEF Miss, Least
    <3>2. DOMAIN went_to' = ToSet(Remembered(q))
      BY <3>1
    <3>3. ASSUME NEW p \in ToSet(Remembered(q)), p # q PROVE p \in DOMAIN went_to
      <4> DEFINE u == Append(lru, q)
      <4>1. lru \in Seq(RequestIds) /\ \A r : r \in DOMAIN went_to <=> \E i \in 1..Len(lru) : lru[i] = r
        BY DEF ChoiceTypes, StickyInv, LruType, Entries
      <4>2. /\ u \in Seq(RequestIds) /\ Len(u) = Len(lru) + 1
            /\ \A i \in 1..Len(lru) : u[i] = lru[i]
            /\ u[Len(lru) + 1] = q
        BY <4>1, AppendProperties
      <4>3. Remembered(q) = IF Len(u) > MaxCacheSize THEN Tail(u) ELSE u
        BY <2>1 DEF Miss, Remembered, UsedNow
      <4> HIDE DEF u
      <4>4. PICK i \in 1..Len(u) : u[i] = p
        <5>1. u # <<>> /\ Len(lru) \in Nat
          BY <4>1, <4>2
        <5>2. CASE Len(u) > MaxCacheSize
          <6>1. PICK j \in DOMAIN Tail(u) : Tail(u)[j] = p
            BY <3>3, <4>3, <5>2 DEF ToSet
          <6>2. j \in 1..Len(u) - 1 /\ Tail(u)[j] = u[j + 1]
            BY <4>2, <5>1, <6>1
          <6>3. j + 1 \in 1..Len(u)
            BY <6>2, <4>2, <5>1
          <6> QED  BY <6>1, <6>2, <6>3
        <5>3. CASE ~(Len(u) > MaxCacheSize)
          <6>1. DOMAIN u = 1..Len(u)
            BY <4>2
          <6> QED  BY <3>3, <4>3, <5>3, <6>1 DEF ToSet
        <5> QED  BY <5>2, <5>3
      <4>5. i \in 1..Len(lru)
        <5>1. i # Len(lru) + 1 /\ Len(lru) \in Nat
          BY <4>1, <4>2, <4>4, <3>3
        <5> QED  BY <5>1, <4>2
      <4> QED  BY <4>1, <4>2, <4>4, <4>5
    <3>4. \A p \in DOMAIN went_to : went_to[p] \in LLMServers
      BY DEF ChoiceTypes
    <3> QED  BY <3>1, <3>2, <3>3, <3>4
  <2>2. CASE went_to' = went_to
    BY <2>2 DEF ChoiceTypes
  <2> QED  BY <2>1, <2>2 DEF ChoiceNext, _choose_server, Hit, ChoicesOver, choiceVars
<1> QED  BY <1>1, <1>2, <1>3 DEF ChoiceTypes

\* AsyncLLMServerManager: the state keeps its types, and the memory its size.
THEOREM ChoiceTypeCorrect == ChoiceSpec => []ChoiceTypeOK
<1>1. ChoiceTypes => ChoiceTypeOK
  <2> SUFFICES ASSUME ChoiceTypes PROVE ChoiceTypeOK
    OBVIOUS
  <2>1. DOMAIN went_to = ToSet(lru) /\ ToSet(lru) \subseteq RequestIds
    <3>1. lru \in Seq(RequestIds) /\ \A q : q \in DOMAIN went_to <=> \E i \in 1..Len(lru) : lru[i] = q
      BY DEF ChoiceTypes, StickyInv, LruType, Entries
    <3>2. DOMAIN lru = 1..Len(lru) /\ \A i \in 1..Len(lru) : lru[i] \in RequestIds
      BY <3>1
    <3> QED  BY <3>1, <3>2 DEF ToSet
  <2> QED  BY <2>1 DEF ChoiceTypes, StickyInv, LruType, SpreadInv, WeightType, ChoiceTypeOK
<1> QED  BY ChoiceTypesInit, ChoiceTypesNext, <1>1, PTL DEF ChoiceSpec

-----------------------------------------------------------------------------
(* NaiveRouter *)

\* A request has a worker from the moment one is selected for it.
Placed == \A q \in HttpRequests : request[q].worker \in Workers <=> request[q].at # "new"

\* Only an attempt that is not the last one is followed by a sleep.
Slept == \A q \in HttpRequests : request[q].at = "sleeping" => request[q].attempt < max_attempts - 1

RouterInv == RouterTypeOK /\ Placed /\ Slept /\ CountIsBurden

LEMMA BurdenFinite ==
    \A w : IsFiniteSet(Burden(w)) /\ Cardinality(Burden(w)) \in Nat
<1> TAKE w
<1>1. Burden(w) \subseteq HttpRequests
  BY DEF Burden
<1> QED  BY <1>1, RouterAssumption, FS_Subset, FS_CardinalityType

LEMMA RouterInitInv == RouterInit => RouterInv
<1> SUFFICES ASSUME RouterInit PROVE RouterInv
  OBVIOUS
<1>1. RouterTypeOK
  BY RouterAssumption DEF RouterInit, RouterTypeOK, Unsent
<1>2. Placed /\ Slept
  BY RouterAssumption DEF RouterInit, Placed, Slept, Unsent
<1>3. ASSUME NEW w \in Workers PROVE request_counts[w] = Cardinality(Burden(w))
  <2>1. Burden(w) = {}
    BY RouterAssumption DEF RouterInit, Burden, Unsent
  <2> QED  BY <2>1, FS_EmptySet DEF RouterInit
<1> QED  BY <1>1, <1>2, <1>3 DEF RouterInv, CountIsBurden

\* A selection adds the request to the burden of the worker it counts.
LEMMA SelectKeeps ==
    ASSUME RouterInv, NEW q \in HttpRequests, _select_worker(q)
    PROVE  RouterInv'
<1>1. PICK w \in LeastBusy :
        /\ request_counts' = [request_counts EXCEPT ![w] = @ + 1]
        /\ request' = [request EXCEPT ![q] = [at |-> "body", worker |-> w, attempt |-> 0]]
  BY DEF _select_worker
<1>2. w \in Workers /\ request[q].at = "new" /\ request[q].worker \notin Workers
  BY <1>1 DEF LeastBusy, _select_worker, RouterInv, Placed
<1>3. RouterTypeOK'
  BY <1>1, <1>2, RouterAssumption DEF RouterInv, RouterTypeOK, Ended
<1>4. Placed' /\ Slept'
  BY <1>1, <1>2 DEF RouterInv, Placed, Slept, RouterTypeOK
<1>5. ASSUME NEW v \in Workers PROVE request_counts'[v] = Cardinality(Burden(v)')
  <2>1. CASE v = w
    <3>1. Burden(v)' = Burden(v) \union {q} /\ q \notin Burden(v)
      BY <1>1, <1>2, <2>1 DEF Burden, RouterInv, RouterTypeOK
    <3>2. Cardinality(Burden(v)') = Cardinality(Burden(v)) + 1
      BY <3>1, BurdenFinite, FS_AddElement
    <3> QED  BY <3>2, <1>1, <2>1 DEF RouterInv, RouterTypeOK, CountIsBurden
  <2>2. CASE v # w
    <3>1. Burden(v)' = Burden(v)
      BY <1>1, <1>2, <2>2 DEF Burden, RouterInv, RouterTypeOK
    <3> QED  BY <3>1, <1>1, <2>2 DEF RouterInv, RouterTypeOK, CountIsBurden
  <2> QED  BY <2>1, <2>2
<1> QED  BY <1>3, <1>4, <1>5 DEF RouterInv, CountIsBurden

\* An answer takes the request off both; the floor of zero is not met, since the
\* request itself is in the burden.
LEMMA SuccessKeeps ==
    ASSUME RouterInv, NEW q \in HttpRequests, Succeeds(q)
    PROVE  RouterInv'
<1> DEFINE w == request[q].worker
<1>1. /\ w \in Workers /\ request[q].at = "trying"
      /\ request' = [request EXCEPT ![q].at = "answered"]
  BY DEF Succeeds, Becomes, RouterInv, Placed
<1>2. request_counts' = [request_counts EXCEPT ![w] = IF @ > 0 THEN @ - 1 ELSE 0]
  BY DEF Succeeds, ReleaseWorker
<1>3. q \in Burden(w)
  BY <1>1 DEF Burden
<1>4. Cardinality(Burden(w)) \in Nat \ {0}
  BY <1>3, BurdenFinite, FS_EmptySet
<1>5. request_counts[w] = Cardinality(Burden(w))
  BY <1>1 DEF RouterInv, CountIsBurden
<1> HIDE DEF w
<1>6. RouterTypeOK'
  BY <1>1, <1>2 DEF RouterInv, RouterTypeOK, Ended
<1>7. Placed' /\ Slept'
  BY <1>1 DEF RouterInv, Placed, Slept, RouterTypeOK
<1>8. ASSUME NEW v \in Workers PROVE request_counts'[v] = Cardinality(Burden(v)')
  <2>1. CASE v = w
    <3>1. Burden(v)' = Burden(v) \ {q}
      BY <1>1, <2>1 DEF Burden, RouterInv, RouterTypeOK
    <3>2. Cardinality(Burden(v)') = Cardinality(Burden(v)) - 1
      BY <3>1, <2>1, <1>3, BurdenFinite, FS_RemoveElement
    <3>3. request_counts'[v] = request_counts[w] - 1
      BY <1>1, <1>2, <1>4, <1>5, <2>1 DEF RouterInv, RouterTypeOK
    <3> QED  BY <3>2, <3>3, <1>5, <2>1
  <2>2. CASE v # w
    <3>1. Burden(v)' = Burden(v)
      BY <1>1, <2>2 DEF w, Burden, RouterInv, RouterTypeOK
    <3> QED  BY <3>1, <1>2, <2>2 DEF RouterInv, RouterTypeOK, CountIsBurden
  <2> QED  BY <2>1, <2>2
<1> QED  BY <1>6, <1>7, <1>8 DEF RouterInv, CountIsBurden

\* Every other step of a request that has a worker leaves it a burden.
LEMMA OtherKeeps ==
    ASSUME RouterInv, NEW q \in HttpRequests,
           request[q].at # "new", request[q].at # "answered", UNCHANGED request_counts,
           NEW at \in {"trying", "sleeping", "raised"}, NEW attempt \in 0..max_attempts - 1,
           request' = [request EXCEPT ![q].at = at, ![q].attempt = attempt],
           at = "sleeping" => attempt < max_attempts - 1
    PROVE  RouterInv'
<1>1. RouterTypeOK'
  BY DEF RouterInv, RouterTypeOK, Ended
<1>2. Placed' /\ Slept'
  BY DEF RouterInv, RouterTypeOK, Placed, Slept
<1>3. ASSUME NEW v \in Workers PROVE Burden(v)' = Burden(v)
  BY DEF Burden, RouterInv, RouterTypeOK
<1> QED  BY <1>1, <1>2, <1>3 DEF RouterInv, CountIsBurden

LEMMA RequestKeeps ==
    ASSUME RouterInv, NEW q \in HttpRequests, _make_async_request(q)
    PROVE  RouterInv'
<1>1. request[q].attempt \in 0..max_attempts - 1
  BY DEF RouterInv, RouterTypeOK
<1>2. ASSUME NEW at, Becomes(q, at)
      PROVE  request' = [request EXCEPT ![q].at = at, ![q].attempt = request[q].attempt]
  BY <1>2 DEF Becomes, RouterInv, RouterTypeOK
<1>3. CASE _select_worker(q)
  BY <1>3, SelectKeeps
<1>4. CASE ReadBody(q)
  BY <1>1, <1>2, <1>4, OtherKeeps DEF ReadBody
<1>5. CASE Succeeds(q)
  BY <1>5, SuccessKeeps
<1>6. CASE HttpError(q)
  BY <1>1, <1>2, <1>6, OtherKeeps DEF HttpError
<1>7. CASE AttemptFails(q)
  <2>1. PICK at \in {"sleeping", "raised"} :
           Becomes(q, at) /\ (at = "sleeping" => request[q].attempt < max_attempts - 1)
    BY <1>7 DEF AttemptFails
  <2>2. request[q].at = "trying" /\ UNCHANGED request_counts
    BY <1>7 DEF AttemptFails
  <2>3. request' = [request EXCEPT ![q].at = at, ![q].attempt = request[q].attempt]
    BY <1>2, <2>1
  <2> HIDE <1>7
  <2>4. at \in {"trying", "sleeping", "raised"} /\ request[q].at \notin {"new", "answered"}
    BY <2>2
  <2> QED  BY <1>1, <2>1, <2>2, <2>3, <2>4, OtherKeeps
<1>8. CASE Retry(q)
  <2>1. request[q].at = "sleeping" /\ UNCHANGED request_counts
    BY <1>8 DEF Retry
  <2>2. request' = [request EXCEPT ![q].at = "trying", ![q].attempt = request[q].attempt + 1]
    BY <1>8 DEF Retry
  <2>3. request[q].attempt + 1 \in 0..max_attempts - 1
    BY <1>1, <2>1, RouterAssumption DEF RouterInv, Slept
  <2> QED  BY <2>1, <2>2, <2>3, OtherKeeps
<1> QED  BY <1>3, <1>4, <1>5, <1>6, <1>7, <1>8 DEF _make_async_request

LEMMA RouterNextInv == RouterInv /\ [RouterNext]_routerVars => RouterInv'
<1> SUFFICES ASSUME RouterInv, [RouterNext]_routerVars PROVE RouterInv'
  OBVIOUS
<1>1. CASE \E q \in HttpRequests : _make_async_request(q)
  BY <1>1, RequestKeeps
<1>2. CASE UNCHANGED routerVars
  BY <1>2 DEF routerVars, RouterInv, RouterTypeOK, Placed, Slept, CountIsBurden, Burden
<1> QED  BY <1>1, <1>2 DEF RouterNext, RouterOver

\* NaiveRouter: through answers, retries and failures in any order, a worker's
\* request count is the number of requests that burden it.
THEOREM CountIsBurdenCorrect == RouterSpec => []CountIsBurden
<1>1. RouterInv => CountIsBurden  BY DEF RouterInv
<1> QED  BY RouterInitInv, RouterNextInv, <1>1, PTL DEF RouterSpec

\* NaiveRouter: the state keeps its types, and no count falls below zero.
THEOREM RouterTypeCorrect == RouterSpec => []RouterTypeOK
<1>1. RouterInv => RouterTypeOK  BY DEF RouterInv
<1> QED  BY RouterInitInv, RouterNextInv, <1>1, PTL DEF RouterSpec

-----------------------------------------------------------------------------
(* RateLimit *)

\* The calls of acquire in the actor are those of different executions, all of
\* which still wait; a release on its way is that of an execution that has ended.
CallsMatch ==
    /\ \A i \in 1..Len(acquiring) : execution[acquiring[i]] = "asking"
    /\ \A i, j \in 1..Len(acquiring) : i # j => acquiring[i] # acquiring[j]
    /\ \A e \in releasing : execution[e] \in {"result", "None"}

LimitInv == LimitTypeOK /\ CallsMatch /\ PermitsConserved

LEMMA HoldersFinite ==
    ASSUME LimitTypeOK
    PROVE  /\ IsFiniteSet(Running) /\ Cardinality(Running) \in Nat
           /\ IsFiniteSet(releasing) /\ Cardinality(releasing) \in Nat
<1>1. Running \subseteq Executions /\ releasing \subseteq Executions
  BY DEF LimitTypeOK, Running
<1> QED  BY <1>1, RateLimitAssumption, FS_Subset, FS_CardinalityType

LEMMA LimitInitInv == LimitInit => LimitInv
<1> SUFFICES ASSUME LimitInit PROVE LimitInv
  OBVIOUS
<1>1. LimitTypeOK /\ CallsMatch
  BY DEF LimitInit, LimitTypeOK, CallsMatch
<1>2. Running = {} /\ releasing = {}
  BY DEF LimitInit, Running
<1>3. PermitsConserved
  BY <1>2, FS_EmptySet DEF LimitInit, PermitsConserved
<1> QED  BY <1>1, <1>3 DEF LimitInv

\* Before the actor exists there is no permit anywhere.
LEMMA CreateKeeps ==
    ASSUME LimitInv, NEW t \in Tools, CreateTool(t)
    PROVE  LimitInv'
<1>1. rate_limit[t] \in Nat
  BY RateLimitAssumption
<1>2. LimitTypeOK' /\ CallsMatch'
  BY <1>1 DEF LimitInv, LimitTypeOK, CallsMatch, CreateTool
<1>3. Running' = Running /\ releasing' = releasing
  BY DEF CreateTool, Running
<1>4. PermitsConserved'
  BY <1>1, <1>3, HoldersFinite DEF LimitInv, LimitTypeOK, PermitsConserved, CreateTool
<1> QED  BY <1>2, <1>4 DEF LimitInv

LEMMA AskKeeps ==
    ASSUME LimitInv, NEW e \in Executions, Ask(e)
    PROVE  LimitInv'
<1>1. /\ execution[e] = "new" /\ execution' = [execution EXCEPT ![e] = "asking"]
      /\ acquiring' = Append(acquiring, e)
      /\ UNCHANGED <<limiter, created, permits, releasing>>
  BY DEF Ask
<1>2. LimitTypeOK'
  BY <1>1 DEF LimitInv, LimitTypeOK
<1>3. CallsMatch'
  BY <1>1 DEF LimitInv, LimitTypeOK, CallsMatch
<1>4. Running' = Running
  BY <1>1 DEF LimitInv, LimitTypeOK, Running
<1> QED  BY <1>1, <1>2, <1>3, <1>4 DEF LimitInv, PermitsConserved

\* A permit goes from the semaphore to the execution at the head of the queue.
LEMMA AcquireKeeps ==
    ASSUME LimitInv, acquire
    PROVE  LimitInv'
<1> DEFINE e == Head(acquiring)
<1>1. /\ e \in Executions /\ e = acquiring[1] /\ 1 \in 1..Len(acquiring) /\ execution[e] = "asking"
  BY DEF acquire, LimitInv, LimitTypeOK, CallsMatch
<1>2. /\ execution' = [execution EXCEPT ![e] = "running"]
      /\ permits > 0 /\ permits' = permits - 1
      /\ acquiring' = Tail(acquiring) /\ acquiring # <<>>
      /\ UNCHANGED <<limiter, created, releasing>>
  BY DEF acquire, MayAcquire
<1> HIDE DEF e
<1>3. /\ Len(acquiring') = Len(acquiring) - 1 /\ Len(acquiring) \in Nat
      /\ \A i \in 1..Len(acquiring') : acquiring'[i] = acquiring[i + 1] /\ i + 1 \in 1..Len(acquiring)
  BY <1>2 DEF LimitInv, LimitTypeOK
<1>4. LimitTypeOK'
  BY <1>1, <1>2 DEF LimitInv, LimitTypeOK
<1>5. CallsMatch'
  <2>1. ASSUME NEW i \in 1..Len(acquiring') PROVE execution'[acquiring'[i]] = "asking"
    <3>1. acquiring[i + 1] \in Executions /\ acquiring[i + 1] # e /\ execution[acquiring[i + 1]] = "asking"
      BY <1>1, <1>3 DEF LimitInv, LimitTypeOK, CallsMatch
    <3> QED  BY <3>1, <1>2, <1>3 DEF LimitInv, LimitTypeOK
  <2>2. ASSUME NEW i \in 1..Len(acquiring'), NEW j \in 1..Len(acquiring'), i # j
        PROVE  acquiring'[i] # acquiring'[j]
    BY <2>2, <1>3 DEF LimitInv, CallsMatch
  <2>3. \A f \in releasing : f # e
    BY <1>1 DEF LimitInv, CallsMatch
  <2> QED  BY <1>2, <2>1, <2>2, <2>3 DEF LimitInv, LimitTypeOK, CallsMatch
<1>6. Running' = Running \union {e} /\ e \notin Running
  BY <1>1, <1>2 DEF LimitInv, LimitTypeOK, Running
<1>7. Cardinality(Running') = Cardinality(Running) + 1
  BY <1>6, HoldersFinite, FS_AddElement DEF LimitInv
<1>8. PermitsConserved'
  BY <1>2, <1>7, HoldersFinite DEF LimitInv, LimitTypeOK, PermitsConserved
<1> QED  BY <1>4, <1>5, <1>8 DEF LimitInv

\* Whatever fn did, the permit it ran with is on its way back.
LEMMA FinishKeeps ==
    ASSUME LimitInv, NEW e \in Executions, NEW o \in {"result", "None"}, Finish(e, o)
    PROVE  LimitInv'
<1>1. /\ execution[e] = "running" /\ execution' = [execution EXCEPT ![e] = o]
      /\ releasing' = releasing \union {e}
      /\ UNCHANGED <<limiter, created, permits, acquiring>>
  BY DEF Finish, ReleasedBy
<1>2. LimitTypeOK'
  BY <1>1 DEF LimitInv, LimitTypeOK
<1>3. CallsMatch'
  BY <1>1 DEF LimitInv, LimitTypeOK, CallsMatch
<1>4. Running' = Running \ {e} /\ e \in Running /\ e \notin releasing
  BY <1>1 DEF LimitInv, LimitTypeOK, CallsMatch, Running
<1>5. Cardinality(Running') = Cardinality(Running) - 1
  BY <1>4, HoldersFinite, FS_RemoveElement DEF LimitInv
<1>6. Cardinality(releasing') = Cardinality(releasing) + 1
  BY <1>1, <1>4, HoldersFinite, FS_AddElement DEF LimitInv
<1>7. PermitsConserved'
  BY <1>1, <1>5, <1>6, HoldersFinite DEF LimitInv, LimitTypeOK, PermitsConserved
<1> QED  BY <1>2, <1>3, <1>7 DEF LimitInv

LEMMA ReleaseKeeps ==
    ASSUME LimitInv, NEW e \in Executions, release(e)
    PROVE  LimitInv'
<1>1. /\ e \in releasing /\ releasing' = releasing \ {e} /\ permits' = permits + 1
      /\ UNCHANGED <<limiter, created, acquiring, execution>>
  BY DEF release
<1>2. LimitTypeOK' /\ CallsMatch' /\ Running' = Running
  BY <1>1 DEF LimitInv, LimitTypeOK, CallsMatch, Running
<1>3. Cardinality(releasing') = Cardinality(releasing) - 1
  BY <1>1, HoldersFinite, FS_RemoveElement DEF LimitInv
<1>4. PermitsConserved'
  BY <1>1, <1>2, <1>3, HoldersFinite DEF LimitInv, LimitTypeOK, PermitsConserved
<1> QED  BY <1>2, <1>4 DEF LimitInv

LEMMA LimitNextInv == LimitInv /\ [LimitNext]_limitVars => LimitInv'
<1> SUFFICES ASSUME LimitInv, [LimitNext]_limitVars PROVE LimitInv'
  OBVIOUS
<1>1. CASE LimitStep
  BY <1>1, CreateKeeps, AskKeeps, AcquireKeeps, FinishKeeps, ReleaseKeeps DEF LimitStep
<1>2. CASE UNCHANGED limitVars
  BY <1>2 DEF limitVars, LimitInv, LimitTypeOK, CallsMatch, PermitsConserved, Running
<1> QED  BY <1>1, <1>2 DEF LimitNext, LimitOver

\* TokenBucketWorker and the execution workers: whichever functions raise and in
\* whatever order acquire and release are served, every permit is in the
\* semaphore, with a running execution or on its way back.
THEOREM PermitsConservedCorrect == LimitSpec => []PermitsConserved
<1>1. LimitInv => PermitsConserved  BY DEF LimitInv
<1> QED  BY LimitInitInv, LimitNextInv, <1>1, PTL DEF LimitSpec

\* The rate limiter keeps its types.
THEOREM LimitTypeCorrect == LimitSpec => []LimitTypeOK
<1>1. LimitInv => LimitTypeOK  BY DEF LimitInv
<1> QED  BY LimitInitInv, LimitNextInv, <1>1, PTL DEF LimitSpec

-----------------------------------------------------------------------------
(* ToolAgent *)

USE ToolAgentAssumption

Bits == {0, 1}
CallStates == {"called", "created", "release_answer", "release_error", "answer", "error"}

LEMMA TokensAre ==
    ASSUME NEW T, NEW origin \in T, NEW k \in Nat
    PROVE  /\ Tokens(origin, k) \in Seq(T) /\ Len(Tokens(origin, k)) = k
           /\ \A i \in 1..k : Tokens(origin, k)[i] = origin
BY DEF Tokens

LEMMA ConcatAre ==
    ASSUME NEW T, NEW s \in Seq(T), NEW t \in Seq(T)
    PROVE  /\ s \o t \in Seq(T) /\ Len(s \o t) = Len(s) + Len(t)
           /\ \A i \in 1..Len(s) : (s \o t)[i] = s[i]
           /\ \A i \in 1..Len(t) : (s \o t)[Len(s) + i] = t[i]
OBVIOUS

-----------------------------------------------------------------------------
(* The calls of a turn, and the instances they have created.                *)

\* A call holds an instance from its creation to its release; when the tools are
\* not being processed every call there is has come to its end.
CallInv ==
    /\ tool_call \in Seq(CallStates) /\ Len(tool_call) <= max_parallel_calls
    /\ instances = {i \in DOMAIN tool_call : tool_call[i] \in {"created", "release_answer", "release_error"}}
    /\ state # "processing_tools" => \A i \in DOMAIN tool_call : tool_call[i] \in {"answer", "error"}

LEMMA CallInit == AgentInit => CallInv
BY DEF AgentInit, CallInv

\* One call goes on; the state of the episode stays.
LEMMA CallStep ==
    ASSUME CallInv, NEW i \in DOMAIN tool_call, NEW to \in CallStates,
           tool_call[i] \notin {"answer", "error"},
           tool_call' = [tool_call EXCEPT ![i] = to], state' = state,
           instances' = IF to \in {"created", "release_answer", "release_error"}
                        THEN instances \union {i} ELSE instances \ {i}
    PROVE  CallInv'
<1>1. tool_call \in Seq(CallStates) /\ i \in 1..Len(tool_call)
  BY DEF CallInv
<1>2. /\ tool_call' \in Seq(CallStates) /\ Len(tool_call') = Len(tool_call)
      /\ DOMAIN tool_call' = DOMAIN tool_call
      /\ tool_call'[i] = to /\ \A j \in DOMAIN tool_call : j # i => tool_call'[j] = tool_call[j]
  BY <1>1
<1>3. state = "processing_tools"
  BY DEF CallInv
<1>4. instances' = {j \in DOMAIN tool_call' :
                      tool_call'[j] \in {"created", "release_answer", "release_error"}}
  BY <1>2 DEF CallInv
<1> QED  BY <1>2, <1>3, <1>4 DEF CallInv

LEMMA CallToolKeeps == ASSUME CallInv, NEW i \in DOMAIN tool_call, _call_tool(i) PROVE CallInv'
<1>1. tool_call[i] \in CallStates /\ (i \in instances <=>
                 tool_call[i] \in {"created", "release_answer", "release_error"})
  BY DEF CallInv
<1>2. state' = state
  BY DEF _call_tool, CreateInstance, ExecuteTool, ReleaseInstance, OnlyTools
<1>3. CASE CreateInstance(i)
  <2>1. CASE Advances(i, "called", "created") /\ instances' = instances \union {i}
    BY <2>1, <1>2, CallStep DEF Advances, CallStates
  <2>2. CASE Advances(i, "called", "error") /\ instances' = instances
    <3>1. instances' = instances \ {i} /\ tool_call[i] = "called"
      BY <2>2, <1>1 DEF Advances
    <3> QED  BY <2>2, <3>1, <1>2, CallStep DEF Advances, CallStates
  <2> QED  BY <1>3, <2>1, <2>2 DEF CreateInstance
<1>4. CASE ExecuteTool(i)
  <2>1. instances' = instances \union {i} /\ tool_call[i] = "created"
    BY <1>4, <1>1 DEF ExecuteTool, Advances
  <2>2. PICK to \in {"release_answer", "release_error"} : tool_call' = [tool_call EXCEPT ![i] = to]
    BY <1>4 DEF ExecuteTool, Advances, AfterRaise
  <2> QED  BY <2>1, <2>2, <1>2, CallStep DEF CallStates
<1>5. CASE ReleaseInstance(i)
  <2>1. instances' = instances \ {i} /\ tool_call[i] \in {"release_answer", "release_error"}
    BY <1>5 DEF ReleaseInstance, Advances
  <2>2. PICK to \in {"answer", "error"} : tool_call' = [tool_call EXCEPT ![i] = to]
    BY <1>5 DEF ReleaseInstance, Advances
  <2> QED  BY <2>1, <2>2, <1>2, CallStep DEF CallStates
<1> QED  BY <1>3, <1>4, <1>5 DEF _call_tool

\* A turn of the model begins when no call holds an instance.
LEMMA CallGenerating == CallInv /\ _handle_generating_state => CallInv'
<1> SUFFICES ASSUME CallInv, _handle_generating_state PROVE CallInv'
  OBVIOUS
<1>1. instances' = {}
  BY DEF _handle_generating_state, CallInv
<1>2. \/ tool_call' = <<>>
      \/ \E k \in 0..max_parallel_calls : /\ tool_call' = Tokens("called", k)
                                          /\ k > 0 => state' = "processing_tools"
  <2> PICK called \in 0..MaxToolCalls : AfterGenerating(called)
    BY DEF _handle_generating_state
  <2> DEFINE k == IF called < max_parallel_calls THEN called ELSE max_parallel_calls
  <2>1. k \in 0..max_parallel_calls /\ (k > 0 => called > 0)
    OBVIOUS
  <2> QED  BY <2>1 DEF AfterGenerating
<1>3. CASE tool_call' = <<>>
  BY <1>1, <1>3 DEF CallInv
<1>4. ASSUME NEW k \in 0..max_parallel_calls, tool_call' = Tokens("called", k),
             k > 0 => state' = "processing_tools"
      PROVE  CallInv'
  <2>1. /\ tool_call' \in Seq(CallStates) /\ Len(tool_call') = k
        /\ \A i \in 1..k : tool_call'[i] = "called"
    <3>1. k \in Nat /\ "called" \in CallStates
      BY DEF CallStates
    <3> QED  BY <3>1, <1>4, TokensAre
  <2>2. DOMAIN tool_call' = 1..k
    BY <2>1
  <2> QED  BY <1>1, <1>4, <2>1, <2>2 DEF CallInv
<1> QED  BY <1>2, <1>3, <1>4

\* The other handlers leave the calls alone, or drop those that have ended.
LEMMA CallOthers ==
    ASSUME CallInv, \/ _handle_pending_state \/ EngineRejects \/ _handle_processing_tools_state
                    \/ MediaRaise \/ _handle_interacting_state \/ ExternalRaise
    PROVE  CallInv'
<1>1. \/ UNCHANGED toolVars /\ (state # "processing_tools" \/ CallsReturned)
      \/ tool_call' = <<>> /\ instances' = instances /\ CallsReturned
  BY DEF _handle_pending_state, EngineRejects, _handle_processing_tools_state, MediaRaise,
         _handle_interacting_state, ExternalRaise
<1>2. CallsReturned => instances = {}
  BY DEF CallInv, CallsReturned
<1>3. CASE UNCHANGED toolVars /\ (state # "processing_tools" \/ CallsReturned)
  BY <1>3 DEF CallInv, CallsReturned, toolVars
<1>4. CASE tool_call' = <<>> /\ instances' = instances /\ CallsReturned
  BY <1>4, <1>2 DEF CallInv
<1> QED  BY <1>1, <1>3, <1>4

LEMMA CallNext == CallInv /\ [AgentNext]_agentVars => CallInv'
<1> SUFFICES ASSUME CallInv, [AgentNext]_agentVars PROVE CallInv'
  OBVIOUS
<1>1. CASE UNCHANGED agentVars
  BY <1>1 DEF agentVars, toolVars, CallInv
<1>2. CASE AgentStep
  BY <1>2, CallToolKeeps, CallGenerating, CallOthers DEF AgentStep
<1> QED  BY <1>1, <1>2 DEF AgentNext, EpisodeOver

\* ToolAgentLoop._call_tool: whatever fails in a call, its instance is released
\* before the model generates again or the episode ends.
THEOREM InstancesReleasedCorrect == AgentSpec => []InstancesReleased
<1>1. CallInv => InstancesReleased
  BY DEF CallInv, InstancesReleased
<1> QED  BY CallInit, CallNext, <1>1, PTL DEF AgentSpec

-----------------------------------------------------------------------------
(* The prompt, the mask and the log probabilities.                          *)

TextType ==
    /\ setup \in Setups
    /\ state \in {"pending", "generating", "processing_tools", "interacting",
                  "terminated", "rejected", "raised"}
    /\ prompt_ids \in Seq(Origins) /\ response_mask \in Seq(Bits) /\ response_logprobs \in Seq(Bits)

\* The mask is as long as what follows the first prompt, and marks the model's
\* tokens in it; the log probabilities have values at the same places.
Marked(ids, mask, logprobs) ==
    /\ Len(ids) = setup.prompt + Len(mask)
    /\ \A i \in 1..setup.prompt : ids[i] = "prompt"
    /\ \A i \in 1..Len(mask) : mask[i] = IF ids[setup.prompt + i] = "model" THEN 1 ELSE 0
    /\ logprobs = IF setup.logprobs THEN mask ELSE <<>>

TextInv ==
    /\ TextType
    /\ state = "pending" => response_mask = <<>> /\ response_logprobs = <<>>
    /\ state # "pending" => Marked(prompt_ids, response_mask, response_logprobs)
    \* Tools and users answer a model that has spoken.
    /\ state \in {"processing_tools", "interacting"} => response_mask # <<>>
    /\ state = "interacting" => setup.interaction
    /\ state = "rejected" => setup.interaction \/ setup.prompt > prompt_length
    /\ state = "generating" /\ ~setup.interaction => Len(response_mask) < response_length

LEMMA TextInit == AgentInit => TextInv
BY DEF AgentInit, TextInv, TextType, Bits

\* What is appended to the prompt is marked in the mask.
LEMMA MarkedAppend ==
    ASSUME TextType, Marked(prompt_ids, response_mask, response_logprobs),
           NEW ids \in Seq(Origins), NEW mask \in Seq(Bits), Len(mask) = Len(ids),
           \A i \in 1..Len(ids) : mask[i] = IF ids[i] = "model" THEN 1 ELSE 0,
           NEW logprobs, logprobs = IF setup.logprobs THEN response_mask \o mask ELSE <<>>
    PROVE  /\ Marked(prompt_ids \o ids, response_mask \o mask, logprobs)
           /\ prompt_ids \o ids \in Seq(Origins) /\ response_mask \o mask \in Seq(Bits)
           /\ Len(response_mask \o mask) = Len(response_mask) + Len(mask)
<1> DEFINE p == setup.prompt
           k == Len(response_mask)
           newIds == prompt_ids \o ids
           newMask == response_mask \o mask
<1>1. p \in Nat
  <2>1. setup.prompt \in InitialPrompts
    BY DEF TextType, Setups
  <2>2. InitialPrompts \subseteq Nat
    BY DEF ToolAgentAssumption
  <2> QED  BY <2>1, <2>2
<1>2. prompt_ids \in Seq(Origins) /\ response_mask \in Seq(Bits)
  BY DEF TextType
<1>3. Len(prompt_ids) = p + k /\ k \in Nat /\ Len(ids) \in Nat
  BY <1>2 DEF Marked
<1>4. /\ newIds \in Seq(Origins) /\ Len(newIds) = Len(prompt_ids) + Len(ids)
      /\ \A i \in 1..Len(prompt_ids) : newIds[i] = prompt_ids[i]
      /\ \A i \in 1..Len(ids) : newIds[Len(prompt_ids) + i] = ids[i]
  BY <1>2
<1>5. /\ newMask \in Seq(Bits) /\ Len(newMask) = k + Len(ids)
      /\ \A i \in 1..k : newMask[i] = response_mask[i]
      /\ \A i \in 1..Len(ids) : newMask[k + i] = mask[i]
  <2>1. mask \in Seq(Bits) /\ response_mask \in Seq(Bits)
    BY <1>2
  <2>2. newMask \in Seq(Bits) /\ Len(newMask) = Len(response_mask) + Len(mask)
    BY <2>1, ConcatAre
  <2>3. \A i \in 1..Len(response_mask) : newMask[i] = response_mask[i]
    BY <2>1, ConcatAre
  <2>4. \A i \in 1..Len(mask) : newMask[Len(response_mask) + i] = mask[i]
    BY <2>1, ConcatAre
  <2> HIDE DEF newMask
  <2> QED  BY <2>2, <2>3, <2>4
<1> HIDE DEF newIds, newMask
<1>6. \A i \in 1..p : newIds[i] = "prompt"
  <2>1. \A i \in 1..p : i \in 1..Len(prompt_ids) /\ prompt_ids[i] = "prompt"
    BY <1>1, <1>3 DEF Marked
  <2> QED  BY <2>1, <1>4
<1>7. ASSUME NEW i \in 1..Len(newMask)
      PROVE  newMask[i] = IF newIds[p + i] = "model" THEN 1 ELSE 0
  <2>1. CASE i <= k
    <3>1. i \in 1..k /\ p + i \in 1..Len(prompt_ids)
      BY <2>1, <1>1, <1>3, <1>5
    <3> QED  BY <3>1, <1>4, <1>5 DEF Marked
  <2>2. CASE i > k
    <3>1. i - k \in 1..Len(ids) /\ k + (i - k) = i /\ Len(prompt_ids) + (i - k) = p + i
      BY <2>2, <1>1, <1>3, <1>5
    <3> HIDE DEF p, k
    <3>2. newMask[k + (i - k)] = mask[i - k] /\ newIds[Len(prompt_ids) + (i - k)] = ids[i - k]
      BY <3>1, <1>4, <1>5
    <3> QED  BY <3>1, <3>2
  <2>3. i <= k \/ i > k
    BY <1>3, <1>5
  <2> QED  BY <2>1, <2>2, <2>3
<1>8. Len(newIds) = p + Len(newMask)
  <2>1. Len(newIds) = (p + k) + Len(ids)
    BY <1>3, <1>4
  <2> HIDE DEF p, k
  <2> QED  BY <2>1, <1>1, <1>3, <1>5
<1>9. Marked(newIds, newMask, logprobs)
  BY <1>6, <1>7, <1>8 DEF Marked, newMask
<1> QED  BY <1>4, <1>5, <1>9 DEF newIds, newMask

LEMMA PromptTypes == TextType => setup.prompt \in Nat
<1> SUFFICES ASSUME TextType PROVE setup.prompt \in Nat
  OBVIOUS
<1>1. setup.prompt \in InitialPrompts
  BY DEF TextType, Setups
<1> QED  BY <1>1, ToolAgentAssumption

LEMMA TextPending == TextInv /\ _handle_pending_state => TextInv'
<1> SUFFICES ASSUME TextInv, _handle_pending_state PROVE TextInv'
  OBVIOUS
<1>1. /\ setup' = setup /\ state' = "generating"
      /\ response_mask' = <<>> /\ response_logprobs' = <<>>
      /\ prompt_ids' = Tokens("prompt", setup.prompt)
  BY DEF _handle_pending_state, TextInv
<1>2. setup.prompt \in Nat /\ "prompt" \in Origins
  BY PromptTypes DEF TextInv, Origins
<1>3. /\ prompt_ids' \in Seq(Origins) /\ Len(prompt_ids') = setup.prompt
      /\ \A i \in 1..setup.prompt : prompt_ids'[i] = "prompt"
  BY <1>1, <1>2, TokensAre
<1>4. TextType'
  BY <1>1, <1>3 DEF TextInv, TextType
<1>5. Marked(prompt_ids, response_mask, response_logprobs)'
  BY <1>1, <1>2, <1>3 DEF Marked
<1> QED  BY <1>1, <1>4, <1>5 DEF TextInv

\* The model's tokens are marked with a one.
LEMMA TextGenerating == TextInv /\ _handle_generating_state => TextInv'
<1> SUFFICES ASSUME TextInv, _handle_generating_state PROVE TextInv'
  OBVIOUS
<1>1. TextType /\ Marked(prompt_ids, response_mask, response_logprobs)
  BY DEF TextInv, _handle_generating_state
<1>2. PICK k \in 1..Room, called \in 0..MaxToolCalls :
        /\ prompt_ids' = prompt_ids \o Tokens("model", k)
        /\ response_mask' = response_mask \o Tokens(1, k)
        /\ response_logprobs' = IF setup.logprobs THEN response_logprobs \o Tokens(1, k)
                                                  ELSE response_logprobs
        /\ AfterGenerating(called)
  BY DEF _handle_generating_state
<1> DEFINE ids == Tokens("model", k)
           mask == Tokens(1, k)
<1>3. k \in Nat /\ k >= 1 /\ Len(response_mask) \in Nat
  <2>1. prompt_ids \in Seq(Origins) /\ response_mask \in Seq(Bits)
    BY <1>1 DEF TextType
  <2>2. Room \in Int
    BY <2>1 DEF Room, model_len
  <2> QED  BY <2>1, <2>2
<1>4. /\ ids \in Seq(Origins) /\ mask \in Seq(Bits) /\ Len(ids) = k /\ Len(mask) = k
      /\ \A i \in 1..k : ids[i] = "model" /\ mask[i] = 1
  <2>1. "model" \in Origins /\ 1 \in Bits
    BY DEF Origins, Bits
  <2> QED  BY <2>1, <1>3, TokensAre
<1>5. response_logprobs' = IF setup.logprobs THEN response_mask \o mask ELSE <<>>
  BY <1>1, <1>2 DEF Marked
<1> HIDE DEF ids, mask
<1>6. /\ Marked(prompt_ids', response_mask', response_logprobs')
      /\ prompt_ids' \in Seq(Origins) /\ response_mask' \in Seq(Bits)
      /\ Len(response_mask') = Len(response_mask) + k
  BY <1>1, <1>2, <1>4, <1>5, MarkedAppend DEF ids, mask
<1>7. setup' = setup /\ response_logprobs' \in Seq(Bits)
  <2>1. setup' = setup
    BY DEF _handle_generating_state
  <2>2. response_mask' = response_mask \o mask
    BY <1>2 DEF mask
  <2> QED  BY <1>5, <1>6, <2>1, <2>2
<1>8. /\ state' \in {"processing_tools", "interacting", "terminated"}
      /\ state' = "interacting" => setup.interaction
  BY <1>2 DEF AfterGenerating
<1>9. response_mask' # <<>>
  BY <1>3, <1>6
<1>10. TextType'
  BY <1>1, <1>6, <1>7, <1>8 DEF TextType
<1>11. Marked(prompt_ids, response_mask, response_logprobs)'
  BY <1>6, <1>7 DEF Marked
<1> QED  BY <1>7, <1>8, <1>9, <1>10, <1>11 DEF TextInv

\* Answers are marked with zeros.
LEMMA TextAppended ==
    ASSUME TextInv, state \in {"processing_tools", "interacting"}, setup' = setup,
           NEW ids \in Seq(Origins), \A i \in 1..Len(ids) : ids[i] # "model", Appended(ids)
    PROVE  /\ Marked(prompt_ids, response_mask, response_logprobs)'
           /\ prompt_ids' \in Seq(Origins) /\ response_mask' \in Seq(Bits)
           /\ response_logprobs' \in Seq(Bits)
           /\ Len(response_mask') = Len(response_mask) + Len(ids)
<1> DEFINE mask == Tokens(0, Len(ids))
<1>1. TextType /\ Marked(prompt_ids, response_mask, response_logprobs) /\ response_mask # <<>>
  BY DEF TextInv
<1>2. /\ mask \in Seq(Bits) /\ Len(mask) = Len(ids)
      /\ \A i \in 1..Len(ids) : mask[i] = 0
  <2>1. 0 \in Bits /\ Len(ids) \in Nat
    BY DEF Bits
  <2> QED  BY <2>1, TokensAre
<1>3. /\ prompt_ids' = prompt_ids \o ids /\ response_mask' = response_mask \o mask
      /\ response_logprobs' = IF setup.logprobs THEN response_mask \o mask ELSE <<>>
  BY <1>1 DEF Appended, MaskOf, Marked
<1> HIDE DEF mask
<1>4. /\ Marked(prompt_ids', response_mask', response_logprobs')
      /\ prompt_ids' \in Seq(Origins) /\ response_mask' \in Seq(Bits)
      /\ Len(response_mask') = Len(response_mask) + Len(ids)
  BY <1>1, <1>2, <1>3, MarkedAppend
<1>5. response_logprobs' \in Seq(Bits)
  BY <1>3, <1>4
<1>6. Marked(prompt_ids, response_mask, response_logprobs)'
  BY <1>4 DEF Marked
<1> QED  BY <1>4, <1>5, <1>6

\* A tool's answer is appended where it leaves room for a token of the model.
LEMMA TextTools == TextInv /\ _handle_processing_tools_state => TextInv'
<1> SUFFICES ASSUME TextInv, _handle_processing_tools_state PROVE TextInv'
  OBVIOUS
<1>1. state = "processing_tools" /\ setup' = setup
  BY DEF _handle_processing_tools_state, CallsReturned
<1>2. CASE UNCHANGED textVars /\ state' = "terminated"
  BY <1>1, <1>2 DEF TextInv, TextType, Marked, textVars
<1>3. ASSUME NEW images \in Nat, NEW k \in Nat, Fits(images + k), state' = "generating",
             Appended(Tokens("image", images) \o Tokens("tool", k))
      PROVE  TextInv'
  <2> DEFINE ids == Tokens("image", images) \o Tokens("tool", k)
  <2>1. /\ Tokens("image", images) \in Seq({"image", "tool"}) /\ Len(Tokens("image", images)) = images
        /\ Tokens("tool", k) \in Seq({"image", "tool"}) /\ Len(Tokens("tool", k)) = k
    BY TokensAre
  <2>2. ids \in Seq({"image", "tool"}) /\ Len(ids) = images + k
    BY <2>1, ConcatAre
  <2> HIDE DEF ids
  <2>3. ids \in Seq(Origins) /\ \A i \in 1..Len(ids) : ids[i] # "model"
    <3>1. \A i \in 1..Len(ids) : ids[i] \in {"image", "tool"}
      BY <2>2
    <3> QED  BY <2>2, <3>1 DEF Origins
  <2>4. Appended(ids)
    BY <1>3 DEF ids
  <2>5. /\ Marked(prompt_ids, response_mask, response_logprobs)'
        /\ prompt_ids' \in Seq(Origins) /\ response_mask' \in Seq(Bits)
        /\ response_logprobs' \in Seq(Bits)
        /\ Len(response_mask') = Len(response_mask) + Len(ids)
    BY <1>1, <2>3, <2>4, TextAppended
  <2>6. Len(response_mask') < response_length
    <3>1. Len(response_mask) + (images + k) < response_length
      BY <1>3 DEF Fits
    <3> QED  BY <3>1, <2>2, <2>5
  <2>7. TextType'
    BY <1>1, <1>3, <2>5 DEF TextInv, TextType
  <2> QED  BY <1>1, <1>3, <2>5, <2>6, <2>7 DEF TextInv
<1>4. \/ UNCHANGED textVars /\ state' = "terminated"
      \/ \E images \in Nat, k \in Nat :
           /\ Fits(images + k) /\ state' = "generating"
           /\ Appended(Tokens("image", images) \o Tokens("tool", k))
  <2>1. PICK images \in 0..Cardinality(Answers), k \in 1..MaxAnswer :
          IF Fits(images + k)
          THEN Appended(Tokens("image", images) \o Tokens("tool", k)) /\ state' = "generating"
          ELSE UNCHANGED textVars /\ state' = "terminated"
    BY DEF _handle_processing_tools_state
  <2>2. images \in Nat /\ k \in Nat
    OBVIOUS
  <2> QED  BY <2>1, <2>2
<1> QED  BY <1>2, <1>3, <1>4

LEMMA TextUser == TextInv /\ _handle_interacting_state => TextInv'
<1> SUFFICES ASSUME TextInv, _handle_interacting_state PROVE TextInv'
  OBVIOUS
<1>1. state = "interacting" /\ setup' = setup /\ setup.interaction /\ state' \in {"generating", "terminated"}
  BY DEF _handle_interacting_state, TextInv
<1>2. PICK k \in 1..MaxAnswer : Appended(Tokens("user", k))
  BY DEF _handle_interacting_state
<1> DEFINE ids == Tokens("user", k)
<1>3. ids \in Seq(Origins) /\ \A i \in 1..Len(ids) : ids[i] # "model"
  <2>1. "user" \in Origins /\ k \in Nat
    BY DEF Origins
  <2>2. ids \in Seq(Origins) /\ Len(ids) = k /\ \A i \in 1..k : ids[i] = "user"
    BY <2>1, TokensAre
  <2> QED  BY <2>2
<1> HIDE DEF ids
<1>4. /\ Marked(prompt_ids, response_mask, response_logprobs)'
      /\ prompt_ids' \in Seq(Origins) /\ response_mask' \in Seq(Bits)
      /\ response_logprobs' \in Seq(Bits)
  BY <1>1, <1>2, <1>3, TextAppended DEF ids
<1>5. TextType'
  BY <1>1, <1>4 DEF TextInv, TextType
<1> QED  BY <1>1, <1>4, <1>5 DEF TextInv

\* An engine that has no room for a token has been given a user's answer, or a first
\* prompt longer than the configured one.
LEMMA TextRejects == TextInv /\ EngineRejects => TextInv'
<1> SUFFICES ASSUME TextInv, EngineRejects PROVE TextInv'
  OBVIOUS
<1>1. state = "generating" /\ state' = "rejected" /\ UNCHANGED <<setup, textVars>> /\ Room < 1
  BY DEF EngineRejects
<1>2. setup.interaction \/ setup.prompt > prompt_length
  <2> SUFFICES ASSUME ~setup.interaction, ~(setup.prompt > prompt_length) PROVE FALSE
    OBVIOUS
  <2>1. /\ Len(prompt_ids) = setup.prompt + Len(response_mask) /\ Len(response_mask) < response_length
        /\ prompt_ids \in Seq(Origins) /\ response_mask \in Seq(Bits)
    BY <1>1 DEF TextInv, TextType, Marked
  <2>2. setup.prompt \in Nat /\ prompt_length \in Nat /\ response_length \in Nat
    BY PromptTypes, ToolAgentAssumption DEF TextInv
  <2>3. Len(response_mask) \in Nat
    BY <2>1
  <2> QED  BY <1>1, <2>1, <2>2, <2>3 DEF Room, model_len
<1> QED  BY <1>1, <1>2 DEF TextInv, TextType, Marked, textVars

LEMMA TextOthers ==
    ASSUME TextInv, MediaRaise \/ ExternalRaise \/ \E i \in DOMAIN tool_call : _call_tool(i)
    PROVE  TextInv'
<1>1. /\ UNCHANGED <<setup, textVars>>
      /\ state' = state \/ (state # "pending" /\ state' = "raised")
  BY DEF MediaRaise, CallsReturned, ExternalRaise, _call_tool, CreateInstance, ExecuteTool, ReleaseInstance,
         OnlyTools
<1> QED  BY <1>1 DEF TextInv, TextType, Marked, textVars

LEMMA TextNext == TextInv /\ [AgentNext]_agentVars => TextInv'
<1> SUFFICES ASSUME TextInv, [AgentNext]_agentVars PROVE TextInv'
  OBVIOUS
<1>1. CASE UNCHANGED agentVars
  BY <1>1 DEF agentVars, textVars, TextInv, TextType, Marked
<1>2. CASE AgentStep
  BY <1>2, TextPending, TextGenerating, TextTools, TextUser, TextRejects, TextOthers DEF AgentStep
<1> QED  BY <1>1, <1>2 DEF AgentNext, EpisodeOver

\* ToolAgentLoop: the answers of tools, however many and long, leave an episode room in
\* the engine's context, unless a user talks too or the first prompt was too long.
THEOREM ToolsLeaveRoomCorrect == AgentSpec => []ToolsLeaveRoom
<1>1. TextInv => ToolsLeaveRoom
  BY DEF TextInv, ToolsLeaveRoom
<1> QED  BY TextInit, TextNext, <1>1, PTL DEF AgentSpec

LEMMA LimitedAre ==
    ASSUME NEW T, NEW s \in Seq(T)
    PROVE  /\ Limited(s) \in Seq(T)
           /\ Len(Limited(s)) = IF Len(s) < response_length THEN Len(s) ELSE response_length
           /\ \A i \in 1..Len(Limited(s)) : i \in 1..Len(s) /\ Limited(s)[i] = s[i]
<1> DEFINE k == IF Len(s) < response_length THEN Len(s) ELSE response_length
<1>1. k \in 0..Len(s)
  OBVIOUS
<1> HIDE DEF k
<1>2. /\ SubSeq(s, 1, k) \in Seq(T) /\ Len(SubSeq(s, 1, k)) = k
      /\ \A i \in 1..k : SubSeq(s, 1, k)[i] = s[i]
  BY <1>1
<1> QED  BY <1>1, <1>2 DEF Limited, k

\* ToolAgentLoop.run: of the response a terminated episode returns, exactly the
\* tokens the model generated are trained on.
THEOREM MaskMarksGeneratedCorrect == AgentSpec => []MaskMarksGenerated
<1>1. TextInv => MaskMarksGenerated
  <2> SUFFICES ASSUME TextInv, state = "terminated"
               PROVE  /\ Limited(response_mask) = [i \in DOMAIN Response |-> IF Response[i] = "model" THEN 1 ELSE 0]
                      /\ setup.logprobs => Limited(response_logprobs) = Limited(response_mask)
                      /\ Prompt = Tokens("prompt", setup.prompt)
    BY DEF MaskMarksGenerated
  <2> DEFINE p == setup.prompt
             k == Len(response_mask)
             body == SubSeq(prompt_ids, p + 1, Len(prompt_ids))
  <2>1. /\ prompt_ids \in Seq(Origins) /\ response_mask \in Seq(Bits) /\ p \in Nat
        /\ Marked(prompt_ids, response_mask, response_logprobs)
    BY PromptTypes DEF TextInv, TextType
  <2>2. k \in Nat /\ Len(prompt_ids) = p + k /\ Split = p
    BY <2>1 DEF Marked, Split
  <2>3. /\ body \in Seq(Origins) /\ Len(body) = k
        /\ \A i \in 1..k : body[i] = prompt_ids[p + i]
    <3> HIDE DEF p, k
    <3>1. p + 1 \in 1..Len(prompt_ids) + 1 /\ p + 1 + k - 1 = Len(prompt_ids)
      BY <2>1, <2>2
    <3>2. /\ body \in Seq(Origins) /\ Len(body) = Len(prompt_ids) - (p + 1) + 1
          /\ \A i \in 1..Len(prompt_ids) - (p + 1) + 1 : body[i] = prompt_ids[(p + 1) + i - 1]
      BY <2>1, <3>1
    <3> HIDE DEF body
    <3>3. \A i \in 1..k : (p + 1) + i - 1 = p + i
      BY <2>1, <2>2
    <3>4. Len(prompt_ids) - (p + 1) + 1 = k
      BY <2>1, <2>2
    <3> QED  BY <3>2, <3>3, <3>4
  <2>4. Response = Limited(body)
    BY <2>2 DEF Response
  <2> HIDE DEF body
  <2>5. /\ Response \in Seq(Origins) /\ Len(Response) = Len(Limited(response_mask))
        /\ Limited(response_mask) \in Seq(Bits)
    BY <2>1, <2>3, <2>4, LimitedAre
  <2>6. ASSUME NEW i \in 1..Len(Response)
        PROVE  Limited(response_mask)[i] = IF Response[i] = "model" THEN 1 ELSE 0
    <3>1. i \in 1..k /\ Limited(response_mask)[i] = response_mask[i] /\ Response[i] = body[i]
      BY <2>1, <2>3, <2>4, <2>5, LimitedAre
    <3> QED  BY <3>1, <2>1, <2>3 DEF Marked
  <2>7. Limited(response_mask) = [i \in DOMAIN Response |-> IF Response[i] = "model" THEN 1 ELSE 0]
    <3> DEFINE marks == Limited(response_mask)
    <3>1. marks = [i \in 1..Len(marks) |-> marks[i]] /\ DOMAIN Response = 1..Len(Response)
      BY <2>5
    <3> HIDE DEF marks
    <3>2. marks = [i \in DOMAIN Response |-> IF Response[i] = "model" THEN 1 ELSE 0]
      BY <3>1, <2>5, <2>6 DEF marks
    <3> QED  BY <3>2 DEF marks
  <2>8. setup.logprobs => response_logprobs = response_mask
    BY <2>1 DEF Marked
  <2>9. Prompt = Tokens("prompt", p)
    <3>1. Prompt = [i \in 1..p |-> prompt_ids[i]]
      BY <2>1, <2>2 DEF Prompt
    <3>2. \A i \in 1..p : prompt_ids[i] = "prompt"
      BY <2>1 DEF Marked
    <3> QED  BY <3>1, <3>2 DEF Tokens
  <2> QED  BY <2>7, <2>8, <2>9
<1> QED  BY TextInit, TextNext, <1>1, PTL DEF AgentSpec

\* The counters of an episode only grow.
AgentTypes ==
    /\ TextInv /\ CallInv
    /\ user_turns \in Nat /\ assistant_turns \in Nat /\ image_data \in Nat

LEMMA AgentTypesInit == AgentInit => AgentTypes
<1>1. AgentInit => user_turns \in Nat /\ assistant_turns \in Nat /\ image_data \in Nat
  BY DEF AgentInit
<1> QED  BY <1>1, TextInit, CallInit DEF AgentTypes

LEMMA AgentTypesNext == AgentTypes /\ [AgentNext]_agentVars => AgentTypes'
<1> SUFFICES ASSUME AgentTypes, [AgentNext]_agentVars PROVE AgentTypes'
  OBVIOUS
<1>1. TextInv' /\ CallInv'
  BY TextNext, CallNext DEF AgentTypes
<1>2. user_turns' \in {user_turns, user_turns + 1} /\ assistant_turns' \in {assistant_turns, assistant_turns + 1}
  BY DEF AgentNext, AgentStep, EpisodeOver, agentVars, turnVars, _handle_pending_state,
         _handle_generating_state, EngineRejects, _call_tool, CreateInstance, ExecuteTool, ReleaseInstance,
         OnlyTools, _handle_processing_tools_state, MediaRaise, _handle_interacting_state, ExternalRaise
<1>3. image_data' = image_data \/ \E images \in Nat : image_data' = image_data + images
  <2>1. ASSUME _handle_processing_tools_state PROVE \E images \in Nat : image_data' = image_data + images
    <3>1. PICK images \in 0..Cardinality(Answers) : image_data' = image_data + images
      BY <2>1 DEF _handle_processing_tools_state, ImagesKept
    <3> QED  BY <3>1
  <2> QED  BY <2>1 DEF AgentNext, AgentStep, EpisodeOver, agentVars, _handle_pending_state,
         _handle_generating_state, EngineRejects, _call_tool, CreateInstance, ExecuteTool, ReleaseInstance,
         OnlyTools, MediaRaise, _handle_interacting_state, ExternalRaise
<1> QED  BY <1>1, <1>2, <1>3 DEF AgentTypes

\* ToolAgentLoop: an episode keeps its types, and has no more instances at a time
\* than max_parallel_calls.
THEOREM AgentTypeCorrect == AgentSpec => []AgentTypeOK
<1>1. AgentTypes => AgentTypeOK
  <2> SUFFICES ASSUME AgentTypes PROVE AgentTypeOK
    OBVIOUS
  <2>1. tool_call \in Seq(CallStates) /\ instances \subseteq 1..max_parallel_calls
    <3>1. tool_call \in Seq(CallStates) /\ Len(tool_call) <= max_parallel_calls /\ instances \subseteq 1..Len(tool_call)
      BY DEF AgentTypes, CallInv
    <3> QED  BY <3>1
  <2> QED  BY <2>1 DEF AgentTypes, AgentTypeOK, TextInv, TextType, Bits, CallStates
<1> QED  BY AgentTypesInit, AgentTypesNext, <1>1, PTL DEF AgentSpec
=============================================================================
