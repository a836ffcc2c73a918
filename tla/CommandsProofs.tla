--------------------------- MODULE CommandsProofs ---------------------------
(***************************************************************************)
(* From a schedule to a pipeline that runs: the requests and the cron jobs *)
(* that start workflows, the commands on their way to an agent, the local  *)
(* cache of the client they go through, and the pipelines of the agent.    *)
(* For any number of workflows, requests, concurrent jobs, commands,       *)
(* retries, callers, keys, values, pipelines and runners, and every        *)
(* LocalCacheMaxSize.                                                      *)
(***************************************************************************)
EXTENDS CommandQueue, LocalCache, AgentPipelines, WorkflowRequests, FiniteSetTheorems, TLAPS
-----------------------------------------------------------------------------
(* No command is lost inside the control plane.  NoCommandLost is not      *)
(* inductive by itself: a retry removes the command it holds from the      *)
(* queue, which is safe only because it has published it (QueueTypeOK).    *)
QueueInv == QueueTypeOK /\ NoCommandLost

LEMMA InitQueueInv == QueueInit => QueueInv
  BY DEF QueueInit, QueueInv, QueueTypeOK, NoCommandLost

(* The steps of SendCommandToAgent.                                        *)
LEMMA SendKeepsQueueInv ==
    ASSUME QueueInv, NEW c \in Commands, SendStep(c)
    PROVE  QueueInv'
  <1> USE DEF QueueInv, QueueTypeOK, NoCommandLost, retryVars
  <1>1. CASE Send(c)
    BY <1>1 DEF Send
  <1>2. CASE SendFails(c)
    BY <1>2 DEF SendFails
  <1>3. CASE queuePendingCommand(c)
    BY <1>3 DEF queuePendingCommand
  <1> QED
    BY <1>1, <1>2, <1>3 DEF SendStep

(* The steps of retryPendingCommands.                                      *)
LEMMA RetryKeepsQueueInv ==
    ASSUME QueueInv, NEW r \in Retries, RetryStep(r)
    PROVE  QueueInv'
  <1> USE CommandsAssumption DEF QueueInv, QueueTypeOK, NoCommandLost
  <1>1. CASE RetryBegin(r)
    BY <1>1 DEF RetryBegin
  <1>2. ASSUME NEW c \in Commands, RetryFails(r, c) PROVE QueueInv'
    BY <1>2 DEF RetryFails, Takes
  <1>3. ASSUME NEW c \in Commands, RetryPublish(r, c) PROVE QueueInv'
    BY <1>3 DEF RetryPublish, Takes
  <1>4. ASSUME NEW c \in Commands, RetryExpires(r, c) PROVE QueueInv'
    BY <1>4 DEF RetryExpires, Takes
  <1>5. CASE RetryRemove(r)
    BY <1>5 DEF RetryRemove
  <1>6. CASE RetryEnds(r)
    BY <1>6 DEF RetryEnds
  <1> QED
    BY <1>1, <1>2, <1>3, <1>4, <1>5, <1>6 DEF RetryStep

LEMMA NextQueueInv == QueueInv /\ [QueueNext]_queueVars => QueueInv'
  <1> SUFFICES ASSUME QueueInv, [QueueNext]_queueVars PROVE QueueInv'
    OBVIOUS
  <1>1. ASSUME NEW c \in Commands, SendStep(c) PROVE QueueInv'
    BY <1>1, SendKeepsQueueInv
  <1>2. ASSUME NEW c \in Commands, ADayPasses(c) PROVE QueueInv'
    BY <1>2 DEF ADayPasses, retryVars, QueueInv, QueueTypeOK, NoCommandLost
  <1>3. ASSUME NEW r \in Retries, RetryStep(r) PROVE QueueInv'
    BY <1>3, RetryKeepsQueueInv
  <1>4. ASSUME NEW r \in Retries, ConnectionRestored(r) PROVE QueueInv'
    BY <1>4 DEF ConnectionRestored, QueueInv, QueueTypeOK, NoCommandLost
  <1>5. CASE ConnectionLost \/ CircuitOpens \/ Unblocked
    BY <1>5 DEF ConnectionLost, CircuitOpens, Unblocked, retryVars, QueueInv, QueueTypeOK, NoCommandLost
  <1>6. CASE UNCHANGED queueVars
    BY <1>6 DEF queueVars, QueueInv, QueueTypeOK, NoCommandLost
  <1> QED
    BY <1>1, <1>2, <1>3, <1>4, <1>5, <1>6 DEF QueueNext

(* Every command whose SendCommandToAgent has returned has been published, *)
(* waits in the queue or was dropped after a day, for any number of        *)
(* commands and overlapping retryPendingCommands.                          *)
THEOREM NoCommandLostAlways == QueueSpec => []NoCommandLost
  <1>1. QueueInit => QueueInv
    BY InitQueueInv
  <1>2. QueueInv /\ [QueueNext]_queueVars => QueueInv'
    BY NextQueueInv
  <1>3. QueueInv => NoCommandLost
    BY DEF QueueInv
  <1> QED
    BY <1>1, <1>2, <1>3, PTL DEF QueueSpec

-----------------------------------------------------------------------------
(* The local cache keeps within its size. *)
Bound == IF LocalCacheMaxSize = 0 THEN 1 ELSE LocalCacheMaxSize

CachedNext == {k \in Keys : cache'[k] # None}

(* A set of keys within a smaller one is no larger, and is finite.         *)
LEMMA KeysWithin ==
    ASSUME NEW S \in SUBSET Keys, NEW T \in SUBSET Keys, S \subseteq T
    PROVE  /\ Cardinality(S) \in Nat /\ Cardinality(T) \in Nat
           /\ Cardinality(S) <= Cardinality(T)
  <1>1. IsFiniteSet(T) /\ IsFiniteSet(S)
    BY CacheAssumption, FS_Subset
  <1> QED
    BY <1>1, FS_Subset, FS_CardinalityType

(* setLocalCache keeps the cache within its bound: a cache with room grows *)
(* by at most one entry, a full one gives up an entry before it gets one.  *)
LEMMA SetLocalCacheBound ==
    ASSUME NEW k \in Keys, NEW v, cache \in [Keys -> Values \cup {None}],
           CacheBound, setLocalCache(k, v)
    PROVE  CacheBound'
  <1>1. /\ IsFiniteSet(Cached) /\ Cardinality(Cached) \in Nat
        /\ LocalCacheMaxSize \in Nat
    BY CacheAssumption, FS_Subset, FS_CardinalityType DEF Cached
  <1>2. CASE ~(Cardinality(Cached) >= LocalCacheMaxSize /\ Cached # {})
    <2>1. CachedNext \subseteq Cached \cup {k}
      BY <1>2 DEF setLocalCache, CachedNext, Cached
    <2>2. Cardinality(CachedNext) <= Cardinality(Cached \cup {k})
      BY <2>1, KeysWithin DEF CachedNext, Cached
    <2>3. Cardinality(Cached \cup {k}) \in Nat /\ Cardinality(CachedNext) \in Nat
      BY <2>1, KeysWithin DEF CachedNext, Cached
    <2>4. Cardinality(Cached \cup {k}) <= Cardinality(Cached) + 1
      BY <1>1, FS_AddElement
    <2>5. CASE Cached = {}
      <3>1. Cardinality(Cached) = 0
        BY <2>5, FS_EmptySet
      <3> QED
        BY <1>1, <2>2, <2>3, <2>4, <3>1 DEF CacheBound, Cached, CachedNext
    <2>6. CASE Cardinality(Cached) < LocalCacheMaxSize
      BY <1>1, <2>2, <2>3, <2>4, <2>6 DEF CacheBound, Cached, CachedNext
    <2> QED
      BY <1>1, <1>2, <2>5, <2>6
  <1>3. CASE Cardinality(Cached) >= LocalCacheMaxSize /\ Cached # {}
    <2>1. PICK x \in Cached : CachedNext \subseteq (Cached \ {x}) \cup {k}
      BY <1>3 DEF setLocalCache, CachedNext, Cached
    <2>2. /\ IsFiniteSet(Cached \ {x})
          /\ Cardinality(Cached \ {x}) = Cardinality(Cached) - 1
      BY <1>1, <2>1, FS_RemoveElement
    <2>3. Cardinality((Cached \ {x}) \cup {k}) <= Cardinality(Cached)
      <3>1. CASE k \in Cached \ {x}
        <4>1. (Cached \ {x}) \cup {k} = Cached \ {x}
          BY <3>1
        <4>2. Cardinality((Cached \ {x}) \cup {k}) = Cardinality(Cached \ {x})
          BY <4>1, Zenon
        <4> QED
          BY <1>1, <2>2, <4>2
      <3>2. CASE k \notin Cached \ {x}
        <4>1. Cardinality((Cached \ {x}) \cup {k}) = Cardinality(Cached \ {x}) + 1
          BY <2>2, <3>2, FS_AddElement
        <4> QED
          BY <1>1, <2>2, <4>1
      <3> QED
        BY <3>1, <3>2
    <2>4. /\ Cardinality(CachedNext) <= Cardinality((Cached \ {x}) \cup {k})
          /\ Cardinality((Cached \ {x}) \cup {k}) \in Nat
          /\ Cardinality(CachedNext) \in Nat
      BY <2>1, KeysWithin DEF CachedNext, Cached
    <2>5. Cardinality(CachedNext) <= Cardinality(Cached)
      BY <1>1, <2>3, <2>4
    <2> QED
      BY <1>1, <2>4, <2>5 DEF CacheBound, Cached, CachedNext
  <1> QED
    BY <1>2, <1>3

(* What the steps need: the cache has its type and is within its bound;    *)
(* a caller that is about to use a key and a value has ones of the type.   *)
CallTypes ==
    \A c \in Callers :
        /\ call[c].op \in {"set", "fill"}
              => call[c].key \in Keys /\ call[c].value \in Values
        /\ call[c].op \in {"del", "fallback"} => call[c].key \in Keys

CacheInv ==
    /\ redis \in [Keys -> Values \cup {None}]
    /\ cache \in [Keys -> Values \cup {None}]
    /\ call = [c \in Callers |-> call[c]]
    /\ answer = [c \in Callers |-> answer[c]]
    /\ CallTypes
    /\ CacheBound

LEMMA InitCacheInv == CacheInit => CacheInv
  <1> SUFFICES ASSUME CacheInit PROVE CacheInv
    OBVIOUS
  <1>1. Cached = {}
    BY DEF CacheInit, Cached
  <1>2. CacheBound
    BY <1>1, FS_EmptySet, CacheAssumption DEF CacheBound
  <1> QED
    BY <1>2 DEF CacheInit, CacheInv, CallTypes, NoCall

(* A step that removes entries, or leaves the cache alone, keeps the bound.*)
LEMMA FewerKeepsBound ==
    ASSUME CacheBound, CachedNext \subseteq Cached
    PROVE  CacheBound'
  <1>1. /\ Cardinality(CachedNext) <= Cardinality(Cached)
        /\ Cardinality(CachedNext) \in Nat /\ Cardinality(Cached) \in Nat
    BY KeysWithin DEF CachedNext, Cached
  <1>2. LocalCacheMaxSize \in Nat
    BY CacheAssumption
  <1> QED
    BY <1>1, <1>2 DEF CacheBound, Cached, CachedNext

LEMMA SetLocalCacheType ==
    ASSUME NEW k \in Keys, NEW v \in Values, cache \in [Keys -> Values \cup {None}],
           setLocalCache(k, v)
    PROVE  cache' \in [Keys -> Values \cup {None}]
  BY DEF setLocalCache

(* Every step of a call keeps the invariant.                               *)
LEMMA CallKeepsCacheInv ==
    ASSUME CacheInv, NEW c \in Callers, CallStep(c)
    PROVE  CacheInv'
  <1> USE DEF CacheInv
  <1>1. ASSUME NEW k \in Keys, NEW v \in Values, Set(c, k, v) PROVE CacheInv'
    <2>1. CacheBound' /\ cache' \in [Keys -> Values \cup {None}]
      BY <1>1, SetLocalCacheBound, SetLocalCacheType DEF Set
    <2> QED
      BY <1>1, <2>1 DEF Set, Then, CallTypes
  <1>2. ASSUME NEW k \in Keys, GetServer(c, k) PROVE CacheInv'
    <2>1. CacheBound'
      BY <1>2, FewerKeepsBound DEF GetServer, CachedNext, Cached
    <2> QED
      BY <1>2, <2>1 DEF GetServer, Then, CallTypes
  <1>3. ASSUME NEW k \in Keys, GetNil(c, k) \/ GetFails(c, k) PROVE CacheInv'
    <2>1. CacheBound'
      BY <1>3, FewerKeepsBound DEF GetNil, GetFails, CachedNext, Cached
    <2> QED
      BY <1>3, <2>1 DEF GetNil, GetFails, Then, CallTypes
  <1>4. ASSUME NEW k \in Keys, Del(c, k) PROVE CacheInv'
    <2>1. CacheBound'
      BY <1>4, FewerKeepsBound DEF Del, CachedNext, Cached
    <2> QED
      BY <1>4, <2>1 DEF Del, Then, CallTypes
  <1>5. ASSUME SetServer(c) PROVE CacheInv'
    <2>1. CacheBound'
      BY <1>5, FewerKeepsBound DEF SetServer, CachedNext, Cached
    <2> QED
      BY <1>5, <2>1 DEF SetServer, Return, NoCall, CallTypes
  <1>6. ASSUME GetFill(c) PROVE CacheInv'
    <2>1. CacheBound' /\ cache' \in [Keys -> Values \cup {None}]
      BY <1>6, SetLocalCacheBound, SetLocalCacheType DEF GetFill, CallTypes
    <2> QED
      BY <1>6, <2>1 DEF GetFill, Return, NoCall, CallTypes
  <1>7. ASSUME GetFallback(c) PROVE CacheInv'
    <2>1. CacheBound'
      BY <1>7, FewerKeepsBound DEF GetFallback, CachedNext, Cached
    <2> QED
      BY <1>7, <2>1 DEF GetFallback, Return, NoCall, CallTypes
  <1>8. ASSUME DelServer(c) PROVE CacheInv'
    <2>1. CacheBound'
      BY <1>8, FewerKeepsBound DEF DelServer, CachedNext, Cached
    <2> QED
      BY <1>8, <2>1 DEF DelServer, Return, NoCall, CallTypes
  <1>9. ASSUME WriteFails(c) PROVE CacheInv'
    <2>1. CacheBound'
      BY <1>9, FewerKeepsBound DEF WriteFails, CachedNext, Cached
    <2>2. redis' \in [Keys -> Values \cup {None}]
      BY <1>9 DEF WriteFails, CallTypes
    <2> QED
      BY <1>9, <2>1, <2>2 DEF WriteFails, Return, NoCall, CallTypes
  <1> QED
    BY <1>1, <1>2, <1>3, <1>4, <1>5, <1>6, <1>7, <1>8, <1>9 DEF CallStep

(* The cleanup loop and the passing of time keep the invariant.            *)
LEMMA NextCacheInv == CacheInv /\ [CacheNext]_cacheVars => CacheInv'
  <1> SUFFICES ASSUME CacheInv, [CacheNext]_cacheVars PROVE CacheInv'
    OBVIOUS
  <1>1. CASE \E c \in Callers : CallStep(c)
    BY <1>1, CallKeepsCacheInv
  <1>2. CASE cleanupExpiredCache
    <2>1. CacheBound'
      BY <1>2, FewerKeepsBound DEF CacheInv, cleanupExpiredCache, CachedNext, Cached
    <2> QED
      BY <1>2, <2>1 DEF CacheInv, cleanupExpiredCache, CallTypes
  <1>3. CASE \E k \in Keys : EntryExpires(k) \/ ServerExpires(k)
    <2>1. CacheBound'
      BY <1>3, FewerKeepsBound DEF CacheInv, EntryExpires, ServerExpires, CachedNext, Cached
    <2> QED
      BY <1>3, <2>1 DEF CacheInv, EntryExpires, ServerExpires, CallTypes
  <1>4. CASE UNCHANGED cacheVars
    <2>1. CacheBound'
      BY <1>4, FewerKeepsBound DEF CacheInv, cacheVars, CachedNext, Cached
    <2> QED
      BY <1>4, <2>1 DEF CacheInv, cacheVars, CallTypes
  <1> QED
    BY <1>1, <1>2, <1>3, <1>4 DEF CacheNext

(* The local cache never holds more than LocalCacheMaxSize entries (one    *)
(* entry when that is 0), whatever the callers do and in whatever order    *)
(* their calls interleave (setLocalCache and its two callers).             *)
THEOREM CacheBoundAlways == CacheSpec => []CacheBound
  <1>1. CacheInit => CacheInv
    BY InitCacheInv
  <1>2. CacheInv /\ [CacheNext]_cacheVars => CacheInv'
    BY NextCacheInv
  <1>3. CacheInv => CacheBound
    BY DEF CacheInv
  <1> QED
    BY <1>1, <1>2, <1>3, PTL DEF CacheSpec

-----------------------------------------------------------------------------
(* What a Get gives.  With one caller nothing comes between the two halves *)
(* of a call, and every copy of a value, at the server, in the cache or in *)
(* the hand of the caller, is one that a Get may give.  A Set has put its  *)
(* value into the cache, and a Del taken it out, before the server hears   *)
(* of it.                                                                  *)
Recent ==
    /\ \A k \in Keys : redis[k] \in possible[k] \cup {None} /\ cache[k] \in possible[k] \cup {None}
    /\ \A c \in Callers :
        /\ call[c].op = "set" => /\ cache[call[c].key] \in {call[c].value, None}
                                 /\ call[c].value \in possible[call[c].key]
        /\ call[c].op = "fill" => call[c].value \in possible[call[c].key]
        /\ call[c].op = "del" => cache[call[c].key] = None

RecentInv ==
    /\ CacheInv
    /\ possible \in [Keys -> SUBSET Values]
    /\ Recent

(* The cache gets the value for the key and loses others.                  *)
LEMMA SetLocalCacheEffect ==
    ASSUME NEW k \in Keys, NEW v, cache \in [Keys -> Values \cup {None}], setLocalCache(k, v)
    PROVE  cache'[k] = v /\ \A x \in Keys \ {k} : cache'[x] \in {cache[x], None}
  BY DEF setLocalCache

(* A step of the only caller keeps every copy recent.                      *)
LEMMA CallKeepsRecent ==
    ASSUME RecentInv, NEW c, Callers = {c}, CallStep(c)
    PROVE  Recent' /\ possible' \in [Keys -> SUBSET Values]
  <1> USE DEF RecentInv, CacheInv, CallTypes
  <1>1. ASSUME NEW k \in Keys, NEW v \in Values, Set(c, k, v)
        PROVE  Recent' /\ possible' \in [Keys -> SUBSET Values]
    <2>1. cache'[k] = v /\ \A x \in Keys \ {k} : cache'[x] \in {cache[x], None}
      BY <1>1, SetLocalCacheEffect DEF Set
    <2>2. /\ call'[c] = [op |-> "set", key |-> k, value |-> v] /\ redis' = redis
          /\ possible' = [possible EXCEPT ![k] = @ \cup {v}]
      BY <1>1 DEF Set, Then
    <2> QED
      BY <2>1, <2>2 DEF Recent
  <1>2. ASSUME NEW k \in Keys, GetServer(c, k)
        PROVE  Recent' /\ possible' \in [Keys -> SUBSET Values]
    BY <1>2 DEF GetServer, Then, Recent
  <1>3. ASSUME NEW k \in Keys, GetNil(c, k) \/ GetFails(c, k)
        PROVE  Recent' /\ possible' \in [Keys -> SUBSET Values]
    BY <1>3 DEF GetNil, GetFails, Then, Recent
  <1>4. ASSUME NEW k \in Keys, Del(c, k)
        PROVE  Recent' /\ possible' \in [Keys -> SUBSET Values]
    BY <1>4 DEF Del, Then, Recent
  <1>5. ASSUME SetServer(c)
        PROVE  Recent' /\ possible' \in [Keys -> SUBSET Values]
    BY <1>5 DEF SetServer, Return, NoCall, Recent
  <1>6. ASSUME GetFill(c)
        PROVE  Recent' /\ possible' \in [Keys -> SUBSET Values]
    <2>1. /\ call[c].key \in Keys /\ call[c].value \in possible[call[c].key]
          /\ call'[c] = NoCall /\ UNCHANGED <<redis, possible>>
      BY <1>6 DEF GetFill, Return, Recent
    <2>2. /\ cache'[call[c].key] = call[c].value
          /\ \A x \in Keys \ {call[c].key} : cache'[x] \in {cache[x], None}
      BY <1>6, <2>1, SetLocalCacheEffect DEF GetFill
    <2> QED
      BY <2>1, <2>2 DEF Recent, NoCall
  <1>7. ASSUME GetFallback(c)
        PROVE  Recent' /\ possible' \in [Keys -> SUBSET Values]
    BY <1>7 DEF GetFallback, Return, NoCall, Recent
  <1>8. ASSUME DelServer(c)
        PROVE  Recent' /\ possible' \in [Keys -> SUBSET Values]
    BY <1>8 DEF DelServer, Return, NoCall, Recent
  <1>9. ASSUME WriteFails(c)
        PROVE  Recent' /\ possible' \in [Keys -> SUBSET Values]
    BY <1>9 DEF WriteFails, Return, NoCall, Recent
  <1> QED
    BY <1>1, <1>2, <1>3, <1>4, <1>5, <1>6, <1>7, <1>8, <1>9 DEF CallStep

(* So do the cleanup loop and the passing of time.                         *)
LEMMA NextRecentInv ==
    ASSUME NEW u, Callers = {u}
    PROVE  RecentInv /\ [CacheNext]_cacheVars => RecentInv'
  <1> SUFFICES ASSUME RecentInv, [CacheNext]_cacheVars PROVE RecentInv'
    OBVIOUS
  <1>1. CacheInv'
    BY NextCacheInv DEF RecentInv
  <1>2. Recent' /\ possible' \in [Keys -> SUBSET Values]
    <2>1. CASE \E c \in Callers : CallStep(c)
      BY <2>1, CallKeepsRecent
    <2>2. CASE cleanupExpiredCache
      BY <2>2 DEF cleanupExpiredCache, RecentInv, CacheInv, CallTypes, Recent
    <2>3. CASE \E k \in Keys : EntryExpires(k) \/ ServerExpires(k)
      BY <2>3 DEF EntryExpires, ServerExpires, RecentInv, CacheInv, CallTypes, Recent
    <2>4. CASE UNCHANGED cacheVars
      BY <2>4 DEF cacheVars, RecentInv, Recent
    <2> QED
      BY <2>1, <2>2, <2>3, <2>4 DEF CacheNext
  <1> QED
    BY <1>1, <1>2 DEF RecentInv

(* A Get of the only caller ends with one of the values its key may have.  *)
LEMMA GetGivesPossible ==
    ASSUME RecentInv, NEW u, Callers = {u}, [CacheNext]_cacheVars, NEW c \in Callers,
           call[c].op \in {"fill", "fallback"}, call'[c] = NoCall
    PROVE  answer'[c].value \in possible[call[c].key] \cup {None}
  <1>1. call[c] # NoCall /\ call[c].op \notin {"set", "del"}
    BY DEF NoCall
  <1>2. CallStep(c)
    BY <1>1 DEF CacheNext, cleanupExpiredCache, EntryExpires, ServerExpires, cacheVars
  <1>3. GetFill(c) \/ GetFallback(c)
    BY <1>1, <1>2 DEF CallStep, Set, GetServer, GetNil, GetFails, Del, SetServer, DelServer, WriteFails
  <1>4. call[c].key \in Keys /\ answer = [x \in Callers |-> answer[x]]
    BY DEF RecentInv, CacheInv, CallTypes
  <1> QED
    BY <1>3, <1>4 DEF GetFill, GetFallback, getLocalCache, RecentInv, Recent

(* With a single caller, a Get gives a value that the latest successful    *)
(* Set of its key wrote or a later failed one tried to write, or nothing,  *)
(* whichever requests fail with or without effect, whatever expires and    *)
(* whatever the full cache gives up (Set, Get and Del of the client).      *)
THEOREM ReadsAlwaysRecent ==
    ASSUME NEW u, Callers = {u}
    PROVE  CacheSpec => ReadsRecent
  <1>1. CacheInit => RecentInv
    BY InitCacheInv DEF CacheInit, RecentInv, Recent, NoCall
  <1>2. RecentInv /\ [CacheNext]_cacheVars => RecentInv'
    BY NextRecentInv
  <1>3. RecentInv /\ [CacheNext]_cacheVars =>
            [\A c \in Callers :
                call[c].op \in {"fill", "fallback"} /\ call'[c] = NoCall
                   => answer'[c].value \in possible[call[c].key] \cup {None}]_cacheVars
    BY GetGivesPossible
  <1> QED
    BY <1>1, <1>2, <1>3, PTL DEF CacheSpec, ReadsRecent

-----------------------------------------------------------------------------
(* The agent's map of instances and the runners below it stay in step.     *)
RunnerStates == [status : {"pending", "running", "paused", "stopped"}, cancelled : BOOLEAN, alive : BOOLEAN]
Between == [op |-> "agent", pc |-> "next"]
Waits(op, id) == [op |-> op, id |-> id, pc |-> "wait"]

AgentTypeOK ==
    /\ runners \in Seq(RunnerStates)
    /\ instances \in [DOMAIN instances -> [runner : 1..Len(runners), status : {"running", "paused"}]]
    /\ \/ mu = Free \/ mu = Between
       \/ \E op \in {"stop", "agent"}, id \in DOMAIN instances : mu = Waits(op, id)

(* No runner has two ids: a stop by one id leaves the other ids alone.     *)
Separate == \A i, j \in DOMAIN instances : instances[i].runner = instances[j].runner => i = j

(* The statuses agree also while a.mu is held, and the one runner that has *)
(* been cancelled below an instance is the one whose dispatcher is waited  *)
(* for.                                                                    *)
InStep ==
    \A id \in DOMAIN instances :
        /\ Active(id) /\ instances[id].status = RunnerOf(id).status
        /\ RunnerOf(id).cancelled <=> (\E op \in {"stop", "agent"} : mu = Waits(op, id))

AgentInv == AgentTypeOK /\ Separate /\ InStep /\ NoOrphan

(* What an operation on the runner of one id does to the runners.          *)
LEMMA BecomesOne ==
    ASSUME AgentInv, NEW id, Has(id), NEW r \in RunnerStates, Becomes(id, r)
    PROVE  /\ runners' \in Seq(RunnerStates) /\ Len(runners') = Len(runners)
           /\ DOMAIN runners' = DOMAIN runners
           /\ runners'[instances[id].runner] = r
           /\ \A n \in DOMAIN runners : n # instances[id].runner => runners'[n] = runners[n]
           /\ \A i \in DOMAIN instances : i # id => runners'[instances[i].runner] = RunnerOf(i)
  <1>1. /\ runners \in Seq(RunnerStates) /\ instances[id].runner \in 1..Len(runners)
        /\ runners' = [runners EXCEPT ![instances[id].runner] = r]
    BY DEF AgentInv, AgentTypeOK, Has, Becomes
  <1>2. \A i \in DOMAIN instances :
           i # id => instances[i].runner # instances[id].runner /\ instances[i].runner \in 1..Len(runners)
    BY DEF AgentInv, AgentTypeOK, Separate, Has
  <1> QED
    BY <1>1, <1>2 DEF RunnerOf

(* The runner of an instance.                                              *)
LEMMA OfInstance ==
    ASSUME AgentInv, NEW id, Has(id)
    PROVE  /\ instances[id].runner \in DOMAIN runners
           /\ RunnerOf(id) \in RunnerStates
           /\ instances[id] \in [runner : 1..Len(runners), status : {"running", "paused"}]
  BY DEF AgentInv, AgentTypeOK, Has, RunnerOf

(* Pausing and resuming change both statuses.                              *)
LEMMA StatusChangeKeeps ==
    ASSUME AgentInv, NEW id, Has(id), NEW s \in {"running", "paused"}, mu = Free,
           Becomes(id, [RunnerOf(id) EXCEPT !.status = s]),
           instances' = [instances EXCEPT ![id].status = s], UNCHANGED mu
    PROVE  AgentInv'
  <1> DEFINE r == [RunnerOf(id) EXCEPT !.status = s]
  <1>1. r \in RunnerStates /\ r.status = s /\ r.cancelled = RunnerOf(id).cancelled
    BY OfInstance DEF RunnerStates
  <1> HIDE DEF r
  <1>2. /\ runners' \in Seq(RunnerStates) /\ Len(runners') = Len(runners)
        /\ DOMAIN runners' = DOMAIN runners
        /\ runners'[instances[id].runner] = r
        /\ \A n \in DOMAIN runners : n # instances[id].runner => runners'[n] = runners[n]
        /\ \A i \in DOMAIN instances : i # id => runners'[instances[i].runner] = RunnerOf(i)
    BY <1>1, BecomesOne DEF r
  <1>3. /\ DOMAIN instances' = DOMAIN instances
        /\ \A i \in DOMAIN instances : instances'[i].runner = instances[i].runner
        /\ instances'[id].status = s
        /\ \A i \in DOMAIN instances : i # id => instances'[i] = instances[i]
        /\ instances' \in [DOMAIN instances -> [runner : 1..Len(runners), status : {"running", "paused"}]]
    BY OfInstance DEF AgentInv, AgentTypeOK, Has
  <1>4. AgentTypeOK'
    BY <1>2, <1>3 DEF AgentInv, AgentTypeOK
  <1>5. Separate'
    BY <1>3 DEF AgentInv, Separate
  <1>6. InStep'
    <2> SUFFICES ASSUME NEW i \in DOMAIN instances
                 PROVE  /\ runners'[instances'[i].runner].status \in {"running", "paused"}
                        /\ instances'[i].status = runners'[instances'[i].runner].status
                        /\ runners'[instances'[i].runner].cancelled <=> (\E op \in {"stop", "agent"} : mu = Waits(op, i))
      BY <1>3 DEF InStep, Active, RunnerOf
    <2>1. CASE i = id
      BY <2>1, <1>1, <1>2, <1>3 DEF AgentInv, InStep, Has
    <2>2. CASE i # id
      BY <2>2, <1>2, <1>3 DEF AgentInv, InStep, Active
    <2> QED
      BY <2>1, <2>2
  <1>7. NoOrphan'
    <2> SUFFICES ASSUME NEW n \in DOMAIN runners, runners'[n].alive, ~runners'[n].cancelled
                 PROVE  \E i \in DOMAIN instances : instances[i].runner = n
      BY <1>2, <1>3 DEF NoOrphan, Known
    <2> QED
      BY <1>2 DEF AgentInv, NoOrphan, Known, Has
  <1> QED
    BY <1>4, <1>5, <1>6, <1>7 DEF AgentInv

(* A runner that starts below a new id.                                    *)
LEMMA StartKeeps ==
    ASSUME AgentInv, NEW id, NEW cfg \in Configs, NEW order, StartPipeline(id, cfg, order)
    PROVE  AgentInv'
  <1> DEFINE r == RunnerStart(cfg)
  <1>1. /\ r \in RunnerStates
        /\ Started(cfg) => r.status = "running" /\ ~r.cancelled
        /\ ~Started(cfg) => r.cancelled
    BY DEF RunnerStart, RunnerStates
  <1> HIDE DEF r
  <1>2. UNCHANGED mu /\ mu = Free
    BY DEF StartPipeline
  <1>3. CASE UNCHANGED <<instances, runners>>
    BY <1>2, <1>3 DEF AgentInv, AgentTypeOK, Separate, InStep, NoOrphan, Active, RunnerOf, Known
  <1>4. ASSUME runners' = Append(runners, r)
        PROVE  /\ runners' \in Seq(RunnerStates) /\ Len(runners') = Len(runners) + 1
               /\ Len(runners) \in Nat
               /\ DOMAIN runners' = 1..(Len(runners) + 1) /\ DOMAIN runners = 1..Len(runners)
               /\ runners'[Len(runners) + 1] = r
               /\ \A n \in DOMAIN runners : runners'[n] = runners[n]
    BY <1>1, <1>4 DEF AgentInv, AgentTypeOK
  <1>5. CASE UNCHANGED instances /\ ~Started(cfg) /\ runners' = Append(runners, r)
    <2>1. AgentTypeOK'
      BY <1>2, <1>4, <1>5 DEF AgentInv, AgentTypeOK
    <2>2. \A i \in DOMAIN instances : runners'[instances'[i].runner] = RunnerOf(i)
      BY <1>4, <1>5 DEF AgentInv, AgentTypeOK, RunnerOf
    <2>3. Separate' /\ InStep'
      BY <2>2, <1>2, <1>5 DEF AgentInv, Separate, InStep, Active, RunnerOf
    <2>4. NoOrphan'
      BY <1>1, <1>4, <1>5 DEF AgentInv, NoOrphan, Known
    <2> QED
      BY <2>1, <2>3, <2>4 DEF AgentInv
  <1>6. CASE /\ ~Has(id) /\ Started(cfg) /\ runners' = Append(runners, r)
             /\ instances' = [i \in DOMAIN instances \cup {id} |->
                                IF i = id THEN [runner |-> Len(runners'), status |-> "running"] ELSE instances[i]]
    <2>1. /\ DOMAIN instances' = DOMAIN instances \cup {id}
          /\ instances'[id] = [runner |-> Len(runners) + 1, status |-> "running"]
          /\ \A i \in DOMAIN instances : i # id /\ instances'[i] = instances[i]
      BY <1>6, <1>4 DEF Has
    <2>2. /\ \A i \in DOMAIN instances : runners'[instances'[i].runner] = RunnerOf(i)
          /\ \A i \in DOMAIN instances : instances'[i].runner # Len(runners) + 1
      BY <2>1, <1>4, <1>6 DEF AgentInv, AgentTypeOK, RunnerOf
    <2>3. instances' \in [DOMAIN instances' -> [runner : 1..Len(runners'), status : {"running", "paused"}]]
      <3> SUFFICES ASSUME NEW i \in DOMAIN instances'
                   PROVE  instances'[i] \in [runner : 1..(Len(runners) + 1), status : {"running", "paused"}]
        BY <1>6, <1>4
      <3>1. CASE i = id
        BY <3>1, <2>1, <1>4, <1>6
      <3>2. CASE i # id
        BY <3>2, <2>1, <1>4, <1>6 DEF AgentInv, AgentTypeOK
      <3> QED
        BY <3>1, <3>2
    <2>4. AgentTypeOK'
      BY <2>3, <1>2, <1>4, <1>6 DEF AgentTypeOK
    <2>5. Separate'
      BY <2>1, <2>2 DEF AgentInv, Separate
    <2>6. InStep'
      <3> SUFFICES ASSUME NEW i \in DOMAIN instances'
                   PROVE  /\ runners'[instances'[i].runner].status \in {"running", "paused"}
                          /\ instances'[i].status = runners'[instances'[i].runner].status
                          /\ runners'[instances'[i].runner].cancelled <=> (\E op \in {"stop", "agent"} : mu = Waits(op, i))
        BY <1>2 DEF InStep, Active, RunnerOf
      <3>1. CASE i = id
        BY <3>1, <2>1, <1>1, <1>2, <1>4, <1>6 DEF Free, Waits
      <3>2. CASE i # id
        BY <3>2, <2>1, <2>2 DEF AgentInv, InStep, Active
      <3> QED
        BY <3>1, <3>2
    <2>7. NoOrphan'
      <3> SUFFICES ASSUME NEW n \in 1..(Len(runners) + 1), runners'[n].alive, ~runners'[n].cancelled
                   PROVE  \E i \in DOMAIN instances' : instances'[i].runner = n
        BY <1>4, <1>6 DEF NoOrphan, Known
      <3>1. CASE n = Len(runners) + 1
        BY <3>1, <2>1
      <3>2. CASE n # Len(runners) + 1
        <4>1. n \in DOMAIN runners /\ runners'[n] = runners[n]
          BY <3>2, <1>4, <1>6
        <4>2. PICK i \in DOMAIN instances : instances[i].runner = n
          BY <4>1 DEF AgentInv, NoOrphan, Known
        <4> QED
          BY <4>2, <2>1
      <3> QED
        BY <3>1, <3>2
    <2> QED
      BY <2>4, <2>5, <2>6, <2>7 DEF AgentInv
  <1> QED
    BY <1>3, <1>5, <1>6 DEF StartPipeline, NewRunner, r

(* A stop cancels the runner, and the instance stays until it is over.     *)
LEMMA StopBeginsKeeps ==
    ASSUME AgentInv, NEW id, Has(id), NEW op \in {"stop", "agent"}, StopBegins(op, id),
           \A i \in DOMAIN instances, o \in {"stop", "agent"} : mu # Waits(o, i)
    PROVE  AgentInv'
  <1> DEFINE r == [RunnerOf(id) EXCEPT !.cancelled = TRUE]
  <1>1. r \in RunnerStates /\ r.status = RunnerOf(id).status /\ r.cancelled = TRUE
    BY OfInstance DEF RunnerStates
  <1> HIDE DEF r
  <1>2. /\ runners' \in Seq(RunnerStates) /\ Len(runners') = Len(runners)
        /\ DOMAIN runners' = DOMAIN runners
        /\ runners'[instances[id].runner] = r
        /\ \A n \in DOMAIN runners : n # instances[id].runner => runners'[n] = runners[n]
        /\ \A i \in DOMAIN instances : i # id => runners'[instances[i].runner] = RunnerOf(i)
    BY <1>1, BecomesOne DEF StopBegins, r
  <1>3. instances' = instances /\ mu' = Waits(op, id)
    BY DEF StopBegins, Waits
  <1>4. AgentTypeOK'
    BY <1>2, <1>3 DEF AgentInv, AgentTypeOK, Has
  <1>5. Separate'
    BY <1>3 DEF AgentInv, Separate
  <1>6. InStep'
    <2> SUFFICES ASSUME NEW i \in DOMAIN instances
                 PROVE  /\ runners'[instances[i].runner].status \in {"running", "paused"}
                        /\ instances[i].status = runners'[instances[i].runner].status
                        /\ runners'[instances[i].runner].cancelled <=> (\E o \in {"stop", "agent"} : mu' = Waits(o, i))
      BY <1>3 DEF InStep, Active, RunnerOf
    <2>1. CASE i = id
      BY <2>1, <1>1, <1>2, <1>3 DEF AgentInv, InStep, Active
    <2>2. CASE i # id
      <3>1. \A o \in {"stop", "agent"} : mu' # Waits(o, i)
        BY <2>2, <1>3 DEF Waits
      <3> QED
        BY <2>2, <3>1, <1>2 DEF AgentInv, InStep, Active
    <2> QED
      BY <2>1, <2>2
  <1>7. NoOrphan'
    BY <1>1, <1>2, <1>3 DEF AgentInv, NoOrphan, Known
  <1> QED
    BY <1>4, <1>5, <1>6, <1>7 DEF AgentInv

(* When the stop is over the instance is gone, and its runner with it.     *)
LEMMA StopEndsKeeps ==
    ASSUME AgentInv, StopEnds
    PROVE  AgentInv'
  <1>0. mu # Between /\ mu # Free
    BY DEF StopEnds, Between
  <1>1. PICK op \in {"stop", "agent"}, id \in DOMAIN instances : mu = Waits(op, id)
    BY <1>0 DEF AgentInv, AgentTypeOK
  <1>2. mu.id = id /\ Has(id)
    BY <1>1 DEF Waits, Has
  <1> DEFINE r == [RunnerOf(id) EXCEPT !.status = "stopped"]
  <1>3. r \in RunnerStates /\ r.cancelled = RunnerOf(id).cancelled
    BY <1>2, OfInstance DEF RunnerStates
  <1>4. r.cancelled
    BY <1>1, <1>3 DEF AgentInv, InStep
  <1>5. Becomes(id, r) /\ instances' = Without(id) /\ (mu' = Free \/ mu' = Between)
    BY <1>2 DEF StopEnds, Between
  <1> HIDE DEF r
  <1>6. /\ runners' \in Seq(RunnerStates) /\ Len(runners') = Len(runners)
        /\ DOMAIN runners' = DOMAIN runners
        /\ runners'[instances[id].runner] = r
        /\ \A n \in DOMAIN runners : n # instances[id].runner => runners'[n] = runners[n]
        /\ \A i \in DOMAIN instances : i # id => runners'[instances[i].runner] = RunnerOf(i)
    BY <1>2, <1>3, <1>5, BecomesOne
  <1>7. /\ DOMAIN instances' = DOMAIN instances \ {id}
        /\ \A i \in DOMAIN instances' : instances'[i] = instances[i]
        /\ instances' \in [DOMAIN instances' -> [runner : 1..Len(runners'), status : {"running", "paused"}]]
    BY <1>5, <1>6 DEF Without, AgentInv, AgentTypeOK
  <1>8. AgentTypeOK' /\ Separate'
    BY <1>5, <1>6, <1>7 DEF AgentInv, AgentTypeOK, Separate
  <1>9. InStep'
    <2> SUFFICES ASSUME NEW i \in DOMAIN instances'
                 PROVE  /\ runners'[instances'[i].runner].status \in {"running", "paused"}
                        /\ instances'[i].status = runners'[instances'[i].runner].status
                        /\ runners'[instances'[i].runner].cancelled <=> (\E o \in {"stop", "agent"} : mu' = Waits(o, i))
      BY DEF InStep, Active, RunnerOf
    <2>1. i \in DOMAIN instances /\ i # id /\ runners'[instances'[i].runner] = RunnerOf(i)
      BY <1>6, <1>7
    <2>2. \A o \in {"stop", "agent"} : mu' # Waits(o, i) /\ mu # Waits(o, i)
      BY <2>1, <1>1, <1>5 DEF Waits, Free, Between
    <2> QED
      BY <2>1, <2>2, <1>7 DEF AgentInv, InStep, Active
  <1>10. NoOrphan'
    <2> SUFFICES ASSUME NEW n \in DOMAIN runners, runners'[n].alive, ~runners'[n].cancelled
                 PROVE  \E i \in DOMAIN instances' : instances'[i].runner = n
      BY <1>6 DEF NoOrphan, Known
    <2>1. n # instances[id].runner /\ runners'[n] = runners[n]
      BY <1>4, <1>6
    <2>2. PICK i \in DOMAIN instances : instances[i].runner = n
      BY <2>1 DEF AgentInv, NoOrphan, Known
    <2> QED
      BY <2>1, <2>2, <1>7
  <1> QED
    BY <1>8, <1>9, <1>10 DEF AgentInv

(* The goroutines of a cancelled runner come to their end.                 *)
LEMMA ActorsEndKeeps ==
    ASSUME AgentInv, NEW n \in DOMAIN runners, ActorsEnd(n)
    PROVE  AgentInv'
  <1>1. /\ runners' \in Seq(RunnerStates) /\ DOMAIN runners' = DOMAIN runners /\ Len(runners') = Len(runners)
        /\ UNCHANGED <<instances, mu>>
    <2>1. runners[n] \in RunnerStates /\ runners \in Seq(RunnerStates)
      BY DEF AgentInv, AgentTypeOK
    <2>2. [runners[n] EXCEPT !.alive = FALSE] \in RunnerStates
      BY <2>1 DEF RunnerStates
    <2>3. runners' = [runners EXCEPT ![n] = [runners[n] EXCEPT !.alive = FALSE]]
      BY DEF ActorsEnd
    <2> QED
      BY <2>1, <2>2, <2>3 DEF ActorsEnd
  <1>2. \A m \in DOMAIN runners :
           /\ runners'[m].status = runners[m].status
           /\ runners'[m].cancelled = runners[m].cancelled
           /\ runners'[m].alive => runners[m].alive
    BY DEF AgentInv, AgentTypeOK, ActorsEnd, RunnerStates
  <1>3. \A i \in DOMAIN instances : instances[i].runner \in DOMAIN runners
    BY OfInstance DEF Has
  <1>4. AgentTypeOK' /\ Separate'
    BY <1>1 DEF AgentInv, AgentTypeOK, Separate
  <1>5. InStep'
    <2> SUFFICES ASSUME NEW i \in DOMAIN instances
                 PROVE  /\ runners'[instances[i].runner].status \in {"running", "paused"}
                        /\ instances[i].status = runners'[instances[i].runner].status
                        /\ runners'[instances[i].runner].cancelled <=> (\E o \in {"stop", "agent"} : mu = Waits(o, i))
      BY <1>1 DEF InStep, Active, RunnerOf
    <2>1. /\ runners'[instances[i].runner].status = RunnerOf(i).status
          /\ runners'[instances[i].runner].cancelled = RunnerOf(i).cancelled
      BY <1>2, <1>3 DEF RunnerOf
    <2> QED
      BY <2>1 DEF AgentInv, InStep, Active
  <1>6. NoOrphan'
    <2> SUFFICES ASSUME NEW m \in DOMAIN runners, runners'[m].alive, ~runners'[m].cancelled
                 PROVE  \E i \in DOMAIN instances : instances[i].runner = m
      BY <1>1 DEF NoOrphan, Known
    <2>1. runners[m].alive /\ ~runners[m].cancelled
      BY <1>2
    <2> QED
      BY <2>1 DEF AgentInv, NoOrphan, Known
  <1> QED
    BY <1>4, <1>5, <1>6 DEF AgentInv

(* Every operation of the agent keeps the invariant.                       *)
LEMMA AgentInvAlways == AgentSpec => []AgentInv
<1>1. AgentInit => AgentInv
  BY DEF AgentInit, AgentInv, AgentTypeOK, Separate, InStep, NoOrphan
<1>2. AgentInv /\ [AgentNext]_agentVars => AgentInv'
  <2> SUFFICES ASSUME AgentInv, [AgentNext]_agentVars PROVE AgentInv'
    OBVIOUS
  <2>1. ASSUME NEW id \in Ids, NEW cfg \in Configs, NEW order \in Orders, StartPipeline(id, cfg, order)
        PROVE  AgentInv'
    BY <2>1, StartKeeps
  <2>2. ASSUME NEW id \in Ids, PausePipeline(id) PROVE AgentInv'
    BY <2>2, StatusChangeKeeps DEF PausePipeline, Pause
  <2>3. ASSUME NEW id \in Ids, ResumePipeline(id) PROVE AgentInv'
    BY <2>3, StatusChangeKeeps DEF ResumePipeline, Resume
  <2>4. ASSUME NEW id \in Ids, StopPipeline(id) PROVE AgentInv'
    <3>1. \A i \in DOMAIN instances, o \in {"stop", "agent"} : mu # Waits(o, i)
      BY <2>4 DEF StopPipeline, Waits, Free
    <3> QED
      BY <2>4, <3>1, StopBeginsKeeps DEF StopPipeline
  <2>5. ASSUME NEW id \in Ids, StopsNext(id) PROVE AgentInv'
    <3>1. \A i \in DOMAIN instances, o \in {"stop", "agent"} : mu # Waits(o, i)
      BY <2>5 DEF StopsNext, Waits
    <3>2. Has(id) /\ Active(id)
      BY <2>5 DEF StopsNext, AgentInv, InStep, Has
    <3> QED
      BY <2>5, <3>1, <3>2, StopBeginsKeeps DEF StopsNext
  <2>6. CASE StopEnds
    BY <2>6, StopEndsKeeps
  <2>7. CASE AgentStop \/ AgentStopped
    <3>1. /\ UNCHANGED <<instances, runners>> /\ (mu' = Free \/ mu' = Between)
          /\ \A i \in DOMAIN instances, o \in {"stop", "agent"} : mu # Waits(o, i) /\ mu' # Waits(o, i)
      BY <2>7 DEF AgentStop, AgentStopped, Free, Between, Waits
    <3>2. AgentTypeOK' /\ Separate'
      BY <3>1 DEF AgentInv, AgentTypeOK, Separate
    <3>3. InStep' /\ NoOrphan'
      BY <3>1 DEF AgentInv, InStep, NoOrphan, Known, Active, RunnerOf
    <3> QED
      BY <3>2, <3>3 DEF AgentInv
  <2>8. ASSUME NEW n \in DOMAIN runners, ActorsEnd(n) PROVE AgentInv'
    BY <2>8, ActorsEndKeeps
  <2>9. CASE UNCHANGED agentVars
    BY <2>9 DEF agentVars, AgentInv, AgentTypeOK, Separate, InStep, NoOrphan, Active, RunnerOf, Known
  <2> QED
    BY <2>1, <2>2, <2>3, <2>4, <2>5, <2>6, <2>7, <2>8, <2>9 DEF AgentNext, Requested, handleCommand
<1> QED
  BY <1>1, <1>2, PTL DEF AgentSpec

(* Actors that no instance leads to any more have been told to end         *)
(* (Agent.StartPipeline, StopPipeline, Stop; Runner.Start), in whatever    *)
(* order the API and the commands call the operations.                     *)
THEOREM NeverAnOrphan == AgentSpec => []NoOrphan
  <1>1. AgentInv => NoOrphan
    BY DEF AgentInv
  <1> QED
    BY <1>1, AgentInvAlways, PTL

(* When nobody holds a.mu the status the agent keeps of a pipeline is that *)
(* of its Runner, which is not cancelled.                                  *)
THEOREM StatusesAlwaysAgree == AgentSpec => []StatusesAgree
  <1>1. AgentInv => StatusesAgree
    <2> SUFFICES ASSUME AgentInv, mu = Free, NEW id \in DOMAIN instances
                 PROVE  Active(id) /\ instances[id].status = RunnerOf(id).status /\ ~RunnerOf(id).cancelled
      BY DEF StatusesAgree
    <2>1. \A op \in {"stop", "agent"} : mu # Waits(op, id)
      BY DEF Waits, Free
    <2> QED
      BY <2>1 DEF AgentInv, InStep
  <1> QED
    BY <1>1, AgentInvAlways, PTL

-----------------------------------------------------------------------------
(* cron and the scheduler's map agree, and a stopped scheduler is quiet.   *)
EntriesInv == entries \in [Workflows -> Nat] /\ OneEntry

(* Registering a schedule replaces the workflow's entry.                   *)
LEMMA AddKeepsOneEntry ==
    ASSUME EntriesInv, NEW w, NEW row, addScheduleInternal(w, row)
    PROVE  EntriesInv'
  <1>1. CASE w \in Workflows
    BY <1>1 DEF EntriesInv, OneEntry, addScheduleInternal, EntryCount
  <1>2. CASE w \notin Workflows
    BY <1>2 DEF EntriesInv, OneEntry, addScheduleInternal, EntryCount
  <1> QED
    BY <1>1, <1>2

(* Removing one takes the entry and the map's record of it together.       *)
LEMMA RemoveKeepsOneEntry ==
    ASSUME EntriesInv, NEW w, RemoveSchedule(w)
    PROVE  EntriesInv'
  <1>1. CASE w \in Workflows
    BY <1>1 DEF EntriesInv, OneEntry, RemoveSchedule, EntryCount
  <1>2. CASE w \notin Workflows
    BY <1>2 DEF EntriesInv, OneEntry, RemoveSchedule, EntryCount
  <1> QED
    BY <1>1, <1>2

(* A step of a request keeps cron and the map in agreement, and leaves the *)
(* jobs in flight and Stop alone.                                          *)
LEMMA RequestKeeps ==
    ASSUME EntriesInv, NEW r \in Requests,
           Serve(r) \/ \E w \in Workflows : Arrives(r, w)
    PROVE  EntriesInv' /\ UNCHANGED <<fire, stop>>
  <1>1. CASE Register(r)
    BY <1>1, AddKeepsOneEntry DEF Register, AddSchedule
  <1>2. CASE Unregister(r)
    BY <1>2, RemoveKeepsOneEntry DEF Unregister
  <1>3. CASE \/ StartCreates(r) \/ SaveStatus(r) \/ StopExecutions(r)
             \/ UpdateSaves(r) \/ Delete(r) \/ UpdateColumns(r) \/ Reload(r)
             \/ SetEnabled(r) \/ TriggerCreates(r) \/ TriggerMarks(r)
    <2>1. UNCHANGED <<entries, jobs, fire, stop>>
      BY <1>3 DEF StartCreates, SaveStatus, StopExecutions, UpdateSaves, Delete,
           UpdateColumns, Reload, SetEnabled, TriggerCreates, TriggerMarks,
           OnlyRows, schedVars
    <2> QED
      BY <2>1 DEF EntriesInv, OneEntry
  <1>4. ASSUME NEW w \in Workflows, Arrives(r, w)
        PROVE  EntriesInv' /\ UNCHANGED <<fire, stop>>
    <2>1. UNCHANGED <<entries, jobs, fire, stop>>
      BY <1>4 DEF Arrives, CreateWorkflow, StartWorkflow, StopWorkflow,
           PauseWorkflow, ResumeWorkflow, UpdateWorkflow, DeleteWorkflow,
           UpdateSchedule, EnableSchedule, DisableSchedule, TriggerNow, Load,
           OnlyRows, schedVars
    <2> QED
      BY <2>1 DEF EntriesInv, OneEntry
  <1> QED
    BY <1>1, <1>2, <1>3, <1>4 DEF Serve

(* A step of a job: only one that unregisters itself touches the map.      *)
LEMMA JobKeeps ==
    ASSUME EntriesInv, NEW f \in Fires, Job(f)
    PROVE  EntriesInv' /\ fire[f] # NoFire /\ UNCHANGED stop
  <1>1. fire[f] # NoFire
    BY DEF Job, JobLoads, JobRemoves, JobCreates, JobMarks, JobEnds, NoFire
  <1>2. CASE JobRemoves(f)
    BY <1>1, <1>2, RemoveKeepsOneEntry DEF JobRemoves
  <1>3. CASE JobLoads(f) \/ JobCreates(f) \/ JobMarks(f) \/ JobEnds(f)
    <2>1. UNCHANGED <<entries, jobs, stop>>
      BY <1>3 DEF JobLoads, JobCreates, JobMarks, JobEnds
    <2> QED
      BY <1>1, <2>1 DEF EntriesInv, OneEntry
  <1> QED
    BY <1>2, <1>3 DEF Job

(* The scheduler starts with an entry for exactly the workflows it loaded. *)
LEMMA StartAgrees == Start => EntriesInv' /\ StoppedIsQuiet'
  BY DEF Start, EntriesInv, OneEntry, StoppedIsQuiet

(* cron holds one entry for each workflow in s.jobs and none for any other *)
(* workflow, and once Stop has returned no job is in flight, whatever the  *)
(* requests, the jobs, restarts and Stop do in whatever order              *)
(* (addScheduleInternal, RemoveSchedule, scheduledJob.Run, Stop).          *)
THEOREM SchedulerConsistent == Spec => [](OneEntry /\ StoppedIsQuiet)
<1> DEFINE Inv == EntriesInv /\ StoppedIsQuiet
<1>1. Init => Inv
  BY DEF Init, EntriesInv, OneEntry, StoppedIsQuiet
<1>2. Inv /\ [Next]_reqVars => Inv'
  <2> SUFFICES ASSUME Inv, [Next]_reqVars PROVE Inv'
    OBVIOUS
  <2>1. ASSUME NEW r \in Requests, Serve(r) \/ \E w \in Workflows : Arrives(r, w)
        PROVE  Inv'
    BY <2>1, RequestKeeps DEF StoppedIsQuiet
  <2>2. ASSUME NEW f \in Fires, Job(f)
        PROVE  Inv'
    <3>1. stop' # "done"
      BY <2>2, JobKeeps DEF StoppedIsQuiet
    <3> QED
      BY <2>2, <3>1, JobKeeps DEF StoppedIsQuiet
  <2>3. ASSUME NEW f \in Fires, NEW w \in Workflows, CronFires(f, w)
        PROVE  Inv'
    BY <2>3 DEF CronFires, EntriesInv, OneEntry, StoppedIsQuiet
  <2>4. CASE Stop
    BY <2>4 DEF Stop, EntriesInv, OneEntry, StoppedIsQuiet
  <2>5. CASE StopReturns
    BY <2>5 DEF StopReturns, EntriesInv, OneEntry, StoppedIsQuiet
  <2>6. CASE Restart
    BY <2>6, StartAgrees DEF Restart
  <2>7. CASE UNCHANGED reqVars
    BY <2>7 DEF reqVars, schedVars, EntriesInv, OneEntry, StoppedIsQuiet
  <2> QED
    BY <2>1, <2>2, <2>3, <2>4, <2>5, <2>6, <2>7 DEF Next, Scheduling
<1>3. Inv => OneEntry /\ StoppedIsQuiet
  BY DEF EntriesInv
<1> QED
  BY <1>1, <1>2, <1>3, PTL DEF Spec
=============================================================================
