----------------------------- MODULE LocalCache -----------------------------
(***************************************************************************)
(* Set, Get and Del of the resilient client over the Redis server and the  *)
(* client's local cache.  A call takes the cache and the server one after  *)
(* the other, never together, so the calls of several goroutines           *)
(* interleave between the two.  Whether a request gets through is the      *)
(* environment's choice here: the connection and the circuit breaker are   *)
(* in ResilientClient.  A request that fails may have reached the server.  *)
(***************************************************************************)
EXTENDS Naturals, FiniteSets

CONSTANTS
    Callers,            \* goroutines that use the client
    Keys,
    Values,
    None,               \* no value: redis.Nil, no entry, an error
    LocalCacheMaxSize

ASSUME CacheAssumption ==
    /\ None \notin Values
    /\ LocalCacheMaxSize \in Nat
    /\ IsFiniteSet(Keys)

VARIABLES
    redis,      \* the server's value of each key
    cache,      \* rc.localCache: the value of each key
    expired,    \* keys whose entry is past expiresAt
    call,       \* what each caller has left to do
    answer,     \* what the latest Get of each caller gave, and from where
    possible    \* history: the values a Get may give with a single caller

cacheVars == <<redis, cache, expired, call, answer, possible>>

Cached == {k \in Keys : cache[k] # None}

NoCall == [op |-> "none"]
NoAnswer == [key |-> None, value |-> None, from |-> None]

Return(c) == call' = [call EXCEPT ![c] = NoCall]
Then(c, rest) == call' = [call EXCEPT ![c] = rest]

-----------------------------------------------------------------------------
(* Variant: room is made only in a cache that is already past its size.    *)
setLocalCache_OneTooMany(k, v) ==
    \E victims \in IF Cardinality(Cached) > LocalCacheMaxSize
                   THEN {{x} : x \in Cached} ELSE {{}} :
        /\ cache' = [x \in Keys |-> IF x = k THEN v
                                    ELSE IF x \in victims THEN None ELSE cache[x]]
        /\ expired' = expired \ (victims \cup {k})

(* A full cache gives up an entry of the map iteration's choice, also when *)
(* k is in the cache already; an empty one has none to give up.            *)
setLocalCache(k, v) ==
    \E victims \in IF Cardinality(Cached) >= LocalCacheMaxSize /\ Cached # {}
                   THEN {{x} : x \in Cached} ELSE {{}} :
        /\ cache' = [x \in Keys |-> IF x = k THEN v
                                    ELSE IF x \in victims THEN None ELSE cache[x]]
        /\ expired' = expired \ (victims \cup {k})

getLocalCache(k) == IF k \in expired THEN None ELSE cache[k]

-----------------------------------------------------------------------------
(* Set: the local cache, always ...                                        *)
Set(c, k, v) ==
    /\ call[c] = NoCall
    /\ setLocalCache(k, v)
    /\ Then(c, [op |-> "set", key |-> k, value |-> v])
    /\ possible' = [possible EXCEPT ![k] = @ \cup {v}]
    /\ UNCHANGED <<redis, answer>>

(* ... then the server.                                                    *)
SetServer(c) ==
    LET k == call[c].key  v == call[c].value IN
    /\ call[c].op = "set"
    /\ redis' = [redis EXCEPT ![k] = v]
    /\ possible' = [possible EXCEPT ![k] = {v}]
    /\ Return(c)
    /\ UNCHANGED <<cache, expired, answer>>

(* Get: the server first.  A value goes on to the cache ...                *)
GetServer(c, k) ==
    /\ call[c] = NoCall
    /\ redis[k] # None
    /\ Then(c, [op |-> "fill", key |-> k, value |-> redis[k]])
    /\ UNCHANGED <<redis, cache, expired, answer, possible>>

GetFill(c) ==
    LET k == call[c].key  v == call[c].value IN
    /\ call[c].op = "fill"
    /\ setLocalCache(k, v)
    /\ answer' = [answer EXCEPT ![c] = [key |-> k, value |-> v, from |-> "server"]]
    /\ Return(c)
    /\ UNCHANGED <<redis, possible>>

(* ... and both "no such key" and a failure go on to the fallback.         *)
GetNil(c, k) ==
    /\ call[c] = NoCall
    /\ redis[k] = None
    /\ Then(c, [op |-> "fallback", key |-> k, said |-> "nil"])
    /\ UNCHANGED <<redis, cache, expired, answer, possible>>

GetFails(c, k) ==
    /\ call[c] = NoCall
    /\ Then(c, [op |-> "fallback", key |-> k, said |-> "failed"])
    /\ UNCHANGED <<redis, cache, expired, answer, possible>>

GetFallback(c) ==
    LET k == call[c].key IN
    /\ call[c].op = "fallback"
    /\ answer' = [answer EXCEPT ![c] = [key |-> k, value |-> getLocalCache(k),
                                        from |-> call[c].said]]
    /\ Return(c)
    /\ UNCHANGED <<redis, cache, expired, possible>>

(* Variant: only the server's copy is deleted.                             *)
Del_ServerOnly(c, k) ==
    /\ call[c] = NoCall
    /\ Then(c, [op |-> "del", key |-> k])
    /\ UNCHANGED <<redis, cache, expired, answer, possible>>

(* Del: the cache, then the server.                                        *)
Del(c, k) ==
    /\ call[c] = NoCall
    /\ cache' = [cache EXCEPT ![k] = None]
    /\ expired' = expired \ {k}
    /\ Then(c, [op |-> "del", key |-> k])
    /\ UNCHANGED <<redis, answer, possible>>

DelServer(c) ==
    LET k == call[c].key IN
    /\ call[c].op = "del"
    /\ redis' = [redis EXCEPT ![k] = None]
    /\ possible' = [possible EXCEPT ![k] = {}]
    /\ Return(c)
    /\ UNCHANGED <<cache, expired, answer>>

(* A Set or a Del that returns an error: refused by the breaker or for     *)
(* want of a connection, or sent, with its answer lost.                    *)
WriteFails(c) ==
    /\ call[c].op \in {"set", "del"}
    /\ \/ redis' = redis
       \/ redis' = [redis EXCEPT ![call[c].key] =
                       IF call[c].op = "set" THEN call[c].value ELSE None]
    /\ Return(c)
    /\ UNCHANGED <<cache, expired, answer, possible>>

-----------------------------------------------------------------------------
cleanupExpiredCache ==
    /\ expired # {}
    /\ cache' = [k \in Keys |-> IF k \in expired THEN None ELSE cache[k]]
    /\ expired' = {}
    /\ UNCHANGED <<redis, call, answer, possible>>

(* Time passes: an entry, or the server's copy, reaches its expiration.    *)
EntryExpires(k) ==
    /\ k \in Cached \ expired
    /\ expired' = expired \cup {k}
    /\ UNCHANGED <<redis, cache, call, answer, possible>>

ServerExpires(k) ==
    /\ redis[k] # None
    /\ redis' = [redis EXCEPT ![k] = None]
    /\ UNCHANGED <<cache, expired, call, answer, possible>>

CacheInit ==
    /\ redis = [k \in Keys |-> None]
    /\ cache = [k \in Keys |-> None]
    /\ expired = {}
    /\ call = [c \in Callers |-> NoCall]
    /\ answer = [c \in Callers |-> NoAnswer]
    /\ possible = [k \in Keys |-> {}]

CallStep(c) ==
    \/ \E k \in Keys : \/ \E v \in Values : Set(c, k, v)
                       \/ GetServer(c, k) \/ GetNil(c, k) \/ GetFails(c, k)
                       \/ Del(c, k)
    \/ SetServer(c) \/ GetFill(c) \/ GetFallback(c) \/ DelServer(c)
    \/ WriteFails(c)

CacheNext ==
    \/ \E c \in Callers : CallStep(c)
    \/ cleanupExpiredCache
    \/ \E k \in Keys : EntryExpires(k) \/ ServerExpires(k)

CacheSpec == CacheInit /\ [][CacheNext]_cacheVars

-----------------------------------------------------------------------------
(* Properties *)

(* Every variable stays in its range; only cached keys expire, and only a  *)
(* value goes from the server to the cache.                                *)
CacheTypeOK ==
    /\ redis \in [Keys -> Values \cup {None}]
    /\ cache \in [Keys -> Values \cup {None}]
    /\ expired \subseteq Cached
    /\ possible \in [Keys -> SUBSET Values]
    /\ \A c \in Callers : call[c].op = "fill" => call[c].value \in Values

(* The local cache never exceeds LocalCacheMaxSize entries, however the    *)
(* calls interleave; a maximum of 0 still holds one entry (setLocalCache). *)
CacheBound ==
    Cardinality(Cached) <= IF LocalCacheMaxSize = 0 THEN 1 ELSE LocalCacheMaxSize

(* With a single caller, Get gives a value that the latest successful Set  *)
(* of the key wrote, or one that a later, failed Set tried to write, or    *)
(* nothing; after a successful Del nothing older comes back.  It takes an  *)
(* outage between two calls to have the cache answer for the server.       *)
ReadsRecent ==
    [][\A c \in Callers :
          call[c].op \in {"fill", "fallback"} /\ call'[c] = NoCall
             => answer'[c].value \in possible[call[c].key] \cup {None}]_cacheVars

=============================================================================
