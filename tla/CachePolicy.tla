---------------------------- MODULE CachePolicy ----------------------------
(***************************************************************************)
(* What every policy of the repository promises to the code that calls it  *)
(* (cache_nucleus_api.h and the operation codes of cache_nucleus_struct.h),*)
(* whatever algorithm chooses the victims: which blocks are cached, which  *)
(* of them are still being copied, and what each call answers.             *)
(*                                                                         *)
(*   HIT      the block is cached                                          *)
(*   NEW      a miss; free space is used                                   *)
(*   REPLACE  a miss; the cache is full and a block evicted, never one     *)
(*            that is being copied                                         *)
(*   FILTER   a miss; the block is kept out (admission policies only)      *)
(*   FAIL     a miss that found neither free space nor a block to evict;   *)
(*            nothing changes                                              *)
(***************************************************************************)
EXTENDS Integers, FiniteSets

CONSTANTS
  Oblocks,      \* block addresses of the origin device
  CacheSize,    \* number of cache blocks
  MayFilter,    \* whether the policy may keep a missed block out of the cache
  FailsEarly,   \* whether it may fail while only some of the blocks are in flight
  Null

VARIABLES
  cached,       \* the blocks that have a cache block
  inflight,     \* those whose data is still being copied to it
  answer        \* <<operation, evicted block>> of the last call

policyVars == <<cached, inflight, answer>>

Void == <<"NONE", Null>>

PolicyInit ==
  /\ cached = {}
  /\ inflight = {}
  /\ answer = Void

Hit(o) ==
  /\ o \in cached
  /\ answer' = <<"HIT", Null>>
  /\ UNCHANGED <<cached, inflight>>

New(o) ==
  /\ o \notin cached
  /\ Cardinality(cached) < CacheSize
  /\ cached' = cached \cup {o}
  /\ inflight' = inflight \cup {o}
  /\ answer' = <<"NEW", Null>>

Replace(o, v) ==
  /\ o \notin cached
  /\ Cardinality(cached) = CacheSize
  /\ v \in cached \ inflight
  /\ cached' = (cached \ {v}) \cup {o}
  /\ inflight' = inflight \cup {o}
  /\ answer' = <<"REPLACE", v>>

Filter(o) ==
  /\ MayFilter
  /\ o \notin cached
  /\ answer' = <<"FILTER", Null>>
  /\ UNCHANGED <<cached, inflight>>

Fail(o) ==
  /\ o \notin cached
  /\ Cardinality(cached) = CacheSize
  /\ cached = inflight \/ (FailsEarly /\ inflight # {})
  /\ answer' = <<"FAIL", Null>>
  /\ UNCHANGED <<cached, inflight>>

\* The block's data has been copied: it is valid, and may be evicted.
Migrated(o) ==
  /\ o \in inflight
  /\ inflight' = inflight \ {o}
  /\ answer' = Void
  /\ UNCHANGED cached

\* Drops a cached block, in flight or not.
Drop(o) ==
  /\ o \in cached
  /\ cached' = cached \ {o}
  /\ inflight' = inflight \ {o}
  /\ answer' = Void

\* Drops what a policy remembers of a block that is not cached.
Forget(o) ==
  /\ o \notin cached
  /\ answer' = Void
  /\ UNCHANGED <<cached, inflight>>

\* A block found in the cache when it is brought up again.
Preload(o) ==
  /\ o \notin cached
  /\ Cardinality(cached) < CacheSize
  /\ cached' = cached \cup {o}
  /\ answer' = Void
  /\ UNCHANGED inflight

\* The cached block o becomes block n, and stays in flight if it was.
Rename(o, n) ==
  /\ o \in cached
  /\ n \notin cached
  /\ cached' = (cached \ {o}) \cup {n}
  /\ inflight' = IF o \in inflight THEN (inflight \ {o}) \cup {n} ELSE inflight
  /\ answer' = Void

PolicyNext ==
  \E o \in Oblocks :
    \/ Hit(o) \/ New(o) \/ Filter(o) \/ Fail(o)
    \/ Migrated(o) \/ Drop(o) \/ Forget(o) \/ Preload(o)
    \/ \E v \in Oblocks : Replace(o, v) \/ Rename(o, v)

PolicySpec == PolicyInit /\ [][PolicyNext]_policyVars
============================================================================
