-------------------------------- MODULE Lirs -------------------------------
(***************************************************************************)
(* The LIRS policy (algs/lirs/lirs_policy.c).  Blocks are LIR or HIR; the  *)
(* stack S orders blocks by recency, Q holds the HIR blocks that may be    *)
(* evicted, R the HIR blocks that are in S, and G the ghosts: HIR blocks   *)
(* that were evicted while in S.                                           *)
(*                                                                         *)
(* An entry is named by its block, which has an entry of the cache pool    *)
(* or, as a ghost, one of the meta pool.  The pools, the hash table and    *)
(* the dirty flags and statistics, used as LRU uses them, are left out.    *)
(* The functions update struct lirs_policy in place; here they are         *)
(* operators on its value l, in which fault tells that an assertion has    *)
(* failed or NULL was followed.                                            *)
(***************************************************************************)
EXTENDS Meta

CONSTANT
  Removals   \* the values of remove_to_history that the caller removes blocks with

ASSUME LirsAssumption == MetaSize \in Nat /\ Removals \subseteq BOOLEAN

VARIABLES
  lirs,      \* struct lirs_policy
  answer,    \* <<operation, evicted block>>
  quiet      \* history: no request came with a block in flight, and no block was
             \* removed or renamed

lirsVars == <<lirs, answer, loading, quiet>>

hir_limit == Max({2, CacheSize \div 100})
s_maxlen == 2 * CacheSize
Queues == {"q", "r", "s", "g"}
Void == <<"NONE", Null>>

LirsInit ==
  /\ lirs = [ queue |-> [n \in Queues |-> <<>>], s_len |-> 0, lir_count |-> 0,
              hir |-> {}, cached |-> {}, migrating |-> {}, last_oblock |-> Null,
              fault |-> FALSE ]
  /\ answer = Void
  /\ loading = TRUE
  /\ quiet = TRUE

lirs_ghosts(l) == ToSet(l.queue["g"])
in_queue(l, n, o) == o \in ToSet(l.queue[n])

\* Fault: the cache counts as full one block early.
policy_cache_is_full_early(l) == Cardinality(l.cached) >= CacheSize - 1

policy_cache_is_full(l) == Cardinality(l.cached) = CacheSize
Fault(l) == [l EXCEPT !.fault = TRUE]

(***************************************************************************)
(* The lists.                                                              *)
(***************************************************************************)
\* Fault: the block is left in R.
lirs_remove_from_queues_but_r(l, o) ==
  [l EXCEPT !.queue = [n \in Queues |-> IF n = "r" THEN l.queue[n] ELSE queue_remove(l.queue[n], o)],
            !.s_len = IF in_queue(l, "s", o) THEN @ - 1 ELSE @]

lirs_remove_from_queues(l, o) ==
  [l EXCEPT !.queue = [n \in Queues |-> queue_remove(l.queue[n], o)],
            !.s_len = IF in_queue(l, "s", o) THEN @ - 1 ELSE @]

lirs_push_to_queues(l, o, ns) ==
  [l EXCEPT !.queue = [n \in Queues |-> IF n \in ns THEN queue_push(l.queue[n], o)
                                                    ELSE l.queue[n]]]

\* An HIR block goes to Q, R and S, a LIR block to S.
lirs_enqueue(l, o, is_HIR) ==
  lirs_push_to_queues(l, o, IF is_HIR THEN {"q", "r", "s"} ELSE {"s"})

lirs_remove_entry(l, o) ==
  [lirs_remove_from_queues(l, o) EXCEPT
     !.lir_count = IF o \in l.hir THEN @ ELSE @ - 1,
     !.hir = @ \ {o},
     !.cached = @ \ {o},
     !.migrating = @ \ {o}]

\* The cached HIR block o becomes a ghost, with its places in S and R.
lirs_replace_with_meta(l, o) ==
  LET full == Len(l.queue["g"]) >= MetaSize
      room == IF full THEN lirs_remove_entry(l, Head(l.queue["g"])) ELSE l
  IN  IF \/ ~(in_queue(l, "s", o) /\ in_queue(l, "r", o))
         \/ o \notin l.hir \/ o \notin l.cached
         \/ full /\ l.queue["g"] = <<>>
        THEN Fault(l)
        ELSE [room EXCEPT !.queue["q"] = queue_remove(@, o),
                          !.queue["g"] = queue_push(@, o),
                          !.cached = @ \ {o},
                          !.migrating = @ \ {o}]

lirs_q_evict(l) ==
  LET v == Head(l.queue["q"])
  IN  IF in_queue(l, "s", v) THEN lirs_replace_with_meta(l, v) ELSE lirs_remove_entry(l, v)

\* The oldest HIR block of S leaves it; a ghost is forgotten.
lirs_r_evict(l) ==
  LET o == Head(l.queue["r"])
      out == [l EXCEPT !.queue["s"] = queue_remove(@, o),
                       !.queue["r"] = queue_remove(@, o),
                       !.s_len = @ - 1]
  IN  IF l.queue["r"] = <<>> THEN Fault(l)
      ELSE IF o \in l.cached THEN out
      ELSE lirs_remove_entry(out, o)

\* The oldest block of S, which must be LIR and cached, becomes HIR.
lirs_s_evict(l) ==
  LET o == Head(l.queue["s"])
  IN  IF l.queue["s"] = <<>> \/ o \in l.hir \/ o \notin l.cached
        THEN Fault(l)
        ELSE lirs_push_to_queues(
               lirs_remove_from_queues([l EXCEPT !.hir = @ \cup {o}, !.lir_count = @ - 1], o),
               o, {"q"})

\* One step of the loop: the oldest block of S leaves it if it is HIR.
lirs_pop_hir(l) ==
  LET s == l.queue["s"]
      r == l.queue["r"]
  IN  IF s = <<>> \/ Head(s) \notin l.hir THEN l
      ELSE IF r # <<>> /\ Head(r) = Head(s) THEN lirs_r_evict(l)
      ELSE Fault(l)

\* Fault: the HIR blocks at the end of S stay there.
lirs_find_last_lir_lru_never(l) == l

\* HIR blocks leave S until its oldest block is LIR; they must be R's oldest.  The
\* value of the loop's k-th step is popped[k]: it ends when S is empty at the latest.
lirs_find_last_lir_lru(l) ==
  LET popped[k \in 0 .. Len(l.queue["s"])] ==
        IF k = 0 THEN l ELSE lirs_pop_hir(popped[k - 1])
  IN  popped[Len(l.queue["s"])]

lirs_prune_s(l) == IF l.s_len <= s_maxlen THEN l ELSE lirs_r_evict(l)

(***************************************************************************)
(* Requests.                                                               *)
(***************************************************************************)

\* Whether a known HIR block becomes LIR depends on the oldest block of S, not on
\* the block itself, being in S: always, and NULL is followed if S is empty.
lirs_transaction_set(l, o) ==
  LET known    == o \in l.cached \cup lirs_ghosts(l)
      in_cache == o \in l.cached
      free     == CacheSize - Cardinality(l.cached)
      HIR      == (known => o \in l.hir) /\ (in_cache \/ free <= hir_limit)
      promoted == known /\ HIR
      s        == l.queue["s"]
  IN  [ repeat    |-> o = l.last_oblock,
        hir_evict |-> o # l.last_oblock /\ ~in_cache /\ policy_cache_is_full(l),
        lir_s_lru |-> s # <<>> /\ Head(s) = o,
        is_HIR    |-> HIR /\ ~promoted,
        lir_evict |-> /\ o # l.last_oblock
                      /\ promoted /\ l.lir_count + 1 > CacheSize - hir_limit,
        fault     |-> o # l.last_oblock /\ promoted /\ s = <<>> ]

lirs_transaction_is_legal(l, t) ==
  /\ t.hir_evict => l.queue["q"] # <<>>
  /\ t.lir_evict => l.queue["s"] # <<>>

\* The request's own entry leaves the lists; one in flight is in none.
lirs_commit_unlink(l, o) ==
  CASE o \in lirs_ghosts(l) -> lirs_remove_entry(l, o)
    [] o \in l.migrating -> [l EXCEPT !.s_len = @ - 1]
    [] o \in l.cached \ l.migrating -> lirs_remove_from_queues(l, o)
    [] OTHER -> l

\* A miss gets an entry, in flight; a hit on an HIR block makes it LIR.
lirs_commit_entry(l, o, t) ==
  IF o \notin l.cached
    THEN IF policy_cache_is_full(l)
           THEN Fault(l)
           ELSE [l EXCEPT !.cached = @ \cup {o},
                          !.migrating = @ \cup {o},
                          !.hir = IF t.is_HIR THEN @ \cup {o} ELSE @ \ {o},
                          !.lir_count = IF t.is_HIR THEN @ ELSE @ + 1]
    ELSE [l EXCEPT !.lir_count = IF o \in l.hir THEN @ + 1 ELSE @,
                   !.hir = @ \ {o}]

lirs_transaction_commit(l, o, t) ==
  LET l1 == lirs_commit_unlink([l EXCEPT !.last_oblock = o], o)
      l2 == IF t.lir_s_lru THEN lirs_find_last_lir_lru(l1) ELSE l1
      l3 == IF t.hir_evict THEN lirs_q_evict(l2) ELSE l2
      l4 == lirs_commit_entry(l3, o, t)
      l5 == IF t.lir_evict THEN lirs_find_last_lir_lru(lirs_s_evict(l4)) ELSE l4
      l6 == IF o \in l5.migrating THEN l5 ELSE lirs_enqueue(l5, o, t.is_HIR)
  IN  lirs_prune_s([l6 EXCEPT !.s_len = @ + 1])

\* A repeated request changes nothing.
lirs_map_api(o) ==
  LET t  == lirs_transaction_set(lirs, o)
      op == CASE o \in lirs.cached -> "HIT"
              [] o \notin lirs.cached /\ t.hir_evict -> "REPLACE"
              [] OTHER -> "NEW"
  IN  IF t.fault
        THEN lirs' = Fault(lirs) /\ UNCHANGED answer
        ELSE \/ /\ ~lirs_transaction_is_legal(lirs, t)
                /\ answer' = <<"FAIL", Null>>
                /\ UNCHANGED lirs
             \/ /\ lirs_transaction_is_legal(lirs, t)
                /\ t.repeat
                /\ answer' = <<op, Null>>
                /\ UNCHANGED lirs
             \/ /\ lirs_transaction_is_legal(lirs, t)
                /\ ~t.repeat
                /\ lirs' = lirs_transaction_commit(lirs, o, t)
                /\ answer' = <<op, IF t.hir_evict THEN Head(lirs.queue["q"]) ELSE Null>>

\* What a request would answer, from the same transaction, without its commit.
lirs_next_victim_api(o) ==
  LET t == lirs_transaction_set(lirs, o)
  IN  CASE ~lirs_transaction_is_legal(lirs, t) -> <<"FAIL", Null>>
        [] lirs_transaction_is_legal(lirs, t) /\ o \in lirs.cached -> <<"HIT", Null>>
        [] /\ lirs_transaction_is_legal(lirs, t)
           /\ o \notin lirs.cached /\ t.hir_evict -> <<"REPLACE", Head(lirs.queue["q"])>>
        [] OTHER -> <<"NEW", Null>>

(***************************************************************************)
(* The other calls.                                                        *)
(***************************************************************************)
lirs_remove_api(o, remove_to_history) ==
  /\ lirs' = lirs_prune_s(
               IF /\ o \in lirs.cached /\ remove_to_history
                  /\ o \in lirs.hir /\ in_queue(lirs, "s", o)
                 THEN lirs_replace_with_meta(lirs, o)
                 ELSE lirs_remove_entry(lirs, o))
  /\ answer' = Void

lirs_insert_api(o) ==
  LET used   == Cardinality(lirs.cached) + 1
      is_HIR == CacheSize - used <= hir_limit
      added  == [lirs EXCEPT !.cached = @ \cup {o},
                             !.hir = IF is_HIR THEN @ \cup {o} ELSE @,
                             !.lir_count = IF is_HIR THEN @ ELSE @ + 1,
                             !.s_len = @ + 1]
  IN  /\ lirs' = lirs_enqueue(added, o, is_HIR)
      /\ answer' = Void

lirs_migrated_api(o) ==
  /\ lirs' = IF o \in lirs.migrating
               THEN lirs_enqueue([lirs EXCEPT !.migrating = @ \ {o}], o, o \in lirs.hir)
               ELSE Fault(lirs)
  /\ answer' = Void

\* The entry keeps its places; last_oblock keeps the old name.
lirs_remap(o, n) ==
  LET new(S) == IF o \in S THEN (S \ {o}) \cup {n} ELSE S
  IN  /\ lirs' = [lirs EXCEPT !.queue = [k \in Queues |-> ReplaceAll(lirs.queue[k], o, n)],
                              !.hir = new(@),
                              !.cached = new(@),
                              !.migrating = new(@)]
      /\ answer' = Void

(***************************************************************************)
(* The callers.                                                            *)
(***************************************************************************)
LirsLoad(o) ==
  /\ ~lirs.fault /\ loading
  /\ o \notin lirs.cached /\ ~policy_cache_is_full(lirs)
  /\ lirs_insert_api(o)
  /\ UNCHANGED <<loading, quiet>>

LirsMap(o) ==
  /\ ~lirs.fault
  /\ lirs_map_api(o)
  /\ loading' = FALSE
  /\ quiet' = (quiet /\ lirs.migrating = {})

LirsRemove(o, remove_to_history) ==
  /\ ~lirs.fault /\ remove_to_history \in Removals
  /\ o \in lirs.cached \cup lirs_ghosts(lirs)
  /\ lirs_remove_api(o, remove_to_history)
  /\ loading' = FALSE
  /\ quiet' = FALSE

LirsMigrated(o) ==
  /\ ~lirs.fault /\ o \in lirs.migrating
  /\ lirs_migrated_api(o)
  /\ loading' = FALSE
  /\ UNCHANGED quiet

LirsRemap(o, n) ==
  /\ ~lirs.fault /\ Removals # {}
  /\ o \in lirs.cached /\ n \notin lirs.cached \cup lirs_ghosts(lirs)
  /\ lirs_remap(o, n)
  /\ loading' = FALSE
  /\ quiet' = FALSE

LirsNext ==
  \E o \in Oblocks :
    \/ LirsLoad(o) \/ LirsMap(o) \/ LirsMigrated(o)
    \/ \E remove_to_history \in BOOLEAN : LirsRemove(o, remove_to_history)
    \/ \E n \in Oblocks : LirsRemap(o, n)

LirsSpec == LirsInit /\ [][LirsNext]_lirsVars

-----------------------------------------------------------------------------
(***************************************************************************)
(* Correctness.                                                            *)
(***************************************************************************)

\* Block x comes before y in a queue.
Precedes(queue, x, y) ==
  \E i, j \in DOMAIN queue : i < j /\ queue[i] = x /\ queue[j] = y

\* The lists agree with each other and with the blocks' status, whatever the order
\* of requests, migrations and removals: Q holds the cached HIR blocks, S all LIR
\* blocks, R the HIR blocks of S in their order, G those of them that are not
\* cached; and lir_count counts the LIR blocks.  Only S and R lack the blocks in
\* flight.
LirsListsSound ==
  LET inq(n) == ToSet(lirs.queue[n])
      resident == lirs.cached \ lirs.migrating
  IN  ~lirs.fault =>
        /\ \A n \in Queues : IsInjective(lirs.queue[n])
        /\ inq("q") = resident \cap lirs.hir
        /\ resident \ lirs.hir \subseteq inq("s")
        /\ inq("r") = inq("s") \cap lirs.hir
        /\ \A x, y \in inq("r") :
             Precedes(lirs.queue["r"], x, y) => Precedes(lirs.queue["s"], x, y)
        /\ inq("g") = inq("r") \ lirs.cached
        /\ inq("s") \subseteq resident \cup inq("g")
        /\ lirs.lir_count = Cardinality(lirs.cached \ lirs.hir)

\* As long as every migration ends before the next request, and no block is removed
\* or renamed, no assertion fails and NULL is not followed, s_len is the length of
\* S, and there are never too many LIR blocks.  The cache must be large enough for
\* its first block to be LIR: lirs_init leaves "super small caches" as a TODO.  And LIRS
\* has no way to evict a block of S without a ghost in its place.
LirsQuietNeverFaults ==
  quiet /\ CacheSize >= hir_limit + 2 /\ MetaSize > 0 =>
    /\ ~lirs.fault
    /\ lirs.s_len = Len(lirs.queue["s"]) + Cardinality(lirs.migrating)
    /\ lirs.lir_count <= CacheSize - hir_limit

\* Whatever the use of LIRS, a request that does not stop it is answered as
\* lirs_next_victim_api would have announced, and the block announced as the victim,
\* and no other, leaves the cache.
LirsVictimAsAnnounced ==
  [][\A o \in Oblocks :
       LirsMap(o) /\ ~lirs'.fault =>
         /\ answer' = lirs_next_victim_api(o)
         /\ answer'[1] # "HIT" =>
              lirs.cached \ lirs'.cached = {answer'[2]} \ {Null}]_lirsVars

\* As long as LIRS is used quietly, and until it stops, it does what every policy
\* promises; and it always does what it announces.
LirsPolicy == INSTANCE CachePolicy
            WITH cached     <- lirs.cached,
                 inflight   <- lirs.migrating,
                 MayFilter  <- FALSE,
                 FailsEarly <- TRUE

LirsImplementsPolicy ==
  /\ LirsPolicy!PolicyInit
  /\ [][quiet' /\ ~lirs'.fault =>
          LirsPolicy!PolicyNext \/ UNCHANGED LirsPolicy!policyVars]_lirsVars
  /\ LirsVictimAsAnnounced

============================================================================
