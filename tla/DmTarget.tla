------------------------------ MODULE DmTarget -----------------------------
(***************************************************************************)
(* Where the data is: dm-cache's target (linux_patches/dm-cache-target.c)  *)
(* with a policy of this repository, from the submission of a bio to its   *)
(* end.  DmCache follows the policy through the threads' calls; here the   *)
(* policy is a map that any rule may change, and what is followed is the   *)
(* contents of the two devices, the mapping in core and on disk, cells,    *)
(* dirty and discard bits, copies, commits, crashes and reloads.           *)
(*                                                                         *)
(* A block's contents are the number of the write that they come from.     *)
(* The client is a file system: it writes or discards a block only when it *)
(* has no other write or discard of it outstanding.                        *)
(*                                                                         *)
(* The handlers of one bio are one step each: they hold the cell of the    *)
(* block, and what races with them there is DmCache's subject.  The bio    *)
(* prison, the deferred set, kcopyd, and dm-cache's metadata are not in    *)
(* this repository, and are modelled by how the target uses them.          *)
(***************************************************************************)
EXTENDS Integers, FiniteSets

CONSTANTS
  Oblocks, Cblocks, Bios,
  Modes,        \* among "writeback", "writethrough" and "passthrough"
  Ops,          \* among "read", "write", "fua", "flush" and "discard"
  FaultSets,    \* what may fail, in sets: "copy", "metadata", "commit", the machine ("crash")
  MaxSubmits,   \* the number of bios ...
  MaxRestarts,  \* ... and of crashes and reloads explored
  Null

ASSUME DmTargetAssumption ==
  /\ Modes \subseteq {"writeback", "writethrough", "passthrough"}
  /\ Ops \subseteq {"read", "write", "fua", "flush", "discard"}
  /\ FaultSets \subseteq SUBSET {"copy", "metadata", "commit", "crash"}
  /\ MaxSubmits \in Nat /\ MaxRestarts \in Nat
  /\ Null \notin Oblocks \cup Bios

VARIABLES
  mode,
  faults,            \* what may fail
  origin,            \* contents of each block of the origin device
  ssd,               \* <<block, contents>> of each block of the cache device
  policy,            \* the block that the policy maps to each cache block
  inflight,          \* cache blocks whose data the policy waits for
  meta,              \* the mapping in the metadata, ...
  disk,              \* ... and as last committed
  dirty_bitset,
  discard_bitset,
  cells,             \* blocks held by a migration
  migrations,
  bios,
  stage,             \* which of do_worker's parts the worker is in
  commit_requested,
  quiescing,         \* a suspend was "asked" for, or the worker has "acked" it
  acked,             \* the last write of each block that the client knows to be done
  submits, restarts

data    == <<origin, ssd>>
mapping == <<policy, inflight, meta, disk>>
bits    == <<dirty_bitset, discard_bitset>>
flow    == <<cells, migrations, bios>>
session == <<quiescing, submits, restarts>>
tgtVars == <<mode, faults, data, mapping, bits, flow, stage, commit_requested, acked, session>>

NoPromise == -1   \* nothing is promised of a discarded block; also: no such contents
Idle == [at |-> "idle"]
NoMapping == [c \in Cblocks |-> Null]

IsWrite(b) == bios[b].op \in {"write", "fua"}
Reads(o) == {b \in Bios : bios[b].at # "idle" /\ bios[b].op = "read" /\ bios[b].o = o}

TargetInit ==
  /\ mode \in Modes
  /\ faults \in FaultSets
  /\ origin = [o \in Oblocks |-> 0]
  /\ ssd = [c \in Cblocks |-> <<Null, NoPromise>>]
  /\ policy = NoMapping /\ inflight = {}
  /\ meta = NoMapping /\ disk = NoMapping
  /\ dirty_bitset = {} /\ discard_bitset = {}
  /\ cells = {} /\ migrations = {}
  /\ bios = [b \in Bios |-> Idle]
  /\ stage = "bios"
  /\ commit_requested = FALSE
  /\ acked = [o \in Oblocks |-> 0]
  /\ quiescing = "no"
  /\ submits = 0 /\ restarts = 0

(***************************************************************************)
(* The client.                                                             *)
(***************************************************************************)
\* A read must return what was acknowledged before it was submitted.
Submit(b, op, o, full) ==
  /\ bios[b] = Idle /\ submits < MaxSubmits /\ quiescing = "no"
  /\ op \notin {"read", "flush"} =>
       \A x \in Bios : bios[x].at # "idle" => bios[x].o # o \/ bios[x].op = "read"
  /\ full => op \in {"write", "fua"}
  /\ submits' = submits + 1
  /\ LET new == [op |-> op, o |-> o, v |-> submits + 1, full |-> full, at |-> "submitted",
                 to |-> Null, c |-> Null, on |-> Null, floor |-> acked[o]]
     IN  bios' = [x \in Bios |->
                    IF x = b THEN new
                    ELSE IF op = "discard" /\ x \in Reads(o)
                           THEN [bios[x] EXCEPT !.floor = NoPromise] ELSE bios[x]]
  /\ acked' = IF op = "discard" THEN [acked EXCEPT ![o] = NoPromise] ELSE acked
  /\ UNCHANGED <<mode, faults, data, mapping, bits, cells, migrations, stage, commit_requested,
                 quiescing, restarts>>

\* The contents of block o at the end of a bio or a copy.
OnCache(o, c) == IF ssd[c][1] = o THEN ssd[c][2] ELSE NoPromise

\* A write of part of a block makes it current only if the rest was.
Written(b, old) ==
  IF bios[b].full \/ old >= acked[bios[b].o] THEN bios[b].v ELSE NoPromise

(***************************************************************************)
(* Sending a bio to a device, and its end.                                 *)
(***************************************************************************)
\* issue: a bio that triggers a commit is kept until after it.
Sent(b, to, c) ==
  [bios[b] EXCEPT !.at = IF bios[b].op \in {"fua", "flush"} THEN "flush" ELSE "io",
                  !.to = to, !.c = c]

is_discarded_oblock(o) == o \in discard_bitset
set_discard(o) == discard_bitset' = discard_bitset \cup {o}
clear_discard(o) == discard_bitset' = discard_bitset \ {o}

remap_to_origin_clear_discard(b) ==
  /\ bios' = [bios EXCEPT ![b] = Sent(b, "origin", Null)]
  /\ IF IsWrite(b) THEN clear_discard(bios[b].o) ELSE UNCHANGED discard_bitset
  /\ UNCHANGED dirty_bitset

remap_to_cache_dirty(b, c) ==
  /\ bios' = [bios EXCEPT ![b] = Sent(b, "cache", c)]
  /\ IF IsWrite(b)
       THEN dirty_bitset' = dirty_bitset \cup {c} /\ clear_discard(bios[b].o)
       ELSE UNCHANGED bits

remap_to_origin_then_cache(b, c) ==
  /\ bios' = [bios EXCEPT ![b] = Sent(b, "both", c)]
  /\ clear_discard(bios[b].o)
  /\ UNCHANGED dirty_bitset

\* Fault: a clean block is written on the cache only, and stays clean.
remap_hit_cache_only(b, c) ==
  IF IsWrite(b) /\ mode = "writethrough"
    THEN /\ bios' = [bios EXCEPT ![b] = Sent(b, "cache", c)]
         /\ clear_discard(bios[b].o)
         /\ UNCHANGED dirty_bitset
    ELSE remap_to_cache_dirty(b, c)

\* A hit, out of passthrough mode.
remap_hit(b, c) ==
  IF IsWrite(b) /\ mode = "writethrough" /\ c \notin dirty_bitset
    THEN remap_to_origin_then_cache(b, c)
    ELSE remap_to_cache_dirty(b, c)

\* The bio no longer keeps migrations waiting: cache_end_io.
NotWaitedFor(b) == {[mg EXCEPT !.waits = @ \ {b}] : mg \in migrations}

End(b) ==
  /\ bios' = [bios EXCEPT ![b] = Idle]
  /\ migrations' = NotWaitedFor(b)

EndRead(b) ==
  /\ bios[b].at = "io" /\ bios[b].op = "read"
  /\ End(b)
  /\ UNCHANGED <<mode, faults, data, mapping, bits, cells, stage, commit_requested, acked, session>>

EndFlush(b) ==
  /\ bios[b].at = "io" /\ bios[b].op = "flush"
  /\ End(b)
  /\ UNCHANGED <<mode, faults, data, mapping, bits, cells, stage, commit_requested, acked, session>>

EndWrite(b) ==
  LET o == bios[b].o
      c == bios[b].c
  IN  /\ bios[b].at = "io" /\ IsWrite(b)
      /\ IF bios[b].to = "cache"
           THEN ssd' = [ssd EXCEPT ![c] = <<o, Written(b, OnCache(o, c))>>]
                /\ UNCHANGED origin
           ELSE origin' = [origin EXCEPT ![o] = Written(b, @)]
                /\ UNCHANGED ssd
      /\ IF bios[b].to = "both"
           THEN /\ bios' = [bios EXCEPT ![b].at = "writethrough"]
                /\ UNCHANGED <<migrations, acked>>
           ELSE /\ End(b)
                /\ acked' = [acked EXCEPT ![o] = bios[b].v]
      /\ UNCHANGED <<mode, faults, mapping, bits, cells, stage, commit_requested, session>>

(***************************************************************************)
(* cache_map, in the thread of the client.                                 *)
(***************************************************************************)
MappedTo(o) == {c \in Cblocks : policy[c] = o}

Deferred(b) == [bios[b] EXCEPT !.at = "deferred"]
Waiting(b, o) == [bios[b] EXCEPT !.at = "waiting", !.on = o]

\* Fault: nobody waits for a block that is held.
cache_map_held(b) ==
  /\ bios[b].at = "submitted"
  /\ \/ /\ bios[b].op \in {"read", "write"}
        /\ \E c \in MappedTo(bios[b].o) : remap_hit(b, c)
     \/ bios' = [bios EXCEPT ![b] = Deferred(b)] /\ UNCHANGED bits
  /\ UNCHANGED <<mode, faults, data, mapping, cells, migrations, stage, commit_requested,
                 acked, session>>

cache_map(b) ==
  LET o == bios[b].o
  IN  /\ bios[b].at = "submitted"
      /\ \/ /\ bios[b].op \in {"read", "write"} /\ o \notin cells
            /\ \E c \in MappedTo(o) :
                 IF mode = "passthrough"
                   THEN bios[b].op = "read" /\ remap_to_origin_clear_discard(b)
                   ELSE remap_hit(b, c)
         \/ /\ bios[b].op \in {"read", "write"} /\ o \in cells
            /\ bios' = [bios EXCEPT ![b] = Waiting(b, o)]
            /\ UNCHANGED bits
         \* The bio is of another kind, or the policy would not answer at once.
         \/ /\ bios[b].op \in {"read", "write"} => o \notin cells
            /\ bios' = [bios EXCEPT ![b] = Deferred(b)]
            /\ UNCHANGED bits
      /\ UNCHANGED <<mode, faults, data, mapping, cells, migrations, stage, commit_requested,
                     acked, session>>

(***************************************************************************)
(* Migrations.  The block's cell is held, and the bios that were on their  *)
(* way are waited for, until the data may be moved (quiesce_migration).    *)
(***************************************************************************)
Migration(kind, old, new, c, b) ==
  [ kind |-> kind, old |-> old, new |-> new, c |-> c, holder |-> b, phase |-> "quiescing",
    err |-> FALSE, overwrite |-> FALSE,
    waits |-> {x \in Bios : \/ bios[x].at \in {"io", "writethrough"}
                            \/ bios[x].at = "flush" /\ bios[x].op = "fua"} ]

Start(mg) ==
  /\ migrations' = migrations \cup {mg}
  /\ cells' = cells \cup ({mg.old, mg.new} \ {Null})
  /\ bios' = [b \in Bios |-> IF b = mg.holder THEN [bios[b] EXCEPT !.at = "held"]
                                              ELSE bios[b]]

\* cell_defer: the bios that wait for the cell are deferred, the holder if it is to
\* be tried again.
Released(os, holder) ==
  [b \in Bios |-> IF \/ bios[b].at = "waiting" /\ bios[b].on \in os
                     \/ b = holder
                    THEN Deferred(b) ELSE bios[b]]

\* Fault: only the holder is tried again.
cell_defer_holder(os, holder) ==
  /\ cells' = cells \ os
  /\ bios' = [b \in Bios |-> IF b = holder THEN Deferred(b) ELSE bios[b]]

cell_defer(os, holder) ==
  /\ cells' = cells \ os
  /\ bios' = Released(os, holder)

(***************************************************************************)
(* The worker's first part: dirty blocks, deferred bios.                   *)
(***************************************************************************)
writeback_some_dirty_blocks(c) ==
  LET o == policy[c]
  IN  /\ stage = "bios" /\ c \in dirty_bitset /\ o \notin cells \cup {Null}
      /\ Start(Migration("writeback", o, Null, c, Null))
      /\ UNCHANGED <<mode, faults, data, mapping, bits, stage, commit_requested, acked, session>>

process_deferred_writethrough_bio(b) ==
  /\ stage = "bios" /\ bios[b].at = "writethrough"
  /\ bios' = [bios EXCEPT ![b].at = "io", ![b].to = "cache"]
  /\ UNCHANGED <<mode, faults, data, mapping, bits, cells, migrations, stage,
                 commit_requested, acked, session>>

process_flush_bio(b) ==
  /\ bios[b].op = "flush"
  /\ bios' = [bios EXCEPT ![b] = Sent(b, "origin", Null)]
  /\ commit_requested' = TRUE
  /\ UNCHANGED <<mode, faults, data, mapping, bits, cells, migrations, stage, acked, session>>

process_discard_bio(b) ==
  /\ bios[b].op = "discard"
  /\ set_discard(bios[b].o)
  /\ bios' = [bios EXCEPT ![b] = Idle]
  /\ UNCHANGED <<mode, faults, data, mapping, dirty_bitset, cells, migrations, stage,
                 commit_requested, acked, session>>

\* The bio is sent on, unless the block is held, or a write to a cached block is to
\* bypass the cache.
process_bio_unmoved(b) ==
  LET o == bios[b].o
  IN  /\ \/ /\ o \in cells
            /\ bios' = [bios EXCEPT ![b] = Waiting(b, o)]
            /\ UNCHANGED <<bits, cells, migrations>>
         \/ /\ o \notin cells /\ MappedTo(o) # {} /\ mode # "passthrough"
            /\ \E c \in MappedTo(o) : remap_hit(b, c)
            /\ UNCHANGED <<cells, migrations>>
         \/ /\ o \notin cells /\ MappedTo(o) # {} /\ mode = "passthrough"
            /\ \/ IsWrite(b) /\ UNCHANGED bits
                  /\ \E c \in MappedTo(o) : Start(Migration("invalidate", o, Null, c, b))
               \/ ~IsWrite(b) /\ remap_to_origin_clear_discard(b)
                  /\ UNCHANGED <<cells, migrations>>
         \/ /\ o \notin cells /\ MappedTo(o) = {}
            /\ remap_to_origin_clear_discard(b)
            /\ UNCHANGED <<cells, migrations>>
      /\ commit_requested' = (commit_requested \/ bios'[b].at = "flush")
      /\ UNCHANGED mapping

\* The policy takes the block in: in free space, in place of a block that is not
\* held, or not after all, if it is (cell clash).
process_bio_moves(b) ==
  LET o == bios[b].o
  IN  /\ o \notin cells /\ MappedTo(o) = {} /\ mode # "passthrough"
      /\ \E c \in Cblocks \ inflight :
           \/ /\ policy[c] = Null
              /\ Start(Migration("promote", Null, o, c, b))
              /\ policy' = [policy EXCEPT ![c] = o]
              /\ inflight' = inflight \cup {c}
           \/ /\ policy[c] # Null /\ \A x \in Cblocks : policy[x] # Null
              /\ policy[c] \notin cells
              /\ Start(Migration("demote", policy[c], o, c, b))
              /\ policy' = [policy EXCEPT ![c] = o]
              /\ inflight' = inflight \cup {c}
           \/ /\ policy[c] # Null /\ \A x \in Cblocks : policy[x] # Null
              /\ policy[c] \in cells
              /\ bios' = [bios EXCEPT ![b] = Waiting(b, policy[c])]
              /\ UNCHANGED <<policy, inflight, cells, migrations>>
      /\ UNCHANGED <<meta, disk, bits, commit_requested>>

process_bio(b) ==
  /\ bios[b].op \in {"read", "write", "fua"}
  /\ process_bio_unmoved(b) \/ process_bio_moves(b)
  /\ UNCHANGED <<mode, faults, data, stage, acked, session>>

process_deferred_bio(b) ==
  /\ stage = "bios" /\ bios[b].at = "deferred"
  /\ process_flush_bio(b) \/ process_discard_bio(b) \/ process_bio(b)

\* process_invalidation_request, for one cache block, by a message in passthrough mode.
process_invalidation_request(c) ==
  /\ stage = "copies" /\ quiescing # "acked"
  /\ mode = "passthrough" /\ policy[c] # Null
  /\ policy' = [policy EXCEPT ![c] = Null]
  /\ inflight' = inflight \ {c}
  /\ meta' = [meta EXCEPT ![c] = Null]
  /\ commit_requested' = TRUE
  /\ UNCHANGED <<mode, faults, data, disk, bits, flow, stage, acked, session>>

(***************************************************************************)
(* The second part: copies are issued and completed.                       *)
(***************************************************************************)
Becomes(mg, next) == migrations' = (migrations \ {mg}) \cup {next}

\* The end of a copy, before the commit.  Changing the metadata may fail; then the
\* cells stay held, but for that of a block to be promoted after a demotion.  (After
\* an invalidation the code asks the policy to rename a block that it has not set.)
migration_success_pre_commit(mg) ==
  \/ /\ mg.kind = "writeback"
     /\ dirty_bitset' = dirty_bitset \ {mg.c}
     /\ cell_defer({mg.old}, Null)
     /\ migrations' = migrations \ {mg}
     /\ UNCHANGED <<mapping, discard_bitset, commit_requested>>
  \/ /\ mg.kind # "writeback"
     /\ meta' = [meta EXCEPT ![mg.c] = IF mg.kind = "promote" THEN mg.new ELSE Null]
     /\ Becomes(mg, [mg EXCEPT !.phase = "need_commit"])
     /\ commit_requested' = TRUE
     /\ UNCHANGED <<policy, inflight, disk, bits, cells, bios>>
  \/ /\ mg.kind # "writeback" /\ "metadata" \in faults
     /\ IF mg.kind = "demote" THEN cell_defer({mg.new}, mg.holder) ELSE UNCHANGED <<cells, bios>>
     /\ policy' = IF mg.kind = "invalidate" THEN policy ELSE [policy EXCEPT ![mg.c] = mg.old]
     /\ inflight' = inflight \ {mg.c}
     /\ migrations' = migrations \ {mg}
     /\ UNCHANGED <<meta, disk, bits, commit_requested>>

avoids_copy(mg) ==
  IF mg.kind = "promote"
    THEN is_discarded_oblock(mg.new)
    ELSE mg.c \notin dirty_bitset \/ is_discarded_oblock(mg.old)

\* A write of the whole block replaces the copy of a promotion.
overwrites(mg) ==
  /\ mg.kind = "promote" /\ mode = "writeback" /\ ~avoids_copy(mg)
  /\ IsWrite(mg.holder) /\ bios[mg.holder].full

\* Fault: nothing is waited for.
quiesced_at_once(mg) == mg.phase = "quiescing"

quiesced(mg) == mg.phase = "quiescing" /\ mg.waits = {}

issue_copy(mg) ==
  /\ stage = "copies" /\ quiesced(mg)
  /\ \/ avoids_copy(mg) /\ migration_success_pre_commit(mg)
     \/ /\ overwrites(mg)
        /\ dirty_bitset' = dirty_bitset \cup {mg.c}
        /\ clear_discard(mg.new)
        /\ Becomes(mg, [mg EXCEPT !.phase = "copying", !.overwrite = TRUE])
        /\ UNCHANGED <<mapping, cells, bios, commit_requested>>
     \/ /\ ~avoids_copy(mg) /\ ~overwrites(mg)
        /\ Becomes(mg, [mg EXCEPT !.phase = "copying"])
        /\ UNCHANGED <<mapping, bits, cells, bios, commit_requested>>
  /\ UNCHANGED <<mode, faults, data, stage, acked, session>>

\* copy_complete and overwrite_endio.  A failed copy leaves anything behind.
copy_complete(mg, err) ==
  LET result(v) == IF err THEN NoPromise ELSE v
  IN  /\ mg.phase = "copying"
      /\ err => "copy" \in faults
      /\ IF mg.kind = "promote"
           THEN /\ ssd' = [ssd EXCEPT ![mg.c] = <<mg.new,
                            result(IF mg.overwrite
                                     THEN Written(mg.holder, OnCache(mg.new, mg.c))
                                     ELSE origin[mg.new])>>]
                /\ UNCHANGED origin
           ELSE /\ origin' = [origin EXCEPT ![mg.old] = result(OnCache(mg.old, mg.c))]
                /\ UNCHANGED ssd
      /\ Becomes(mg, [mg EXCEPT !.phase = "completed", !.err = err])
      /\ UNCHANGED <<mode, faults, mapping, bits, cells, bios, stage, commit_requested,
                     acked, session>>

\* Fault: the policy keeps a block whose promotion has failed.
migration_failure_kept(mg) ==
  /\ IF mg.kind = "writeback" THEN dirty_bitset' = dirty_bitset \cup {mg.c}
                              ELSE UNCHANGED dirty_bitset
  /\ inflight' = inflight \ {mg.c}
  /\ policy' = IF mg.kind = "demote" THEN [policy EXCEPT ![mg.c] = mg.old] ELSE policy
  /\ cell_defer({mg.old, mg.new}, mg.holder)
  /\ migrations' = migrations \ {mg}
  /\ UNCHANGED <<meta, disk, discard_bitset, commit_requested>>

migration_failure(mg) ==
  /\ CASE mg.kind = "writeback" ->
            /\ dirty_bitset' = dirty_bitset \cup {mg.c}
            /\ cell_defer({mg.old}, Null)
            /\ UNCHANGED <<policy, inflight>>
       [] mg.kind = "demote" ->
            /\ policy' = [policy EXCEPT ![mg.c] = mg.old]
            /\ inflight' = inflight \ {mg.c}
            /\ cell_defer({mg.old, mg.new}, mg.holder)
            /\ UNCHANGED dirty_bitset
       [] mg.kind = "promote" ->
            /\ policy' = [policy EXCEPT ![mg.c] = Null]
            /\ inflight' = inflight \ {mg.c}
            /\ cell_defer({mg.new}, mg.holder)
            /\ UNCHANGED dirty_bitset
  /\ migrations' = migrations \ {mg}
  /\ UNCHANGED <<meta, disk, discard_bitset, commit_requested>>

complete_migration(mg) ==
  /\ stage = "copies" /\ mg.phase = "completed"
  /\ \/ mg.err /\ migration_failure(mg)
     \/ ~mg.err /\ migration_success_pre_commit(mg)
  /\ UNCHANGED <<mode, faults, data, stage, acked, session>>

(***************************************************************************)
(* Before a suspend the worker is asked to move no more blocks: it answers *)
(* at the end of its round, and leaves out the first part from then on.    *)
(***************************************************************************)
start_quiescing ==
  /\ quiescing = "no" /\ restarts < MaxRestarts
  /\ \A b \in Bios : bios[b] = Idle
  /\ quiescing' = "asked"
  /\ UNCHANGED <<mode, faults, data, mapping, bits, flow, stage, commit_requested, acked,
                 submits, restarts>>

\* ack_quiescing, and the test with which the next round begins.
NextRound ==
  /\ quiescing' = IF quiescing = "no" THEN "no" ELSE "acked"
  /\ stage' = IF quiescing = "no" THEN "bios" ELSE "copies"

(***************************************************************************)
(* The third part: the commit, and what waited for it.                     *)
(***************************************************************************)
FlushBios(at) ==
  [b \in Bios |-> IF bios[b].at = "flush" THEN [bios[b] EXCEPT !.at = at] ELSE bios[b]]

Committed == {IF mg.phase = "need_commit" THEN [mg EXCEPT !.phase = "committed"] ELSE mg
                : mg \in migrations}

\* The commit is skipped if it was not asked for, or nothing has changed; if it
\* fails, what waits for it is tried in the next round, when no other is asked for.
commit_if_needed ==
  /\ stage = "commit"
  /\ \/ /\ meta # disk
        /\ disk' = meta
        /\ commit_requested' = FALSE
        /\ bios' = FlushBios("io") /\ migrations' = Committed
        /\ stage' = "post_commit" /\ UNCHANGED quiescing
     \/ /\ meta = disk \/ ~commit_requested
        /\ bios' = FlushBios("io") /\ migrations' = Committed
        /\ stage' = "post_commit"
        /\ UNCHANGED <<disk, commit_requested, quiescing>>
     \/ /\ meta # disk /\ "commit" \in faults
        /\ commit_requested' = FALSE
        /\ bios' = [b \in Bios |-> IF bios[b].at = "flush" THEN Idle ELSE bios[b]]
        /\ migrations' = {[mg EXCEPT !.waits = {b \in @ : bios[b].at # "flush"}] : mg \in migrations}
        /\ NextRound
        /\ UNCHANGED disk
  /\ UNCHANGED <<mode, faults, data, policy, inflight, meta, bits, cells, acked, submits,
                 restarts>>

\* A demotion goes on as a promotion.
migration_success_post_commit(mg) ==
  /\ stage = "post_commit" /\ mg.phase = "committed"
  /\ \/ /\ mg.kind = "demote"
        /\ cell_defer({mg.old}, Null)
        /\ Becomes(mg, [mg EXCEPT !.kind = "promote", !.old = Null, !.phase = "quiescing",
                                  !.waits = {}])
        /\ UNCHANGED <<policy, inflight, dirty_bitset, acked>>
     \/ /\ mg.kind = "invalidate"
        /\ cell_defer({mg.old}, mg.holder)
        /\ policy' = [policy EXCEPT ![mg.c] = Null]
        /\ migrations' = migrations \ {mg}
        /\ UNCHANGED <<inflight, dirty_bitset, acked>>
     \/ /\ mg.kind = "promote" /\ ~mg.overwrite
        /\ cell_defer({mg.new}, mg.holder)
        /\ dirty_bitset' = dirty_bitset \ {mg.c}
        /\ inflight' = inflight \ {mg.c}
        /\ migrations' = migrations \ {mg}
        /\ UNCHANGED <<policy, acked>>
     \/ /\ mg.kind = "promote" /\ mg.overwrite
        /\ cells' = cells \ {mg.new}
        /\ bios' = [Released({mg.new}, Null) EXCEPT ![mg.holder] = Idle]
        /\ acked' = [acked EXCEPT ![mg.new] = bios[mg.holder].v]
        /\ dirty_bitset' = dirty_bitset \cup {mg.c}
        /\ inflight' = inflight \ {mg.c}
        /\ migrations' = migrations \ {mg}
        /\ UNCHANGED policy
  /\ UNCHANGED <<mode, faults, data, meta, disk, discard_bitset, stage, commit_requested,
                 session>>

\* A part ends when there is nothing left for it to do.
NextStage ==
  /\ \/ /\ stage = "bios" /\ stage' = "copies" /\ UNCHANGED quiescing
        /\ \A b \in Bios : bios[b].at \notin {"deferred", "writethrough"}
     \/ /\ stage = "copies" /\ stage' = "commit" /\ UNCHANGED quiescing
        /\ \A mg \in migrations : ~quiesced(mg) /\ mg.phase # "completed"
     \/ /\ stage = "post_commit" /\ NextRound
        /\ \A mg \in migrations : mg.phase # "committed"
  /\ UNCHANGED <<mode, faults, data, mapping, bits, flow, commit_requested, acked, submits,
                 restarts>>

do_worker ==
  \/ \E c \in Cblocks : writeback_some_dirty_blocks(c) \/ process_invalidation_request(c)
  \/ \E b \in Bios : process_deferred_writethrough_bio(b) \/ process_deferred_bio(b)
  \/ \E mg \in migrations :
       issue_copy(mg) \/ complete_migration(mg) \/ migration_success_post_commit(mg)
  \/ commit_if_needed
  \/ NextStage

(***************************************************************************)
(* Restarts: the table is reloaded, after a suspend that has waited for    *)
(* bios and migrations, or the machine crashes.                            *)
(***************************************************************************)
Mapped(m) == {c \in Cblocks : m[c] # Null}

Restart(m, dirty, discards) ==
  /\ restarts < MaxRestarts /\ restarts' = restarts + 1
  /\ policy' = m /\ meta' = m /\ disk' = m /\ inflight' = {}
  /\ dirty_bitset' = dirty /\ discard_bitset' = discards
  /\ mode' \in {md \in Modes : md = "passthrough" => dirty = {}}
  /\ bios' = [b \in Bios |-> Idle] /\ cells' = {} /\ migrations' = {}
  /\ stage' = "bios" /\ commit_requested' = FALSE /\ quiescing' = "no"
  /\ UNCHANGED <<faults, acked, submits>>

\* cache_postsuspend: sync_metadata when the worker is quiet and no block is being
\* moved; if it fails, every block is dirty from then on.
Reload(ok) ==
  /\ quiescing = "acked"
  /\ migrations = {}
  /\ ok \/ "metadata" \in faults
  /\ Restart(meta, IF ok THEN dirty_bitset \cap Mapped(meta) ELSE Mapped(meta),
             IF ok THEN discard_bitset ELSE {})
  /\ UNCHANGED data

\* Of the writes under way some are done, and copies are left half done.
Crash ==
  /\ "crash" \in faults
  /\ \E done \in SUBSET {b \in Bios : bios[b].at = "io" /\ IsWrite(b)} :
       /\ origin' = [o \in Oblocks |->
            IF \E mg \in migrations :
                 mg.phase = "copying" /\ mg.kind \in {"writeback", "demote"} /\ mg.old = o
              THEN NoPromise
              ELSE IF \E b \in done : bios[b].to # "cache" /\ bios[b].o = o
                THEN LET b == CHOOSE b \in done : bios[b].to # "cache" /\ bios[b].o = o
                     IN  Written(b, origin[o])
                ELSE origin[o]]
       /\ ssd' = [c \in Cblocks |->
            IF \E mg \in migrations : mg.phase = "copying" /\ mg.kind = "promote" /\ mg.c = c
              THEN <<Null, NoPromise>>
              ELSE IF \E b \in done : bios[b].to = "cache" /\ bios[b].c = c
                THEN LET b == CHOOSE b \in done : bios[b].to = "cache" /\ bios[b].c = c
                     IN  <<bios[b].o, Written(b, OnCache(bios[b].o, c))>>
                ELSE ssd[c]]
  /\ Restart(disk, Mapped(disk), {})

BioStep(b) == cache_map(b) \/ EndRead(b) \/ EndFlush(b) \/ EndWrite(b)

TargetNext ==
  \/ \E b \in Bios, op \in Ops, o \in Oblocks, full \in BOOLEAN : Submit(b, op, o, full)
  \/ \E b \in Bios : BioStep(b)
  \/ \E mg \in migrations, err \in BOOLEAN : copy_complete(mg, err)
  \/ do_worker
  \/ start_quiescing
  \/ \E ok \in BOOLEAN : Reload(ok)
  \/ Crash

TargetSpec == TargetInit /\ [][TargetNext]_tgtVars

-----------------------------------------------------------------------------
(***************************************************************************)
(* Correctness.                                                            *)
(***************************************************************************)

\* After a commit that has failed the target goes on as if it had not, and a crash
\* then loses what was acknowledged since: what follows is promised but for both.
CommitLost == {"commit", "crash"} \subseteq faults

\* A read returns what was last written before it was submitted, or something
\* newer, through hits, promotions, demotions, writethrough, overwrites, discards,
\* failed copies, reloads and crashes.
ReadsLatest ==
  [][\A b \in Bios :
       /\ bios[b].at = "io" /\ bios[b].op = "read" /\ ~CommitLost
       /\ bios'[b] = Idle /\ restarts' = restarts
       => bios[b].floor <=
            IF bios[b].to = "origin" THEN origin[bios[b].o] ELSE OnCache(bios[b].o, bios[b].c)
    ]_tgtVars

\* At every moment a crash would lose nothing that was acknowledged: where the
\* committed mapping sends a read of the block, its last acknowledged write is
\* found.  This is what the waiting for commits and for bios is for.
CrashSafe ==
  "commit" \notin faults =>
    \A o \in Oblocks :
      LET at == {c \in Cblocks : disk[c] = o}
      IN  /\ at = {} => origin[o] >= acked[o]
          /\ \A c \in at : OnCache(o, c) >= acked[o]
          /\ Cardinality(at) <= 1

\* A mapped block that is not dirty may be dropped: the origin has its data, unless
\* a write of it is under way.
CleanMayBeDropped ==
  \A c \in Mapped(meta) \ dirty_bitset :
    \/ origin[meta[c]] >= acked[meta[c]]
    \/ CommitLost

\* When no data is moved, the policy and the metadata agree, whatever copies or
\* changes of the metadata have failed.
QuietAgreement == migrations = {} => policy = meta /\ inflight = {}

\* No bio is lost between the lists, the cells and the migrations, and nobody waits
\* in a circle: a bio that waits does so for a cell, which a migration holds and
\* will release; a migration waits only for bios that a device has, or the worker is
\* about to send to one.  A suspend ends too: once the worker has acknowledged it, no
\* bio is under way and the worker never is where migrations begin, so the ones
\* that are left are the last, and wait for nobody.
NobodyStuck ==
  "metadata" \notin faults =>
    /\ cells = UNION {{mg.old, mg.new} \ {Null} : mg \in migrations}
    /\ \A b \in Bios :
         /\ bios[b].at = "waiting" => bios[b].on \in cells
         /\ bios[b].at = "held" => \E mg \in migrations : mg.holder = b
    /\ \A mg \in migrations, b \in Bios :
         /\ b \in mg.waits => bios[b].at \in {"io", "writethrough", "flush"}
         /\ mg.holder = b => bios[b].at = "held"
    /\ quiescing = "acked" =>
         /\ stage # "bios"
         /\ \A b \in Bios : bios[b] = Idle
         /\ \A mg \in migrations : mg.waits = {}
============================================================================
