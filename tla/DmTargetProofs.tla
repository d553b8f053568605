--------------------------- MODULE DmTargetProofs --------------------------
(***************************************************************************)
(* The target keeps its mapping and its waiting in order, for any number   *)
(* of blocks, cache blocks, bios, restarts and faults; and the data is     *)
(* where it looks for it, and where it would look after a crash.           *)
(***************************************************************************)
EXTENDS DmTarget, TLAPS, FiniteSetTheorems

BioRecords ==
  [ op : {"read", "write", "fua", "flush", "discard"},
    o : Oblocks, v : Nat, full : BOOLEAN,
    at : {"submitted", "deferred", "waiting", "held", "io", "flush", "writethrough"},
    to : {Null, "origin", "cache", "both"}, c : Cblocks \cup {Null},
    on : Oblocks \cup {Null}, floor : Int ]

MigrationRecords ==
  [ kind : {"writeback", "demote", "promote", "invalidate"},
    old : Oblocks \cup {Null}, new : Oblocks \cup {Null},
    c : Cblocks, holder : Bios \cup {Null},
    phase : {"quiescing", "copying", "completed", "need_commit", "committed"},
    err : BOOLEAN, overwrite : BOOLEAN, waits : SUBSET Bios ]

Mappings == [Cblocks -> Oblocks \cup {Null}]

BioTypes == bios \in [Bios -> BioRecords \cup {Idle}]
MigrationTypes == migrations \in SUBSET MigrationRecords
MappingTypes ==
  /\ policy \in Mappings /\ meta \in Mappings /\ disk \in Mappings
  /\ inflight \in SUBSET Cblocks
  /\ dirty_bitset \in SUBSET Cblocks /\ discard_bitset \in SUBSET Oblocks
  /\ cells \in SUBSET Oblocks
DataTypes ==
  /\ acked \in [Oblocks -> Int]
  /\ origin \in [Oblocks -> Int]
  /\ ssd \in [Cblocks -> (Oblocks \cup {Null}) \X Int]
  /\ submits \in Nat

TargetTypes ==
  /\ BioTypes /\ MigrationTypes /\ MappingTypes /\ DataTypes
  /\ mode \in Modes
  /\ stage \in {"bios", "copies", "commit", "post_commit"}
  /\ quiescing \in {"no", "asked", "acked"}

\* A bio that is somewhere is a bio with all its fields.
LEMMA BioFacts ==
  ASSUME BioTypes, NEW b \in Bios
  PROVE  /\ bios[b].at # "idle" => bios[b] \in BioRecords
         /\ bios[b].at = "idle" => bios[b] = Idle
BY DEF BioTypes, BioRecords, Idle

LEMMA SentFacts ==
  ASSUME BioTypes, NEW b \in Bios, bios[b].at # "idle",
         NEW to \in {"origin", "cache", "both"}, NEW c \in Cblocks \cup {Null}
  PROVE  /\ Sent(b, to, c) \in BioRecords
         /\ Sent(b, to, c).at = IF bios[b].op \in {"fua", "flush"} THEN "flush" ELSE "io"
         /\ Sent(b, to, c).op = bios[b].op
         /\ Sent(b, to, c).o = bios[b].o
         /\ Sent(b, to, c).v = bios[b].v
         /\ Sent(b, to, c).full = bios[b].full
         /\ Sent(b, to, c).floor = bios[b].floor
         /\ Sent(b, to, c).on = bios[b].on
         /\ Sent(b, to, c).to = to
         /\ Sent(b, to, c).c = c
<1>1. bios[b] \in BioRecords
  BY BioFacts
<1>2. PICK a : a = IF bios[b].op \in {"fua", "flush"} THEN "flush" ELSE "io"
  OBVIOUS
<1>3. a \in {"flush", "io"} /\ Sent(b, to, c) = [bios[b] EXCEPT !.at = a, !.to = to, !.c = c]
  BY <1>2 DEF Sent
<1>4. Sent(b, to, c) \in BioRecords
  BY <1>1, <1>3 DEF BioRecords
<1> QED
  BY <1>1, <1>2, <1>3, <1>4 DEF BioRecords

LEMMA DeferredFacts ==
  ASSUME BioTypes, NEW b \in Bios, bios[b].at # "idle"
  PROVE  /\ Deferred(b) \in BioRecords
         /\ Deferred(b).at = "deferred"
         /\ Deferred(b).op = bios[b].op
         /\ Deferred(b).o = bios[b].o
         /\ Deferred(b).v = bios[b].v
         /\ Deferred(b).full = bios[b].full
         /\ Deferred(b).floor = bios[b].floor
<1>1. bios[b] \in BioRecords
  BY BioFacts
<1> QED
  BY <1>1 DEF Deferred, BioRecords

LEMMA WaitingFacts ==
  ASSUME BioTypes, NEW b \in Bios, bios[b].at # "idle", NEW o \in Oblocks
  PROVE  /\ Waiting(b, o) \in BioRecords
         /\ Waiting(b, o).at = "waiting"
         /\ Waiting(b, o).on = o
         /\ Waiting(b, o).op = bios[b].op
         /\ Waiting(b, o).o = bios[b].o
         /\ Waiting(b, o).v = bios[b].v
         /\ Waiting(b, o).full = bios[b].full
         /\ Waiting(b, o).floor = bios[b].floor
<1>1. bios[b] \in BioRecords
  BY BioFacts
<1> QED
  BY <1>1 DEF Waiting, BioRecords


-----------------------------------------------------------------------------
(***************************************************************************)
(* Types.                                                                  *)
(***************************************************************************)
LEMMA TypesInit == TargetInit => TargetTypes
BY DmTargetAssumption
DEF TargetInit, TargetTypes, BioTypes, MigrationTypes, MappingTypes, DataTypes, Mappings,
    Idle, NoMapping, NoPromise

\* What a write leaves on a block, or a copy.
LEMMA ContentsTypes ==
  ASSUME TargetTypes
  PROVE  /\ \A o \in Oblocks, c \in Cblocks : OnCache(o, c) \in Int
         /\ \A b \in Bios, old \in Int : bios[b].at # "idle" => Written(b, old) \in Int
<1>1. ASSUME NEW o \in Oblocks, NEW c \in Cblocks
      PROVE  OnCache(o, c) \in Int
  BY DEF TargetTypes, DataTypes, OnCache, NoPromise
<1>2. ASSUME NEW b \in Bios, NEW old \in Int, bios[b].at # "idle"
      PROVE  Written(b, old) \in Int
  <2>1. bios[b] \in BioRecords
    BY <1>2, BioFacts DEF TargetTypes
  <2>2. bios[b].v \in Int /\ NoPromise \in Int
    BY <2>1 DEF BioRecords, NoPromise
  <2> QED
    BY <2>2 DEF Written
<1> QED
  BY <1>1, <1>2

LEMMA SubmitTypes ==
  ASSUME TargetTypes, NEW b \in Bios, NEW op \in Ops, NEW o \in Oblocks, NEW full \in BOOLEAN,
         Submit(b, op, o, full)
  PROVE  TargetTypes'
<1> USE DEF TargetTypes
<1> DEFINE new == [op |-> op, o |-> o, v |-> submits + 1, full |-> full, at |-> "submitted",
                   to |-> Null, c |-> Null, on |-> Null, floor |-> acked[o]]
<1>1. new \in BioRecords
  BY DmTargetAssumption DEF DataTypes, BioRecords
<1>2. ASSUME NEW x \in Reads(o) PROVE [bios[x] EXCEPT !.floor = NoPromise] \in BioRecords
  <2>1. x \in Bios /\ bios[x] \in BioRecords
    BY <1>2, BioFacts DEF Reads
  <2> QED
    BY <2>1 DEF BioRecords, NoPromise
<1>3. bios' = [x \in Bios |->
                IF x = b THEN new
                ELSE IF op = "discard" /\ x \in Reads(o)
                       THEN [bios[x] EXCEPT !.floor = NoPromise] ELSE bios[x]]
  BY DEF Submit
<1> HIDE DEF new
<1>4. BioTypes'
  <2>1. ASSUME NEW x \in Bios PROVE bios'[x] \in BioRecords \cup {Idle}
    BY <1>1, <1>2, <1>3 DEF BioTypes
  <2>2. bios' = [x \in Bios |-> bios'[x]]
    BY <1>3
  <2> QED
    BY <2>1, <2>2 DEF BioTypes, Idle
<1>5. DataTypes'
  BY DEF DataTypes, Submit, data, NoPromise
<1> QED
  BY <1>4, <1>5 DEF Submit, MigrationTypes, MappingTypes, mapping, bits

\* A bio is sent on to a device.
LEMMA RemapTypes ==
  ASSUME TargetTypes, NEW b \in Bios, bios[b].at # "idle", NEW c \in Cblocks,
         remap_hit(b, c) \/ remap_to_origin_clear_discard(b)
  PROVE  BioTypes' /\ dirty_bitset' \in SUBSET Cblocks /\ discard_bitset' \in SUBSET Oblocks
<1> USE DEF TargetTypes
<1>1. bios[b] \in BioRecords
  BY BioFacts
<1>2. bios[b].o \in Oblocks
  BY <1>1 DEF BioRecords
<1>3. PICK to \in {"origin", "cache", "both"}, d \in Cblocks \cup {Null} :
        bios' = [bios EXCEPT ![b] = Sent(b, to, d)]
  BY DEF remap_hit, remap_to_origin_clear_discard, remap_to_origin_then_cache,
         remap_to_cache_dirty
<1>4. Sent(b, to, d) \in BioRecords
  BY SentFacts
<1>5. BioTypes'
  BY <1>3, <1>4 DEF BioTypes, Idle
<1>6. /\ dirty_bitset' \in {dirty_bitset, dirty_bitset \cup {c}}
      /\ discard_bitset' \in {discard_bitset, discard_bitset \ {bios[b].o}}
  BY DEF remap_hit, remap_to_origin_clear_discard, remap_to_origin_then_cache,
         remap_to_cache_dirty, clear_discard, bits
<1> QED
  BY <1>5, <1>6, <1>2 DEF MappingTypes

LEMMA cache_mapTypes ==
  ASSUME TargetTypes, NEW b \in Bios, cache_map(b)
  PROVE  TargetTypes'
<1> USE DEF TargetTypes
<1>1. bios[b].at # "idle"
  BY DEF cache_map
<1>2. bios[b] \in BioRecords /\ bios[b].o \in Oblocks
  BY <1>1, BioFacts DEF BioRecords
<1>3. BioTypes' /\ dirty_bitset' \in SUBSET Cblocks /\ discard_bitset' \in SUBSET Oblocks
  <2>1. CASE \E c \in MappedTo(bios[b].o) : remap_hit(b, c) \/ remap_to_origin_clear_discard(b)
    BY <2>1, <1>1, RemapTypes DEF MappedTo
  <2>2. CASE bios' = [bios EXCEPT ![b] = Deferred(b)] /\ UNCHANGED bits
    BY <2>2, <1>1, DeferredFacts DEF BioTypes, Idle, bits, MappingTypes
  <2>3. CASE bios' = [bios EXCEPT ![b] = Waiting(b, bios[b].o)] /\ UNCHANGED bits
    BY <2>3, <1>1, <1>2, WaitingFacts DEF BioTypes, Idle, bits, MappingTypes
  <2> QED
    BY <2>1, <2>2, <2>3 DEF cache_map
<1> QED
  BY <1>3 DEF cache_map, MigrationTypes, MappingTypes, DataTypes, mapping, data, session

\* A migration that no longer waits for some bios is still one.
LEMMA FewerWaits ==
  ASSUME MigrationTypes, NEW mg \in migrations, NEW w \in SUBSET Bios
  PROVE  [mg EXCEPT !.waits = w] \in MigrationRecords
BY DEF MigrationTypes, MigrationRecords

LEMMA EndTypes ==
  ASSUME BioTypes, MigrationTypes, NEW b \in Bios, End(b)
  PROVE  BioTypes' /\ MigrationTypes'
<1>1. BioTypes'
  BY DEF End, BioTypes, Idle
<1>2. ASSUME NEW mg \in migrations PROVE [mg EXCEPT !.waits = @ \ {b}] \in MigrationRecords
  BY DEF MigrationTypes, MigrationRecords
<1>3. MigrationTypes'
  BY <1>2 DEF End, NotWaitedFor, MigrationTypes
<1> QED
  BY <1>1, <1>3

LEMMA EndReadFlushTypes ==
  ASSUME TargetTypes, NEW b \in Bios, EndRead(b) \/ EndFlush(b)
  PROVE  TargetTypes'
<1>1. BioTypes' /\ MigrationTypes'
  BY EndTypes DEF EndRead, EndFlush, TargetTypes
<1> QED
  BY <1>1 DEF EndRead, EndFlush, TargetTypes, MappingTypes, DataTypes, mapping, data, bits, session

LEMMA EndWriteTypes ==
  ASSUME TargetTypes, NEW b \in Bios, EndWrite(b)
  PROVE  TargetTypes'
<1> USE DEF TargetTypes
<1>1. bios[b].at # "idle" /\ bios[b] \in BioRecords
  BY BioFacts DEF EndWrite
<1>2. bios[b].o \in Oblocks /\ bios[b].v \in Nat /\ bios[b].c \in Cblocks \cup {Null}
  BY <1>1 DEF BioRecords
<1>3. BioTypes' /\ MigrationTypes' /\ acked' \in [Oblocks -> Int]
  <2>1. CASE bios[b].to = "both"
    <3>1. [bios[b] EXCEPT !.at = "writethrough"] \in BioRecords
      BY <1>1 DEF BioRecords
    <3>2. bios' = [bios EXCEPT ![b] = [bios[b] EXCEPT !.at = "writethrough"]]
      BY <2>1 DEF EndWrite
    <3> QED
      BY <2>1, <3>1, <3>2 DEF EndWrite, BioTypes, Idle, MigrationTypes, DataTypes
  <2>2. CASE bios[b].to # "both"
    BY <2>2, <1>2, EndTypes DEF EndWrite, DataTypes
  <2> QED
    BY <2>1, <2>2
<1>4. /\ \A c \in Cblocks : OnCache(bios[b].o, c) \in Int
      /\ \A old \in Int : Written(b, old) \in Int
      /\ origin[bios[b].o] \in Int
  BY <1>1, <1>2, ContentsTypes DEF DataTypes
<1>5. origin' \in [Oblocks -> Int] /\ ssd' \in [Cblocks -> (Oblocks \cup {Null}) \X Int]
  <2>1. CASE bios[b].to = "cache"
    <3>1. ssd' = [ssd EXCEPT ![bios[b].c] =
                    <<bios[b].o, Written(b, OnCache(bios[b].o, bios[b].c))>>]
          /\ origin' = origin
      BY <2>1 DEF EndWrite
    <3> QED
      BY <3>1, <1>2, <1>4 DEF DataTypes
  <2>2. CASE bios[b].to # "cache"
    BY <2>2, <1>2, <1>4 DEF EndWrite, DataTypes
  <2> QED
    BY <2>1, <2>2
<1> QED
  BY <1>3, <1>5 DEF EndWrite, DataTypes, MappingTypes, mapping, bits, session

\* The holder, if any, is a bio that is somewhere.
LEMMA StartTypes ==
  ASSUME TargetTypes, NEW mg \in MigrationRecords, Start(mg),
         mg.holder # Null => bios[mg.holder].at # "idle"
  PROVE  BioTypes' /\ MigrationTypes' /\ cells' \in SUBSET Oblocks
<1> USE DEF TargetTypes
<1>1. BioTypes'
  <2>1. ASSUME NEW b \in Bios, b = mg.holder
        PROVE  [bios[b] EXCEPT !.at = "held"] \in BioRecords
    <3>1. bios[b] \in BioRecords
      BY <2>1, BioFacts, DmTargetAssumption
    <3> QED
      BY <3>1 DEF BioRecords
  <2> QED
    BY <2>1 DEF Start, BioTypes, Idle
<1>2. mg.old \in Oblocks \cup {Null} /\ mg.new \in Oblocks \cup {Null}
  BY DEF MigrationRecords
<1> QED
  BY <1>1, <1>2 DEF Start, MigrationTypes, MappingTypes

LEMMA ReleasedTypes ==
  ASSUME TargetTypes, NEW os, NEW holder, cell_defer(os, holder),
         holder \in Bios => bios[holder].at # "idle"
  PROVE  BioTypes' /\ cells' \in SUBSET Oblocks
<1> USE DEF TargetTypes
<1>1. ASSUME NEW b \in Bios, bios[b].at = "waiting" \/ b = holder
      PROVE  Deferred(b) \in BioRecords
  BY <1>1, DeferredFacts
<1> QED
  BY <1>1 DEF cell_defer, Released, BioTypes, Idle, MappingTypes

LEMMA DeferredBioTypes ==
  ASSUME TargetTypes, NEW b \in Bios, process_deferred_bio(b)
  PROVE  TargetTypes'
<1> USE DEF TargetTypes
<1>1. bios[b].at = "deferred" /\ bios[b].at # "idle"
  BY DEF process_deferred_bio
<1>2. bios[b] \in BioRecords /\ bios[b].o \in Oblocks
  BY <1>1, BioFacts DEF BioRecords
<1>3. CASE process_flush_bio(b)
  <2>1. Sent(b, "origin", Null) \in BioRecords
    BY <1>1, SentFacts
  <2> QED
    BY <1>3, <2>1
    DEF process_flush_bio, BioTypes, Idle, MigrationTypes, MappingTypes, DataTypes, mapping, data,
        bits, session
<1>4. CASE process_discard_bio(b)
  BY <1>4, <1>2
  DEF process_discard_bio, set_discard, BioTypes, Idle, MigrationTypes, MappingTypes, DataTypes,
      mapping, data, session
<1>5. ASSUME process_bio(b), process_bio_unmoved(b)
      PROVE  TargetTypes'
  <2>1. /\ BioTypes' /\ MigrationTypes' /\ cells' \in SUBSET Oblocks
        /\ dirty_bitset' \in SUBSET Cblocks /\ discard_bitset' \in SUBSET Oblocks
    <3>1. CASE bios' = [bios EXCEPT ![b] = Waiting(b, bios[b].o)]
               /\ UNCHANGED <<bits, cells, migrations>>
      BY <3>1, <1>1, <1>2, WaitingFacts DEF BioTypes, Idle, bits, MappingTypes, MigrationTypes
    <3>2. CASE (\E c \in MappedTo(bios[b].o) : remap_hit(b, c) \/ remap_to_origin_clear_discard(b))
               /\ UNCHANGED <<cells, migrations>>
      BY <3>2, <1>1, RemapTypes DEF MappedTo, MappingTypes, MigrationTypes
    <3>3. CASE UNCHANGED bits /\ \E c \in MappedTo(bios[b].o) :
                 Start(Migration("invalidate", bios[b].o, Null, c, b))
      <4>1. PICK c \in Cblocks : Start(Migration("invalidate", bios[b].o, Null, c, b))
        BY <3>3 DEF MappedTo
      <4>2. /\ Migration("invalidate", bios[b].o, Null, c, b) \in MigrationRecords
            /\ Migration("invalidate", bios[b].o, Null, c, b).holder = b
        BY <1>2 DEF Migration, MigrationRecords
      <4> QED
        BY <3>3, <4>1, <4>2, <1>1, StartTypes DEF bits, MappingTypes
    <3>4. CASE remap_to_origin_clear_discard(b) /\ UNCHANGED <<cells, migrations>>
      <4>1. /\ Sent(b, "origin", Null) \in BioRecords
            /\ bios' = [bios EXCEPT ![b] = Sent(b, "origin", Null)]
        BY <3>4, <1>1, SentFacts DEF remap_to_origin_clear_discard
      <4> QED
        BY <3>4, <4>1
        DEF remap_to_origin_clear_discard, clear_discard, BioTypes, Idle, MappingTypes,
            MigrationTypes
    <3> QED
      BY <1>5, <3>1, <3>2, <3>3, <3>4 DEF process_bio_unmoved
  <2> QED
    BY <1>5, <2>1
    DEF process_bio, process_bio_unmoved, MappingTypes, DataTypes, mapping, data, session
<1>6. ASSUME process_bio(b), process_bio_moves(b)
      PROVE  TargetTypes'
  <2>1. /\ BioTypes' /\ MigrationTypes' /\ cells' \in SUBSET Oblocks
        /\ policy' \in Mappings /\ inflight' \in SUBSET Cblocks
    <3>1. PICK c \in Cblocks \ inflight :
           \/ /\ policy[c] = Null
              /\ Start(Migration("promote", Null, bios[b].o, c, b))
              /\ policy' = [policy EXCEPT ![c] = bios[b].o]
              /\ inflight' = inflight \cup {c}
           \/ /\ policy[c] # Null
              /\ Start(Migration("demote", policy[c], bios[b].o, c, b))
              /\ policy' = [policy EXCEPT ![c] = bios[b].o]
              /\ inflight' = inflight \cup {c}
           \/ /\ policy[c] # Null
              /\ bios' = [bios EXCEPT ![b] = Waiting(b, policy[c])]
              /\ UNCHANGED <<policy, inflight, cells, migrations>>
      BY <1>6 DEF process_bio_moves
    <3>2. policy[c] \in Oblocks \cup {Null}
      BY DEF MappingTypes, Mappings
    <3>3. CASE \E kind \in {"promote", "demote"}, old \in Oblocks \cup {Null} :
                 /\ Start(Migration(kind, old, bios[b].o, c, b))
                 /\ policy' = [policy EXCEPT ![c] = bios[b].o]
                 /\ inflight' = inflight \cup {c}
      <4>1. PICK kind \in {"promote", "demote"}, old \in Oblocks \cup {Null} :
              /\ Start(Migration(kind, old, bios[b].o, c, b))
              /\ policy' = [policy EXCEPT ![c] = bios[b].o]
              /\ inflight' = inflight \cup {c}
        BY <3>3
      <4>2. /\ Migration(kind, old, bios[b].o, c, b) \in MigrationRecords
            /\ Migration(kind, old, bios[b].o, c, b).holder = b
        BY <1>2 DEF Migration, MigrationRecords
      <4> QED
        BY <4>1, <4>2, <1>1, <1>2, StartTypes DEF MappingTypes, Mappings
    <3>4. CASE /\ policy[c] # Null
               /\ bios' = [bios EXCEPT ![b] = Waiting(b, policy[c])]
               /\ UNCHANGED <<policy, inflight, cells, migrations>>
      BY <3>4, <3>2, <1>1, WaitingFacts DEF BioTypes, Idle, MappingTypes, MigrationTypes
    <3> QED
      BY <3>1, <3>2, <3>3, <3>4
  <2> QED
    BY <1>6, <2>1
    DEF process_bio, process_bio_moves, MappingTypes, DataTypes, data, bits, session
<1> QED
  BY <1>3, <1>4, <1>5, <1>6 DEF process_deferred_bio, process_bio

LEMMA WritebackTypes ==
  ASSUME TargetTypes, NEW c \in Cblocks, writeback_some_dirty_blocks(c)
  PROVE  TargetTypes'
<1> USE DEF TargetTypes
<1> DEFINE mg == Migration("writeback", policy[c], Null, c, Null)
<1>1. policy[c] \in Oblocks \cup {Null}
  BY DEF MappingTypes, Mappings
<1>2. mg \in MigrationRecords /\ mg.holder = Null /\ Start(mg)
  BY <1>1 DEF Migration, MigrationRecords, writeback_some_dirty_blocks
<1>3. BioTypes' /\ MigrationTypes' /\ cells' \in SUBSET Oblocks
  <2> HIDE DEF mg
  <2> QED BY <1>2, StartTypes
<1> QED
  BY <1>3
  DEF writeback_some_dirty_blocks, MappingTypes, DataTypes, mapping, data, bits, session

LEMMA WritethroughTypes ==
  ASSUME TargetTypes, NEW b \in Bios, process_deferred_writethrough_bio(b)
  PROVE  TargetTypes'
<1> USE DEF TargetTypes
<1>1. bios[b] \in BioRecords
  BY BioFacts DEF process_deferred_writethrough_bio
<1>2. [bios[b] EXCEPT !.at = "io", !.to = "cache"] \in BioRecords
  BY <1>1 DEF BioRecords
<1>3. bios' = [bios EXCEPT ![b] = [bios[b] EXCEPT !.at = "io", !.to = "cache"]]
  BY DEF process_deferred_writethrough_bio
<1> QED
  BY <1>2, <1>3
  DEF process_deferred_writethrough_bio, BioTypes, Idle, MigrationTypes, MappingTypes, DataTypes,
      mapping, data, bits, session

LEMMA InvalidationTypes ==
  ASSUME TargetTypes, NEW c \in Cblocks, process_invalidation_request(c)
  PROVE  TargetTypes'
BY DEF TargetTypes, process_invalidation_request, BioTypes, MigrationTypes, MappingTypes, Mappings,
       DataTypes, data, bits, flow, session

\* The holder of a migration is somewhere, if it has one.
LEMMA PreCommitTypes ==
  ASSUME TargetTypes, NEW mg \in migrations, migration_success_pre_commit(mg),
         mg.kind = "demote" /\ mg.holder \in Bios => bios[mg.holder].at # "idle"
  PROVE  BioTypes' /\ MigrationTypes' /\ MappingTypes'
<1> USE DEF TargetTypes
<1>1. /\ mg \in MigrationRecords /\ mg.c \in Cblocks
      /\ mg.new \in Oblocks \cup {Null} /\ mg.old \in Oblocks \cup {Null}
  BY DEF MigrationTypes, MigrationRecords
<1>2. CASE /\ dirty_bitset' = dirty_bitset \ {mg.c}
           /\ cell_defer({mg.old}, Null)
           /\ migrations' = migrations \ {mg}
           /\ UNCHANGED <<mapping, discard_bitset, commit_requested>>
  <2>1. BioTypes' /\ cells' \in SUBSET Oblocks
    BY <1>2, ReleasedTypes, DmTargetAssumption
  <2> QED
    BY <1>2, <2>1 DEF MigrationTypes, MappingTypes, mapping
<1>3. CASE /\ meta' = [meta EXCEPT ![mg.c] = IF mg.kind = "promote" THEN mg.new ELSE Null]
           /\ Becomes(mg, [mg EXCEPT !.phase = "need_commit"])
           /\ UNCHANGED <<policy, inflight, disk, bits, cells, bios>>
  <2>1. [mg EXCEPT !.phase = "need_commit"] \in MigrationRecords
    BY <1>1 DEF MigrationRecords
  <2> QED
    BY <1>1, <1>3, <2>1 DEF Becomes, BioTypes, Idle, MigrationTypes, MappingTypes, Mappings, bits
<1>4. CASE /\ IF mg.kind = "demote" THEN cell_defer({mg.new}, mg.holder)
                                    ELSE UNCHANGED <<cells, bios>>
           /\ policy' = IF mg.kind = "invalidate" THEN policy ELSE [policy EXCEPT ![mg.c] = mg.old]
           /\ inflight' = inflight \ {mg.c}
           /\ migrations' = migrations \ {mg}
           /\ UNCHANGED <<meta, disk, bits, commit_requested>>
  <2>1. BioTypes' /\ cells' \in SUBSET Oblocks
    <3>1. CASE mg.kind = "demote"
      BY <1>4, <3>1, ReleasedTypes
    <3>2. CASE mg.kind # "demote"
      BY <1>4, <3>2 DEF BioTypes, Idle, MappingTypes
    <3> QED
      BY <3>1, <3>2
  <2> QED
    BY <1>1, <1>4, <2>1 DEF MigrationTypes, MappingTypes, Mappings, bits
<1> QED
  BY <1>2, <1>3, <1>4 DEF migration_success_pre_commit

LEMMA IssueTypes ==
  ASSUME TargetTypes, NEW mg \in migrations, issue_copy(mg),
         mg.kind = "demote" /\ mg.holder \in Bios => bios[mg.holder].at # "idle"
  PROVE  TargetTypes'
<1> USE DEF TargetTypes
<1>1. mg \in MigrationRecords /\ mg.c \in Cblocks
  BY DEF MigrationTypes, MigrationRecords
<1>2. CASE migration_success_pre_commit(mg)
  BY <1>2, PreCommitTypes DEF issue_copy, DataTypes, data, session
<1>3. CASE /\ dirty_bitset' = dirty_bitset \cup {mg.c}
           /\ clear_discard(mg.new)
           /\ Becomes(mg, [mg EXCEPT !.phase = "copying", !.overwrite = TRUE])
           /\ UNCHANGED <<mapping, cells, bios, commit_requested>>
  <2>1. [mg EXCEPT !.phase = "copying", !.overwrite = TRUE] \in MigrationRecords
    BY <1>1 DEF MigrationRecords
  <2> QED
    BY <1>1, <1>3, <2>1
    DEF issue_copy, clear_discard, Becomes, BioTypes, Idle, MigrationTypes, MappingTypes, DataTypes,
        mapping, data, session
<1>4. CASE /\ Becomes(mg, [mg EXCEPT !.phase = "copying"])
           /\ UNCHANGED <<mapping, bits, cells, bios, commit_requested>>
  <2>1. [mg EXCEPT !.phase = "copying"] \in MigrationRecords
    BY <1>1 DEF MigrationRecords
  <2> QED
    BY <1>4, <2>1
    DEF issue_copy, Becomes, BioTypes, Idle, MigrationTypes, MappingTypes, DataTypes, mapping, bits,
        data, session
<1> QED
  BY <1>2, <1>3, <1>4 DEF issue_copy

\* The migration moves a block from or to the cache block.
LEMMA CopyTypes ==
  ASSUME TargetTypes, NEW mg \in migrations, NEW err \in BOOLEAN, copy_complete(mg, err),
         mg.kind # "promote" => mg.old # Null,
         mg.kind = "promote" => mg.new # Null,
         mg.overwrite => mg.holder \in Bios /\ bios[mg.holder].at # "idle"
  PROVE  TargetTypes'
<1> USE DEF TargetTypes
<1>1. /\ mg \in MigrationRecords /\ mg.c \in Cblocks
      /\ mg.new \in Oblocks \cup {Null} /\ mg.old \in Oblocks \cup {Null}
  BY DEF MigrationTypes, MigrationRecords
<1>2. MigrationTypes'
  <2>1. [mg EXCEPT !.phase = "completed", !.err = err] \in MigrationRecords
    BY <1>1 DEF MigrationRecords
  <2> QED
    BY <2>1 DEF copy_complete, Becomes, MigrationTypes
<1>3. DataTypes'
  <2>1. CASE mg.kind = "promote"
    <3> DEFINE v == IF err THEN NoPromise
                    ELSE IF mg.overwrite THEN Written(mg.holder, OnCache(mg.new, mg.c))
                         ELSE origin[mg.new]
    <3>1. mg.new \in Oblocks
      BY <2>1, <1>1
    <3>2. v \in Int
      BY <3>1, <1>1, ContentsTypes DEF DataTypes, NoPromise
    <3>3. ssd' = [ssd EXCEPT ![mg.c] = <<mg.new, v>>] /\ origin' = origin
      BY <2>1 DEF copy_complete
    <3> HIDE DEF v
    <3> QED
      BY <3>1, <3>2, <3>3, <1>1 DEF copy_complete, DataTypes, session
  <2>2. CASE mg.kind # "promote"
    <3> DEFINE v == IF err THEN NoPromise ELSE OnCache(mg.old, mg.c)
    <3>1. mg.old \in Oblocks
      BY <2>2, <1>1
    <3>2. v \in Int
      BY <3>1, <1>1, ContentsTypes DEF DataTypes, NoPromise
    <3>3. origin' = [origin EXCEPT ![mg.old] = v] /\ ssd' = ssd
      BY <2>2 DEF copy_complete
    <3> HIDE DEF v
    <3> QED
      BY <3>1, <3>2, <3>3 DEF copy_complete, DataTypes, session
  <2> QED
    BY <2>1, <2>2
<1> QED
  BY <1>2, <1>3 DEF copy_complete, BioTypes, Idle, MappingTypes, mapping, bits, session

LEMMA FailureTypes ==
  ASSUME TargetTypes, NEW mg \in migrations, migration_failure(mg),
         mg.kind # "invalidate",
         mg.holder \in Bios => bios[mg.holder].at # "idle"
  PROVE  BioTypes' /\ MigrationTypes' /\ MappingTypes'
<1> USE DEF TargetTypes
<1>1. /\ mg \in MigrationRecords /\ mg.c \in Cblocks
      /\ mg.new \in Oblocks \cup {Null} /\ mg.old \in Oblocks \cup {Null}
  BY DEF MigrationTypes, MigrationRecords
<1>2. CASE mg.kind = "writeback"
  <2>1. /\ dirty_bitset' = dirty_bitset \cup {mg.c}
        /\ cell_defer({mg.old}, Null)
        /\ UNCHANGED <<policy, inflight>>
    BY <1>2 DEF migration_failure
  <2>2. BioTypes' /\ cells' \in SUBSET Oblocks
    BY <2>1, ReleasedTypes, DmTargetAssumption
  <2> QED
    BY <1>1, <2>1, <2>2 DEF migration_failure, MigrationTypes, MappingTypes
<1>3. CASE mg.kind = "demote"
  <2>1. /\ policy' = [policy EXCEPT ![mg.c] = mg.old]
        /\ inflight' = inflight \ {mg.c}
        /\ cell_defer({mg.old, mg.new}, mg.holder)
        /\ UNCHANGED dirty_bitset
    BY <1>3 DEF migration_failure
  <2>2. BioTypes' /\ cells' \in SUBSET Oblocks
    BY <2>1, ReleasedTypes
  <2> QED
    BY <1>1, <2>1, <2>2 DEF migration_failure, MigrationTypes, MappingTypes, Mappings
<1>4. CASE mg.kind = "promote"
  <2>1. /\ policy' = [policy EXCEPT ![mg.c] = Null]
        /\ inflight' = inflight \ {mg.c}
        /\ cell_defer({mg.new}, mg.holder)
        /\ UNCHANGED dirty_bitset
    BY <1>4 DEF migration_failure
  <2>2. BioTypes' /\ cells' \in SUBSET Oblocks
    BY <2>1, ReleasedTypes
  <2> QED
    BY <1>1, <2>1, <2>2 DEF migration_failure, MigrationTypes, MappingTypes, Mappings
<1> QED
  BY <1>1, <1>2, <1>3, <1>4 DEF MigrationRecords

LEMMA CompleteTypes ==
  ASSUME TargetTypes, NEW mg \in migrations, complete_migration(mg),
         mg.kind # "invalidate",
         mg.holder \in Bios => bios[mg.holder].at # "idle"
  PROVE  TargetTypes'
<1>1. BioTypes' /\ MigrationTypes' /\ MappingTypes'
  BY FailureTypes, PreCommitTypes DEF complete_migration
<1> QED
  BY <1>1 DEF complete_migration, TargetTypes, DataTypes, data, session

LEMMA CommitTypes ==
  ASSUME TargetTypes, commit_if_needed
  PROVE  TargetTypes'
<1> USE DEF TargetTypes
<1>1. BioTypes'
  <2>1. ASSUME NEW b \in Bios, bios[b].at = "flush"
        PROVE  [bios[b] EXCEPT !.at = "io"] \in BioRecords
    <3>1. bios[b] \in BioRecords
      BY <2>1, BioFacts
    <3> QED
      BY <3>1 DEF BioRecords
  <2>2. FlushBios("io") \in [Bios -> BioRecords \cup {Idle}]
    BY <2>1 DEF FlushBios, BioTypes, Idle
  <2>3. [b \in Bios |-> IF bios[b].at = "flush" THEN Idle ELSE bios[b]]
          \in [Bios -> BioRecords \cup {Idle}]
    BY DEF BioTypes, Idle
  <2> QED
    BY <2>2, <2>3 DEF commit_if_needed, BioTypes, Idle
<1>2. MigrationTypes'
  <2>1. ASSUME NEW mg \in migrations PROVE [mg EXCEPT !.phase = "committed"] \in MigrationRecords
    BY DEF MigrationTypes, MigrationRecords
  <2>2. Committed \in SUBSET MigrationRecords
    BY <2>1 DEF Committed, MigrationTypes
  <2>3. ASSUME NEW mg \in migrations
        PROVE  [mg EXCEPT !.waits = {b \in @ : bios[b].at # "flush"}] \in MigrationRecords
    BY DEF MigrationTypes, MigrationRecords
  <2>4. {[mg EXCEPT !.waits = {b \in @ : bios[b].at # "flush"}] : mg \in migrations}
          \in SUBSET MigrationRecords
    BY <2>3
  <2>5. migrations' \in {Committed, {[mg EXCEPT !.waits = {b \in @ : bios[b].at # "flush"}]
                                       : mg \in migrations}}
    BY DEF commit_if_needed
  <2> QED
    BY <2>2, <2>4, <2>5 DEF MigrationTypes
<1>3. disk' \in {disk, meta}
  BY DEF commit_if_needed
<1> QED
  BY <1>1, <1>2, <1>3 DEF commit_if_needed, NextRound, MappingTypes, DataTypes, data, bits

\* An overwrite has the bio that it is for.
LEMMA PostCommitTypes ==
  ASSUME TargetTypes, NEW mg \in migrations, migration_success_post_commit(mg),
         mg.holder \in Bios => bios[mg.holder].at # "idle",
         mg.overwrite => mg.holder \in Bios
  PROVE  TargetTypes'
<1> USE DEF TargetTypes
<1>1. /\ mg \in MigrationRecords /\ mg.c \in Cblocks
      /\ mg.new \in Oblocks \cup {Null} /\ mg.old \in Oblocks \cup {Null}
  BY DEF MigrationTypes, MigrationRecords
<1>2. CASE /\ cell_defer({mg.old}, Null)
           /\ Becomes(mg, [mg EXCEPT !.kind = "promote", !.old = Null, !.phase = "quiescing",
                                     !.waits = {}])
           /\ UNCHANGED <<policy, inflight, dirty_bitset, acked>>
  <2>1. BioTypes' /\ cells' \in SUBSET Oblocks
    BY <1>2, ReleasedTypes, DmTargetAssumption
  <2>2. [mg EXCEPT !.kind = "promote", !.old = Null, !.phase = "quiescing", !.waits = {}]
          \in MigrationRecords
    BY <1>1 DEF MigrationRecords
  <2> QED
    BY <1>2, <2>1, <2>2
    DEF migration_success_post_commit, Becomes, MigrationTypes, MappingTypes, DataTypes, data, session
<1>3. CASE /\ \E os : cell_defer(os, mg.holder)
           /\ policy' \in {policy, [policy EXCEPT ![mg.c] = Null]}
           /\ dirty_bitset' \in {dirty_bitset, dirty_bitset \ {mg.c}}
           /\ inflight' \in {inflight, inflight \ {mg.c}}
           /\ migrations' = migrations \ {mg}
           /\ UNCHANGED acked
  <2>1. BioTypes' /\ cells' \in SUBSET Oblocks
    BY <1>3, ReleasedTypes
  <2> QED
    BY <1>1, <1>3, <2>1
    DEF migration_success_post_commit, MigrationTypes, MappingTypes, Mappings, DataTypes, data, session
<1>4. CASE /\ mg.overwrite
           /\ cells' = cells \ {mg.new}
           /\ bios' = [Released({mg.new}, Null) EXCEPT ![mg.holder] = Idle]
           /\ acked' = [acked EXCEPT ![mg.new] = bios[mg.holder].v]
           /\ dirty_bitset' = dirty_bitset \cup {mg.c}
           /\ inflight' = inflight \ {mg.c}
           /\ migrations' = migrations \ {mg}
           /\ UNCHANGED policy
  <2>1. bios[mg.holder] \in BioRecords
    BY <1>4, BioFacts
  <2>2. bios[mg.holder].v \in Int
    BY <2>1 DEF BioRecords
  <2>3. ASSUME NEW b \in Bios, bios[b].at = "waiting"
        PROVE  Deferred(b) \in BioRecords
    BY <2>3, DeferredFacts
  <2>4. Released({mg.new}, Null) \in [Bios -> BioRecords \cup {Idle}]
    BY <2>3, DmTargetAssumption DEF Released, BioTypes, Idle
  <2>5. BioTypes'
    BY <2>4, <1>4 DEF BioTypes, Idle
  <2>6. DataTypes'
    BY <2>2, <1>4 DEF migration_success_post_commit, DataTypes, data, session
  <2> QED
    BY <1>1, <1>4, <2>5, <2>6
    DEF migration_success_post_commit, MigrationTypes, MappingTypes, session
<1>5. \/ /\ cell_defer({mg.old}, Null)
         /\ Becomes(mg, [mg EXCEPT !.kind = "promote", !.old = Null, !.phase = "quiescing",
                                   !.waits = {}])
         /\ UNCHANGED <<policy, inflight, dirty_bitset, acked>>
      \/ /\ cell_defer({mg.old}, mg.holder)
         /\ policy' = [policy EXCEPT ![mg.c] = Null]
         /\ migrations' = migrations \ {mg}
         /\ UNCHANGED <<inflight, dirty_bitset, acked>>
      \/ /\ cell_defer({mg.new}, mg.holder)
         /\ dirty_bitset' = dirty_bitset \ {mg.c}
         /\ inflight' = inflight \ {mg.c}
         /\ migrations' = migrations \ {mg}
         /\ UNCHANGED <<policy, acked>>
      \/ /\ mg.overwrite
         /\ cells' = cells \ {mg.new}
         /\ bios' = [Released({mg.new}, Null) EXCEPT ![mg.holder] = Idle]
         /\ acked' = [acked EXCEPT ![mg.new] = bios[mg.holder].v]
         /\ dirty_bitset' = dirty_bitset \cup {mg.c}
         /\ inflight' = inflight \ {mg.c}
         /\ migrations' = migrations \ {mg}
         /\ UNCHANGED policy
  BY DEF migration_success_post_commit
<1> QED
  BY <1>2, <1>3, <1>4, <1>5

LEMMA StageTypes ==
  ASSUME TargetTypes, NextStage \/ start_quiescing
  PROVE  TargetTypes'
BY DEF TargetTypes, NextStage, start_quiescing, NextRound, BioTypes, Idle, MigrationTypes,
       MappingTypes, DataTypes, mapping, data, bits, flow

\* The restart, whatever has become of the devices.
LEMMA RestartTypes ==
  ASSUME TargetTypes, NEW m \in {meta, disk}, NEW dirty, NEW discards, Restart(m, dirty, discards),
         dirty \in SUBSET Cblocks, discards \in SUBSET Oblocks,
         origin' \in [Oblocks -> Int], ssd' \in [Cblocks -> (Oblocks \cup {Null}) \X Int]
  PROVE  TargetTypes'
<1> USE DEF TargetTypes
<1>1. BioTypes'
  BY DEF Restart, BioTypes, Idle
<1>2. m \in Mappings
  BY DEF MappingTypes
<1>3. MappingTypes' /\ MigrationTypes'
  BY <1>2 DEF Restart, MappingTypes, MigrationTypes
<1>4. DataTypes'
  BY DEF Restart, DataTypes
<1> QED
  BY <1>1, <1>3, <1>4 DEF Restart

LEMMA ReloadTypes ==
  ASSUME TargetTypes, NEW ok \in BOOLEAN, Reload(ok)
  PROVE  TargetTypes'
<1> DEFINE dirty == IF ok THEN dirty_bitset \cap Mapped(meta) ELSE Mapped(meta)
           discards == IF ok THEN discard_bitset ELSE {}
<1>1. dirty \in SUBSET Cblocks /\ discards \in SUBSET Oblocks
  BY DEF TargetTypes, MappingTypes, Mapped
<1>2. Restart(meta, dirty, discards) /\ UNCHANGED <<origin, ssd>>
  BY DEF Reload, data
<1> HIDE DEF dirty, discards
<1> QED
  BY <1>1, <1>2, RestartTypes DEF TargetTypes, DataTypes

LEMMA CrashTypes ==
  ASSUME TargetTypes, Crash
  PROVE  TargetTypes'
<1> USE DEF TargetTypes
<1>1. PICK done \in SUBSET {b \in Bios : bios[b].at = "io" /\ IsWrite(b)} :
       /\ origin' = [o \in Oblocks |->
            IF \E mg \in migrations :
                 mg.phase = "copying" /\ mg.kind \in {"writeback", "demote"} /\ mg.old = o
              THEN NoPromise
              ELSE IF \E b \in done : bios[b].to # "cache" /\ bios[b].o = o
                THEN LET b == CHOOSE b \in done : bios[b].to # "cache" /\ bios[b].o = o
                     IN  Written(b, origin[o])
                ELSE origin[o]]
       /\ ssd' = [c \in Cblocks |->
            IF \E mg \in migrations : mg.phase = "copying" /\ mg.kind = "promote" /\ mg.c = c
              THEN <<Null, NoPromise>>
              ELSE IF \E b \in done : bios[b].to = "cache" /\ bios[b].c = c
                THEN LET b == CHOOSE b \in done : bios[b].to = "cache" /\ bios[b].c = c
                     IN  <<bios[b].o, Written(b, OnCache(bios[b].o, c))>>
                ELSE ssd[c]]
  BY DEF Crash
<1>2. ASSUME NEW b \in done
      PROVE  /\ bios[b].o \in Oblocks
             /\ \A old \in Int : Written(b, old) \in Int
             /\ \A c \in Cblocks : Written(b, OnCache(bios[b].o, c)) \in Int
  <2>1. b \in Bios /\ bios[b].at # "idle"
    BY <1>2
  <2>2. bios[b] \in BioRecords
    BY <2>1, BioFacts
  <2> QED
    BY <2>1, <2>2, ContentsTypes DEF BioRecords
<1>3. origin' \in [Oblocks -> Int]
  <2>1. ASSUME NEW o \in Oblocks PROVE origin'[o] \in Int
    <3>1. origin[o] \in Int /\ NoPromise \in Int
      BY DEF DataTypes, NoPromise
    <3> DEFINE b == CHOOSE b \in done : bios[b].to # "cache" /\ bios[b].o = o
    <3>2. (\E x \in done : bios[x].to # "cache" /\ bios[x].o = o) => b \in done
      OBVIOUS
    <3>3. origin'[o] \in {NoPromise, Written(b, origin[o]), origin[o]}
          /\ (origin'[o] \in {NoPromise, origin[o]}
              \/ \E x \in done : bios[x].to # "cache" /\ bios[x].o = o)
      BY <1>1
    <3> HIDE DEF b
    <3> QED
      BY <1>2, <3>1, <3>2, <3>3
  <2>2. origin' = [o \in Oblocks |-> origin'[o]]
    BY <1>1
  <2> QED
    BY <2>1, <2>2
<1>4. ssd' \in [Cblocks -> (Oblocks \cup {Null}) \X Int]
  <2>1. ASSUME NEW c \in Cblocks PROVE ssd'[c] \in (Oblocks \cup {Null}) \X Int
    <3>1. ssd[c] \in (Oblocks \cup {Null}) \X Int /\ NoPromise \in Int
      BY DEF DataTypes, NoPromise
    <3> DEFINE b == CHOOSE b \in done : bios[b].to = "cache" /\ bios[b].c = c
    <3>2. (\E x \in done : bios[x].to = "cache" /\ bios[x].c = c) => b \in done
      OBVIOUS
    <3>3. \/ ssd'[c] = <<Null, NoPromise>>
          \/ ssd'[c] = ssd[c]
          \/ /\ \E x \in done : bios[x].to = "cache" /\ bios[x].c = c
             /\ ssd'[c] = <<bios[b].o, Written(b, OnCache(bios[b].o, c))>>
      BY <1>1
    <3> HIDE DEF b
    <3> QED
      BY <1>2, <3>1, <3>2, <3>3
  <2>2. ssd' = [c \in Cblocks |-> ssd'[c]]
    BY <1>1
  <2> QED
    BY <2>1, <2>2
<1>5. Restart(disk, Mapped(disk), {})
  BY DEF Crash
<1>6. Mapped(disk) \in SUBSET Cblocks /\ {} \in SUBSET Oblocks
  BY DEF Mapped
<1> QED
  BY <1>3, <1>4, <1>5, <1>6, RestartTypes

-----------------------------------------------------------------------------
(***************************************************************************)
(* The mapping.  What the policy and the metadata say differs only where   *)
(* a migration moves a block, and its kind and phase say how.              *)
(***************************************************************************)
Moves(mg) == mg.kind \in {"promote", "demote"}
PastCommit(mg) == mg.phase \in {"need_commit", "committed"}
IsBlockOf(o, mg) == o # Null /\ (o = mg.old \/ o = mg.new)

Shaped(mg) ==
  /\ mg.kind = "writeback" =>
       /\ mg.old # Null /\ mg.new = Null /\ mg.holder = Null
       /\ policy[mg.c] = mg.old /\ meta[mg.c] = mg.old
       /\ ~PastCommit(mg)
  /\ mg.kind = "demote" =>
       /\ mg.old # Null /\ mg.new # Null /\ mg.holder # Null /\ mg.old # mg.new
       /\ policy[mg.c] = mg.new
       /\ meta[mg.c] = IF PastCommit(mg) THEN Null ELSE mg.old
  /\ mg.kind = "promote" =>
       /\ mg.old = Null /\ mg.new # Null /\ mg.holder # Null
       /\ policy[mg.c] = mg.new
       /\ meta[mg.c] = IF PastCommit(mg) THEN mg.new ELSE Null
  /\ mg.kind = "invalidate" =>
       /\ mg.old # Null /\ mg.new = Null /\ mg.holder # Null
       /\ policy[mg.c] \in {mg.old, Null}
       /\ meta[mg.c] = IF PastCommit(mg) THEN Null ELSE policy[mg.c]
       /\ mg.phase \notin {"copying", "completed"}
  /\ mg.kind = "invalidate" <=> mode = "passthrough"
  /\ mg.err => mg.phase = "completed"
  /\ mg.overwrite => mg.kind = "promote" /\ mg.phase # "quiescing"

MapInv ==
  /\ \A mg \in migrations : Shaped(mg)
  /\ \A mg \in migrations : mg.old \in cells \cup {Null} /\ mg.new \in cells \cup {Null}
  /\ \A m, n \in migrations : m.c = n.c => m = n
  /\ \A m, n \in migrations, o \in Oblocks : IsBlockOf(o, m) /\ IsBlockOf(o, n) => m = n
  /\ \A c \in Cblocks : c \in inflight <=> \E mg \in migrations : mg.c = c /\ Moves(mg)
  /\ \A c \in Cblocks :
       policy[c] # meta[c] => \E mg \in migrations : mg.c = c /\ mg.kind # "writeback"
  /\ mode = "passthrough" => dirty_bitset = {}

LEMMA MapInit == TargetInit => MapInv
BY DEF TargetInit, MapInv, NoMapping

LEMMA MigrationFacts ==
  ASSUME MigrationTypes, NEW mg \in migrations
  PROVE  /\ mg \in MigrationRecords
         /\ mg.kind \in {"writeback", "demote", "promote", "invalidate"}
         /\ mg.c \in Cblocks
         /\ mg.new \in Oblocks \cup {Null} /\ mg.old \in Oblocks \cup {Null}
         /\ mg.holder \in Bios \cup {Null}
         /\ mg.phase \in {"quiescing", "copying", "completed", "need_commit", "committed"}
         /\ mg.err \in BOOLEAN /\ mg.overwrite \in BOOLEAN
         /\ mg.waits \in SUBSET Bios
BY DEF MigrationTypes, MigrationRecords

\* Of a block that is not held the policy and the metadata say the same.
LEMMA Unheld ==
  ASSUME MigrationTypes, MapInv, NEW o \in Oblocks, o \notin cells, NEW c \in Cblocks
  PROVE  policy[c] = o <=> meta[c] = o
<1>1. CASE policy[c] = meta[c]
  BY <1>1
<1>2. CASE policy[c] # meta[c]
  <2>1. PICK mg \in migrations : mg.c = c /\ mg.kind # "writeback"
    BY <1>2 DEF MapInv
  <2>2. Shaped(mg) /\ mg.old # o /\ mg.new # o /\ o # Null
    BY DmTargetAssumption DEF MapInv
  <2> QED
    BY <1>2, <2>1, <2>2, MigrationFacts DEF Shaped
<1> QED
  BY <1>1, <1>2

\* Nothing happens to the mapping and the migrations.
LEMMA MapFrame ==
  ASSUME TargetTypes, MapInv, UNCHANGED <<policy, meta, inflight, migrations, mode>>,
         cells \subseteq cells', mode = "passthrough" => dirty_bitset' = dirty_bitset
  PROVE  MapInv'
BY DEF MapInv, Shaped

\* Migrations wait for fewer bios, or the commit is behind them.
SameMove(m, n) ==
  /\ n.kind = m.kind /\ n.old = m.old /\ n.new = m.new /\ n.c = m.c /\ n.holder = m.holder
  /\ n.err = m.err /\ n.overwrite = m.overwrite
  /\ n.phase = m.phase \/ (m.phase = "need_commit" /\ n.phase = "committed")

Relabelled ==
  /\ \A n \in migrations' : \E m \in migrations : SameMove(m, n)
  /\ \A m \in migrations : \E n \in migrations' : SameMove(m, n)
  /\ \A m, n \in migrations' : m.c = n.c => m = n

LEMMA FewerWaitsMove ==
  ASSUME MigrationTypes, NEW m \in migrations, NEW w, NEW n, n = [m EXCEPT !.waits = w]
  PROVE  SameMove(m, n)
<1>1. m \in MigrationRecords
  BY DEF MigrationTypes
<1>2. /\ n.kind = m.kind /\ n.old = m.old /\ n.new = m.new /\ n.c = m.c /\ n.holder = m.holder
      /\ n.err = m.err /\ n.overwrite = m.overwrite /\ n.phase = m.phase
  BY <1>1 DEF MigrationRecords
<1> QED
  BY <1>2 DEF SameMove

LEMMA RelabelledBy ==
  ASSUME MapInv, NEW f, migrations' = {f[m] : m \in migrations},
         \A m \in migrations : SameMove(m, f[m])
  PROVE  Relabelled
<1>1. ASSUME NEW m \in migrations', NEW n \in migrations', m.c = n.c
      PROVE  m = n
  <2>1. PICK x \in migrations : m = f[x]
    OBVIOUS
  <2>2. PICK y \in migrations : n = f[y]
    OBVIOUS
  <2>3. x.c = y.c
    BY <1>1, <2>1, <2>2 DEF SameMove
  <2> QED
    BY <2>1, <2>2, <2>3 DEF MapInv
<1> QED
  BY <1>1 DEF Relabelled

LEMMA EndRelabels ==
  ASSUME MigrationTypes, MapInv, NEW b, migrations' = NotWaitedFor(b)
  PROVE  Relabelled
<1> DEFINE f == [m \in migrations |-> [m EXCEPT !.waits = @ \ {b}]]
<1>1. /\ migrations' = {f[m] : m \in migrations}
      /\ \A m \in migrations : f[m] = [m EXCEPT !.waits = @ \ {b}]
  BY DEF NotWaitedFor
<1> HIDE DEF f
<1> QED
  BY <1>1, FewerWaitsMove, RelabelledBy

LEMMA CommitRelabels ==
  ASSUME MigrationTypes, MapInv, commit_if_needed
  PROVE  Relabelled
<1>1. CASE migrations' = Committed
  <2> DEFINE f == [m \in migrations |->
                     IF m.phase = "need_commit" THEN [m EXCEPT !.phase = "committed"] ELSE m]
  <2>1. migrations' = {f[m] : m \in migrations}
    BY <1>1 DEF Committed
  <2>2. ASSUME NEW m \in migrations PROVE SameMove(m, f[m])
    BY DEF MigrationTypes, MigrationRecords, SameMove
  <2> HIDE DEF f
  <2> QED
    BY <2>1, <2>2, RelabelledBy
<1>2. CASE migrations' = {[mg EXCEPT !.waits = {b \in @ : bios[b].at # "flush"}] : mg \in migrations}
  <2> DEFINE f == [m \in migrations |-> [m EXCEPT !.waits = {b \in @ : bios[b].at # "flush"}]]
  <2>1. /\ migrations' = {f[m] : m \in migrations}
        /\ \A m \in migrations : f[m] = [m EXCEPT !.waits = {b \in @ : bios[b].at # "flush"}]
    BY <1>2
  <2> HIDE DEF f
  <2> QED
    BY <2>1, FewerWaitsMove, RelabelledBy
<1> QED
  BY <1>1, <1>2 DEF commit_if_needed

LEMMA MapRelabel ==
  ASSUME TargetTypes, MapInv, Relabelled,
         UNCHANGED <<policy, meta, inflight, cells, mode, dirty_bitset>>
  PROVE  MapInv'
<1>1. ASSUME NEW n \in migrations'
      PROVE  Shaped(n)' /\ n.old \in cells \cup {Null} /\ n.new \in cells \cup {Null}
  <2>1. PICK m \in migrations : SameMove(m, n)
    BY DEF Relabelled
  <2>2. Shaped(m) /\ m.old \in cells \cup {Null} /\ m.new \in cells \cup {Null}
    BY DEF MapInv
  <2>3. PastCommit(n) <=> PastCommit(m)
    BY <2>1 DEF SameMove, PastCommit
  <2> QED
    BY <2>1, <2>2, <2>3 DEF SameMove, Shaped
<1>2. \A c \in Cblocks : c \in inflight' <=> \E mg \in migrations' : mg.c = c /\ Moves(mg)
  <2>1. ASSUME NEW c \in Cblocks
        PROVE  c \in inflight' <=> \E mg \in migrations' : mg.c = c /\ Moves(mg)
    <3>1. c \in inflight' <=> \E mg \in migrations : mg.c = c /\ Moves(mg)
      BY DEF MapInv
    <3> QED
      BY <3>1 DEF Relabelled, SameMove, Moves
  <2> QED
    BY <2>1
<1>3. ASSUME NEW c \in Cblocks, policy'[c] # meta'[c]
      PROVE  \E mg \in migrations' : mg.c = c /\ mg.kind # "writeback"
  <2>1. PICK m \in migrations : m.c = c /\ m.kind # "writeback"
    BY <1>3 DEF MapInv
  <2> QED
    BY <2>1 DEF Relabelled, SameMove
<1>4. /\ \A m, n \in migrations' : m.c = n.c => m = n
      /\ mode' = "passthrough" => dirty_bitset' = {}
  BY DEF MapInv, Relabelled
<1>5. ASSUME NEW m \in migrations', NEW n \in migrations', NEW o \in Oblocks,
             IsBlockOf(o, m), IsBlockOf(o, n)
      PROVE  m = n
  <2>1. PICK x \in migrations : SameMove(x, m)
    BY DEF Relabelled
  <2>2. PICK y \in migrations : SameMove(y, n)
    BY DEF Relabelled
  <2>3. x = y
    BY <1>5, <2>1, <2>2 DEF SameMove, IsBlockOf, MapInv
  <2> QED
    BY <1>4, <2>1, <2>2, <2>3 DEF SameMove
<1> QED
  BY <1>1, <1>2, <1>3, <1>4, <1>5 DEF MapInv

\* A migration begins, of blocks that were not held.
LEMMA StartMaps ==
  ASSUME TargetTypes, MapInv, NEW mg \in MigrationRecords, Start(mg),
         mg.old \notin cells, mg.new \notin cells, \A m \in migrations : m.c # mg.c,
         Shaped(mg)', mg.kind = "writeback" => policy'[mg.c] = meta[mg.c],
         UNCHANGED <<meta, mode, dirty_bitset>>,
         \A c \in Cblocks : c # mg.c => policy'[c] = policy[c],
         inflight' = IF Moves(mg) THEN inflight \cup {mg.c} ELSE inflight
  PROVE  MapInv'
<1>1. /\ mg.c \in Cblocks
      /\ mg.new \in Oblocks \cup {Null} /\ mg.old \in Oblocks \cup {Null}
  BY DEF MigrationRecords
<1>2. /\ migrations' = migrations \cup {mg}
      /\ cells' = cells \cup ({mg.old, mg.new} \ {Null})
  BY DEF Start
<1>3. ASSUME NEW n \in migrations'
      PROVE  Shaped(n)' /\ n.old \in cells' \cup {Null} /\ n.new \in cells' \cup {Null}
  <2>1. CASE n = mg
    BY <1>2, <2>1
  <2>2. CASE n \in migrations
    <3>1. /\ Shaped(n) /\ n.c \in Cblocks /\ n.c # mg.c
          /\ n.old \in cells \cup {Null} /\ n.new \in cells \cup {Null}
      BY <2>2, MigrationFacts DEF MapInv, TargetTypes
    <3>2. policy'[n.c] = policy[n.c] /\ meta'[n.c] = meta[n.c]
      BY <3>1
    <3> QED
      BY <1>2, <3>1, <3>2 DEF Shaped
  <2> QED
    BY <1>2, <2>1, <2>2
<1>4. \A m, n \in migrations' : m.c = n.c => m = n
  BY <1>2 DEF MapInv
<1>5. ASSUME NEW m \in migrations', NEW n \in migrations', NEW o \in Oblocks,
             IsBlockOf(o, m), IsBlockOf(o, n)
      PROVE  m = n
  <2>1. ASSUME NEW x \in migrations PROVE ~(IsBlockOf(o, x) /\ IsBlockOf(o, mg))
    BY DEF MapInv, IsBlockOf
  <2> QED
    BY <1>2, <1>5, <2>1 DEF MapInv
<1>6. ASSUME NEW c \in Cblocks
      PROVE  c \in inflight' <=> \E n \in migrations' : n.c = c /\ Moves(n)
  BY <1>2 DEF MapInv
<1>7. ASSUME NEW c \in Cblocks, policy'[c] # meta'[c]
      PROVE  \E n \in migrations' : n.c = c /\ n.kind # "writeback"
  <2>1. CASE c = mg.c
    BY <1>2, <1>7, <2>1
  <2>2. CASE c # mg.c
    BY <1>2, <1>7, <2>2 DEF MapInv
  <2> QED
    BY <2>1, <2>2
<1>8. mode' = "passthrough" => dirty_bitset' = {}
  BY DEF MapInv
<1> QED
  BY <1>3, <1>4, <1>5, <1>6, <1>7, <1>8 DEF MapInv

\* A migration goes on, and may let go of a block of its.
LEMMA BecomesMaps ==
  ASSUME TargetTypes, MapInv, NEW mg \in migrations, NEW next \in MigrationRecords,
         Becomes(mg, next), next.c = mg.c, Moves(next) <=> Moves(mg), Shaped(next)',
         next.old \in {mg.old, Null}, next.new = mg.new,
         cells' \subseteq cells,
         \A o \in cells \ cells' : IsBlockOf(o, mg) /\ ~IsBlockOf(o, next),
         next.kind = "writeback" => policy'[mg.c] = meta'[mg.c],
         UNCHANGED <<mode, inflight>>, mode = "passthrough" => dirty_bitset' = {},
         \A c \in Cblocks : c # mg.c => policy'[c] = policy[c] /\ meta'[c] = meta[c]
  PROVE  MapInv'
<1> USE DEF TargetTypes
<1>1. migrations' = (migrations \ {mg}) \cup {next}
  BY DEF Becomes
<1>2. ASSUME NEW n \in migrations', n # next
      PROVE  n \in migrations /\ n # mg /\ n.c # mg.c /\ n.c \in Cblocks
  BY <1>1, <1>2, MigrationFacts DEF MapInv
<1>3. ASSUME NEW n \in migrations'
      PROVE  Shaped(n)' /\ n.old \in cells' \cup {Null} /\ n.new \in cells' \cup {Null}
  <2>1. CASE n = next
    <3>1. mg.old \in cells \cup {Null} /\ mg.new \in cells \cup {Null}
      BY DEF MapInv
    <3> QED
      BY <2>1, <3>1 DEF IsBlockOf
  <2>2. CASE n # next
    <3>1. /\ n \in migrations /\ n # mg /\ n.c # mg.c /\ n.c \in Cblocks
          /\ Shaped(n) /\ n.old \in cells \cup {Null} /\ n.new \in cells \cup {Null}
      BY <1>2, <2>2 DEF MapInv
    <3>2. policy'[n.c] = policy[n.c] /\ meta'[n.c] = meta[n.c]
      BY <3>1
    <3>3. \A o \in cells \ cells' : ~IsBlockOf(o, n)
      BY <3>1 DEF MapInv, MappingTypes
    <3> QED
      BY <3>1, <3>2, <3>3 DEF Shaped, IsBlockOf
  <2> QED
    BY <2>1, <2>2
<1>4. \A m, n \in migrations' : m.c = n.c => m = n
  BY <1>1, <1>2 DEF MapInv
<1>5. ASSUME NEW m \in migrations', NEW n \in migrations', NEW o \in Oblocks,
             IsBlockOf(o, m), IsBlockOf(o, n)
      PROVE  m = n
  <2>1. IsBlockOf(o, next) => IsBlockOf(o, mg)
    BY DEF IsBlockOf
  <2> QED
    BY <1>2, <1>5, <2>1 DEF MapInv
<1>6. ASSUME NEW c \in Cblocks
      PROVE  c \in inflight' <=> \E n \in migrations' : n.c = c /\ Moves(n)
  BY <1>1, <1>2 DEF MapInv
<1>7. ASSUME NEW c \in Cblocks, policy'[c] # meta'[c]
      PROVE  \E n \in migrations' : n.c = c /\ n.kind # "writeback"
  <2>1. CASE c = mg.c
    BY <1>1, <1>7, <2>1
  <2>2. CASE c # mg.c
    <3>1. PICK n \in migrations : n.c = c /\ n.kind # "writeback"
      BY <1>7, <2>2 DEF MapInv
    <3> QED
      BY <1>1, <2>2, <3>1
  <2> QED
    BY <2>1, <2>2
<1> QED
  BY <1>3, <1>4, <1>5, <1>6, <1>7 DEF MapInv

\* A migration ends.
LEMMA RemovedMaps ==
  ASSUME TargetTypes, MapInv, NEW mg \in migrations, migrations' = migrations \ {mg},
         cells' \subseteq cells, \A o \in cells \ cells' : IsBlockOf(o, mg),
         policy'[mg.c] = meta'[mg.c], inflight' = inflight \ {mg.c},
         UNCHANGED mode, mode = "passthrough" => dirty_bitset' = {},
         \A c \in Cblocks : c # mg.c => policy'[c] = policy[c] /\ meta'[c] = meta[c]
  PROVE  MapInv'
<1> USE DEF TargetTypes
<1>1. ASSUME NEW n \in migrations'
      PROVE  n \in migrations /\ n # mg /\ n.c # mg.c /\ n.c \in Cblocks
  BY MigrationFacts DEF MapInv
<1>2. ASSUME NEW n \in migrations'
      PROVE  Shaped(n)' /\ n.old \in cells' \cup {Null} /\ n.new \in cells' \cup {Null}
  <2>1. /\ n \in migrations /\ n # mg /\ n.c # mg.c /\ n.c \in Cblocks
        /\ Shaped(n) /\ n.old \in cells \cup {Null} /\ n.new \in cells \cup {Null}
    BY <1>1 DEF MapInv
  <2>2. policy'[n.c] = policy[n.c] /\ meta'[n.c] = meta[n.c]
    BY <2>1
  <2>3. \A o \in cells \ cells' : ~IsBlockOf(o, n)
    BY <2>1 DEF MapInv, MappingTypes
  <2> QED
    BY <2>1, <2>2, <2>3 DEF Shaped, IsBlockOf
<1>3. /\ \A m, n \in migrations' : m.c = n.c => m = n
      /\ \A m, n \in migrations', o \in Oblocks : IsBlockOf(o, m) /\ IsBlockOf(o, n) => m = n
  BY <1>1 DEF MapInv
<1>4. ASSUME NEW c \in Cblocks
      PROVE  c \in inflight' <=> \E n \in migrations' : n.c = c /\ Moves(n)
  <2>1. CASE c = mg.c
    BY <1>1, <2>1
  <2>2. CASE c # mg.c
    BY <2>2 DEF MapInv
  <2> QED
    BY <2>1, <2>2
<1>5. ASSUME NEW c \in Cblocks, policy'[c] # meta'[c]
      PROVE  \E n \in migrations' : n.c = c /\ n.kind # "writeback"
  BY <1>5 DEF MapInv
<1> QED
  BY <1>2, <1>3, <1>4, <1>5 DEF MapInv

LEMMA BioMaps ==
  ASSUME TargetTypes, MapInv, NEW b \in Bios, cache_map(b) \/ EndRead(b) \/ EndFlush(b) \/ EndWrite(b)
  PROVE  MapInv'
<1>1. CASE cache_map(b)
  BY <1>1, MapFrame
  DEF cache_map, mapping, bits, remap_to_origin_clear_discard
<1>2. CASE EndRead(b) \/ EndFlush(b)
  BY <1>2, EndRelabels, MapRelabel DEF EndRead, EndFlush, End, mapping, bits, TargetTypes
<1>3. CASE EndWrite(b)
  <2>1. CASE migrations' = migrations
    BY <1>3, <2>1, MapFrame DEF EndWrite, mapping, bits
  <2>2. CASE migrations' = NotWaitedFor(b)
    BY <1>3, <2>2, EndRelabels, MapRelabel DEF EndWrite, mapping, bits, TargetTypes
  <2> QED
    BY <1>3, <2>1, <2>2 DEF EndWrite, End
<1> QED
  BY <1>1, <1>2, <1>3

LEMMA WritebackMaps ==
  ASSUME TargetTypes, MapInv, NEW c \in Cblocks, writeback_some_dirty_blocks(c)
  PROVE  MapInv'
<1>0. PICK o, mg : o = policy[c] /\ mg = Migration("writeback", o, Null, c, Null)
  OBVIOUS
<1>1. o \in Oblocks /\ o \notin cells
  BY <1>0 DEF writeback_some_dirty_blocks, TargetTypes, MappingTypes, Mappings
<1>2. /\ mg \in MigrationRecords /\ mg.kind = "writeback" /\ mg.old = o /\ mg.new = Null
      /\ mg.c = c /\ mg.holder = Null /\ mg.phase = "quiescing" /\ mg.err = FALSE
      /\ mg.overwrite = FALSE
  BY <1>0, <1>1 DEF Migration, MigrationRecords
<1>3. Start(mg) /\ UNCHANGED <<mode, policy, inflight, meta, dirty_bitset>> /\ c \in dirty_bitset
  BY <1>0 DEF writeback_some_dirty_blocks, mapping, bits
<1>4. policy[c] = o /\ meta[c] = o
  BY <1>0, <1>1, Unheld DEF TargetTypes
<1>5. ASSUME NEW m \in migrations PROVE m.c # c
  <2>1. Shaped(m) /\ m.old # o /\ m.new # o
    BY <1>1, DmTargetAssumption DEF MapInv, TargetTypes, MappingTypes
  <2> QED
    BY <1>1, <1>3, <1>4, <2>1, MigrationFacts, DmTargetAssumption DEF Shaped, TargetTypes, MapInv
<1>6. mode # "passthrough"
  BY <1>3 DEF MapInv
<1>7. Shaped(mg)'
  BY <1>1, <1>2, <1>3, <1>4, <1>6, DmTargetAssumption DEF Shaped, PastCommit
<1>8. Null \notin cells
  BY DmTargetAssumption DEF TargetTypes, MappingTypes
<1> QED
  BY <1>1, <1>2, <1>3, <1>4, <1>5, <1>7, <1>8, StartMaps DEF Moves

LEMMA DeferredBioMaps ==
  ASSUME TargetTypes, MapInv, NEW b \in Bios, process_deferred_bio(b)
  PROVE  MapInv'
<1> USE DEF TargetTypes
<1>1. bios[b] \in BioRecords /\ bios[b].o \in Oblocks
  BY BioFacts DEF process_deferred_bio, BioRecords
<1>2. Null \notin cells
  BY DmTargetAssumption DEF MappingTypes
<1>3. CASE process_flush_bio(b) \/ process_discard_bio(b)
  BY <1>3, MapFrame DEF process_flush_bio, process_discard_bio, mapping, bits
<1>4. CASE process_bio(b) /\ UNCHANGED <<policy, meta, inflight, cells, migrations>>
           /\ (mode = "passthrough" => dirty_bitset' = dirty_bitset)
  BY <1>4, MapFrame DEF process_bio
<1>5. ASSUME process_bio(b), NEW c \in MappedTo(bios[b].o), UNCHANGED <<bits, mapping>>,
             mode = "passthrough", bios[b].o \notin cells,
             Start(Migration("invalidate", bios[b].o, Null, c, b))
      PROVE  MapInv'
  <2>0. PICK o, mg : o = bios[b].o /\ mg = Migration("invalidate", o, Null, c, b)
    OBVIOUS
  <2>1. /\ mg \in MigrationRecords /\ mg.kind = "invalidate" /\ mg.old = o /\ mg.new = Null
        /\ mg.c = c /\ mg.holder = b /\ mg.phase = "quiescing" /\ mg.err = FALSE
        /\ mg.overwrite = FALSE /\ c \in Cblocks
    BY <1>1, <2>0 DEF Migration, MigrationRecords, MappedTo
  <2>2. Start(mg) /\ o \notin cells /\ o \in Oblocks
    BY <1>1, <1>5, <2>0
  <2>3. policy[c] = o /\ meta[c] = o
    BY <2>0, <2>1, <2>2, Unheld DEF MappedTo
  <2>4. ASSUME NEW m \in migrations PROVE m.c # c
    <3>1. Shaped(m) /\ m.old # o /\ m.new # o
      BY <2>2, DmTargetAssumption DEF MapInv
    <3> QED
      BY <1>5, <2>2, <2>3, <3>1, DmTargetAssumption DEF Shaped
  <2>5. UNCHANGED <<mode, policy, inflight, meta, dirty_bitset>>
    BY <1>5 DEF process_bio, bits, mapping
  <2>6. Shaped(mg)'
    BY <1>5, <2>1, <2>2, <2>3, <2>5, DmTargetAssumption DEF Shaped, PastCommit
  <2> QED
    BY <1>2, <2>1, <2>2, <2>3, <2>4, <2>5, <2>6, StartMaps DEF Moves
<1>6. ASSUME process_bio(b), NEW c \in Cblocks \ inflight, NEW kind \in {"promote", "demote"},
             NEW old, old = policy[c], kind = "promote" <=> old = Null, mode # "passthrough",
             bios[b].o \notin cells, old \notin cells, MappedTo(bios[b].o) = {},
             Start(Migration(kind, old, bios[b].o, c, b)),
             policy' = [policy EXCEPT ![c] = bios[b].o],
             inflight' = inflight \cup {c}, UNCHANGED <<meta, bits>>
      PROVE  MapInv'
  <2>0. PICK o, mg : o = bios[b].o /\ mg = Migration(kind, old, o, c, b)
    OBVIOUS
  <2>1. old \in Oblocks \cup {Null} /\ c \in Cblocks
    BY <1>6 DEF MappingTypes, Mappings
  <2>2. /\ mg \in MigrationRecords /\ mg.kind = kind /\ mg.old = old /\ mg.new = o
        /\ mg.c = c /\ mg.holder = b /\ mg.phase = "quiescing" /\ mg.err = FALSE
        /\ mg.overwrite = FALSE
    BY <1>1, <2>0, <2>1 DEF Migration, MigrationRecords
  <2>3. Start(mg) /\ o \notin cells /\ o \in Oblocks
    BY <1>1, <1>6, <2>0
  <2>4. ASSUME NEW m \in migrations PROVE m.c # c
    <3>1. Shaped(m) /\ m.old \in cells \cup {Null} /\ m.new \in cells \cup {Null}
          /\ (~Moves(m) \/ m.c # c)
      BY <1>6 DEF MapInv
    <3>2. m.kind = "writeback" \/ m.c # c
      BY <1>6, <3>1, MigrationFacts DEF Shaped, Moves
    <3> QED
      BY <1>2, <1>6, <3>1, <3>2 DEF Shaped
  <2>5. meta[c] = old
    <3>1. CASE meta[c] # policy[c]
      BY <2>1, <2>4, <3>1 DEF MapInv
    <3> QED
      BY <3>1, <1>6
  <2>6. policy'[c] = o /\ \A d \in Cblocks : d # c => policy'[d] = policy[d]
    BY <1>6, <2>0, <2>1 DEF MappingTypes, Mappings
  <2>7. UNCHANGED <<mode, meta, dirty_bitset>>
    BY <1>6 DEF process_bio, bits
  <2>8. Shaped(mg)'
    <3>1. old # o
      BY <1>6, <2>0, <2>1 DEF MappedTo
    <3> QED
      BY <3>1, <1>6, <2>2, <2>3, <2>5, <2>6, <2>7, DmTargetAssumption DEF Shaped, PastCommit
  <2> QED
    BY <1>6, <2>1, <2>2, <2>3, <2>4, <2>6, <2>7, <2>8, StartMaps DEF Moves
<1>7. CASE process_bio(b) /\ process_bio_unmoved(b)
  <2>1. CASE \E c \in MappedTo(bios[b].o) : /\ UNCHANGED bits
             /\ mode = "passthrough" /\ bios[b].o \notin cells
             /\ Start(Migration("invalidate", bios[b].o, Null, c, b))
    BY <1>5, <1>7, <2>1 DEF process_bio_unmoved
  <2>2. CASE UNCHANGED <<cells, migrations>>
    BY <1>4, <1>7, <2>2 DEF process_bio_unmoved, mapping, bits, remap_to_origin_clear_discard
  <2> QED
    BY <1>7, <2>1, <2>2 DEF process_bio_unmoved
<1>8. CASE process_bio(b) /\ process_bio_moves(b)
  <2>1. PICK c \in Cblocks \ inflight :
           \/ /\ policy[c] = Null
              /\ Start(Migration("promote", Null, bios[b].o, c, b))
              /\ policy' = [policy EXCEPT ![c] = bios[b].o]
              /\ inflight' = inflight \cup {c}
           \/ /\ policy[c] # Null
              /\ policy[c] \notin cells
              /\ Start(Migration("demote", policy[c], bios[b].o, c, b))
              /\ policy' = [policy EXCEPT ![c] = bios[b].o]
              /\ inflight' = inflight \cup {c}
           \/ UNCHANGED <<policy, inflight, cells, migrations>>
    BY <1>8 DEF process_bio_moves
  <2>2. /\ bios[b].o \notin cells /\ MappedTo(bios[b].o) = {} /\ mode # "passthrough"
        /\ UNCHANGED <<meta, bits>>
    BY <1>8 DEF process_bio_moves
  <2> QED
    BY <1>2, <1>4, <1>6, <1>8, <2>1, <2>2
<1> QED
  BY <1>3, <1>7, <1>8 DEF process_deferred_bio, process_bio

LEMMA InvalidationMaps ==
  ASSUME TargetTypes, MapInv, NEW c \in Cblocks, process_invalidation_request(c)
  PROVE  MapInv'
<1>1. /\ mode = "passthrough"
      /\ policy' = [policy EXCEPT ![c] = Null] /\ meta' = [meta EXCEPT ![c] = Null]
      /\ inflight' = inflight \ {c}
      /\ UNCHANGED <<mode, cells, migrations, dirty_bitset>>
  BY DEF process_invalidation_request, bits, flow
<1>2. policy'[c] = Null /\ meta'[c] = Null
      /\ \A d \in Cblocks : d # c => policy'[d] = policy[d] /\ meta'[d] = meta[d]
  BY <1>1 DEF TargetTypes, MappingTypes, Mappings
<1>3. ASSUME NEW m \in migrations PROVE Shaped(m)' /\ ~Moves(m)
  <2>1. Shaped(m) /\ m.kind = "invalidate" /\ m.c \in Cblocks
    BY <1>1, MigrationFacts DEF MapInv, Shaped, TargetTypes
  <2> QED
    BY <1>1, <1>2, <2>1 DEF Shaped, Moves
<1> QED
  BY <1>1, <1>2, <1>3 DEF MapInv

LEMMA PreCommitMaps ==
  ASSUME TargetTypes, MapInv, NEW mg \in migrations, migration_success_pre_commit(mg),
         UNCHANGED mode,
         mg.phase = "quiescing" \/ (mg.phase = "completed" /\ ~mg.err)
  PROVE  MapInv'
<1> USE DEF TargetTypes
<1>1. /\ mg \in MigrationRecords /\ mg.c \in Cblocks
      /\ mg.new \in Oblocks \cup {Null} /\ mg.old \in Oblocks \cup {Null}
      /\ Shaped(mg) /\ ~PastCommit(mg) /\ ~mg.err
  BY MigrationFacts DEF MapInv, Shaped, PastCommit
<1>2. Null \notin cells
  BY DmTargetAssumption DEF MappingTypes
<1>3. CASE /\ mg.kind = "writeback"
           /\ dirty_bitset' = dirty_bitset \ {mg.c}
           /\ cell_defer({mg.old}, Null)
           /\ migrations' = migrations \ {mg}
           /\ UNCHANGED <<mapping, discard_bitset, commit_requested>>
  <2>1. cells' = cells \ {mg.old} /\ UNCHANGED <<policy, meta, inflight>>
    BY <1>3 DEF cell_defer, mapping
  <2>2. mg.c \notin inflight
    BY <1>1, <1>3 DEF MapInv, Moves
  <2>3. policy[mg.c] = meta[mg.c] /\ IsBlockOf(mg.old, mg)
    BY <1>1, <1>3 DEF Shaped, IsBlockOf
  <2> QED
    BY <1>1, <1>3, <2>1, <2>2, <2>3, RemovedMaps DEF MapInv
<1>4. CASE /\ mg.kind # "writeback"
           /\ meta' = [meta EXCEPT ![mg.c] = IF mg.kind = "promote" THEN mg.new ELSE Null]
           /\ Becomes(mg, [mg EXCEPT !.phase = "need_commit"])
           /\ UNCHANGED <<policy, inflight, disk, bits, cells, bios>>
  <2>1. PICK next : next = [mg EXCEPT !.phase = "need_commit"]
    OBVIOUS
  <2>2. /\ next \in MigrationRecords /\ next.kind = mg.kind /\ next.old = mg.old
        /\ next.new = mg.new /\ next.c = mg.c /\ next.holder = mg.holder
        /\ next.phase = "need_commit" /\ next.err = mg.err /\ next.overwrite = mg.overwrite
    BY <1>1, <2>1 DEF MigrationRecords
  <2>3. /\ meta'[mg.c] = IF mg.kind = "promote" THEN mg.new ELSE Null
        /\ \A c \in Cblocks : c # mg.c => meta'[c] = meta[c]
        /\ policy' = policy /\ Becomes(mg, next) /\ cells' = cells
        /\ UNCHANGED <<inflight, dirty_bitset>>
    BY <1>1, <1>4, <2>1 DEF MappingTypes, Mappings, bits
  <2>4. Shaped(next)'
    BY <1>1, <1>4, <2>2, <2>3 DEF Shaped, PastCommit
  <2> QED
    BY <1>1, <1>4, <2>2, <2>3, <2>4, BecomesMaps DEF Moves, MapInv
<1>5. CASE /\ mg.kind # "writeback"
           /\ IF mg.kind = "demote" THEN cell_defer({mg.new}, mg.holder)
                                    ELSE UNCHANGED <<cells, bios>>
           /\ policy' = IF mg.kind = "invalidate" THEN policy ELSE [policy EXCEPT ![mg.c] = mg.old]
           /\ inflight' = inflight \ {mg.c}
           /\ migrations' = migrations \ {mg}
           /\ UNCHANGED <<meta, disk, bits, commit_requested>>
  <2>1. cells' \subseteq cells /\ \A o \in cells \ cells' : IsBlockOf(o, mg)
    BY <1>1, <1>2, <1>5 DEF cell_defer, IsBlockOf
  <2>2. policy'[mg.c] = meta'[mg.c]
    <3>1. CASE mg.kind = "invalidate"
      BY <1>1, <1>5, <3>1 DEF Shaped
    <3>2. CASE mg.kind # "invalidate"
      <4>1. policy'[mg.c] = mg.old /\ meta' = meta
        BY <1>1, <1>5, <3>2 DEF MappingTypes, Mappings
      <4>2. mg.kind \in {"promote", "demote"}
        BY <1>1, <1>5, <3>2 DEF MigrationRecords
      <4> QED
        BY <1>1, <4>1, <4>2 DEF Shaped
    <3> QED
      BY <3>1, <3>2
  <2>3. \A c \in Cblocks : c # mg.c => policy'[c] = policy[c]
    BY <1>1, <1>5 DEF MappingTypes, Mappings
  <2>4. dirty_bitset' = dirty_bitset /\ meta' = meta
    BY <1>5 DEF bits
  <2> QED
    BY <1>1, <1>5, <2>1, <2>2, <2>3, <2>4, RemovedMaps DEF MapInv
<1> QED
  BY <1>3, <1>4, <1>5 DEF migration_success_pre_commit

LEMMA IssueMaps ==
  ASSUME TargetTypes, MapInv, NEW mg \in migrations, issue_copy(mg)
  PROVE  MapInv'
<1> USE DEF TargetTypes
<1>1. /\ mg \in MigrationRecords /\ mg.c \in Cblocks /\ Shaped(mg) /\ mg.phase = "quiescing"
      /\ mode' = mode
  BY MigrationFacts DEF MapInv, issue_copy, quiesced
<1>2. CASE migration_success_pre_commit(mg)
  BY <1>1, <1>2, PreCommitMaps
<1>3. CASE overwrites(mg) /\ Becomes(mg, [mg EXCEPT !.phase = "copying", !.overwrite = TRUE])
           /\ UNCHANGED <<mapping, cells, bios, commit_requested>>
  <2>1. PICK next : next = [mg EXCEPT !.phase = "copying", !.overwrite = TRUE]
    OBVIOUS
  <2>2. /\ next \in MigrationRecords /\ next.kind = mg.kind /\ next.old = mg.old
        /\ next.new = mg.new /\ next.c = mg.c /\ next.holder = mg.holder
        /\ next.phase = "copying" /\ next.err = mg.err
    BY <1>1, <2>1 DEF MigrationRecords
  <2>3. UNCHANGED <<policy, meta, inflight, cells, mode>> /\ Becomes(mg, next) /\ cells' = cells
    BY <1>1, <1>3, <2>1 DEF mapping
  <2>4. mg.kind = "promote" /\ mode # "passthrough"
    BY <1>1, <1>3 DEF overwrites, Shaped
  <2>5. Shaped(next)'
    BY <1>1, <2>2, <2>3, <2>4 DEF Shaped, PastCommit
  <2> QED
    BY <1>1, <2>2, <2>3, <2>4, <2>5, BecomesMaps DEF Moves
<1>4. CASE ~avoids_copy(mg) /\ Becomes(mg, [mg EXCEPT !.phase = "copying"])
           /\ UNCHANGED <<mapping, bits, cells, bios, commit_requested>>
  <2>1. PICK next : next = [mg EXCEPT !.phase = "copying"]
    OBVIOUS
  <2>2. /\ next \in MigrationRecords /\ next.kind = mg.kind /\ next.old = mg.old
        /\ next.new = mg.new /\ next.c = mg.c /\ next.holder = mg.holder
        /\ next.phase = "copying" /\ next.err = mg.err /\ next.overwrite = mg.overwrite
    BY <1>1, <2>1 DEF MigrationRecords
  <2>3. /\ UNCHANGED <<policy, meta, inflight, cells, mode, dirty_bitset>> /\ Becomes(mg, next)
        /\ cells' = cells
    BY <1>1, <1>4, <2>1 DEF mapping, bits
  <2>4. mg.kind # "invalidate"
    BY <1>1, <1>4 DEF Shaped, MapInv, avoids_copy
  <2>5. Shaped(next)'
    BY <1>1, <2>2, <2>3, <2>4 DEF Shaped, PastCommit
  <2>6. mg.kind = "writeback" => policy'[mg.c] = meta'[mg.c]
    BY <1>1, <2>3 DEF Shaped
  <2> QED
    BY <1>1, <2>2, <2>3, <2>4, <2>5, <2>6, BecomesMaps DEF Moves, MapInv
<1> QED
  BY <1>2, <1>3, <1>4 DEF issue_copy

LEMMA CopyMaps ==
  ASSUME TargetTypes, MapInv, NEW mg \in migrations, NEW err \in BOOLEAN, copy_complete(mg, err)
  PROVE  MapInv'
<1> USE DEF TargetTypes
<1>1. /\ mg \in MigrationRecords /\ mg.c \in Cblocks /\ Shaped(mg) /\ mg.phase = "copying"
      /\ mode' = mode
  BY MigrationFacts DEF MapInv, copy_complete
<1>2. PICK next : next = [mg EXCEPT !.phase = "completed", !.err = err]
  OBVIOUS
<1>3. /\ next \in MigrationRecords /\ next.kind = mg.kind /\ next.old = mg.old
      /\ next.new = mg.new /\ next.c = mg.c /\ next.holder = mg.holder
      /\ next.phase = "completed" /\ next.overwrite = mg.overwrite
  BY <1>1, <1>2 DEF MigrationRecords
<1>4. /\ UNCHANGED <<policy, meta, inflight, cells, mode, dirty_bitset>> /\ Becomes(mg, next)
      /\ cells' = cells
  BY <1>1, <1>2 DEF copy_complete, mapping, bits
<1>5. Shaped(next)'
  BY <1>1, <1>3, <1>4 DEF Shaped, PastCommit
<1>6. mg.kind = "writeback" => policy'[mg.c] = meta'[mg.c]
  BY <1>1, <1>4 DEF Shaped
<1> QED
  BY <1>1, <1>3, <1>4, <1>5, <1>6, BecomesMaps DEF Moves, MapInv

LEMMA FailureMaps ==
  ASSUME TargetTypes, MapInv, NEW mg \in migrations, migration_failure(mg), UNCHANGED mode,
         mg.phase = "completed"
  PROVE  MapInv'
<1> USE DEF TargetTypes
<1>1. /\ mg \in MigrationRecords /\ mg.c \in Cblocks
      /\ mg.new \in Oblocks \cup {Null} /\ mg.old \in Oblocks \cup {Null}
      /\ Shaped(mg) /\ ~PastCommit(mg)
      /\ mg.kind \in {"writeback", "demote", "promote"} /\ mode # "passthrough"
  BY MigrationFacts DEF MapInv, Shaped, PastCommit
<1>2. Null \notin cells
  BY DmTargetAssumption DEF MappingTypes
<1>3. migrations' = migrations \ {mg} /\ meta' = meta
  BY DEF migration_failure
<1>4. CASE mg.kind = "writeback"
  <2>1. cells' = cells \ {mg.old} /\ UNCHANGED <<policy, inflight>>
    BY <1>4 DEF migration_failure, cell_defer
  <2>2. mg.c \notin inflight /\ policy[mg.c] = meta[mg.c]
    BY <1>1, <1>4 DEF MapInv, Moves, Shaped
  <2>3. cells' \subseteq cells /\ \A o \in cells \ cells' : IsBlockOf(o, mg)
    BY <1>2, <2>1 DEF IsBlockOf
  <2> QED
    BY <1>1, <1>3, <2>1, <2>2, <2>3, RemovedMaps
<1>5. CASE mg.kind = "demote"
  <2>1. /\ cells' = cells \ {mg.old, mg.new} /\ inflight' = inflight \ {mg.c}
        /\ policy' = [policy EXCEPT ![mg.c] = mg.old]
    BY <1>5 DEF migration_failure, cell_defer
  <2>2. policy'[mg.c] = meta'[mg.c] /\ \A c \in Cblocks : c # mg.c => policy'[c] = policy[c]
    BY <1>1, <1>3, <1>5, <2>1 DEF Shaped, MappingTypes, Mappings
  <2>3. cells' \subseteq cells /\ \A o \in cells \ cells' : IsBlockOf(o, mg)
    BY <1>2, <2>1 DEF IsBlockOf
  <2> QED
    BY <1>1, <1>3, <2>1, <2>2, <2>3, RemovedMaps
<1>6. CASE mg.kind = "promote"
  <2>1. /\ cells' = cells \ {mg.new} /\ inflight' = inflight \ {mg.c}
        /\ policy' = [policy EXCEPT ![mg.c] = Null]
    BY <1>6 DEF migration_failure, cell_defer
  <2>2. policy'[mg.c] = meta'[mg.c] /\ \A c \in Cblocks : c # mg.c => policy'[c] = policy[c]
    BY <1>1, <1>3, <1>6, <2>1 DEF Shaped, MappingTypes, Mappings
  <2>3. cells' \subseteq cells /\ \A o \in cells \ cells' : IsBlockOf(o, mg)
    BY <1>2, <2>1 DEF IsBlockOf
  <2> QED
    BY <1>1, <1>3, <2>1, <2>2, <2>3, RemovedMaps
<1> QED
  BY <1>1, <1>4, <1>5, <1>6

LEMMA PostCommitMaps ==
  ASSUME TargetTypes, MapInv, NEW mg \in migrations, migration_success_post_commit(mg)
  PROVE  MapInv'
<1> USE DEF TargetTypes
<1>1. /\ mg \in MigrationRecords /\ mg.c \in Cblocks
      /\ mg.new \in Oblocks \cup {Null} /\ mg.old \in Oblocks \cup {Null}
      /\ Shaped(mg) /\ PastCommit(mg) /\ mg.phase = "committed"
      /\ UNCHANGED <<mode, meta>>
  BY MigrationFacts DEF MapInv, PastCommit, migration_success_post_commit
<1>2. Null \notin cells
  BY DmTargetAssumption DEF MappingTypes
<1>3. CASE /\ mg.kind = "demote"
           /\ cell_defer({mg.old}, Null)
           /\ Becomes(mg, [mg EXCEPT !.kind = "promote", !.old = Null, !.phase = "quiescing",
                                     !.waits = {}])
           /\ UNCHANGED <<policy, inflight, dirty_bitset, acked>>
  <2>1. PICK next : next = [mg EXCEPT !.kind = "promote", !.old = Null, !.phase = "quiescing",
                                      !.waits = {}]
    OBVIOUS
  <2>2. /\ next \in MigrationRecords /\ next.kind = "promote" /\ next.old = Null
        /\ next.new = mg.new /\ next.c = mg.c /\ next.holder = mg.holder
        /\ next.phase = "quiescing" /\ next.err = mg.err /\ next.overwrite = mg.overwrite
    BY <1>1, <2>1 DEF MigrationRecords
  <2>3. Becomes(mg, next) /\ cells' = cells \ {mg.old}
    BY <1>3, <2>1 DEF cell_defer
  <2>4. Shaped(next)'
    BY <1>1, <1>3, <2>2 DEF Shaped, PastCommit
  <2>5. mg.old # mg.new
    BY <1>1, <1>3 DEF Shaped
  <2>6. cells' \subseteq cells /\ \A o \in cells \ cells' : IsBlockOf(o, mg) /\ ~IsBlockOf(o, next)
    BY <1>2, <2>2, <2>3, <2>5 DEF IsBlockOf
  <2> QED
    BY <1>1, <1>3, <2>2, <2>3, <2>4, <2>6, BecomesMaps DEF Moves, MapInv
<1>4. CASE /\ mg.kind = "invalidate"
           /\ cell_defer({mg.old}, mg.holder)
           /\ policy' = [policy EXCEPT ![mg.c] = Null]
           /\ migrations' = migrations \ {mg}
           /\ UNCHANGED <<inflight, dirty_bitset, acked>>
  <2>1. mg.c \notin inflight
    BY <1>1, <1>4 DEF MapInv, Moves
  <2>2. policy'[mg.c] = meta'[mg.c] /\ \A c \in Cblocks : c # mg.c => policy'[c] = policy[c]
    BY <1>1, <1>4 DEF Shaped, MappingTypes, Mappings
  <2>3. cells' \subseteq cells /\ \A o \in cells \ cells' : IsBlockOf(o, mg)
    BY <1>2, <1>4 DEF IsBlockOf, cell_defer
  <2> QED
    BY <1>1, <1>4, <2>1, <2>2, <2>3, RemovedMaps DEF MapInv
<1>5. CASE /\ mg.kind = "promote"
           /\ cells' = cells \ {mg.new}
           /\ inflight' = inflight \ {mg.c}
           /\ migrations' = migrations \ {mg}
           /\ UNCHANGED policy
  <2>1. policy'[mg.c] = meta'[mg.c] /\ mode # "passthrough"
    BY <1>1, <1>5 DEF Shaped
  <2>2. cells' \subseteq cells /\ \A o \in cells \ cells' : IsBlockOf(o, mg)
    BY <1>2, <1>5 DEF IsBlockOf
  <2> QED
    BY <1>1, <1>5, <2>1, <2>2, RemovedMaps
<1> QED
  BY <1>3, <1>4, <1>5 DEF migration_success_post_commit, cell_defer

LEMMA RestartMaps ==
  ASSUME NEW m, NEW dirty, NEW discards, Restart(m, dirty, discards)
  PROVE  MapInv'
BY DEF Restart, MapInv, Shaped

LEMMA OtherMaps ==
  ASSUME TargetTypes, MapInv,
         \/ \E b \in Bios, op \in Ops, o \in Oblocks, full \in BOOLEAN : Submit(b, op, o, full)
         \/ \E b \in Bios : process_deferred_writethrough_bio(b)
         \/ NextStage
         \/ start_quiescing
         \/ UNCHANGED tgtVars
  PROVE  MapInv'
BY MapFrame
DEF Submit, process_deferred_writethrough_bio, NextStage, start_quiescing, mapping, bits, flow, tgtVars

LEMMA MapNext ==
  ASSUME TargetTypes, MapInv, [TargetNext]_tgtVars
  PROVE  MapInv'
<1>1. ASSUME NEW mg \in migrations, complete_migration(mg)
      PROVE  MapInv'
  BY <1>1, FailureMaps, PreCommitMaps DEF complete_migration
<1>2. CASE commit_if_needed
  BY <1>2, CommitRelabels, MapRelabel DEF TargetTypes, commit_if_needed, bits
<1>3. CASE do_worker
  BY <1>1, <1>2, <1>3, WritebackMaps, InvalidationMaps, DeferredBioMaps, IssueMaps, PostCommitMaps,
     OtherMaps DEF do_worker
<1>4. CASE \E ok \in BOOLEAN : Reload(ok)
  BY <1>4, RestartMaps DEF Reload
<1>5. CASE Crash
  BY <1>5, RestartMaps DEF Crash
<1> QED
  BY <1>3, <1>4, <1>5, BioMaps, CopyMaps, OtherMaps DEF TargetNext, BioStep

-----------------------------------------------------------------------------
(***************************************************************************)
(* Who waits, and for what.                                                *)
(***************************************************************************)
\* A device has the bio, or is about to have it.
Sending(x) == x.at \in {"io", "writethrough", "flush"}

WaitInv ==
  /\ "metadata" \notin faults =>
       /\ \A o \in cells : \E mg \in migrations : IsBlockOf(o, mg)
       /\ \A b \in Bios : bios[b].at = "held" => \E mg \in migrations : mg.holder = b
  /\ \A b \in Bios : bios[b].at = "waiting" => bios[b].on \in cells
  /\ \A m, n \in migrations : m.holder = n.holder /\ m.holder # Null => m = n
  /\ \A mg \in migrations, b \in Bios :
       /\ b \in mg.waits => Sending(bios[b])
       /\ b = mg.holder => bios[b].at = "held"
  /\ \A mg \in migrations : mg.phase # "quiescing" => mg.waits = {}
  /\ quiescing # "no" => \A b \in Bios : bios[b] = Idle
  /\ quiescing = "acked" => stage # "bios"

LEMMA WaitInit == TargetInit => WaitInv
BY DEF TargetInit, WaitInv, Idle

\* One bio goes on, and it is not held by a migration.
LEMMA OneBioWaits ==
  ASSUME TargetTypes, WaitInv, NEW b \in Bios,
         UNCHANGED <<cells, migrations, faults, quiescing, stage>>, quiescing = "no",
         bios[b].at # "held", bios'[b].at # "held",
         bios'[b].at = "waiting" => bios'[b].on \in cells,
         Sending(bios[b]) => Sending(bios'[b]),
         \A x \in Bios : x # b => bios'[x].at = bios[x].at /\ bios'[x].on = bios[x].on
  PROVE  WaitInv'
<1>1. ASSUME NEW x \in Bios, bios'[x].at = "waiting" PROVE bios'[x].on \in cells'
  BY <1>1 DEF WaitInv
<1>2. ASSUME NEW mg \in migrations', NEW x \in Bios
      PROVE  /\ x \in mg.waits => Sending(bios'[x])
             /\ x = mg.holder => bios'[x].at = "held"
  BY DEF WaitInv, Sending
<1>3. ASSUME NEW x \in Bios, bios'[x].at = "held", "metadata" \notin faults
      PROVE  \E mg \in migrations' : mg.holder = x
  BY <1>3 DEF WaitInv
<1> QED
  BY <1>1, <1>2, <1>3 DEF WaitInv

\* A bio ends, and nobody waits for it any longer.
LEMMA EndWaits ==
  ASSUME TargetTypes, MapInv, WaitInv, NEW b \in Bios, End(b),
         UNCHANGED <<cells, faults, quiescing, stage>>, Sending(bios[b])
  PROVE  WaitInv'
<1> USE DEF TargetTypes
<1>1. bios' = [bios EXCEPT ![b] = Idle] /\ bios'[b] = Idle /\ Idle.at = "idle"
      /\ \A x \in Bios : x # b => bios'[x] = bios[x]
  BY DEF End, BioTypes, Idle
<1>2. \A n \in migrations' : \E m \in migrations : SameMove(m, n) /\ n.waits = m.waits \ {b}
  <2>1. ASSUME NEW m \in migrations, NEW n, n = [m EXCEPT !.waits = @ \ {b}]
        PROVE  SameMove(m, n) /\ n.waits = m.waits \ {b}
    BY <2>1, FewerWaitsMove, MigrationFacts DEF MigrationRecords
  <2> QED
    BY <2>1 DEF End, NotWaitedFor
<1>3. Relabelled
  BY EndRelabels DEF End
<1>4. \A mg \in migrations : mg.holder # b
  BY DEF WaitInv, Sending
<1>5. ASSUME NEW n \in migrations', NEW x \in Bios
      PROVE  /\ x \in n.waits => Sending(bios'[x])
             /\ x = n.holder => bios'[x].at = "held"
             /\ n.phase # "quiescing" => n.waits = {}
  <2>1. PICK m \in migrations : SameMove(m, n) /\ n.waits = m.waits \ {b}
    BY <1>2
  <2> QED
    BY <1>1, <1>4, <2>1 DEF WaitInv, SameMove
<1>6. ASSUME NEW m \in migrations', NEW n \in migrations', m.holder = n.holder, m.holder # Null
      PROVE  m = n
  <2>1. PICK x \in migrations : SameMove(x, m)
    BY <1>2
  <2>2. PICK y \in migrations : SameMove(y, n)
    BY <1>2
  <2>3. x = y
    <3>1. x.holder = y.holder /\ x.holder # Null
      BY <1>6, <2>1, <2>2 DEF SameMove
    <3> QED
      BY <3>1 DEF WaitInv
  <2>4. m.c = n.c
    BY <2>1, <2>2, <2>3 DEF SameMove
  <2> QED
    BY <1>3, <2>4 DEF Relabelled
<1>7. "metadata" \notin faults' =>
       /\ \A o \in cells' : \E mg \in migrations' : IsBlockOf(o, mg)
       /\ \A x \in Bios : bios'[x].at = "held" => \E mg \in migrations' : mg.holder = x
  BY <1>1, <1>3 DEF WaitInv, Relabelled, SameMove, IsBlockOf
<1>8. \A x \in Bios : bios'[x].at = "waiting" => bios'[x].on \in cells'
  BY <1>1 DEF WaitInv
<1>9. quiescing = "no"
  BY DEF WaitInv, Sending, Idle
<1> QED
  BY <1>5, <1>6, <1>7, <1>8, <1>9 DEF WaitInv

\* A migration begins; its holder was deferred.
LEMMA StartWaits ==
  ASSUME TargetTypes, WaitInv, NEW mg \in MigrationRecords, Start(mg),
         mg.waits = {x \in Bios : \/ bios[x].at \in {"io", "writethrough"}
                                  \/ bios[x].at = "flush" /\ bios[x].op = "fua"},
         mg.holder \in Bios => bios[mg.holder].at = "deferred",
         mg.phase = "quiescing", stage = "bios", UNCHANGED <<faults, quiescing, stage>>
  PROVE  WaitInv'
<1> USE DEF TargetTypes
<1>1. /\ migrations' = migrations \cup {mg}
      /\ cells' = cells \cup ({mg.old, mg.new} \ {Null})
      /\ \A x \in Bios : x # mg.holder => bios'[x] = bios[x]
  BY DEF Start
<1>2. mg.holder \in Bios => bios'[mg.holder].at = "held"
  <2>1. ASSUME mg.holder \in Bios PROVE bios'[mg.holder].at = "held"
    <3>1. bios[mg.holder] \in BioRecords
      BY <2>1, BioFacts
    <3> QED
      BY <2>1, <3>1 DEF Start, BioRecords
  <2> QED
    BY <2>1
<1>3. mg.holder \in Bios \cup {Null} /\ Null \notin Bios
  BY DmTargetAssumption DEF MigrationRecords
<1>4. \A m \in migrations : m.holder \in Bios => m.holder # mg.holder
  BY DEF WaitInv
<1>5. ASSUME NEW m \in migrations', NEW x \in Bios
      PROVE  /\ x \in m.waits => Sending(bios'[x])
             /\ x = m.holder => bios'[x].at = "held"
  BY <1>1, <1>2, <1>4 DEF WaitInv, Sending
<1>6. \A m, n \in migrations' : m.holder = n.holder /\ m.holder # Null => m = n
  <2>1. \A m \in migrations : m.holder \in Bios \cup {Null}
    BY MigrationFacts
  <2> QED
    BY <1>1, <1>3, <1>4, <2>1 DEF WaitInv
<1>7. "metadata" \notin faults' =>
       /\ \A o \in cells' : \E m \in migrations' : IsBlockOf(o, m)
       /\ \A x \in Bios : bios'[x].at = "held" => \E m \in migrations' : m.holder = x
  BY <1>1 DEF WaitInv, IsBlockOf
<1>8. \A x \in Bios : bios'[x].at = "waiting" => bios'[x].on \in cells'
  BY <1>1, <1>2 DEF WaitInv
<1>9. quiescing # "no" => mg.holder \notin Bios
  BY DEF WaitInv, Idle
<1>10. quiescing' # "no" => \A x \in Bios : bios'[x] = Idle
  BY <1>1, <1>3, <1>9 DEF WaitInv
<1> QED
  BY <1>1, <1>5, <1>6, <1>7, <1>8, <1>10 DEF WaitInv

\* A migration ends: its holder goes on, and those that waited for its blocks.
LEMMA RemovedWaits ==
  ASSUME TargetTypes, MapInv, WaitInv, NEW mg \in migrations, migrations' = migrations \ {mg},
         cells' \subseteq cells,
         "metadata" \notin faults => \A o \in Oblocks : IsBlockOf(o, mg) => o \notin cells',
         \A b \in Bios : bios[b].at = "waiting" /\ bios[b].on \notin cells' =>
                           bios'[b].at = "deferred",
         \A b \in Bios : \/ bios'[b] = bios[b]
                         \/ /\ bios[b].at = "waiting" \/ b = mg.holder
                            /\ bios'[b].at \in {"deferred", "idle"},
         "metadata" \notin faults /\ mg.holder \in Bios => bios'[mg.holder].at # "held",
         UNCHANGED <<faults, quiescing, stage>>
  PROVE  WaitInv'
<1> USE DEF TargetTypes
<1>1. ASSUME NEW m \in migrations, m # mg, NEW b \in Bios
      PROVE  /\ b \in m.waits => Sending(bios'[b])
             /\ b = m.holder => bios'[b].at = "held"
  <2>1. b = m.holder => b # mg.holder
    BY <1>1, DmTargetAssumption DEF WaitInv
  <2>2. b \in m.waits => bios'[b] = bios[b]
    BY <1>1 DEF WaitInv, Sending
  <2> QED
    BY <1>1, <2>1, <2>2 DEF WaitInv
<1>2. ASSUME "metadata" \notin faults
      PROVE  /\ \A o \in cells' : \E m \in migrations' : IsBlockOf(o, m)
             /\ \A b \in Bios : bios'[b].at = "held" => \E m \in migrations' : m.holder = b
  <2>1. \A o \in cells' : o \in Oblocks
    BY DEF MappingTypes
  <2> QED
    BY <1>2, <2>1 DEF WaitInv
<1>3. \A b \in Bios : bios'[b].at = "waiting" => bios'[b].on \in cells'
  BY DEF WaitInv
<1>4. quiescing' # "no" => \A b \in Bios : bios'[b] = Idle
  <2>1. ASSUME quiescing # "no", NEW b \in Bios PROVE bios'[b] = Idle
    <3>1. bios[b] = Idle /\ Idle.at = "idle"
      BY <2>1 DEF WaitInv, Idle
    <3> QED
      BY <3>1 DEF WaitInv
  <2> QED
    BY <2>1
<1> QED
  BY <1>1, <1>2, <1>3, <1>4 DEF WaitInv

\* A migration goes on, and may let go of a block.
LEMMA BecomesWaits ==
  ASSUME TargetTypes, MapInv, WaitInv, NEW mg \in migrations, NEW next \in MigrationRecords,
         Becomes(mg, next), next.holder = mg.holder, next.waits = {},
         cells' \subseteq cells,
         \A o \in cells' : IsBlockOf(o, mg) => IsBlockOf(o, next),
         \A b \in Bios : bios[b].at = "waiting" /\ bios[b].on \notin cells' =>
                           bios'[b].at = "deferred",
         \A b \in Bios : bios'[b] = bios[b] \/ (bios[b].at = "waiting" /\ bios'[b].at = "deferred"),
         UNCHANGED <<faults, quiescing, stage>>
  PROVE  WaitInv'
<1> USE DEF TargetTypes
<1>1. migrations' = (migrations \ {mg}) \cup {next}
  BY DEF Becomes
<1>2. ASSUME NEW m \in migrations', NEW b \in Bios
      PROVE  /\ b \in m.waits => Sending(bios'[b])
             /\ b = m.holder => bios'[b].at = "held"
  BY <1>1 DEF WaitInv, Sending
<1>3. ASSUME "metadata" \notin faults
      PROVE  /\ \A o \in cells' : \E m \in migrations' : IsBlockOf(o, m)
             /\ \A b \in Bios : bios'[b].at = "held" => \E m \in migrations' : m.holder = b
  BY <1>1, <1>3 DEF WaitInv
<1>4. \A b \in Bios : bios'[b].at = "waiting" => bios'[b].on \in cells'
  BY DEF WaitInv
<1>5. quiescing' # "no" => \A b \in Bios : bios'[b] = Idle
  <2>1. ASSUME quiescing # "no", NEW b \in Bios PROVE bios'[b] = Idle
    <3>1. bios[b] = Idle /\ Idle.at = "idle"
      BY <2>1 DEF WaitInv, Idle
    <3> QED
      BY <3>1 DEF WaitInv
  <2> QED
    BY <2>1
<1>6. \A m, n \in migrations' : m.holder = n.holder /\ m.holder # Null => m = n
  BY <1>1 DEF WaitInv
<1> QED
  BY <1>1, <1>2, <1>3, <1>4, <1>5, <1>6 DEF WaitInv

\* cell_defer: those who wait for the blocks are deferred, and the holder.
LEMMA DeferFacts ==
  ASSUME TargetTypes, WaitInv, NEW os, NEW holder, cell_defer(os, holder),
         holder \in Bios => bios[holder].at # "idle"
  PROVE  /\ cells' = cells \ os
         /\ \A b \in Bios : bios[b].at = "waiting" /\ bios[b].on \notin cells' =>
                              bios'[b].at = "deferred"
         /\ \A b \in Bios : \/ bios'[b] = bios[b] /\ b # holder
                            \/ /\ bios[b].at = "waiting" \/ b = holder
                               /\ bios'[b] = Deferred(b) /\ bios'[b].at = "deferred"
<1>1. ASSUME NEW b \in Bios, bios[b].at = "waiting" \/ b = holder
      PROVE  Deferred(b).at = "deferred"
  BY <1>1, DeferredFacts DEF TargetTypes
<1> QED
  BY <1>1 DEF cell_defer, Released, WaitInv

\* The holder of a migration is somewhere.
LEMMA HolderFacts ==
  ASSUME TargetTypes, WaitInv, NEW mg \in migrations
  PROVE  /\ mg.holder \in Bios => bios[mg.holder].at = "held"
         /\ mg.holder # Null => mg.holder \in Bios
         /\ Null \notin Bios /\ Null \notin cells
BY MigrationFacts, DmTargetAssumption DEF WaitInv, TargetTypes, MappingTypes

\* A bio that is sent to a device.
LEMMA RemapFacts ==
  ASSUME TargetTypes, NEW b \in Bios, bios[b].at # "idle", NEW c \in Cblocks,
         remap_hit(b, c) \/ remap_to_origin_clear_discard(b)
  PROVE  /\ Sending(bios'[b])
         /\ bios'[b].at # "writethrough"
         /\ \A x \in Bios : x # b => bios'[x] = bios[x]
<1>1. PICK to \in {"origin", "cache", "both"}, d \in Cblocks \cup {Null} :
        bios' = [bios EXCEPT ![b] = Sent(b, to, d)]
  BY DEF remap_hit, remap_to_origin_clear_discard, remap_to_origin_then_cache,
         remap_to_cache_dirty
<1>2. Sent(b, to, d).at \in {"flush", "io"}
  BY SentFacts DEF TargetTypes
<1> QED
  BY <1>1, <1>2 DEF TargetTypes, BioTypes, Sending

LEMMA SubmitWaits ==
  ASSUME TargetTypes, WaitInv, NEW b \in Bios, NEW op \in Ops, NEW o \in Oblocks,
         NEW full \in BOOLEAN, Submit(b, op, o, full)
  PROVE  WaitInv'
<1>1. bios[b].at = "idle" /\ quiescing = "no"
  BY DEF Submit, Idle
<1>2. bios'[b].at = "submitted"
  BY DEF Submit
<1>3. ASSUME NEW x \in Bios, x # b
      PROVE  bios'[x].at = bios[x].at /\ bios'[x].on = bios[x].on
  <2>1. CASE op = "discard" /\ x \in Reads(o)
    <3>1. bios[x] \in BioRecords
      BY <2>1, BioFacts DEF Reads, TargetTypes
    <3>2. bios'[x] = [bios[x] EXCEPT !.floor = NoPromise]
      BY <1>3, <2>1 DEF Submit
    <3> QED
      BY <3>1, <3>2 DEF BioRecords
  <2>2. CASE ~(op = "discard" /\ x \in Reads(o))
    BY <1>3, <2>2 DEF Submit
  <2> QED
    BY <2>1, <2>2
<1> QED
  BY <1>1, <1>2, <1>3, OneBioWaits DEF Submit, Sending

LEMMA cache_mapWaits ==
  ASSUME TargetTypes, WaitInv, NEW b \in Bios, cache_map(b)
  PROVE  WaitInv'
<1> USE DEF TargetTypes
<1>1. bios[b].at = "submitted" /\ bios[b].o \in Oblocks
  BY BioFacts DEF cache_map, BioRecords
<1>2. quiescing = "no"
  BY <1>1 DEF WaitInv, Idle
<1>3. CASE \E c \in MappedTo(bios[b].o) : remap_hit(b, c) \/ remap_to_origin_clear_discard(b)
  <2>1. /\ Sending(bios'[b]) /\ \A x \in Bios : x # b => bios'[x] = bios[x]
    BY <1>1, <1>3, RemapFacts DEF MappedTo
  <2> QED
    BY <1>1, <1>2, <2>1, OneBioWaits DEF cache_map, session, Sending
<1>4. CASE bios' = [bios EXCEPT ![b] = Deferred(b)]
  <2>1. bios'[b].at = "deferred" /\ \A x \in Bios : x # b => bios'[x] = bios[x]
    BY <1>1, <1>4, DeferredFacts DEF BioTypes
  <2> QED
    BY <1>1, <1>2, <2>1, OneBioWaits DEF cache_map, session, Sending
<1>5. CASE bios[b].o \in cells /\ bios' = [bios EXCEPT ![b] = Waiting(b, bios[b].o)]
  <2>1. /\ bios'[b].at = "waiting" /\ bios'[b].on = bios[b].o
        /\ \A x \in Bios : x # b => bios'[x] = bios[x]
    BY <1>1, <1>5, WaitingFacts DEF BioTypes
  <2> QED
    BY <1>1, <1>2, <1>5, <2>1, OneBioWaits DEF cache_map, session, Sending
<1> QED
  BY <1>3, <1>4, <1>5 DEF cache_map

LEMMA EndsWait ==
  ASSUME TargetTypes, MapInv, WaitInv, NEW b \in Bios, EndRead(b) \/ EndFlush(b) \/ EndWrite(b)
  PROVE  WaitInv'
<1> USE DEF TargetTypes
<1>1. bios[b].at = "io" /\ bios[b] \in BioRecords
  BY BioFacts DEF EndRead, EndFlush, EndWrite
<1>2. CASE End(b)
  BY <1>1, <1>2, EndWaits DEF EndRead, EndFlush, EndWrite, session, Sending
<1>3. CASE EndWrite(b) /\ ~End(b)
  <2>1. /\ bios' = [bios EXCEPT ![b] = [bios[b] EXCEPT !.at = "writethrough"]]
        /\ UNCHANGED <<cells, migrations, faults, quiescing, stage>>
    BY <1>3 DEF EndWrite, session
  <2>2. bios'[b].at = "writethrough" /\ \A x \in Bios : x # b => bios'[x] = bios[x]
    BY <1>1, <2>1 DEF BioTypes, BioRecords
  <2>3. quiescing = "no"
    BY <1>1 DEF WaitInv, Idle
  <2> QED
    BY <1>1, <2>1, <2>2, <2>3, OneBioWaits DEF Sending
<1> QED
  BY <1>2, <1>3 DEF EndRead, EndFlush

LEMMA WritethroughWaits ==
  ASSUME TargetTypes, WaitInv, NEW b \in Bios, process_deferred_writethrough_bio(b)
  PROVE  WaitInv'
<1> USE DEF TargetTypes
<1>1. bios[b].at = "writethrough" /\ bios[b] \in BioRecords
  BY BioFacts DEF process_deferred_writethrough_bio
<1>2. bios' = [bios EXCEPT ![b] = [bios[b] EXCEPT !.at = "io", !.to = "cache"]]
  BY DEF process_deferred_writethrough_bio
<1>3. bios'[b].at = "io" /\ \A x \in Bios : x # b => bios'[x] = bios[x]
  BY <1>1, <1>2 DEF BioTypes, BioRecords
<1>4. quiescing = "no"
  BY <1>1 DEF WaitInv, Idle
<1> QED
  BY <1>1, <1>3, <1>4, OneBioWaits DEF process_deferred_writethrough_bio, Sending, session

LEMMA WritebackWaits ==
  ASSUME TargetTypes, WaitInv, NEW c \in Cblocks, writeback_some_dirty_blocks(c)
  PROVE  WaitInv'
<1>1. PICK mg : mg = Migration("writeback", policy[c], Null, c, Null)
  OBVIOUS
<1>2. /\ mg \in MigrationRecords /\ mg.holder = Null /\ mg.phase = "quiescing"
      /\ mg.waits = {x \in Bios : \/ bios[x].at \in {"io", "writethrough"}
                                  \/ bios[x].at = "flush" /\ bios[x].op = "fua"}
  BY <1>1 DEF Migration, MigrationRecords, TargetTypes, MappingTypes, Mappings
<1> QED
  BY <1>1, <1>2, StartWaits, DmTargetAssumption DEF writeback_some_dirty_blocks, session

LEMMA DeferredBioWaits ==
  ASSUME TargetTypes, WaitInv, NEW b \in Bios, process_deferred_bio(b)
  PROVE  WaitInv'
<1> USE DEF TargetTypes
<1>1. bios[b].at = "deferred" /\ bios[b] \in BioRecords /\ bios[b].o \in Oblocks /\ stage = "bios"
  BY BioFacts DEF process_deferred_bio, BioRecords
<1>2. /\ quiescing = "no"
      /\ UNCHANGED <<faults, quiescing, stage>>
  BY <1>1
  DEF WaitInv, Idle, process_deferred_bio, process_flush_bio, process_discard_bio, process_bio, session
<1>3. ASSUME NEW kind \in {"promote", "demote", "invalidate"}, NEW old, NEW new,
             NEW c \in Cblocks, Start(Migration(kind, old, new, c, b)),
             old \in Oblocks \cup {Null}, new \in Oblocks \cup {Null}
      PROVE  WaitInv'
  <2>1. PICK mg : mg = Migration(kind, old, new, c, b)
    OBVIOUS
  <2>2. /\ mg \in MigrationRecords /\ mg.holder = b /\ mg.phase = "quiescing"
        /\ mg.waits = {x \in Bios : \/ bios[x].at \in {"io", "writethrough"}
                                    \/ bios[x].at = "flush" /\ bios[x].op = "fua"}
    BY <1>3, <2>1 DEF Migration, MigrationRecords
  <2> QED
    BY <1>1, <1>2, <1>3, <2>1, <2>2, StartWaits
<1>4. ASSUME NEW o \in cells, bios' = [bios EXCEPT ![b] = Waiting(b, o)],
             UNCHANGED <<cells, migrations>>
      PROVE  WaitInv'
  <2>1. /\ bios'[b].at = "waiting" /\ bios'[b].on = o
        /\ \A x \in Bios : x # b => bios'[x] = bios[x]
    BY <1>1, <1>4, WaitingFacts DEF BioTypes, MappingTypes
  <2> QED
    BY <1>1, <1>2, <1>4, <2>1, OneBioWaits DEF Sending
<1>5. ASSUME Sending(bios'[b]), \A x \in Bios : x # b => bios'[x] = bios[x],
             UNCHANGED <<cells, migrations>>
      PROVE  WaitInv'
  BY <1>1, <1>2, <1>5, OneBioWaits DEF Sending
<1>6. CASE process_flush_bio(b)
  <2>1. Sent(b, "origin", Null).at \in {"flush", "io"}
    BY <1>1, SentFacts
  <2>2. Sending(bios'[b]) /\ \A x \in Bios : x # b => bios'[x] = bios[x]
    BY <1>6, <2>1 DEF process_flush_bio, BioTypes, Sending
  <2> QED
    BY <1>5, <1>6, <2>2 DEF process_flush_bio
<1>7. CASE process_discard_bio(b)
  <2>1. bios'[b].at = "idle" /\ \A x \in Bios : x # b => bios'[x] = bios[x]
    BY <1>7 DEF process_discard_bio, BioTypes, Idle
  <2> QED
    BY <1>1, <1>2, <1>7, <2>1, OneBioWaits DEF process_discard_bio, Sending
<1>8. CASE process_bio_unmoved(b)
  <2>1. CASE bios[b].o \in cells /\ bios' = [bios EXCEPT ![b] = Waiting(b, bios[b].o)]
             /\ UNCHANGED <<cells, migrations>>
    BY <1>4, <2>1
  <2>2. CASE (\E c \in MappedTo(bios[b].o) : remap_hit(b, c) \/ remap_to_origin_clear_discard(b))
             /\ UNCHANGED <<cells, migrations>>
    <3>1. Sending(bios'[b]) /\ \A x \in Bios : x # b => bios'[x] = bios[x]
      BY <1>1, <2>2, RemapFacts DEF MappedTo
    <3> QED
      BY <1>5, <2>2, <3>1
  <2>3. CASE \E c \in MappedTo(bios[b].o) : Start(Migration("invalidate", bios[b].o, Null, c, b))
    BY <1>1, <1>3, <2>3 DEF MappedTo
  <2>4. CASE remap_to_origin_clear_discard(b) /\ UNCHANGED <<cells, migrations>>
    <3>1. Sent(b, "origin", Null).at \in {"flush", "io"}
      BY <1>1, SentFacts
    <3>2. Sending(bios'[b]) /\ \A x \in Bios : x # b => bios'[x] = bios[x]
      BY <2>4, <3>1 DEF remap_to_origin_clear_discard, BioTypes, Sending
    <3> QED
      BY <1>5, <2>4, <3>2
  <2> QED
    BY <1>8, <2>1, <2>2, <2>3, <2>4 DEF process_bio_unmoved
<1>9. CASE process_bio_moves(b)
  <2>1. PICK c \in Cblocks \ inflight :
           \/ Start(Migration("promote", Null, bios[b].o, c, b))
           \/ Start(Migration("demote", policy[c], bios[b].o, c, b))
           \/ /\ policy[c] \in cells
              /\ bios' = [bios EXCEPT ![b] = Waiting(b, policy[c])]
              /\ UNCHANGED <<policy, inflight, cells, migrations>>
    BY <1>9 DEF process_bio_moves
  <2>2. policy[c] \in Oblocks \cup {Null}
    BY DEF MappingTypes, Mappings
  <2> QED
    BY <1>1, <1>3, <1>4, <2>1, <2>2
<1> QED
  BY <1>6, <1>7, <1>8, <1>9 DEF process_deferred_bio, process_bio

LEMMA PreCommitWaits ==
  ASSUME TargetTypes, MapInv, WaitInv, NEW mg \in migrations, migration_success_pre_commit(mg),
         mg.waits = {}, ~PastCommit(mg), UNCHANGED <<faults, quiescing, stage>>
  PROVE  WaitInv'
<1> USE DEF TargetTypes
<1>1. /\ mg \in MigrationRecords /\ Shaped(mg)
      /\ mg.new \in Oblocks \cup {Null} /\ mg.old \in Oblocks \cup {Null}
      /\ mg.holder \in Bios => bios[mg.holder].at # "idle"
      /\ Null \notin Bios /\ Null \notin cells
  BY MigrationFacts, HolderFacts DEF MapInv
<1>2. CASE /\ mg.kind = "writeback"
           /\ cell_defer({mg.old}, Null)
           /\ migrations' = migrations \ {mg}
  <2>1. /\ cells' = cells \ {mg.old}
        /\ \A b \in Bios : bios[b].at = "waiting" /\ bios[b].on \notin cells' =>
                             bios'[b].at = "deferred"
        /\ \A b \in Bios : \/ bios'[b] = bios[b]
                           \/ bios[b].at = "waiting" /\ bios'[b].at = "deferred"
    BY <1>1, <1>2, DeferFacts
  <2>2. mg.holder = Null /\ mg.new = Null
    BY <1>1, <1>2 DEF Shaped
  <2>3. \A o \in Oblocks : IsBlockOf(o, mg) => o \notin cells'
    BY <2>1, <2>2 DEF IsBlockOf
  <2> QED
    BY <1>1, <1>2, <2>1, <2>2, <2>3, RemovedWaits
<1>3. CASE /\ Becomes(mg, [mg EXCEPT !.phase = "need_commit"])
           /\ UNCHANGED <<cells, bios>>
  <2>1. PICK next : next = [mg EXCEPT !.phase = "need_commit"]
    OBVIOUS
  <2>2. /\ next \in MigrationRecords /\ next.old = mg.old /\ next.new = mg.new
        /\ next.holder = mg.holder /\ next.waits = {} /\ Becomes(mg, next)
    BY <1>1, <1>3, <2>1 DEF MigrationRecords
  <2>3. \A b \in Bios : bios[b].at = "waiting" => bios[b].on \in cells
    BY DEF WaitInv
  <2> QED
    BY <1>3, <2>2, <2>3, BecomesWaits DEF IsBlockOf
<1>4. CASE /\ "metadata" \in faults
           /\ IF mg.kind = "demote" THEN cell_defer({mg.new}, mg.holder)
                                    ELSE UNCHANGED <<cells, bios>>
           /\ migrations' = migrations \ {mg}
  <2>1. CASE mg.kind = "demote"
    <3>1. /\ cells' = cells \ {mg.new}
          /\ \A b \in Bios : bios[b].at = "waiting" /\ bios[b].on \notin cells' =>
                               bios'[b].at = "deferred"
          /\ \A b \in Bios : \/ bios'[b] = bios[b]
                             \/ /\ bios[b].at = "waiting" \/ b = mg.holder
                                /\ bios'[b].at = "deferred"
      BY <1>1, <1>4, <2>1, DeferFacts
    <3> QED
      BY <1>1, <1>4, <3>1, RemovedWaits
  <2>2. CASE mg.kind # "demote"
    <3>1. \A b \in Bios : bios[b].at = "waiting" => bios[b].on \in cells
      BY DEF WaitInv
    <3> QED
      BY <1>4, <2>2, <3>1, RemovedWaits
  <2> QED
    BY <2>1, <2>2
<1> QED
  BY <1>2, <1>3, <1>4 DEF migration_success_pre_commit

LEMMA IssueWaits ==
  ASSUME TargetTypes, MapInv, WaitInv, NEW mg \in migrations, issue_copy(mg)
  PROVE  WaitInv'
<1>1. /\ mg \in MigrationRecords /\ mg.phase = "quiescing" /\ mg.waits = {} /\ ~PastCommit(mg)
      /\ UNCHANGED <<faults, quiescing, stage>>
  BY MigrationFacts DEF issue_copy, quiesced, TargetTypes, PastCommit, session
<1>2. CASE migration_success_pre_commit(mg)
  BY <1>1, <1>2, PreCommitWaits
<1>3. ASSUME NEW next,
             \/ next = [mg EXCEPT !.phase = "copying", !.overwrite = TRUE]
             \/ next = [mg EXCEPT !.phase = "copying"],
             Becomes(mg, next), UNCHANGED <<cells, bios>>
      PROVE  WaitInv'
  <2>1. /\ next \in MigrationRecords /\ next.old = mg.old /\ next.new = mg.new
        /\ next.holder = mg.holder /\ next.waits = {}
    BY <1>1, <1>3 DEF MigrationRecords
  <2>2. \A b \in Bios : bios[b].at = "waiting" => bios[b].on \in cells
    BY DEF WaitInv
  <2> QED
    BY <1>1, <1>3, <2>1, <2>2, BecomesWaits DEF IsBlockOf
<1> QED
  BY <1>2, <1>3 DEF issue_copy

LEMMA CopyWaits ==
  ASSUME TargetTypes, MapInv, WaitInv, NEW mg \in migrations, NEW err \in BOOLEAN,
         copy_complete(mg, err)
  PROVE  WaitInv'
<1>1. mg \in MigrationRecords /\ mg.waits = {}
  BY MigrationFacts DEF copy_complete, TargetTypes, WaitInv
<1>2. PICK next : next = [mg EXCEPT !.phase = "completed", !.err = err]
  OBVIOUS
<1>3. /\ next \in MigrationRecords /\ next.old = mg.old /\ next.new = mg.new
      /\ next.holder = mg.holder /\ next.waits = {}
  BY <1>1, <1>2 DEF MigrationRecords
<1>4. \A b \in Bios : bios[b].at = "waiting" => bios[b].on \in cells
  BY DEF WaitInv
<1> QED
  <2>1. Becomes(mg, next) /\ UNCHANGED <<cells, bios, faults, quiescing, stage>>
    BY <1>2 DEF copy_complete, session
  <2>2. \A o \in cells' : IsBlockOf(o, mg) => IsBlockOf(o, next)
    BY <1>3 DEF IsBlockOf
  <2> QED
    BY <1>3, <1>4, <2>1, <2>2, BecomesWaits

LEMMA FailureWaits ==
  ASSUME TargetTypes, MapInv, WaitInv, NEW mg \in migrations, migration_failure(mg),
         mg.phase = "completed", UNCHANGED <<faults, quiescing, stage>>
  PROVE  WaitInv'
<1> USE DEF TargetTypes
<1>1. /\ mg \in MigrationRecords /\ Shaped(mg)
      /\ mg.new \in Oblocks \cup {Null} /\ mg.old \in Oblocks \cup {Null}
      /\ mg.holder \in Bios => bios[mg.holder].at # "idle"
      /\ Null \notin Bios /\ Null \notin cells
      /\ mg.kind \in {"writeback", "demote", "promote"}
  BY MigrationFacts, HolderFacts DEF MapInv, Shaped
<1>2. PICK os, holder :
        /\ cell_defer(os, holder)
        /\ holder \in Bios => bios[holder].at # "idle"
        /\ holder = mg.holder
        /\ \A o \in Oblocks : IsBlockOf(o, mg) => o \in os
  <2>1. CASE mg.kind = "writeback"
    <3>1. cell_defer({mg.old}, Null) /\ mg.holder = Null /\ mg.new = Null
      BY <1>1, <2>1 DEF Shaped, migration_failure
    <3> QED
      BY <1>1, <3>1 DEF IsBlockOf
  <2>2. CASE mg.kind = "demote"
    <3>1. cell_defer({mg.old, mg.new}, mg.holder)
      BY <2>2 DEF migration_failure
    <3> QED
      BY <1>1, <3>1 DEF IsBlockOf
  <2>3. CASE mg.kind = "promote"
    <3>1. cell_defer({mg.new}, mg.holder) /\ mg.old = Null
      BY <1>1, <2>3 DEF Shaped, migration_failure
    <3> QED
      BY <1>1, <3>1 DEF IsBlockOf
  <2> QED
    BY <1>1, <2>1, <2>2, <2>3
<1>3. /\ cells' = cells \ os
      /\ \A b \in Bios : bios[b].at = "waiting" /\ bios[b].on \notin cells' =>
                           bios'[b].at = "deferred"
      /\ \A b \in Bios : \/ bios'[b] = bios[b] /\ b # mg.holder
                         \/ /\ bios[b].at = "waiting" \/ b = mg.holder
                            /\ bios'[b].at = "deferred"
  BY <1>2, DeferFacts
<1>4. migrations' = migrations \ {mg}
  BY DEF migration_failure
<1>5. \A o \in Oblocks : IsBlockOf(o, mg) => o \notin cells'
  BY <1>2, <1>3
<1>6. mg.holder \in Bios => bios'[mg.holder].at # "held"
  BY <1>3
<1> QED
  BY <1>3, <1>4, <1>5, <1>6, RemovedWaits

LEMMA PostCommitWaits ==
  ASSUME TargetTypes, MapInv, WaitInv, NEW mg \in migrations, migration_success_post_commit(mg)
  PROVE  WaitInv'
<1> USE DEF TargetTypes
<1>1. /\ mg \in MigrationRecords /\ Shaped(mg)
      /\ mg.new \in Oblocks \cup {Null} /\ mg.old \in Oblocks \cup {Null}
      /\ mg.holder \in Bios => bios[mg.holder].at # "idle"
      /\ Null \notin Bios /\ Null \notin cells
      /\ UNCHANGED <<faults, quiescing, stage>>
  BY MigrationFacts, HolderFacts DEF MapInv, migration_success_post_commit, session
<1>2. CASE /\ mg.kind = "demote"
           /\ cell_defer({mg.old}, Null)
           /\ Becomes(mg, [mg EXCEPT !.kind = "promote", !.old = Null, !.phase = "quiescing",
                                     !.waits = {}])
  <2>1. PICK next : next = [mg EXCEPT !.kind = "promote", !.old = Null, !.phase = "quiescing",
                                      !.waits = {}]
    OBVIOUS
  <2>2. /\ next \in MigrationRecords /\ next.old = Null /\ next.new = mg.new
        /\ next.holder = mg.holder /\ next.waits = {} /\ Becomes(mg, next)
    BY <1>1, <1>2, <2>1 DEF MigrationRecords
  <2>3. /\ cells' = cells \ {mg.old}
        /\ \A b \in Bios : bios[b].at = "waiting" /\ bios[b].on \notin cells' =>
                             bios'[b].at = "deferred"
        /\ \A b \in Bios : \/ bios'[b] = bios[b]
                           \/ bios[b].at = "waiting" /\ bios'[b].at = "deferred"
    BY <1>1, <1>2, DeferFacts
  <2>4. \A o \in cells' : IsBlockOf(o, mg) => IsBlockOf(o, next)
    BY <2>2, <2>3 DEF IsBlockOf
  <2> QED
    BY <1>1, <2>2, <2>3, <2>4, BecomesWaits
<1>3. CASE /\ mg.kind \in {"invalidate", "promote"}
           /\ cell_defer(IF mg.kind = "promote" THEN {mg.new} ELSE {mg.old}, mg.holder)
           /\ migrations' = migrations \ {mg}
  <2>1. PICK o : o = (IF mg.kind = "promote" THEN mg.new ELSE mg.old) /\ cell_defer({o}, mg.holder)
    BY <1>3
  <2>2. /\ cells' = cells \ {o}
        /\ \A b \in Bios : bios[b].at = "waiting" /\ bios[b].on \notin cells' =>
                             bios'[b].at = "deferred"
        /\ \A b \in Bios : \/ bios'[b] = bios[b] /\ b # mg.holder
                           \/ /\ bios[b].at = "waiting" \/ b = mg.holder
                              /\ bios'[b].at = "deferred"
    BY <1>1, <2>1, DeferFacts
  <2>3. \A x \in Oblocks : IsBlockOf(x, mg) => x \notin cells'
    BY <1>1, <1>3, <2>1, <2>2 DEF IsBlockOf, Shaped
  <2>4. mg.holder \in Bios => bios'[mg.holder].at # "held"
    BY <2>2
  <2> QED
    BY <1>1, <1>3, <2>2, <2>3, <2>4, RemovedWaits
<1>4. CASE /\ mg.kind = "promote"
           /\ cells' = cells \ {mg.new}
           /\ bios' = [Released({mg.new}, Null) EXCEPT ![mg.holder] = Idle]
           /\ migrations' = migrations \ {mg}
  <2>1. ASSUME NEW b \in Bios, bios[b].at = "waiting" PROVE Deferred(b).at = "deferred"
    BY <2>1, DeferredFacts
  <2>2. ASSUME NEW b \in Bios
        PROVE  bios'[b] = IF b = mg.holder THEN Idle
                          ELSE IF bios[b].at = "waiting" /\ bios[b].on = mg.new THEN Deferred(b)
                          ELSE bios[b]
    BY <1>1, <1>4 DEF Released
  <2>3. mg.holder \in Bios => bios[mg.holder].at = "held"
    BY HolderFacts
  <2>4. \A b \in Bios : bios[b].at = "waiting" /\ bios[b].on \notin cells' =>
                          bios'[b].at = "deferred"
    <3> SUFFICES ASSUME NEW b \in Bios, bios[b].at = "waiting", bios[b].on \notin cells'
                 PROVE  bios'[b].at = "deferred"
      OBVIOUS
    <3>1. bios[b].on \in cells /\ bios[b].on = mg.new
      BY <1>4 DEF WaitInv
    <3>2. bios'[b] = Deferred(b)
      BY <2>2, <2>3, <3>1
    <3> QED
      BY <2>1, <3>2
  <2>5. \A b \in Bios : \/ bios'[b] = bios[b]
                        \/ /\ bios[b].at = "waiting" \/ b = mg.holder
                           /\ bios'[b].at \in {"deferred", "idle"}
    BY <2>1, <2>2 DEF Idle
  <2>6. mg.holder \in Bios => bios'[mg.holder].at # "held"
    BY <2>2 DEF Idle
  <2>7. \A o \in Oblocks : IsBlockOf(o, mg) => o \notin cells'
    BY <1>1, <1>4 DEF IsBlockOf, Shaped
  <2> QED
    BY <1>1, <1>4, <2>4, <2>5, <2>6, <2>7, RemovedWaits
<1> QED
  BY <1>2, <1>3, <1>4 DEF migration_success_post_commit

LEMMA CommitWaits ==
  ASSUME TargetTypes, MapInv, WaitInv, commit_if_needed
  PROVE  WaitInv'
<1> USE DEF TargetTypes
<1>1. Relabelled
  BY CommitRelabels
<1>2. ASSUME NEW n \in migrations', NEW b \in Bios
      PROVE  /\ b \in n.waits => Sending(bios'[b])
             /\ b = n.holder => bios'[b].at = "held"
             /\ n.phase # "quiescing" => n.waits = {}
  <2>1. CASE bios' = FlushBios("io") /\ migrations' = Committed
    <3>1. PICK m \in migrations : \/ n = m
                                  \/ m.phase = "need_commit" /\ n = [m EXCEPT !.phase = "committed"]
      BY <2>1 DEF Committed
    <3>2. m \in MigrationRecords
      BY MigrationFacts
    <3>3. /\ n.waits = m.waits /\ n.holder = m.holder
          /\ n.phase = "quiescing" <=> m.phase = "quiescing"
      BY <3>1, <3>2 DEF MigrationRecords
    <3>4. /\ b \in m.waits => Sending(bios[b])
          /\ b = m.holder => bios[b].at = "held"
          /\ m.phase # "quiescing" => m.waits = {}
      BY DEF WaitInv
    <3>5. /\ bios[b].at = "flush" => bios'[b].at = "io"
          /\ bios[b].at # "flush" => bios'[b] = bios[b]
      <4>1. bios[b].at = "flush" => bios[b] \in BioRecords
        BY BioFacts
      <4> QED
        BY <2>1, <4>1 DEF FlushBios, BioRecords
    <3> QED
      BY <3>3, <3>4, <3>5 DEF Sending
  <2>2. CASE /\ bios' = [x \in Bios |-> IF bios[x].at = "flush" THEN Idle ELSE bios[x]]
             /\ migrations' = {[mg EXCEPT !.waits = {x \in @ : bios[x].at # "flush"}] : mg \in migrations}
    <3>1. PICK m \in migrations : n = [m EXCEPT !.waits = {x \in @ : bios[x].at # "flush"}]
      BY <2>2
    <3>2. m \in MigrationRecords
      BY MigrationFacts
    <3>3. /\ n.waits = {x \in m.waits : bios[x].at # "flush"} /\ n.holder = m.holder
          /\ n.phase = m.phase
      BY <3>1, <3>2 DEF MigrationRecords
    <3>4. /\ b \in m.waits => Sending(bios[b])
          /\ b = m.holder => bios[b].at = "held"
          /\ m.phase # "quiescing" => m.waits = {}
      BY DEF WaitInv
    <3>5. bios[b].at # "flush" => bios'[b] = bios[b]
      BY <2>2
    <3> QED
      BY <3>3, <3>4, <3>5 DEF Sending
  <2> QED
    BY <2>1, <2>2 DEF commit_if_needed
<1>3. ASSUME NEW b \in Bios
      PROVE  bios'[b] = bios[b] \/ (bios[b].at = "flush" /\ bios'[b].at \in {"io", "idle"})
  <2>1. bios[b].at = "flush" => bios[b] \in BioRecords
    BY BioFacts
  <2> QED
    BY <2>1 DEF commit_if_needed, FlushBios, BioRecords, Idle
<1>4. ASSUME NEW m \in migrations', NEW n \in migrations', m.holder = n.holder, m.holder # Null
      PROVE  m = n
  <2>1. PICK x \in migrations : SameMove(x, m)
    BY <1>1 DEF Relabelled
  <2>2. PICK y \in migrations : SameMove(y, n)
    BY <1>1 DEF Relabelled
  <2>3. x = y
    BY <1>4, <2>1, <2>2 DEF WaitInv, SameMove
  <2> QED
    BY <1>1, <2>1, <2>2, <2>3 DEF Relabelled, SameMove
<1>5. UNCHANGED <<faults, cells>>
  BY DEF commit_if_needed
<1>6. "metadata" \notin faults' =>
       /\ \A o \in cells' : \E mg \in migrations' : IsBlockOf(o, mg)
       /\ \A x \in Bios : bios'[x].at = "held" => \E mg \in migrations' : mg.holder = x
  BY <1>1, <1>3, <1>5 DEF WaitInv, Relabelled, SameMove, IsBlockOf
<1>7. \A x \in Bios : bios'[x].at = "waiting" => bios'[x].on \in cells'
  BY <1>3, <1>5 DEF WaitInv
<1>8. /\ quiescing' # "no" => quiescing # "no"
      /\ quiescing' = "acked" => stage' # "bios"
  BY DEF commit_if_needed, NextRound, WaitInv
<1>9. quiescing' # "no" => \A x \in Bios : bios'[x] = Idle
  BY <1>3, <1>8 DEF WaitInv, Idle
<1>10. \A n \in migrations', b \in Bios :
         /\ b \in n.waits => Sending(bios'[b])
         /\ b = n.holder => bios'[b].at = "held"
  BY <1>2
<1>11. \A n \in migrations' : n.phase # "quiescing" => n.waits = {}
  <2>1. ASSUME NEW n \in migrations', n.phase # "quiescing", n.waits # {}
        PROVE  FALSE
    <3>1. PICK m \in migrations : SameMove(m, n)
      BY <1>1 DEF Relabelled
    <3>2. Bios # {}
      BY <2>1, CommitTypes, MigrationFacts DEF MigrationTypes, MigrationRecords
    <3> QED
      BY <1>2, <2>1, <3>2
  <2> QED
    BY <2>1
<1> QED
  BY <1>4, <1>6, <1>7, <1>8, <1>9, <1>10, <1>11 DEF WaitInv

LEMMA OtherWaits ==
  ASSUME TargetTypes, WaitInv,
         \/ NextStage
         \/ start_quiescing
         \/ \E c \in Cblocks : process_invalidation_request(c)
         \/ UNCHANGED tgtVars
  PROVE  WaitInv'
<1>1. /\ UNCHANGED <<cells, migrations, bios, faults>>
      /\ quiescing' # "no" => quiescing # "no" \/ \A x \in Bios : bios[x] = Idle
      /\ quiescing' = "acked" => stage' # "bios"
  BY DEF WaitInv, NextStage, start_quiescing, process_invalidation_request, NextRound, flow, session,
         tgtVars
<1> QED
  BY <1>1 DEF WaitInv, Sending

LEMMA RestartWaits ==
  ASSUME NEW m, NEW dirty, NEW discards, Restart(m, dirty, discards)
  PROVE  WaitInv'
BY DEF Restart, WaitInv, Idle

-----------------------------------------------------------------------------
TargetInv == TargetTypes /\ MapInv /\ WaitInv

LEMMA TargetInvNext == TargetInv /\ [TargetNext]_tgtVars => TargetInv'
<1> SUFFICES ASSUME TargetTypes, MapInv, WaitInv, [TargetNext]_tgtVars
             PROVE  TargetTypes' /\ WaitInv'
  BY MapNext DEF TargetInv
<1>1. CASE \E b \in Bios, op \in Ops, o \in Oblocks, full \in BOOLEAN : Submit(b, op, o, full)
  BY <1>1, SubmitTypes, SubmitWaits
<1>2. CASE \E b \in Bios : BioStep(b)
  BY <1>2, cache_mapTypes, EndReadFlushTypes, EndWriteTypes, cache_mapWaits, EndsWait DEF BioStep
<1>3. ASSUME NEW mg \in migrations, NEW err \in BOOLEAN, copy_complete(mg, err)
      PROVE  TargetTypes' /\ WaitInv'
  <2>1. Shaped(mg) /\ mg.kind \in {"writeback", "demote", "promote", "invalidate"}
        /\ mg.phase = "copying"
    BY <1>3, MigrationFacts DEF MapInv, TargetTypes, copy_complete
  <2>2. /\ mg.kind # "promote" => mg.old # Null
        /\ mg.kind = "promote" => mg.new # Null
        /\ mg.overwrite => mg.holder # Null
    BY <2>1 DEF Shaped
  <2>3. mg.overwrite => mg.holder \in Bios /\ bios[mg.holder].at # "idle"
    BY <2>2, HolderFacts
  <2> QED
    BY <1>3, <2>2, <2>3, CopyTypes, CopyWaits
<1>4. ASSUME NEW mg \in migrations
      PROVE  /\ mg.holder \in Bios => bios[mg.holder].at # "idle"
             /\ mg.overwrite => mg.holder \in Bios
             /\ mg.err => mg.kind # "invalidate"
  BY HolderFacts DEF MapInv, Shaped
<1>5. ASSUME NEW mg \in migrations, complete_migration(mg)
      PROVE  TargetTypes' /\ WaitInv'
  <2>1. mg.kind # "invalidate" /\ mg.waits = {} /\ mg.phase = "completed" /\ ~PastCommit(mg)
    BY <1>5 DEF complete_migration, MapInv, Shaped, WaitInv, PastCommit
  <2>2. TargetTypes'
    BY <1>4, <1>5, <2>1, CompleteTypes
  <2>3. WaitInv'
    BY <1>5, <2>1, FailureWaits, PreCommitWaits DEF complete_migration, session
  <2> QED
    BY <2>2, <2>3
<1>6. CASE do_worker
  <2>1. CASE \E c \in Cblocks : writeback_some_dirty_blocks(c) \/ process_invalidation_request(c)
    BY <2>1, WritebackTypes, WritebackWaits, InvalidationTypes, OtherWaits
  <2>2. CASE \E b \in Bios : process_deferred_writethrough_bio(b) \/ process_deferred_bio(b)
    BY <2>2, WritethroughTypes, WritethroughWaits, DeferredBioTypes, DeferredBioWaits
  <2>3. ASSUME NEW mg \in migrations, issue_copy(mg) PROVE TargetTypes' /\ WaitInv'
    BY <1>4, <2>3, IssueTypes, IssueWaits
  <2>4. ASSUME NEW mg \in migrations, migration_success_post_commit(mg)
        PROVE TargetTypes' /\ WaitInv'
    BY <1>4, <2>4, PostCommitTypes, PostCommitWaits
  <2>5. CASE commit_if_needed \/ NextStage
    BY <2>5, CommitTypes, CommitWaits, StageTypes, OtherWaits
  <2> QED
    BY <1>5, <1>6, <2>1, <2>2, <2>3, <2>4, <2>5 DEF do_worker
<1>7. CASE start_quiescing
  BY <1>7, StageTypes, OtherWaits
<1>8. CASE \E ok \in BOOLEAN : Reload(ok)
  BY <1>8, ReloadTypes, RestartWaits DEF Reload
<1>9. CASE Crash
  BY <1>9, CrashTypes, RestartWaits DEF Crash
<1>10. CASE UNCHANGED tgtVars
  <2>1. TargetTypes'
    BY <1>10
    DEF TargetTypes, BioTypes, Idle, MigrationTypes, MappingTypes, DataTypes, tgtVars, data, mapping,
        bits, flow, session
  <2> QED
    BY <1>10, <2>1, OtherWaits
<1> QED
  BY <1>1, <1>2, <1>3, <1>6, <1>7, <1>8, <1>9, <1>10 DEF TargetNext

LEMMA TargetAlways == TargetSpec => []TargetInv
<1>1. TargetInit => TargetInv
  BY TypesInit, MapInit, WaitInit DEF TargetInv
<1> QED
  BY <1>1, TargetInvNext, PTL DEF TargetSpec

\* When no data is moved, the policy and the metadata agree, whatever the number of
\* blocks, bios and restarts, and whatever copies, changes of the metadata and commits
\* have failed.
THEOREM TargetQuietAgreement == TargetSpec => []QuietAgreement
<1>1. TargetInv => QuietAgreement
  <2> SUFFICES ASSUME TargetTypes, MapInv, migrations = {}
               PROVE  policy = meta /\ inflight = {}
    BY DEF TargetInv, QuietAgreement
  <2>1. \A c \in Cblocks : policy[c] = meta[c] /\ c \notin inflight
    BY DEF MapInv
  <2> QED
    BY <2>1 DEF TargetTypes, MappingTypes, Mappings
<1> QED
  BY <1>1, TargetAlways, PTL

\* No bio is lost between lists, cells and migrations, and no wait is circular.
THEOREM TargetNobodyStuck == TargetSpec => []NobodyStuck
<1>1. TargetInv => NobodyStuck
  <2> SUFFICES ASSUME TargetTypes, MapInv, WaitInv, "metadata" \notin faults
               PROVE  NobodyStuck
    BY DEF TargetInv, NobodyStuck
  <2>1. cells = UNION {{mg.old, mg.new} \ {Null} : mg \in migrations}
    <3>1. ASSUME NEW o \in cells PROVE \E mg \in migrations : o \in {mg.old, mg.new} \ {Null}
      BY DEF WaitInv, IsBlockOf
    <3>2. ASSUME NEW mg \in migrations, NEW o \in {mg.old, mg.new} \ {Null} PROVE o \in cells
      BY DEF MapInv
    <3> QED
      BY <3>1, <3>2
  <2>2. ASSUME quiescing = "acked", NEW mg \in migrations PROVE mg.waits = {}
    <3>1. \A b \in Bios : bios[b].at = "idle"
      BY <2>2 DEF WaitInv, Idle
    <3> QED
      BY <3>1, MigrationFacts DEF WaitInv, Sending, TargetTypes
  <2> QED
    BY <2>1, <2>2 DEF NobodyStuck, WaitInv, Sending
<1> QED
  BY <1>1, TargetAlways, PTL

-----------------------------------------------------------------------------
(***************************************************************************)
(* The data.  Nothing of what follows holds after a failed commit and a    *)
(* crash: CommitLost.                                                      *)
(***************************************************************************)

AWrite(x) == x.op \in {"write", "fua"}

\* A device has the bio, or is about to have it, and the bio has data.
Carries(x) ==
  /\ Sending(x) /\ x.op # "flush"
  /\ x.at = "flush" => x.op = "fua"

(***************************************************************************)
(* The client: the blocks' versions, and what it knows of them.            *)
(***************************************************************************)
Valued ==
  /\ \A o \in Oblocks : origin[o] >= NoPromise /\ acked[o] >= NoPromise /\ acked[o] <= submits
  /\ \A c \in Cblocks : ssd[c][2] >= NoPromise

\* A write is newer than what is known to be done; nothing is promised of a block
\* that is being discarded.
Promised(x) ==
  /\ AWrite(x) => acked[x.o] < x.v /\ x.v <= submits
  /\ x.op = "read" => x.floor <= acked[x.o]
  /\ x.op = "discard" => acked[x.o] = NoPromise /\ ~Sending(x)
  /\ x.at = "flush" => x.op \in {"fua", "flush"}

\* The client has one write or discard of a block outstanding.
ClientInv ==
  /\ Valued
  /\ \A b, x \in Bios :
       /\ b # x /\ bios[b].at # "idle" /\ bios[x].at # "idle" /\ bios[b].o = bios[x].o
       /\ bios[b].op \in {"write", "fua", "discard"}
       => bios[x].op \in {"read", "flush"}
  /\ \A b \in Bios : bios[b].at # "idle" => Promised(bios[b])
  /\ \A o \in discard_bitset : acked[o] = NoPromise
  /\ \A b \in Bios : Carries(bios[b]) /\ AWrite(bios[b]) => bios[b].o \notin discard_bitset

(***************************************************************************)
(* The bios on their way: who waits for them, and where they go.           *)
(***************************************************************************)
Routed(x) ==
  /\ x.to \in {"origin", "cache", "both"}
  /\ x.to # "origin" => x.c \in Cblocks /\ meta[x.c] = x.o /\ mode # "passthrough"
  /\ x.to = "both" => AWrite(x) /\ x.c \notin dirty_bitset
  /\ x.to = "cache" /\ AWrite(x) => x.c \in dirty_bitset \/ origin[x.o] >= x.v
  /\ x.at = "writethrough" => x.to = "both" /\ origin[x.o] >= x.v
  /\ x.to = "origin" => \A c \in Cblocks : meta[c] = x.o => ~AWrite(x) /\ mode = "passthrough"

\* What is known of the bio that a migration holds.
HolderKnown(mg) ==
  /\ mg.holder # Null =>
       bios[mg.holder].o = IF mg.kind = "invalidate" THEN mg.old ELSE mg.new
  /\ mg.overwrite =>
       /\ AWrite(bios[mg.holder]) /\ bios[mg.holder].full
       /\ mg.c \in dirty_bitset /\ mg.new \notin discard_bitset
       /\ mg.phase # "copying" /\ ~mg.err => OnCache(mg.new, mg.c) >= bios[mg.holder].v

FlightInv ==
  /\ \A mg \in migrations, b \in Bios :
       Carries(bios[b]) /\ IsBlockOf(bios[b].o, mg) => b \in mg.waits
  /\ \A b \in Bios : Carries(bios[b]) => Routed(bios[b])
  /\ \A mg \in migrations : HolderKnown(mg)

(***************************************************************************)
(* The contents: a mapped block is current on the cache, and every other   *)
(* block, or one that is clean, on the origin.                             *)
(***************************************************************************)
CleanAtOrigin(o) == \A c \in Cblocks : meta[c] = o => c \notin dirty_bitset

Current(mg) ==
  /\ Moves(mg) => \A d \in Cblocks : meta[d] = mg.new => d = mg.c
  /\ mg.kind \in {"writeback", "demote"} =>
       /\ mg.phase \in {"copying", "completed"} => mg.c \in dirty_bitset
       /\ mg.phase = "completed" /\ ~mg.err => origin[mg.old] >= acked[mg.old]
  /\ mg.kind = "promote" =>
       /\ origin[mg.new] >= acked[mg.new]
       /\ mg.phase = "completed" /\ ~mg.err => OnCache(mg.new, mg.c) >= acked[mg.new]

ContentsInv ==
  /\ \A c, d \in Cblocks : meta[c] = meta[d] /\ meta[c] # Null => c = d
  /\ \A c \in Cblocks : meta[c] # Null => OnCache(meta[c], c) >= acked[meta[c]]
  /\ \A o \in Oblocks : CleanAtOrigin(o) => origin[o] >= acked[o]
  /\ \A mg \in migrations : Current(mg)

(***************************************************************************)
(* The commits: what is not on disk yet has a migration waiting for it, or *)
(* is a mapping that passthrough mode has dropped.                         *)
(***************************************************************************)
NotOnDisk(c) ==
  \/ mode = "passthrough" /\ meta[c] = Null
  \/ \E mg \in migrations :
       /\ mg.c = c /\ mg.phase = "need_commit"
       /\ disk[c] # Null => IsBlockOf(disk[c], mg)

CommitInv ==
  /\ meta # disk => commit_requested /\ stage \in {"copies", "commit"}
  /\ \A c \in Cblocks : disk[c] # meta[c] => NotOnDisk(c)
  /\ \A c, d \in Cblocks : disk[c] = disk[d] /\ disk[c] # Null => c = d
  /\ \A c \in Cblocks : disk[c] # Null => OnCache(disk[c], c) >= acked[disk[c]]
  /\ \A b \in Bios : Carries(bios[b]) /\ AWrite(bios[b]) =>
       \A c \in Cblocks : disk[c] = bios[b].o <=> meta[c] = bios[b].o

DataSound ==
  /\ ClientInv /\ FlightInv /\ ContentsInv
  /\ "commit" \notin faults => CommitInv

DataInv == ~CommitLost => DataSound

-----------------------------------------------------------------------------
(***************************************************************************)
(* Bios that a step leaves where they are, ends, keeps for later, or sends *)
(* on the way they are going.                                              *)
(***************************************************************************)
SameRequest(x, y) ==
  y.op = x.op /\ y.o = x.o /\ y.v = x.v /\ y.full = x.full /\ y.floor = x.floor

Kept(x, y) ==
  \/ y = x \/ y = Idle
  \/ /\ x.at # "idle" /\ SameRequest(x, y)
     /\ \/ y.at \in {"deferred", "waiting", "held"}
        \/ x.at = "flush" /\ y.at = "io" /\ y.to = x.to /\ y.c = x.c
        \/ x.at = "writethrough" /\ y.at = "io" /\ y.to = "cache" /\ y.c = x.c

AllKept == \A b \in Bios : Kept(bios[b], bios'[b])

LEMMA KeptCarries ==
  ASSUME NEW x, NEW y, Kept(x, y), Carries(y), x.at = "flush" => x.op \in {"fua", "flush"}
  PROVE  Carries(x) /\ SameRequest(x, y) /\ y.c = x.c
BY DEF Kept, Carries, Sending, SameRequest, Idle

\* Nobody would miss the block.
MayDiscard(o) ==
  /\ acked[o] = NoPromise
  /\ \A b \in Bios : bios[b].at # "idle" /\ AWrite(bios[b]) => bios[b].o # o

\* It is the same bio, and no nearer to a device.
Lasts(x, y) ==
  /\ x.at # "idle" /\ SameRequest(x, y)
  /\ Sending(y) => Sending(x)
  /\ y.at = "flush" => x.at = "flush"

LEMMA ClientLasts ==
  ASSUME TargetTypes, ClientInv, UNCHANGED <<acked, submits>>, Valued',
         \A b \in Bios : bios'[b].at # "idle" => Lasts(bios[b], bios'[b]),
         \A o \in discard_bitset' \ discard_bitset : MayDiscard(o)
  PROVE  ClientInv'
<1>1. ASSUME NEW b \in Bios, bios'[b].at # "idle"
      PROVE  bios[b].at # "idle" /\ SameRequest(bios[b], bios'[b])
  BY <1>1 DEF Lasts
<1>2. ASSUME NEW b \in Bios, bios'[b].at # "idle" PROVE Promised(bios[b])'
  <2>1. Promised(bios[b]) /\ Lasts(bios[b], bios'[b])
    BY <1>2 DEF ClientInv, Lasts
  <2> QED
    BY <2>1 DEF Promised, SameRequest, AWrite, Lasts
<1>3. ASSUME NEW b \in Bios, Carries(bios[b])', AWrite(bios[b])'
      PROVE  bios'[b].o \notin discard_bitset'
  <2>1. bios'[b].at # "idle"
    BY <1>3 DEF Carries, Sending
  <2>2. Carries(bios[b]) /\ SameRequest(bios[b], bios'[b]) /\ bios[b].at # "idle"
    BY <1>3, <2>1 DEF ClientInv, Promised, Lasts, Carries, SameRequest
  <2> QED
    BY <1>3, <2>2 DEF ClientInv, SameRequest, AWrite, MayDiscard
<1>4. ASSUME NEW b \in Bios, NEW x \in Bios, b # x, bios'[b].at # "idle", bios'[x].at # "idle",
             bios'[b].o = bios'[x].o, bios'[b].op \in {"write", "fua", "discard"}
      PROVE  bios'[x].op \in {"read", "flush"}
  BY <1>1, <1>4 DEF ClientInv, SameRequest
<1>5. \A o \in discard_bitset' : acked'[o] = NoPromise
  BY DEF ClientInv, MayDiscard
<1> QED
  BY <1>2, <1>3, <1>4, <1>5 DEF ClientInv

LEMMA KeptLasts ==
  ASSUME AllKept, NEW b \in Bios, bios'[b].at # "idle"
  PROVE  Lasts(bios[b], bios'[b])
BY DEF AllKept, Kept, Lasts, SameRequest, Sending, Idle

LEMMA ClientKept ==
  ASSUME TargetTypes, ClientInv, AllKept, UNCHANGED <<acked, submits>>, Valued',
         \A o \in discard_bitset' \ discard_bitset : MayDiscard(o)
  PROVE  ClientInv'
BY KeptLasts, ClientLasts

\* Nothing that has to do with the values changes, or only for less to be promised.
LEMMA ValuedKept ==
  ASSUME Valued, UNCHANGED <<data, acked, submits>>
  PROVE  Valued'
BY DEF Valued, data

\* Where a bio goes is right as long as its block is not moved.
LEMMA RoutedKept ==
  ASSUME TargetTypes, NEW b \in Bios, Kept(bios[b], bios'[b]), Carries(bios[b]),
         Carries(bios[b])', Routed(bios[b]), UNCHANGED mode,
         bios[b].to # "origin" =>
           /\ meta'[bios[b].c] = meta[bios[b].c]
           /\ bios[b].c \in dirty_bitset' <=> bios[b].c \in dirty_bitset,
         AWrite(bios[b]) => origin'[bios[b].o] = origin[bios[b].o],
         \A c \in Cblocks : meta'[c] = bios[b].o => meta[c] = bios[b].o
  PROVE  Routed(bios[b])'
<1>1. CASE bios'[b] = bios[b]
  BY <1>1 DEF Routed, AWrite
<1>2. CASE /\ SameRequest(bios[b], bios'[b]) /\ bios[b].at = "flush" /\ bios'[b].at = "io"
           /\ bios'[b].to = bios[b].to /\ bios'[b].c = bios[b].c
  BY <1>2 DEF Routed, SameRequest, AWrite
<1>3. CASE /\ SameRequest(bios[b], bios'[b]) /\ bios[b].at = "writethrough"
           /\ bios'[b].at = "io" /\ bios'[b].to = "cache" /\ bios'[b].c = bios[b].c
  BY <1>3 DEF Routed, SameRequest, AWrite
<1> QED
  BY <1>1, <1>2, <1>3 DEF Kept, Carries, Sending, Idle

(***************************************************************************)
(* What a step on a migration may change: its cache block and its blocks.  *)
(***************************************************************************)
Continues(n, mg) ==
  /\ n.c = mg.c /\ n.holder = mg.holder /\ n.new = mg.new /\ n.old \in {mg.old, Null}
  /\ n.kind = mg.kind \/ (mg.kind = "demote" /\ n.kind = "promote")
  /\ n.waits = {}

Touches(mg) ==
  /\ UNCHANGED <<mode, faults, submits>>
  /\ \A d \in Cblocks : d # mg.c =>
       /\ meta'[d] = meta[d] /\ ssd'[d] = ssd[d]
       /\ d \in dirty_bitset' <=> d \in dirty_bitset
  /\ \A o \in Oblocks :
       /\ IsBlockOf(o, mg) \/ origin'[o] = origin[o]
       /\ acked'[o] = acked[o] \/ (mg.kind = "promote" /\ o = mg.new)
  /\ \/ meta'[mg.c] \in {meta[mg.c], Null}
     \/ mg.kind = "promote" /\ meta'[mg.c] = mg.new
  /\ discard_bitset' \subseteq discard_bitset
  /\ AllKept
  /\ \A n \in migrations' : (n \in migrations /\ n # mg) \/ Continues(n, mg)
  /\ \A n \in migrations : n = mg \/ n \in migrations'

\* No bio with data is on its way to the blocks of a migration that waits for none.
LEMMA NoCarrier ==
  ASSUME TargetTypes, MapInv, FlightInv, NEW mg \in migrations, mg.waits = {},
         NEW b \in Bios, Carries(bios[b])
  PROVE  /\ ~IsBlockOf(bios[b].o, mg)
         /\ bios[b].to # "origin" => bios[b].c # mg.c
<1>1. ~IsBlockOf(bios[b].o, mg) /\ Routed(bios[b]) /\ Shaped(mg)
  BY DEF FlightInv, MapInv
<1>2. bios[b].o # Null
  <2>1. bios[b] \in BioRecords
    BY BioFacts DEF TargetTypes, Carries, Sending
  <2> QED
    BY <2>1, DmTargetAssumption DEF BioRecords
<1> QED
  BY <1>1, <1>2, MigrationFacts DEF Shaped, Routed, IsBlockOf, TargetTypes

LEMMA FlightTouched ==
  ASSUME TargetTypes, MapInv, WaitInv, WaitInv', ClientInv, FlightInv,
         NEW mg \in migrations, mg.waits = {}, Touches(mg),
         \A n \in migrations' : Continues(n, mg) => HolderKnown(n)'
  PROVE  FlightInv'
<1> USE DEF TargetTypes
<1>1. ASSUME NEW b \in Bios, Carries(bios[b])'
      PROVE  /\ Carries(bios[b]) /\ SameRequest(bios[b], bios'[b])
             /\ bios[b] \in BioRecords /\ ~IsBlockOf(bios[b].o, mg)
             /\ bios[b].to # "origin" => bios[b].c # mg.c
  <2>1. Carries(bios[b]) /\ SameRequest(bios[b], bios'[b])
    <3>1. bios[b].at = "flush" => bios[b].op \in {"fua", "flush"}
      BY DEF ClientInv, Promised
    <3> QED
      BY <1>1, <3>1, KeptCarries DEF Touches, AllKept
  <2> QED
    BY <2>1, NoCarrier, BioFacts DEF Carries, Sending
<1>2. ASSUME NEW b \in Bios, Carries(bios[b])' PROVE Routed(bios[b])'
  <2>1. Routed(bios[b]) /\ bios[b].o \in Oblocks /\ bios[b].o # mg.new
    BY <1>1, <1>2, DmTargetAssumption DEF FlightInv, BioRecords, IsBlockOf
  <2>2. \A c \in Cblocks : meta'[c] = bios[b].o => meta[c] = bios[b].o
    BY <2>1, DmTargetAssumption DEF Touches
  <2>3. bios[b].to # "origin" =>
          /\ meta'[bios[b].c] = meta[bios[b].c]
          /\ bios[b].c \in dirty_bitset' <=> bios[b].c \in dirty_bitset
    BY <1>1, <1>2, <2>1 DEF Touches, Routed
  <2>4. origin'[bios[b].o] = origin[bios[b].o] /\ mode' = mode /\ Kept(bios[b], bios'[b])
    BY <1>1, <1>2, <2>1 DEF Touches, AllKept
  <2> QED
    BY <1>1, <1>2, <2>1, <2>2, <2>3, <2>4, RoutedKept
<1>3. ASSUME NEW n \in migrations', NEW b \in Bios, Carries(bios[b])', IsBlockOf(bios'[b].o, n)
      PROVE  b \in n.waits
  BY <1>1, <1>3 DEF Touches, Continues, FlightInv, IsBlockOf, SameRequest
<1>4. ASSUME NEW n \in migrations', n \in migrations, n # mg PROVE HolderKnown(n)'
  <2>1. HolderKnown(n) /\ n.c # mg.c /\ n.c \in Cblocks /\ ssd'[n.c] = ssd[n.c]
    BY <1>4, MigrationFacts DEF FlightInv, MapInv, Touches
  <2>2. n.holder # Null => bios'[n.holder].at = "held" /\ n.holder \in Bios
    BY <1>4, MigrationFacts DEF WaitInv
  <2>3. n.holder # Null => SameRequest(bios[n.holder], bios'[n.holder])
    BY <2>2 DEF Touches, AllKept, Kept, SameRequest, Idle
  <2>4. n.overwrite => n.holder # Null
    BY <1>4, MigrationFacts DEF MapInv, Shaped
  <2>5. OnCache(n.new, n.c)' = OnCache(n.new, n.c)
    BY <2>1 DEF OnCache
  <2> QED
    BY <2>1, <2>3, <2>4, <2>5 DEF HolderKnown, SameRequest, AWrite, Touches
<1>5. ASSUME NEW n \in migrations' PROVE HolderKnown(n)'
  BY <1>4 DEF Touches
<1> QED
  BY <1>2, <1>3, <1>5 DEF FlightInv

\* What a cache block that is being moved maps is a block of its migration.
LEMMA MappedHere ==
  ASSUME TargetTypes, MapInv, NEW mg \in migrations, Touches(mg), NEW o \in Oblocks,
         ~IsBlockOf(o, mg)
  PROVE  /\ meta[mg.c] # o /\ meta'[mg.c] # o
         /\ \A d \in Cblocks : meta'[d] = o <=> meta[d] = o
<1>1. Shaped(mg) /\ o # Null /\ mg.old # o /\ mg.new # o
  BY DmTargetAssumption DEF MapInv, IsBlockOf
<1>2. meta[mg.c] # o /\ meta'[mg.c] # o
  BY <1>1, MigrationFacts DEF Shaped, Touches, TargetTypes
<1> QED
  BY <1>2 DEF Touches

LEMMA ContentsTouched ==
  ASSUME TargetTypes, MapInv, ContentsInv, NEW mg \in migrations, Touches(mg),
         meta' \in Mappings,
         meta'[mg.c] # Null => OnCache(meta[mg.c], mg.c)' >= acked'[meta'[mg.c]],
         \A o \in Oblocks : IsBlockOf(o, mg) /\ CleanAtOrigin(o)' => origin'[o] >= acked'[o],
         \A n \in migrations' : Continues(n, mg) => Current(n)'
  PROVE  ContentsInv'
<1> USE DEF TargetTypes
<1>1. mg.c \in Cblocks /\ Shaped(mg) /\ Current(mg)
  BY MigrationFacts DEF MapInv, ContentsInv
<1>2. \A d \in Cblocks : d # mg.c => meta'[d] = meta[d] /\ ssd'[d] = ssd[d]
  BY DEF Touches
<1>3. ASSUME NEW c \in Cblocks, NEW d \in Cblocks, meta'[c] = meta'[d], meta'[c] # Null, c # d
      PROVE  FALSE
  <2>0. c = mg.c \/ d = mg.c
    BY <1>2, <1>3 DEF ContentsInv
  <2>1. PICK e \in Cblocks : e # mg.c /\ meta[e] = meta'[mg.c] /\ meta[e] # Null
    BY <1>2, <1>3, <2>0
  <2>2. CASE meta'[mg.c] = meta[mg.c]
    BY <1>1, <2>1, <2>2 DEF ContentsInv
  <2>3. CASE mg.kind = "promote" /\ meta'[mg.c] = mg.new
    BY <1>1, <2>1, <2>3 DEF Current, Moves
  <2> QED
    BY <2>1, <2>2, <2>3 DEF Touches
<1>4. ASSUME NEW c \in Cblocks, meta'[c] # Null
      PROVE  OnCache(meta[c], c)' >= acked'[meta'[c]]
  <2>1. CASE c = mg.c
    BY <1>4, <2>1
  <2>2. CASE c # mg.c
    <3>1. meta[c] # Null /\ meta[c] \in Oblocks /\ OnCache(meta[c], c) >= acked[meta[c]]
      BY <1>2, <1>4, <2>2 DEF ContentsInv, MappingTypes, Mappings
    <3>2. OnCache(meta[c], c)' = OnCache(meta[c], c)
      BY <1>2, <2>2 DEF OnCache
    <3>3. acked'[meta[c]] = acked[meta[c]]
      BY <1>1, <2>2, <3>1 DEF Touches, Current, Moves
    <3> QED
      BY <1>2, <2>2, <3>1, <3>2, <3>3
  <2> QED
    BY <2>1, <2>2
<1>5. ASSUME NEW o \in Oblocks, CleanAtOrigin(o)' PROVE origin'[o] >= acked'[o]
  <2>1. CASE IsBlockOf(o, mg)
    BY <1>5, <2>1
  <2>2. CASE ~IsBlockOf(o, mg)
    <3>1. CleanAtOrigin(o)
      BY <1>5, <2>2, MappedHere DEF CleanAtOrigin, Touches
    <3>2. origin'[o] = origin[o] /\ acked'[o] = acked[o]
      BY <2>2, DmTargetAssumption DEF Touches, IsBlockOf
    <3> QED
      BY <3>1, <3>2 DEF ContentsInv
  <2> QED
    BY <2>1, <2>2
<1>6. ASSUME NEW n \in migrations', n \in migrations, n # mg PROVE Current(n)'
  <2>1. /\ Current(n) /\ Shaped(n) /\ n.c # mg.c /\ n.c \in Cblocks /\ ssd'[n.c] = ssd[n.c]
        /\ n.c \in dirty_bitset' <=> n.c \in dirty_bitset
    BY <1>6, MigrationFacts DEF ContentsInv, MapInv, Touches
  <2>2. /\ n.old \in Oblocks => ~IsBlockOf(n.old, mg)
        /\ n.new \in Oblocks => ~IsBlockOf(n.new, mg)
    BY <1>6, DmTargetAssumption DEF MapInv, IsBlockOf
  <2>3. \A o \in {n.old, n.new} \ {Null} : /\ o \in Oblocks /\ origin'[o] = origin[o] /\ acked'[o] = acked[o]
                                        /\ \A d \in Cblocks : meta'[d] = o <=> meta[d] = o
    BY <1>6, <2>2, MigrationFacts, MappedHere DEF Touches, IsBlockOf
  <2>4. OnCache(n.new, n.c)' = OnCache(n.new, n.c)
    BY <2>1 DEF OnCache
  <2> QED
    BY <2>1, <2>3, <2>4, DmTargetAssumption DEF Current, Shaped, Moves
<1> QED
  BY <1>3, <1>4, <1>5, <1>6 DEF ContentsInv, Touches

LEMMA CommitTouched ==
  ASSUME TargetTypes, MapInv, ClientInv, FlightInv, CommitInv, disk' = disk,
         NEW mg \in migrations, mg.waits = {}, Touches(mg),
         meta' # disk => commit_requested' /\ stage' \in {"copies", "commit"},
         disk[mg.c] # meta'[mg.c] => NotOnDisk(mg.c)',
         disk[mg.c] # Null => OnCache(disk[mg.c], mg.c)' >= acked'[disk[mg.c]],
         \A d \in Cblocks : d # mg.c /\ disk[d] # Null => acked'[disk[d]] = acked[disk[d]]
  PROVE  CommitInv'
<1> USE DEF TargetTypes
<1>1. ASSUME NEW c \in Cblocks, disk[c] # meta'[c] PROVE NotOnDisk(c)'
  <2>1. CASE c = mg.c
    BY <1>1, <2>1
  <2>2. CASE c # mg.c
    <3>1. NotOnDisk(c) /\ meta'[c] = meta[c] /\ mode' = mode
      BY <1>1, <2>2 DEF CommitInv, Touches
    <3>2. \A n \in migrations : n.c = c => n \in migrations'
      BY <2>2 DEF Touches
    <3> QED
      BY <3>1, <3>2 DEF NotOnDisk
  <2> QED
    BY <2>1, <2>2
<1>2. ASSUME NEW c \in Cblocks, disk[c] # Null PROVE OnCache(disk[c], c)' >= acked'[disk[c]]
  <2>1. CASE c = mg.c
    BY <1>2, <2>1
  <2>2. CASE c # mg.c
    <3>1. OnCache(disk[c], c)' = OnCache(disk[c], c)
      BY <2>2 DEF OnCache, Touches
    <3> QED
      BY <1>2, <2>2, <3>1 DEF CommitInv
  <2> QED
    BY <2>1, <2>2
<1>3. ASSUME NEW b \in Bios, Carries(bios[b])', AWrite(bios'[b]), NEW c \in Cblocks
      PROVE  disk[c] = bios'[b].o <=> meta'[c] = bios'[b].o
  <2>1. Carries(bios[b]) /\ SameRequest(bios[b], bios'[b])
    <3>1. bios[b].at = "flush" => bios[b].op \in {"fua", "flush"}
      BY DEF ClientInv, Promised
    <3> QED
      BY <1>3, <3>1, KeptCarries DEF Touches, AllKept
  <2>2. bios[b].o \in Oblocks /\ ~IsBlockOf(bios[b].o, mg)
    BY <2>1, NoCarrier, BioFacts DEF Carries, Sending, BioRecords
  <2>3. meta'[c] = bios[b].o <=> meta[c] = bios[b].o
    BY <2>2, MappedHere
  <2>4. disk[c] = bios[b].o <=> meta[c] = bios[b].o
    BY <1>3, <2>1 DEF CommitInv, SameRequest, AWrite
  <2> QED
    BY <2>1, <2>3, <2>4 DEF SameRequest
<1>4. meta' # disk' => commit_requested' /\ stage' \in {"copies", "commit"}
  OBVIOUS
<1>5. \A c, d \in Cblocks : disk'[c] = disk'[d] /\ disk'[c] # Null => c = d
  BY DEF CommitInv
<1> QED
  BY <1>1, <1>2, <1>3, <1>4, <1>5 DEF CommitInv

\* The copying of a block is over before the disk says otherwise than the metadata.
LEMMA CommittedYet ==
  ASSUME TargetTypes, MapInv, CommitInv, NEW mg \in migrations, mg.phase # "need_commit"
  PROVE  disk[mg.c] = meta[mg.c] \/ (mode = "passthrough" /\ meta[mg.c] = Null)
BY MigrationFacts DEF CommitInv, NotOnDisk, MapInv, TargetTypes

-----------------------------------------------------------------------------
(***************************************************************************)
(* Migrations.                                                             *)
(***************************************************************************)
\* A copy is over, or was not needed: both places have what is promised of the block.
CopyDone(mg) ==
  \/ mg.phase = "completed" /\ ~mg.err
  \/ mg.phase = "quiescing" /\ avoids_copy(mg)

LEMMA CopyDoneFacts ==
  ASSUME TargetTypes, MapInv, ClientInv, ContentsInv, NEW mg \in migrations, CopyDone(mg)
  PROVE  /\ mg.kind \in {"writeback", "demote"} => origin[mg.old] >= acked[mg.old]
         /\ mg.kind = "promote" => OnCache(mg.new, mg.c) >= acked[mg.new]
<1> USE DEF TargetTypes
<1>1. Current(mg) /\ Shaped(mg) /\ mg.c \in Cblocks
  BY MigrationFacts DEF ContentsInv, MapInv
<1>2. ASSUME mg.kind \in {"writeback", "demote"} PROVE origin[mg.old] >= acked[mg.old]
  <2>1. mg.old \in Oblocks
    BY <1>1, <1>2, MigrationFacts DEF Shaped
  <2>2. CASE mg.phase = "completed" /\ ~mg.err
    BY <1>1, <1>2, <2>2 DEF Current
  <2>3. CASE mg.old \in discard_bitset
    BY <2>1, <2>3 DEF ClientInv, Valued
  <2>4. CASE mg.c \notin dirty_bitset /\ mg.phase = "quiescing"
    <3>1. CASE meta[mg.c] = mg.old
      <4>1. CleanAtOrigin(mg.old)
        BY <1>1, <2>1, <2>4, <3>1, DmTargetAssumption DEF CleanAtOrigin, ContentsInv
      <4> QED
        BY <2>1, <4>1 DEF ContentsInv
    <3> QED
      BY <1>1, <1>2, <2>4, <3>1 DEF Shaped, PastCommit
  <2> QED
    BY <1>2, <2>2, <2>3, <2>4 DEF CopyDone, avoids_copy, is_discarded_oblock
<1>3. ASSUME mg.kind = "promote" PROVE OnCache(mg.new, mg.c) >= acked[mg.new]
  <2>1. OnCache(mg.new, mg.c) >= NoPromise
    BY <1>1 DEF OnCache, ClientInv, Valued, NoPromise
  <2>2. CASE mg.new \in discard_bitset
    BY <2>1, <2>2 DEF ClientInv
  <2> QED
    BY <1>1, <1>3, <2>2 DEF CopyDone, avoids_copy, is_discarded_oblock, Current
<1> QED
  BY <1>2, <1>3

\* The migration goes on as next, or not at all.
LEMMA Becoming ==
  ASSUME TargetTypes, MapInv, NEW mg \in migrations
  PROVE  /\ migrations' = migrations \ {mg} =>
              /\ \A n \in migrations' : n \in migrations /\ n # mg /\ ~Continues(n, mg)
              /\ \A n \in migrations : n = mg \/ n \in migrations'
         /\ \A next : Becomes(mg, next) =>
              /\ \A n \in migrations' : n = next \/ (n \in migrations /\ n # mg /\ ~Continues(n, mg))
              /\ \A n \in migrations : n = mg \/ n \in migrations'
<1>1. \A n \in migrations : n # mg => ~Continues(n, mg)
  BY DEF Continues, MapInv
<1> QED
  BY <1>1 DEF Becomes

\* Those who wait for a cell, and the holder, are kept.
LEMMA DeferKeeps ==
  ASSUME TargetTypes, WaitInv, NEW os, NEW holder, cell_defer(os, holder),
         holder \in Bios => bios[holder].at # "idle"
  PROVE  AllKept
<1>1. ASSUME NEW b \in Bios PROVE Kept(bios[b], bios'[b])
  <2>1. CASE bios'[b] = bios[b]
    BY <2>1 DEF Kept
  <2>2. CASE bios'[b] = Deferred(b) /\ bios[b].at # "idle"
    BY <2>2, DeferredFacts DEF Kept, SameRequest, TargetTypes
  <2> QED
    BY <2>1, <2>2, DeferFacts
<1> QED
  BY <1>1 DEF AllKept

\* A step on a migration that changes neither the contents nor the metadata.
LEMMA StaysData ==
  ASSUME TargetInv, TargetInv', DataSound, NEW mg \in migrations, mg.waits = {},
         mg.phase # "need_commit", AllKept,
         UNCHANGED <<mode, faults, data, meta, disk, stage, commit_requested, acked, session>>,
         \A d \in Cblocks : d # mg.c => (d \in dirty_bitset' <=> d \in dirty_bitset),
         discard_bitset' \subseteq discard_bitset,
         \A o \in Oblocks : IsBlockOf(o, mg) /\ CleanAtOrigin(o)' => origin[o] >= acked[o],
         \A n \in migrations' : (n \in migrations /\ n # mg) \/ Continues(n, mg),
         \A n \in migrations : n = mg \/ n \in migrations',
         \A n \in migrations' : Continues(n, mg) => HolderKnown(n)' /\ Current(n)'
  PROVE  DataSound'
<1> USE DEF TargetInv, TargetTypes
<1>1. /\ ClientInv /\ FlightInv /\ ContentsInv /\ mg.c \in Cblocks
      /\ acked' = acked /\ origin' = origin /\ ssd' = ssd
  BY MigrationFacts DEF DataSound, data
<1>2. Touches(mg)
  BY DEF Touches, data, session
<1>3. Valued' /\ \A o \in Oblocks, c \in Cblocks : OnCache(o, c)' = OnCache(o, c)
  BY <1>1, ValuedKept DEF ClientInv, data, session, OnCache
<1>4. ClientInv'
  BY <1>1, <1>3, ClientKept DEF session
<1>5. FlightInv'
  BY <1>1, <1>2, FlightTouched
<1>6. ContentsInv'
  <2>1. meta'[mg.c] # Null => OnCache(meta[mg.c], mg.c)' >= acked'[meta'[mg.c]]
    BY <1>1, <1>3 DEF ContentsInv, MappingTypes, Mappings
  <2> QED
    BY <1>1, <1>2, <2>1, ContentsTouched DEF MappingTypes
<1>7. ASSUME "commit" \notin faults PROVE CommitInv'
  <2>1. CommitInv
    BY <1>7 DEF DataSound
  <2>2. disk[mg.c] # meta'[mg.c] => NotOnDisk(mg.c)'
    BY <2>1, CommittedYet DEF NotOnDisk
  <2>3. meta' # disk => commit_requested' /\ stage' \in {"copies", "commit"}
    BY <2>1 DEF CommitInv
  <2>4. disk[mg.c] # Null => OnCache(disk[mg.c], mg.c)' >= acked'[disk[mg.c]]
    BY <1>1, <1>3, <2>1 DEF CommitInv, MappingTypes, Mappings
  <2> QED
    BY <1>1, <1>2, <2>1, <2>2, <2>3, <2>4, CommitTouched
<1> QED
  BY <1>4, <1>5, <1>6, <1>7 DEF DataSound

LEMMA PreCommitData ==
  ASSUME TargetInv, TargetInv', DataSound, NEW mg \in migrations, mg.waits = {},
         stage = "copies", CopyDone(mg), migration_success_pre_commit(mg),
         UNCHANGED <<mode, faults, data, stage, acked, session>>
  PROVE  DataSound'
<1> USE DEF TargetInv, TargetTypes
<1>1. /\ ClientInv /\ FlightInv /\ ContentsInv /\ Shaped(mg) /\ Current(mg) /\ HolderKnown(mg)
      /\ mg.c \in Cblocks /\ mg \in MigrationRecords
      /\ mg.old \in Oblocks \cup {Null} /\ mg.new \in Oblocks \cup {Null}
  BY MigrationFacts DEF DataSound, ContentsInv, MapInv, FlightInv
<1>2. /\ mg.kind \in {"writeback", "demote"} => origin[mg.old] >= acked[mg.old]
      /\ mg.kind = "promote" => OnCache(mg.new, mg.c) >= acked[mg.new]
  BY <1>1, CopyDoneFacts
<1>3. mg.phase \in {"quiescing", "completed"} /\ ~mg.err /\ ~PastCommit(mg)
      /\ (mg.phase = "quiescing" => ~mg.overwrite)
  BY <1>1 DEF CopyDone, Shaped, PastCommit
<1>4. Valued' /\ \A o \in Oblocks, c \in Cblocks : OnCache(o, c)' = OnCache(o, c)
  BY <1>1, ValuedKept DEF ClientInv, data, session, OnCache
<1>5. /\ \A c \in Cblocks : meta[c] # Null => OnCache(meta[c], c) >= acked[meta[c]]
      /\ "commit" \notin faults =>
           \A c \in Cblocks : disk[c] # Null => OnCache(disk[c], c) >= acked[disk[c]]
      /\ "commit" \notin faults => disk[mg.c] = meta[mg.c] \/ (mode = "passthrough" /\ meta[mg.c] = Null)
  BY <1>1, <1>3, CommittedYet DEF ContentsInv, DataSound, CommitInv, PastCommit
\* The migration ends, and the metadata stay as they are.
<1>6. ASSUME migrations' = migrations \ {mg}, UNCHANGED <<meta, disk, commit_requested, discard_bitset>>,
             AllKept, dirty_bitset' = dirty_bitset \/ (/\ mg.kind = "writeback"
                                                      /\ dirty_bitset' = dirty_bitset \ {mg.c})
      PROVE  DataSound'
  <2>1. \A o \in Oblocks : IsBlockOf(o, mg) /\ CleanAtOrigin(o)' => origin[o] >= acked[o]
    <3>1. ASSUME NEW o \in Oblocks, IsBlockOf(o, mg), CleanAtOrigin(o)' PROVE origin[o] >= acked[o]
      <4>1. CASE dirty_bitset' = dirty_bitset
        BY <1>1, <1>6, <3>1, <4>1 DEF CleanAtOrigin, ContentsInv
      <4>2. CASE mg.kind = "writeback"
        BY <1>1, <1>2, <3>1, <4>2 DEF IsBlockOf, Shaped
      <4> QED
        BY <1>6, <4>1, <4>2
    <3> QED
      BY <3>1
  <2> QED
    BY <1>1, <1>3, <1>6, <2>1, Becoming, StaysData DEF PastCommit
<1>7. CASE /\ mg.kind = "writeback"
           /\ dirty_bitset' = dirty_bitset \ {mg.c}
           /\ cell_defer({mg.old}, Null)
           /\ migrations' = migrations \ {mg}
           /\ UNCHANGED <<mapping, discard_bitset, commit_requested>>
  <2>1. AllKept
    BY <1>7, DeferKeeps, DmTargetAssumption
  <2> QED
    BY <1>6, <1>7, <2>1 DEF mapping
<1>8. CASE /\ "metadata" \in faults
           /\ IF mg.kind = "demote" THEN cell_defer({mg.new}, mg.holder) ELSE UNCHANGED <<cells, bios>>
           /\ migrations' = migrations \ {mg}
           /\ UNCHANGED <<meta, disk, bits, commit_requested>>
  <2>1. AllKept
    <3>1. CASE mg.kind = "demote"
      BY <1>8, <3>1, DeferKeeps, HolderFacts
    <3>2. CASE bios' = bios
      BY <3>2 DEF AllKept, Kept
    <3> QED
      BY <1>8, <3>1, <3>2
  <2> QED
    BY <1>6, <1>8, <2>1 DEF bits
\* The metadata change.
<1>9. CASE /\ mg.kind # "writeback"
           /\ meta' = [meta EXCEPT ![mg.c] = IF mg.kind = "promote" THEN mg.new ELSE Null]
           /\ Becomes(mg, [mg EXCEPT !.phase = "need_commit"])
           /\ commit_requested' = TRUE
           /\ UNCHANGED <<policy, inflight, disk, bits, cells, bios>>
  <2>0. PICK next : next = [mg EXCEPT !.phase = "need_commit"]
    OBVIOUS
  <2>1. /\ next.kind = mg.kind /\ next.c = mg.c /\ next.old = mg.old /\ next.new = mg.new
        /\ next.holder = mg.holder /\ next.waits = {} /\ next.phase = "need_commit"
        /\ next.err = mg.err /\ next.overwrite = mg.overwrite
    BY <1>1, <2>0 DEF MigrationRecords
  <2>2. /\ \A n \in migrations' : n = next \/ (n \in migrations /\ n # mg /\ ~Continues(n, mg))
        /\ \A n \in migrations : n = mg \/ n \in migrations'
        /\ next \in migrations'
    BY <1>9, <2>0, Becoming DEF Becomes
  <2>3. /\ meta'[mg.c] = IF mg.kind = "promote" THEN mg.new ELSE Null
        /\ \A d \in Cblocks : d # mg.c => meta'[d] = meta[d]
        /\ meta' \in Mappings
    BY <1>1, <1>9 DEF MappingTypes, Mappings
  <2>4. AllKept /\ Touches(mg)
    BY <1>9, <2>1, <2>2, <2>3 DEF AllKept, Kept, Touches, Continues, data, bits, session
  <2>5. ClientInv'
    BY <1>1, <1>4, <1>9, <2>4, ClientKept DEF session, bits
  <2>6. HolderKnown(next)'
    <3>1. next.overwrite => OnCache(mg.new, mg.c) >= bios[mg.holder].v
      BY <1>1, <1>3, <2>1 DEF HolderKnown
    <3> QED
      BY <1>1, <1>9, <2>1, <3>1 DEF HolderKnown, bits, OnCache, data
  <2>7. FlightInv'
    BY <1>1, <2>2, <2>4, <2>6, FlightTouched
  <2>8. Current(next)'
    BY <1>1, <2>1, <2>3 DEF Current, Moves, data, Shaped
  <2>9. \A o \in Oblocks : IsBlockOf(o, mg) /\ CleanAtOrigin(o)' => origin'[o] >= acked'[o]
    <3>1. ASSUME NEW o \in Oblocks, IsBlockOf(o, mg), CleanAtOrigin(o)' PROVE origin[o] >= acked[o]
      <4>1. CASE mg.kind \in {"promote", "invalidate"}
        <5>1. \A d \in Cblocks : meta[d] = o => meta'[d] = o \/ d \notin dirty_bitset
          BY <1>1, <2>3, <3>1, <4>1 DEF Shaped, IsBlockOf, MapInv
        <5> QED
          BY <1>1, <1>9, <3>1, <5>1 DEF CleanAtOrigin, ContentsInv, bits
      <4>2. CASE mg.kind = "demote" /\ o = mg.old
        BY <1>2, <4>2
      <4>3. CASE mg.kind = "demote" /\ o = mg.new
        <5>1. CleanAtOrigin(o)
          BY <1>1, <1>3, <3>1, <4>3 DEF Current, Moves, Shaped, CleanAtOrigin
        <5> QED
          BY <1>1, <5>1 DEF ContentsInv
      <4> QED
        BY <1>1, <1>9, <3>1, <4>1, <4>2, <4>3 DEF IsBlockOf, MigrationRecords
    <3> QED
      BY <3>1 DEF data
  <2>10. ContentsInv'
    <3>1. meta'[mg.c] # Null => OnCache(meta[mg.c], mg.c)' >= acked'[meta'[mg.c]]
      BY <1>1, <1>2, <1>4, <2>3
    <3> QED
      BY <1>1, <2>2, <2>3, <2>4, <2>8, <2>9, <3>1, ContentsTouched
  <2>11. ASSUME "commit" \notin faults PROVE CommitInv'
    <3>1. CommitInv
      BY <2>11 DEF DataSound
    <3>2. NotOnDisk(mg.c)'
      <4>1. CASE mode = "passthrough"
        BY <1>1, <2>3, <4>1 DEF NotOnDisk, Shaped
      <4>2. CASE mode # "passthrough"
        <5>1. disk[mg.c] = meta[mg.c] /\ mg.kind \in {"promote", "demote"} /\ mg.kind = next.kind
          BY <1>1, <1>5, <1>9, <2>1, <2>11, <4>2 DEF Shaped, MigrationRecords
        <5>2. disk[mg.c] # Null => IsBlockOf(disk[mg.c], next)
          BY <1>1, <1>3, <2>1, <5>1 DEF IsBlockOf, Shaped
        <5> QED
          BY <1>9, <2>1, <2>2, <5>2 DEF NotOnDisk
      <4> QED
        BY <4>1, <4>2
    <3>3. meta' # disk => commit_requested' /\ stage' \in {"copies", "commit"}
      BY <1>9
    <3>4. disk[mg.c] # Null => OnCache(disk[mg.c], mg.c)' >= acked'[disk[mg.c]]
      BY <1>1, <1>4, <1>5, <1>9, <2>11 DEF MappingTypes, Mappings
    <3> QED
      BY <1>1, <1>9, <2>4, <3>1, <3>2, <3>3, <3>4, CommitTouched
  <2> QED
    BY <2>5, <2>7, <2>10, <2>11 DEF DataSound
<1> QED
  BY <1>7, <1>8, <1>9 DEF migration_success_pre_commit

LEMMA IssueData ==
  ASSUME TargetInv, TargetInv', DataSound, NEW mg \in migrations, issue_copy(mg)
  PROVE  DataSound'
<1> USE DEF TargetInv, TargetTypes
<1>1. /\ mg.phase = "quiescing" /\ mg.waits = {} /\ stage = "copies"
      /\ ContentsInv /\ Shaped(mg) /\ Current(mg) /\ HolderKnown(mg)
      /\ mg.c \in Cblocks /\ mg \in MigrationRecords
      /\ UNCHANGED <<mode, faults, data, stage, acked, session>>
  BY MigrationFacts DEF issue_copy, quiesced, DataSound, ContentsInv, MapInv, FlightInv
<1>2. CASE avoids_copy(mg) /\ migration_success_pre_commit(mg)
  BY <1>1, <1>2, PreCommitData DEF CopyDone
<1>3. ASSUME NEW next, Becomes(mg, next), Continues(next, mg), next.kind = mg.kind,
             next.old = mg.old, next.phase = "copying", ~next.err,
             \/ overwrites(mg) /\ dirty_bitset' = dirty_bitset \cup {mg.c} /\ clear_discard(mg.new)
             \/ ~avoids_copy(mg) /\ ~next.overwrite /\ UNCHANGED bits,
             UNCHANGED <<mapping, cells, bios, commit_requested>>
      PROVE  DataSound'
  <2>1. HolderKnown(next)'
    BY <1>1, <1>3
    DEF HolderKnown, Continues, overwrites, IsWrite, AWrite, clear_discard, Shaped
  <2>2. Current(next)'
    BY <1>1, <1>3
    DEF Current, Continues, Moves, avoids_copy, overwrites, data, bits, mapping, OnCache
  <2>3. AllKept
    BY <1>3 DEF AllKept, Kept
  <2>4. \A o \in Oblocks : IsBlockOf(o, mg) /\ CleanAtOrigin(o)' => origin[o] >= acked[o]
    BY <1>1, <1>3 DEF CleanAtOrigin, ContentsInv, mapping, bits
  <2>5. /\ \A d \in Cblocks : d # mg.c => (d \in dirty_bitset' <=> d \in dirty_bitset)
        /\ discard_bitset' \subseteq discard_bitset
    BY <1>3 DEF clear_discard, bits
  <2>6. /\ \A n \in migrations' : (n \in migrations /\ n # mg) \/ Continues(n, mg)
        /\ \A n \in migrations : n = mg \/ n \in migrations'
        /\ \A n \in migrations' : Continues(n, mg) => HolderKnown(n)' /\ Current(n)'
    BY <1>3, <2>1, <2>2, Becoming
  <2> QED
    BY <1>1, <1>3, <2>3, <2>4, <2>5, <2>6, StaysData DEF mapping
<1>4. CASE /\ overwrites(mg)
           /\ dirty_bitset' = dirty_bitset \cup {mg.c}
           /\ clear_discard(mg.new)
           /\ Becomes(mg, [mg EXCEPT !.phase = "copying", !.overwrite = TRUE])
           /\ UNCHANGED <<mapping, cells, bios, commit_requested>>
  <2>1. PICK next : next = [mg EXCEPT !.phase = "copying", !.overwrite = TRUE]
    OBVIOUS
  <2>2. /\ Continues(next, mg) /\ next.kind = mg.kind /\ next.old = mg.old
        /\ next.phase = "copying" /\ ~next.err
    BY <1>1, <2>1 DEF Continues, MigrationRecords, Shaped
  <2> QED
    BY <1>3, <1>4, <2>1, <2>2
<1>5. CASE /\ ~avoids_copy(mg) /\ ~overwrites(mg)
           /\ Becomes(mg, [mg EXCEPT !.phase = "copying"])
           /\ UNCHANGED <<mapping, bits, cells, bios, commit_requested>>
  <2>1. PICK next : next = [mg EXCEPT !.phase = "copying"]
    OBVIOUS
  <2>2. /\ Continues(next, mg) /\ next.kind = mg.kind /\ next.old = mg.old
        /\ next.phase = "copying" /\ ~next.err /\ ~next.overwrite
    BY <1>1, <2>1 DEF Continues, MigrationRecords, Shaped
  <2> QED
    BY <1>3, <1>5, <2>1, <2>2
<1> QED
  BY <1>2, <1>4, <1>5 DEF issue_copy

LEMMA CopyData ==
  ASSUME TargetInv, TargetInv', DataSound, NEW mg \in migrations, NEW err \in BOOLEAN,
         copy_complete(mg, err)
  PROVE  DataSound'
<1> USE DEF TargetInv, TargetTypes
<1>1. /\ ClientInv /\ FlightInv /\ ContentsInv /\ Shaped(mg) /\ Current(mg) /\ HolderKnown(mg)
      /\ mg.c \in Cblocks /\ mg \in MigrationRecords /\ mg.phase = "copying" /\ mg.waits = {}
      /\ mg.old \in Oblocks \cup {Null} /\ mg.new \in Oblocks \cup {Null}
      /\ UNCHANGED <<mode, faults, mapping, bits, cells, bios, stage, commit_requested, acked, session>>
      /\ mg.kind \in {"writeback", "demote", "promote"}
      /\ mg.kind = "promote" => mg.new \in Oblocks /\ meta[mg.c] = Null /\ UNCHANGED origin
      /\ mg.kind # "promote" =>
           mg.old \in Oblocks /\ meta[mg.c] = mg.old /\ mg.c \in dirty_bitset /\ UNCHANGED ssd
  BY MigrationFacts
  DEF DataSound, ContentsInv, MapInv, WaitInv, FlightInv, copy_complete, Shaped, PastCommit, Current
<1>2. PICK next : next = [mg EXCEPT !.phase = "completed", !.err = err]
  OBVIOUS
<1>3. /\ next.kind = mg.kind /\ next.c = mg.c /\ next.old = mg.old /\ next.new = mg.new
      /\ next.holder = mg.holder /\ next.waits = {} /\ next.phase = "completed"
      /\ next.err = err /\ next.overwrite = mg.overwrite
  BY <1>1, <1>2 DEF MigrationRecords
<1>4. /\ \A n \in migrations' : n = next \/ (n \in migrations /\ n # mg /\ ~Continues(n, mg))
      /\ \A n \in migrations : n = mg \/ n \in migrations'
  BY <1>2, Becoming DEF copy_complete
<1>5. mg.overwrite =>
        /\ Written(mg.holder, OnCache(mg.new, mg.c)) = bios[mg.holder].v
        /\ bios[mg.holder].v >= acked[mg.new] /\ bios[mg.holder].v \in Int
  <2>1. ASSUME mg.overwrite
        PROVE  /\ Written(mg.holder, OnCache(mg.new, mg.c)) = bios[mg.holder].v
               /\ bios[mg.holder].v >= acked[mg.new] /\ bios[mg.holder].v \in Int
    <3>1. mg.kind = "promote" /\ mg.holder \in Bios /\ bios[mg.holder].at = "held"
      BY <1>1, <2>1, HolderFacts DEF Shaped
    <3>2. Promised(bios[mg.holder]) /\ AWrite(bios[mg.holder]) /\ bios[mg.holder] \in BioRecords
          /\ bios[mg.holder].full /\ bios[mg.holder].o = mg.new
      BY <1>1, <2>1, <3>1, BioFacts DEF ClientInv, HolderKnown, Shaped
    <3> QED
      BY <1>1, <3>1, <3>2 DEF Written, Promised, DataTypes, BioRecords
  <2> QED
    BY <2>1
\* What the copy leaves, if it does not fail.
<1>6. /\ mg.kind = "promote" =>
           /\ OnCache(mg.new, mg.c)' =
                IF err THEN NoPromise ELSE IF mg.overwrite THEN bios[mg.holder].v ELSE origin[mg.new]
           /\ \A d \in Cblocks : d # mg.c => ssd'[d] = ssd[d]
      /\ mg.kind # "promote" =>
           /\ origin'[mg.old] = IF err THEN NoPromise ELSE OnCache(mg.old, mg.c)
           /\ \A o \in Oblocks : o # mg.old => origin'[o] = origin[o]
  BY <1>1, <1>5 DEF copy_complete, OnCache, DataTypes
<1>7. Valued'
  <2>1. /\ \A o \in Oblocks : origin[o] >= NoPromise /\ acked[o] \in Int /\ acked[o] >= NoPromise
        /\ \A c \in Cblocks : ssd[c][2] >= NoPromise
        /\ NoPromise \in Int
    BY <1>1 DEF ClientInv, Valued, DataTypes, NoPromise
  <2>2. CASE mg.kind = "promote"
    <3>1. ssd'[mg.c][2] = OnCache(mg.new, mg.c)'
      BY <1>1, <2>2 DEF copy_complete, OnCache, DataTypes
    <3>2. ssd'[mg.c][2] >= NoPromise
      BY <1>1, <1>5, <1>6, <2>1, <2>2, <3>1 DEF DataTypes
    <3> QED
      BY <1>1, <1>6, <2>1, <2>2, <3>2 DEF ClientInv, Valued, session
  <2>3. CASE mg.kind # "promote"
    <3>1. origin'[mg.old] >= NoPromise
      BY <1>1, <1>6, <2>1, <2>3 DEF OnCache
    <3> QED
      BY <1>1, <1>6, <2>1, <2>3, <3>1 DEF ClientInv, Valued, session
  <2> QED
    BY <2>2, <2>3
<1>8. AllKept /\ Touches(mg)
  <2>1. AllKept
    BY <1>1 DEF AllKept, Kept
  <2>2. \A o \in Oblocks : IsBlockOf(o, mg) \/ origin'[o] = origin[o]
    BY <1>1, <1>6, DmTargetAssumption DEF IsBlockOf
  <2> QED
    BY <1>1, <1>3, <1>4, <1>6, <2>1, <2>2 DEF Touches, Continues, mapping, bits, session
<1>9. ClientInv'
  BY <1>1, <1>7, <1>8, ClientKept DEF bits, session
<1>10. HolderKnown(next)'
  BY <1>1, <1>3, <1>5, <1>6 DEF HolderKnown, bits, Shaped
<1>11. FlightInv'
  BY <1>1, <1>4, <1>8, <1>10, FlightTouched
<1>12. Current(next)'
  <2>1. OnCache(mg.old, mg.c) >= acked[mg.old] \/ mg.kind = "promote"
    BY <1>1, DmTargetAssumption DEF ContentsInv
  <2>2. mg.kind = "promote" => acked'[mg.new] = acked[mg.new] /\ origin[mg.new] >= acked[mg.new]
                               /\ acked[mg.new] \in Int
    BY <1>1 DEF Current, DataTypes
  <2>3. \A d \in Cblocks : meta'[d] = meta[d]
    BY <1>1 DEF mapping
  <2>4. ASSUME mg.kind = "promote", ~err PROVE OnCache(mg.new, mg.c)' >= acked'[mg.new]
    BY <1>1, <1>5, <1>6, <2>2, <2>4 DEF BioRecords
  <2> QED
    BY <1>1, <1>3, <1>6, <2>1, <2>2, <2>3, <2>4 DEF Current, Moves, bits
<1>13. \A o \in Oblocks : IsBlockOf(o, mg) /\ CleanAtOrigin(o)' => origin'[o] >= acked'[o]
  <2>1. ASSUME NEW o \in Oblocks, IsBlockOf(o, mg), CleanAtOrigin(o)' PROVE origin'[o] >= acked'[o]
    <3>1. CleanAtOrigin(o)
      BY <1>1, <2>1 DEF CleanAtOrigin, mapping, bits
    <3>2. o # mg.old \/ mg.kind = "promote"
      BY <1>1, <3>1 DEF CleanAtOrigin
    <3> QED
      BY <1>1, <1>6, <3>1, <3>2 DEF ContentsInv
  <2> QED
    BY <2>1
<1>14. ContentsInv'
  <2>1. meta'[mg.c] # Null => OnCache(meta[mg.c], mg.c)' >= acked'[meta'[mg.c]]
    BY <1>1 DEF ContentsInv, OnCache, mapping
  <2> QED
    BY <1>1, <1>4, <1>8, <1>12, <1>13, <2>1, ContentsTouched DEF MappingTypes
<1>15. ASSUME "commit" \notin faults PROVE CommitInv'
  <2>1. CommitInv /\ disk' = disk
    BY <1>1, <1>15 DEF DataSound, mapping
  <2>2. disk[mg.c] = meta[mg.c]
    BY <1>1, <2>1, CommittedYet DEF Shaped
  <2>3. meta' # disk => commit_requested' /\ stage' \in {"copies", "commit"}
    BY <1>1, <2>1 DEF CommitInv, mapping
  <2>4. disk[mg.c] # Null => OnCache(disk[mg.c], mg.c)' >= acked'[disk[mg.c]]
    BY <1>1, <2>1, <2>2 DEF CommitInv, OnCache
  <2>5. disk[mg.c] = meta'[mg.c]
    BY <1>1, <2>2 DEF mapping
  <2> QED
    BY <1>1, <1>8, <2>1, <2>3, <2>4, <2>5, CommitTouched
<1> QED
  BY <1>1, <1>9, <1>11, <1>14, <1>15 DEF DataSound

LEMMA FailureData ==
  ASSUME TargetInv, TargetInv', DataSound, NEW mg \in migrations, complete_migration(mg), mg.err,
         migration_failure(mg)
  PROVE  DataSound'
<1> USE DEF TargetInv, TargetTypes
<1>1. /\ ContentsInv /\ Shaped(mg) /\ Current(mg)
      /\ mg.c \in Cblocks /\ mg.phase = "completed" /\ mg.waits = {}
      /\ UNCHANGED <<mode, faults, data, stage, acked, session>>
      /\ mg.kind \in {"writeback", "demote", "promote"}
      /\ UNCHANGED <<meta, disk, discard_bitset, commit_requested>>
      /\ migrations' = migrations \ {mg}
      /\ mg.holder \in Bios => bios[mg.holder].at = "held"
      /\ Null \notin Bios
  BY MigrationFacts, HolderFacts, DmTargetAssumption
  DEF DataSound, ContentsInv, MapInv, WaitInv, complete_migration, migration_failure, Shaped
<1>2. AllKept /\ (dirty_bitset' = dirty_bitset \/ dirty_bitset' = dirty_bitset \cup {mg.c})
  BY <1>1, DeferKeeps DEF migration_failure
<1>3. \A o \in Oblocks : IsBlockOf(o, mg) /\ CleanAtOrigin(o)' => origin[o] >= acked[o]
  BY <1>1, <1>2 DEF CleanAtOrigin, ContentsInv
<1> QED
  BY <1>1, <1>2, <1>3, Becoming, StaysData

LEMMA CompleteData ==
  ASSUME TargetInv, TargetInv', DataSound, NEW mg \in migrations, complete_migration(mg)
  PROVE  DataSound'
<1>1. CASE mg.err
  BY <1>1, FailureData DEF complete_migration
<1>2. CASE ~mg.err
  BY <1>2, PreCommitData DEF complete_migration, CopyDone, TargetInv, WaitInv
<1> QED
  BY <1>1, <1>2

\* A write is acknowledged.
LEMMA ClientAcked ==
  ASSUME TargetTypes, ClientInv, NEW b \in Bios, AWrite(bios[b]), bios[b].at # "idle",
         bios'[b] = Idle, bios[b].o \notin discard_bitset, AllKept,
         acked' = [acked EXCEPT ![bios[b].o] = bios[b].v],
         \A p \in Oblocks : origin'[p] >= NoPromise, \A c \in Cblocks : ssd'[c][2] >= NoPromise,
         UNCHANGED <<submits, discard_bitset>>
  PROVE  ClientInv'
<1> USE DEF TargetTypes
<1>1. PICK o, v : o = bios[b].o /\ v = bios[b].v
  OBVIOUS
<1>2. bios[b] \in BioRecords /\ o \in Oblocks /\ v \in Nat /\ acked[o] < v /\ v <= submits
  BY <1>1, BioFacts DEF ClientInv, Promised, BioRecords
<1>3. acked'[o] = v /\ \A p \in Oblocks : p # o => acked'[p] = acked[p]
  BY <1>1, <1>2 DEF DataTypes
<1>4. ASSUME NEW x \in Bios, bios'[x].at # "idle"
      PROVE  /\ bios[x].at # "idle" /\ SameRequest(bios[x], bios'[x])
             /\ bios[x].o = o => bios[x].op \in {"read", "flush"}
             /\ Sending(bios'[x]) => Sending(bios[x])
             /\ bios'[x].at = "flush" => bios[x].at = "flush"
             /\ Promised(bios[x]) /\ bios[x] \in BioRecords
  <2>1. Kept(bios[x], bios'[x]) /\ x # b
    BY <1>4 DEF AllKept, Idle
  <2>2. bios[x].at # "idle" /\ SameRequest(bios[x], bios'[x])
    BY <1>4, <2>1 DEF Kept, SameRequest, Idle
  <2>3. bios[x].o = o => bios[x].op \in {"read", "flush"}
    BY <1>1, <2>1, <2>2 DEF ClientInv, AWrite
  <2>4. /\ Sending(bios'[x]) => Sending(bios[x])
        /\ bios'[x].at = "flush" => bios[x].at = "flush"
    BY <1>4, <2>1 DEF Kept, Sending, Idle
  <2> QED
    BY <2>2, <2>3, <2>4, BioFacts DEF ClientInv
<1>5. ASSUME NEW x \in Bios, bios'[x].at # "idle" PROVE Promised(bios[x])'
  <2>1. /\ bios[x].o \in Oblocks /\ bios[x].floor \in Int /\ bios[x].v \in Nat
        /\ acked[bios[x].o] \in Int
    BY <1>4, <1>5 DEF BioRecords, DataTypes
  <2>2. /\ Promised(bios[x]) /\ SameRequest(bios[x], bios'[x])
        /\ Sending(bios'[x]) => Sending(bios[x])
        /\ bios'[x].at = "flush" => bios[x].at = "flush"
        /\ bios[x].o = o => bios[x].op \in {"read", "flush"}
    BY <1>4, <1>5
  <2>3. CASE bios[x].o = o
    BY <1>2, <1>3, <2>1, <2>2, <2>3 DEF Promised, SameRequest, AWrite
  <2>4. CASE bios[x].o # o
    BY <1>3, <2>1, <2>2, <2>4 DEF Promised, SameRequest, AWrite
  <2> QED
    BY <2>3, <2>4
<1>6. Valued'
  BY <1>2, <1>3 DEF ClientInv, Valued, DataTypes, NoPromise
<1>7. \A p \in discard_bitset' : acked'[p] = NoPromise
  BY <1>1, <1>3 DEF ClientInv, MappingTypes
<1>8. ASSUME NEW x \in Bios, Carries(bios[x])', AWrite(bios[x])'
      PROVE  bios'[x].o \notin discard_bitset'
  <2>1. bios'[x].at # "idle"
    BY <1>8 DEF Carries, Sending
  <2>2. SameRequest(bios[x], bios'[x]) /\ Carries(bios[x])
    BY <1>4, <1>8, <2>1 DEF Carries, SameRequest, Promised
  <2> QED
    BY <1>8, <2>2 DEF ClientInv, SameRequest, AWrite
<1>9. ASSUME NEW y \in Bios, NEW x \in Bios, y # x, bios'[y].at # "idle", bios'[x].at # "idle",
             bios'[y].o = bios'[x].o, bios'[y].op \in {"write", "fua", "discard"}
      PROVE  bios'[x].op \in {"read", "flush"}
  <2>1. /\ bios[y].at # "idle" /\ bios[x].at # "idle" /\ bios[y].o = bios[x].o
        /\ bios[y].op \in {"write", "fua", "discard"} /\ bios'[x].op = bios[x].op
    BY <1>4, <1>9 DEF SameRequest
  <2> QED
    BY <1>9, <2>1 DEF ClientInv
<1> QED
  BY <1>5, <1>6, <1>7, <1>8, <1>9 DEF ClientInv

\* The write that a promotion has made in place of the copy is acknowledged.
LEMMA OverwrittenData ==
  ASSUME TargetInv, TargetInv', DataSound, NEW mg \in migrations,
         mg.kind = "promote", mg.overwrite, mg.phase = "committed", stage = "post_commit",
         bios' = [Released({mg.new}, Null) EXCEPT ![mg.holder] = Idle],
         acked' = [acked EXCEPT ![mg.new] = bios[mg.holder].v],
         dirty_bitset' = dirty_bitset \cup {mg.c}, migrations' = migrations \ {mg},
         UNCHANGED <<mode, faults, data, meta, disk, discard_bitset, stage, commit_requested, session>>
  PROVE  DataSound'
<1> USE DEF TargetInv, TargetTypes
<1>1. /\ ClientInv /\ FlightInv /\ ContentsInv /\ Shaped(mg) /\ HolderKnown(mg)
      /\ mg.c \in Cblocks /\ mg.new \in Oblocks /\ mg.waits = {} /\ ~mg.err
      /\ meta[mg.c] = mg.new /\ mg.holder \in Bios /\ bios[mg.holder].at = "held"
  BY MigrationFacts, HolderFacts
  DEF DataSound, ContentsInv, MapInv, WaitInv, FlightInv, Shaped, PastCommit
<1>2. PICK v : v = bios[mg.holder].v
  OBVIOUS
<1>3. /\ v \in Int /\ acked[mg.new] < v /\ v <= submits /\ AWrite(bios[mg.holder])
      /\ bios[mg.holder].o = mg.new /\ OnCache(mg.new, mg.c) >= v /\ mg.new \notin discard_bitset
  <2>1. bios[mg.holder] \in BioRecords
    BY <1>1, BioFacts
  <2> QED
    BY <1>1, <1>2, <2>1 DEF HolderKnown, Shaped, ClientInv, Promised, BioRecords
<1>4. acked'[mg.new] = v /\ \A o \in Oblocks : o # mg.new => acked'[o] = acked[o]
  BY <1>1, <1>2 DEF DataTypes
<1>5. /\ bios'[mg.holder] = Idle
      /\ \A b \in Bios : b # mg.holder =>
           bios'[b] = bios[b] \/ (bios'[b] = Deferred(b) /\ bios[b].at # "idle")
  BY <1>1, DmTargetAssumption DEF Released
<1>6. AllKept
  <2>1. ASSUME NEW b \in Bios PROVE Kept(bios[b], bios'[b])
    BY <1>5, DeferredFacts DEF Kept, SameRequest
  <2> QED
    BY <2>1 DEF AllKept
<1>7. Touches(mg)
  BY <1>1, <1>4, <1>6, Becoming DEF Touches, data, session
<1>8. FlightInv'
  BY <1>1, <1>7, Becoming, FlightTouched
<1>9. ContentsInv'
  <2>1. OnCache(mg.new, mg.c)' = OnCache(mg.new, mg.c)
    BY DEF OnCache, data
  <2>2. meta'[mg.c] # Null => OnCache(meta[mg.c], mg.c)' >= acked'[meta'[mg.c]]
    BY <1>1, <1>3, <1>4, <2>1
  <2>3. \A o \in Oblocks : IsBlockOf(o, mg) => ~CleanAtOrigin(o)'
    BY <1>1 DEF CleanAtOrigin, IsBlockOf, Shaped
  <2> QED
    BY <1>1, <1>7, <2>2, <2>3, Becoming, ContentsTouched DEF MappingTypes
<1>10. ASSUME "commit" \notin faults PROVE CommitInv'
  <2>1. CommitInv /\ meta = disk
    BY <1>10 DEF DataSound, CommitInv
  <2>2. \A d \in Cblocks : d # mg.c /\ disk[d] # Null => acked'[disk[d]] = acked[disk[d]]
    BY <1>1, <1>4, <2>1 DEF ContentsInv, MappingTypes, Mappings
  <2>3. disk[mg.c] # Null => OnCache(disk[mg.c], mg.c)' >= acked'[disk[mg.c]]
    BY <1>1, <1>3, <1>4, <2>1 DEF OnCache, data
  <2> QED
    BY <1>1, <1>7, <2>1, <2>2, <2>3, CommitTouched
<1>11. ClientInv'
  <2>1. /\ \A p \in Oblocks : origin'[p] >= NoPromise
        /\ \A c \in Cblocks : ssd'[c][2] >= NoPromise
        /\ UNCHANGED <<submits, discard_bitset>>
    BY <1>1 DEF ClientInv, Valued, data, session
  <2>2. acked' = [acked EXCEPT ![bios[mg.holder].o] = bios[mg.holder].v]
    BY <1>3
  <2> QED
    BY <1>1, <1>3, <1>5, <1>6, <2>1, <2>2, ClientAcked
<1> QED
  BY <1>8, <1>9, <1>10, <1>11 DEF DataSound

LEMMA PostCommitData ==
  ASSUME TargetInv, TargetInv', DataSound, NEW mg \in migrations, migration_success_post_commit(mg)
  PROVE  DataSound'
<1> USE DEF TargetInv, TargetTypes
<1>1. /\ ContentsInv /\ Shaped(mg) /\ Current(mg) /\ HolderKnown(mg) /\ mg \in MigrationRecords
      /\ mg.c \in Cblocks /\ mg.phase = "committed" /\ mg.waits = {} /\ stage = "post_commit"
      /\ UNCHANGED <<mode, faults, data, meta, disk, discard_bitset, stage, commit_requested, session>>
      /\ mg.holder \in Bios => bios[mg.holder].at = "held"
      /\ Null \notin Bios
  BY MigrationFacts, HolderFacts
  DEF DataSound, ContentsInv, MapInv, WaitInv, FlightInv, migration_success_post_commit
<1>2. ASSUME AllKept, acked' = acked, migrations' = migrations \ {mg},
             dirty_bitset' = dirty_bitset \/ (mg.kind = "promote" /\ dirty_bitset' = dirty_bitset \ {mg.c})
      PROVE  DataSound'
  <2>1. ASSUME NEW o \in Oblocks, IsBlockOf(o, mg), CleanAtOrigin(o)' PROVE origin[o] >= acked[o]
    BY <1>1, <1>2, <2>1 DEF CleanAtOrigin, ContentsInv, Current, IsBlockOf, Shaped
  <2> QED
    BY <1>1, <1>2, <2>1, Becoming, StaysData
<1>3. CASE mg.kind = "invalidate" /\ cell_defer({mg.old}, mg.holder) /\ migrations' = migrations \ {mg}
           /\ UNCHANGED <<inflight, dirty_bitset, acked>>
  BY <1>1, <1>2, <1>3, DeferKeeps
<1>4. CASE mg.kind = "promote" /\ cell_defer({mg.new}, mg.holder) /\ dirty_bitset' = dirty_bitset \ {mg.c}
           /\ migrations' = migrations \ {mg} /\ acked' = acked
  BY <1>1, <1>2, <1>4, DeferKeeps
<1>5. CASE /\ mg.kind = "promote" /\ mg.overwrite
           /\ cells' = cells \ {mg.new}
           /\ bios' = [Released({mg.new}, Null) EXCEPT ![mg.holder] = Idle]
           /\ acked' = [acked EXCEPT ![mg.new] = bios[mg.holder].v]
           /\ dirty_bitset' = dirty_bitset \cup {mg.c}
           /\ migrations' = migrations \ {mg}
  BY <1>1, <1>5, OverwrittenData
<1>6. CASE /\ mg.kind = "demote"
           /\ cell_defer({mg.old}, Null)
           /\ Becomes(mg, [mg EXCEPT !.kind = "promote", !.old = Null, !.phase = "quiescing",
                                     !.waits = {}])
           /\ UNCHANGED <<policy, inflight, dirty_bitset, acked>>
  <2>1. PICK next : next = [mg EXCEPT !.kind = "promote", !.old = Null, !.phase = "quiescing",
                                     !.waits = {}]
    OBVIOUS
  <2>2. /\ next.kind = "promote" /\ next.old = Null /\ next.new = mg.new /\ next.c = mg.c
        /\ next.holder = mg.holder /\ next.phase = "quiescing" /\ next.waits = {}
        /\ next.overwrite = mg.overwrite
    BY <1>1, <2>1 DEF MigrationRecords
  <2>3. AllKept
    BY <1>1, <1>6, DeferKeeps
  <2>4. mg.new \in Oblocks /\ CleanAtOrigin(mg.new)
    BY <1>1, <1>6, MigrationFacts DEF CleanAtOrigin, Current, Moves, Shaped, PastCommit
  <2>5. Current(next)'
    BY <1>1, <1>6, <2>2, <2>4 DEF Current, Moves, ContentsInv, data
  <2>6. HolderKnown(next)'
    <3>1. mg.holder \in Bios /\ bios'[mg.holder] = bios[mg.holder]
      BY <1>1, <1>6, DeferFacts, HolderFacts DEF Shaped
    <3> QED
      BY <1>1, <1>6, <2>2, <3>1 DEF HolderKnown, Shaped
  <2>7. Continues(next, mg)
    BY <1>6, <2>2 DEF Continues
  <2>8. \A o \in Oblocks : IsBlockOf(o, mg) /\ CleanAtOrigin(o)' => origin[o] >= acked[o]
    BY <1>1, <1>6 DEF CleanAtOrigin, ContentsInv
  <2> QED
    BY <1>1, <1>6, <2>1, <2>3, <2>5, <2>6, <2>7, <2>8, Becoming, StaysData
<1> QED
  BY <1>3, <1>4, <1>5, <1>6 DEF migration_success_post_commit

-----------------------------------------------------------------------------
(***************************************************************************)
(* Steps that move no data.                                                *)
(***************************************************************************)
LEMMA ContentsFrame ==
  ASSUME TargetTypes, TargetTypes', ContentsInv, UNCHANGED <<meta, origin, ssd>>,
         \A o \in Oblocks : acked'[o] <= acked[o], dirty_bitset \subseteq dirty_bitset',
         MapInv,
         \A n \in migrations' : (\E m \in migrations : SameMove(m, n)) \/ Current(n)'
  PROVE  ContentsInv'
<1> USE DEF TargetTypes, MappingTypes, DataTypes, Mappings
<1>1. \A o \in Oblocks : acked[o] \in Int /\ acked'[o] \in Int /\ origin[o] \in Int
  OBVIOUS
<1>2. \A c \in Cblocks, o \in Oblocks : OnCache(o, c)' = OnCache(o, c) /\ OnCache(o, c) \in Int
  BY ContentsTypes DEF OnCache
<1>3. ASSUME NEW c \in Cblocks, meta[c] # Null PROVE OnCache(meta[c], c)' >= acked'[meta[c]]
  <2>1. meta[c] \in Oblocks /\ OnCache(meta[c], c) >= acked[meta[c]]
    BY <1>3 DEF ContentsInv
  <2> QED
    BY <1>1, <1>2, <2>1
<1>4. ASSUME NEW o \in Oblocks, CleanAtOrigin(o)' PROVE origin'[o] >= acked'[o]
  <2>1. CleanAtOrigin(o)
    BY <1>4 DEF CleanAtOrigin
  <2> QED
    BY <1>1, <2>1 DEF ContentsInv
<1>5. ASSUME NEW n \in migrations', NEW m \in migrations, SameMove(m, n) PROVE Current(n)'
  <2>1. Current(m) /\ Shaped(m) /\ m.c \in Cblocks
    BY MigrationFacts DEF ContentsInv, MapInv
  <2>2. /\ m.kind \in {"writeback", "demote"} => m.old \in Oblocks
        /\ m.kind = "promote" => m.new \in Oblocks
    BY <2>1, MigrationFacts DEF Shaped
  <2>3. ASSUME m.kind = "promote" PROVE Current(n)'
    <3>1. /\ OnCache(m.new, m.c)' = OnCache(m.new, m.c) /\ OnCache(m.new, m.c) \in Int
          /\ acked[m.new] \in Int /\ acked'[m.new] \in Int /\ acked'[m.new] <= acked[m.new]
          /\ origin[m.new] \in Int
      BY <1>1, <1>2, <2>1, <2>2, <2>3
    <3> QED
      BY <1>5, <2>1, <2>3, <3>1 DEF Current, SameMove, Moves
  <2>4. ASSUME m.kind \in {"writeback", "demote"} PROVE Current(n)'
    <3>1. /\ acked[m.old] \in Int /\ acked'[m.old] \in Int /\ acked'[m.old] <= acked[m.old]
          /\ origin[m.old] \in Int
      BY <1>1, <2>2, <2>4
    <3> QED
      BY <1>5, <2>1, <2>4, <3>1 DEF Current, SameMove, Moves
  <2>5. ASSUME m.kind = "invalidate" PROVE Current(n)'
    BY <1>5, <2>5 DEF Current, SameMove, Moves
  <2> QED
    BY <2>3, <2>4, <2>5, MigrationFacts
<1> QED
  BY <1>3, <1>4, <1>5 DEF ContentsInv

LEMMA HolderRelabelled ==
  ASSUME TargetTypes, MapInv, WaitInv, NEW m \in migrations, NEW n, SameMove(m, n), HolderKnown(m),
         UNCHANGED <<ssd, discard_bitset, dirty_bitset>>,
         \A b \in Bios : bios[b].at = "held" => bios'[b] = bios[b]
  PROVE  HolderKnown(n)'
<1>1. m.holder # Null => bios'[m.holder] = bios[m.holder]
  BY HolderFacts
<1>2. m.overwrite => m.holder # Null
  BY MigrationFacts DEF MapInv, Shaped, TargetTypes
<1>3. n.phase = "copying" => m.phase = "copying"
  BY DEF SameMove
<1> QED
  BY <1>1, <1>2, <1>3 DEF SameMove, HolderKnown, OnCache

LEMMA CommitData ==
  ASSUME TargetInv, TargetInv', DataSound, commit_if_needed
  PROVE  DataSound'
<1> USE DEF TargetInv, TargetTypes
<1>1. /\ ClientInv /\ FlightInv /\ ContentsInv /\ stage = "commit"
      /\ UNCHANGED <<mode, faults, data, policy, inflight, meta, bits, cells, acked, submits, restarts>>
  BY DEF DataSound, commit_if_needed
<1>2. \/ bios' = FlushBios("io") /\ migrations' = Committed /\ disk' \in {disk, meta}
      \/ /\ bios' = [b \in Bios |-> IF bios[b].at = "flush" THEN Idle ELSE bios[b]]
         /\ migrations' = {[mg EXCEPT !.waits = {b \in @ : bios[b].at # "flush"}] : mg \in migrations}
         /\ "commit" \in faults
  BY DEF commit_if_needed
<1>3. ASSUME NEW b \in Bios
      PROVE  /\ bios[b].at # "flush" => bios'[b] = bios[b]
             /\ bios[b].at = "flush" /\ bios'[b] # Idle => migrations' = Committed
             /\ Kept(bios[b], bios'[b])
  <2>1. CASE bios[b].at # "flush"
    BY <1>2, <2>1 DEF Kept, FlushBios
  <2>2. CASE bios[b].at = "flush"
    <3>1. bios[b] \in BioRecords
      BY <2>2, BioFacts
    <3>2. bios'[b] = Idle \/ (bios'[b] = [bios[b] EXCEPT !.at = "io"] /\ migrations' = Committed)
      BY <1>2, <2>2 DEF FlushBios
    <3> QED
      BY <2>2, <3>1, <3>2 DEF Kept, SameRequest, BioRecords
  <2> QED
    BY <2>1, <2>2
<1>4. AllKept /\ Relabelled
  BY <1>3, CommitRelabels DEF AllKept
<1>5. ClientInv'
  BY <1>1, <1>4, ClientKept, ValuedKept DEF bits, ClientInv
<1>6. ASSUME NEW b \in Bios, Carries(bios[b])'
      PROVE  Carries(bios[b]) /\ SameRequest(bios[b], bios'[b]) /\ Routed(bios[b])'
  <2>1. Carries(bios[b]) /\ SameRequest(bios[b], bios'[b])
    BY <1>1, <1>3, <1>6, KeptCarries DEF ClientInv, Promised
  <2> QED
    BY <1>1, <1>3, <1>6, <2>1, RoutedKept DEF FlightInv, bits, data
<1>7. ASSUME NEW n \in migrations', NEW b \in Bios, Carries(bios[b])', IsBlockOf(bios'[b].o, n)
      PROVE  b \in n.waits
  <2>1. bios'[b] # Idle
    BY <1>7 DEF Carries, Sending, Idle
  <2>2. \A m \in migrations : IsBlockOf(bios[b].o, m) => b \in m.waits
    BY <1>1, <1>6, <1>7 DEF FlightInv
  <2>3. CASE migrations' = Committed
    <3>1. PICK m \in migrations :
            n = IF m.phase = "need_commit" THEN [m EXCEPT !.phase = "committed"] ELSE m
      BY <2>3 DEF Committed
    <3>2. n.old = m.old /\ n.new = m.new /\ n.waits = m.waits
      BY <3>1, MigrationFacts DEF MigrationRecords
    <3> QED
      BY <1>6, <1>7, <2>2, <3>2 DEF IsBlockOf, SameRequest
  <2>4. CASE migrations' = {[mg EXCEPT !.waits = {x \in @ : bios[x].at # "flush"}] : mg \in migrations}
             /\ bios[b].at # "flush"
    <3>1. PICK m \in migrations : n = [m EXCEPT !.waits = {x \in @ : bios[x].at # "flush"}]
      BY <2>4
    <3>2. n.old = m.old /\ n.new = m.new /\ n.waits = {x \in m.waits : bios[x].at # "flush"}
      BY <3>1, MigrationFacts DEF MigrationRecords
    <3> QED
      BY <1>6, <1>7, <2>2, <2>4, <3>2 DEF IsBlockOf, SameRequest
  <2> QED
    BY <1>2, <1>3, <2>1, <2>3, <2>4
<1>8. FlightInv'
  <2>1. ASSUME NEW n \in migrations' PROVE HolderKnown(n)'
    <3>1. PICK m \in migrations : SameMove(m, n)
      BY <1>4 DEF Relabelled
    <3> QED
      BY <1>1, <1>3, <3>1, HolderRelabelled DEF FlightInv, data, bits
  <2> QED
    BY <1>6, <1>7, <2>1 DEF FlightInv
<1>9. ContentsInv'
  BY <1>1, <1>4, ContentsFrame DEF Relabelled, data, bits, DataTypes
<1>10. ASSUME "commit" \notin faults PROVE CommitInv'
  <2>1. disk' = meta'
    BY <1>10 DEF DataSound, CommitInv, commit_if_needed
  <2>2. \A c \in Cblocks : disk'[c] # Null => OnCache(disk[c], c)' >= acked'[disk'[c]]
    BY <1>9, <2>1 DEF ContentsInv
  <2> QED
    BY <1>9, <2>1, <2>2 DEF CommitInv, ContentsInv
<1> QED
  BY <1>1, <1>5, <1>8, <1>9, <1>10 DEF DataSound

-----------------------------------------------------------------------------
(***************************************************************************)
(* Bios.                                                                   *)
(***************************************************************************)
\* Bios are kept, and so is all that they go by; a migration may begin to wait for them.
LEMMA KeptData ==
  ASSUME TargetInv, TargetInv', DataSound, AllKept, migrations' = migrations,
         \A o \in discard_bitset' \ discard_bitset : MayDiscard(o),
         commit_requested => commit_requested',
         stage \in {"copies", "commit"} => stage' \in {stage, "commit"},
         UNCHANGED <<mode, faults, data, meta, disk, dirty_bitset, acked, submits>>
  PROVE  DataSound'
<1> USE DEF TargetInv, TargetTypes
<1>1. ClientInv /\ FlightInv /\ ContentsInv
  BY DEF DataSound
<1>2. ClientInv'
  BY <1>1, ClientKept, ValuedKept DEF ClientInv
<1>3. ASSUME NEW b \in Bios, Carries(bios[b])'
      PROVE  Carries(bios[b]) /\ SameRequest(bios[b], bios'[b]) /\ Routed(bios[b])'
  <2>1. Carries(bios[b]) /\ SameRequest(bios[b], bios'[b])
    BY <1>1, <1>3, KeptCarries DEF ClientInv, Promised, AllKept
  <2> QED
    BY <1>1, <1>3, <2>1, RoutedKept DEF FlightInv, data, AllKept
<1>4. ASSUME NEW m \in migrations' PROVE HolderKnown(m)'
  <2>1. HolderKnown(m)
    BY <1>1 DEF FlightInv
  <2>2. m.holder # Null => SameRequest(bios[m.holder], bios'[m.holder])
    <3>1. m.holder # Null => bios'[m.holder].at = "held" /\ m.holder \in Bios
      BY HolderFacts DEF WaitInv
    <3> QED
      BY <3>1 DEF AllKept, Kept, SameRequest, Idle
  <2>3. m.overwrite => m.holder # Null /\ m.kind = "promote" /\ bios[m.holder].at # "idle"
                      /\ m.holder \in Bios /\ m.new \in Oblocks \cup {Null}
    BY MigrationFacts, HolderFacts DEF MapInv, Shaped
  <2>4. m.overwrite => m.new \notin discard_bitset'
    BY <2>1, <2>3 DEF HolderKnown, MayDiscard
  <2> QED
    BY <2>1, <2>2, <2>3, <2>4 DEF HolderKnown, SameRequest, AWrite, OnCache, data
<1>5. FlightInv'
  BY <1>1, <1>3, <1>4 DEF FlightInv, SameRequest
<1>6. ContentsInv'
  BY <1>1, ContentsFrame DEF data, DataTypes, SameMove
<1>7. ASSUME "commit" \notin faults PROVE CommitInv'
  <2>1. CommitInv
    BY <1>7 DEF DataSound
  <2>2. \A c \in Cblocks : disk'[c] # meta'[c] => NotOnDisk(c)'
    BY <2>1 DEF CommitInv, NotOnDisk
  <2>3. \A b \in Bios : Carries(bios[b])' /\ AWrite(bios[b])' =>
          \A c \in Cblocks : disk'[c] = bios'[b].o <=> meta'[c] = bios'[b].o
    BY <1>3, <2>1 DEF CommitInv, SameRequest, AWrite
  <2>4. \A c \in Cblocks : disk'[c] # Null => OnCache(disk[c], c)' >= acked'[disk'[c]]
    BY <2>1 DEF CommitInv, OnCache, data
  <2> QED
    BY <2>1, <2>2, <2>3, <2>4 DEF CommitInv
<1> QED
  BY <1>2, <1>5, <1>6, <1>7 DEF DataSound

\* A bio is sent where its block is.
LEMMA SentData ==
  ASSUME TargetInv, TargetInv', DataSound, NEW b \in Bios,
         bios[b].at \in {"submitted", "deferred"}, bios'[b].at \in {"io", "flush"},
         SameRequest(bios[b], bios'[b]), bios[b].op # "discard",
         bios'[b].at = "flush" => bios[b].op \in {"fua", "flush"},
         \A x \in Bios : x # b => bios'[x] = bios[x],
         bios[b].op # "flush" => bios[b].o \notin cells /\ Routed(bios[b])',
         AWrite(bios[b]) => bios[b].o \notin discard_bitset',
         discard_bitset' \subseteq discard_bitset,
         \/ dirty_bitset' = dirty_bitset
         \/ /\ AWrite(bios[b])
            /\ \E d \in Cblocks : meta[d] = bios[b].o /\ dirty_bitset' = dirty_bitset \cup {d},
         stage = "bios" \/ mode # "passthrough" \/ bios[b].op = "read",
         commit_requested => commit_requested',
         UNCHANGED <<mode, faults, data, meta, disk, migrations, stage, acked, submits>>
  PROVE  DataSound'
<1> USE DEF TargetInv, TargetTypes
<1>1. ClientInv /\ FlightInv /\ ContentsInv /\ bios[b] \in BioRecords /\ bios[b].o \in Oblocks
      /\ bios[b].o # Null
  BY BioFacts, DmTargetAssumption DEF DataSound, BioRecords
<1>2. dirty_bitset \subseteq dirty_bitset'
  OBVIOUS
<1>3. ClientInv'
  <2>1. Valued'
    BY <1>1, ValuedKept DEF ClientInv
  <2>2. ASSUME NEW x \in Bios, bios'[x].at # "idle"
        PROVE  bios[x].at # "idle" /\ SameRequest(bios[x], bios'[x]) /\ Promised(bios[x])'
    <3>1. CASE x = b
      <4>1. Promised(bios[b])
        BY <1>1 DEF ClientInv
      <4> QED
        BY <3>1, <4>1 DEF Promised, SameRequest, AWrite, Sending
    <3>2. CASE x # b
      BY <1>1, <2>2, <3>2 DEF SameRequest, ClientInv, Promised, AWrite, Sending
    <3> QED
      BY <3>1, <3>2
  <2>3. ASSUME NEW y \in Bios, NEW x \in Bios, y # x, bios'[y].at # "idle", bios'[x].at # "idle",
               bios'[y].o = bios'[x].o, bios'[y].op \in {"write", "fua", "discard"}
        PROVE  bios'[x].op \in {"read", "flush"}
    <3>1. /\ bios[y].at # "idle" /\ bios[x].at # "idle" /\ bios[y].o = bios[x].o
          /\ bios[y].op \in {"write", "fua", "discard"} /\ bios'[x].op = bios[x].op
      BY <2>2, <2>3 DEF SameRequest
    <3> QED
      BY <1>1, <2>3, <3>1 DEF ClientInv
  <2>4. ASSUME NEW x \in Bios, Carries(bios[x])', AWrite(bios[x])'
        PROVE  bios'[x].o \notin discard_bitset'
    <3>1. CASE x = b
      BY <2>4, <3>1 DEF SameRequest, AWrite
    <3>2. CASE x # b
      BY <1>1, <2>4, <3>2 DEF ClientInv, Carries, AWrite, Sending
    <3> QED
      BY <3>1, <3>2
  <2>5. \A o \in discard_bitset' : acked'[o] = NoPromise
    BY <1>1 DEF ClientInv
  <2> QED
    BY <2>1, <2>2, <2>3, <2>4, <2>5 DEF ClientInv
<1>4. ASSUME NEW x \in Bios, Carries(bios[x])'
      PROVE  /\ Routed(bios[x])'
             /\ \A mg \in migrations : IsBlockOf(bios'[x].o, mg) => x \in mg.waits
  <2>1. CASE x = b
    <3>1. bios[b].op # "flush"
      BY <1>4, <2>1 DEF Carries, SameRequest
    <3>2. \A mg \in migrations : ~IsBlockOf(bios[b].o, mg)
      BY <3>1 DEF MapInv, IsBlockOf
    <3> QED
      BY <2>1, <3>1, <3>2 DEF SameRequest
  <2>2. CASE x # b
    <3>1. Carries(bios[x]) /\ bios'[x] = bios[x] /\ Routed(bios[x]) /\ bios[x].at # "idle"
      BY <1>1, <1>4, <2>2 DEF FlightInv, Carries, Sending
    <3>2. bios[x].to # "origin" =>
            meta[bios[x].c] = bios[x].o /\ bios[x].c \in Cblocks
      BY <3>1 DEF Routed
    <3>3. bios[x].to = "both" => bios[x].c \notin dirty_bitset'
      <4>1. ASSUME bios[x].to = "both", bios[x].c \in dirty_bitset' PROVE FALSE
        <5>1. AWrite(bios[x]) /\ bios[x].c \notin dirty_bitset
          BY <3>1, <4>1 DEF Routed
        <5>2. AWrite(bios[b]) /\ bios[x].o = bios[b].o
          BY <3>2, <4>1, <5>1
        <5> QED
          BY <1>1, <2>2, <3>1, <5>1, <5>2 DEF ClientInv, AWrite
      <4> QED
        BY <4>1
    <3>4. Routed(bios[x])'
      BY <1>2, <3>1, <3>3 DEF Routed, AWrite, data
    <3> QED
      BY <1>1, <3>1, <3>4 DEF FlightInv
  <2> QED
    BY <2>1, <2>2
<1>5. ASSUME NEW m \in migrations PROVE HolderKnown(m)'
  <2>1. HolderKnown(m) /\ (m.holder # Null => bios'[m.holder] = bios[m.holder])
    BY <1>1, HolderFacts DEF FlightInv
  <2>2. m.overwrite => m.holder # Null
    BY MigrationFacts DEF MapInv, Shaped
  <2> QED
    BY <1>2, <2>1, <2>2 DEF HolderKnown, AWrite, OnCache, data
<1>6. FlightInv'
  BY <1>4, <1>5 DEF FlightInv
<1>7. ContentsInv'
  BY <1>1, <1>2, ContentsFrame DEF data, DataTypes, SameMove
<1>8. ASSUME "commit" \notin faults PROVE CommitInv'
  <2>1. CommitInv
    BY <1>8 DEF DataSound
  <2>2. \A c \in Cblocks : disk'[c] # meta'[c] => NotOnDisk(c)'
    BY <2>1 DEF CommitInv, NotOnDisk
  <2>3. ASSUME NEW x \in Bios, Carries(bios[x])', AWrite(bios[x])', NEW c \in Cblocks
        PROVE  disk[c] = bios'[x].o <=> meta[c] = bios'[x].o
    <3>1. CASE x # b
      BY <2>1, <2>3, <3>1 DEF CommitInv, Carries, Sending, AWrite
    <3>2. CASE x = b
      <4>1. bios'[b].o = bios[b].o /\ bios[b].o \notin cells /\ bios[b].op # "read"
        BY <2>3, <3>2 DEF SameRequest, Carries, AWrite
      <4>2. CASE disk[c] # meta[c]
        <5>1. mode # "passthrough"
          BY <2>1, <4>1, <4>2 DEF CommitInv
        <5>2. PICK mg \in migrations :
                /\ mg.c = c /\ mg.phase = "need_commit"
                /\ disk[c] # Null => IsBlockOf(disk[c], mg)
          BY <2>1, <4>2, <5>1 DEF CommitInv, NotOnDisk
        <5>3. Shaped(mg) /\ mg.old # bios[b].o /\ mg.new # bios[b].o
          BY <1>1, <4>1 DEF MapInv
        <5> QED
          BY <1>1, <3>2, <4>1, <5>1, <5>2, <5>3, MigrationFacts DEF IsBlockOf, Shaped, PastCommit
      <4> QED
        BY <4>2
    <3> QED
      BY <3>1, <3>2
  <2>4. \A c \in Cblocks : disk'[c] # Null => OnCache(disk[c], c)' >= acked'[disk'[c]]
    BY <2>1 DEF CommitInv, OnCache, data
  <2> QED
    BY <2>1, <2>2, <2>3, <2>4 DEF CommitInv
<1> QED
  BY <1>3, <1>6, <1>7, <1>8 DEF DataSound

\* remap_hit, and the ways to the origin: where the bio goes, its block is.
LEMMA RemapData ==
  ASSUME TargetInv, TargetInv', DataSound, NEW b \in Bios, bios[b].at \in {"submitted", "deferred"},
         bios[b].op \in {"read", "write", "fua"}, bios[b].o \notin cells,
         \/ mode # "passthrough" /\ \E c \in MappedTo(bios[b].o) : remap_hit(b, c)
         \/ MappedTo(bios[b].o) = {} /\ stage = "bios" /\ remap_to_origin_clear_discard(b)
         \/ ~IsWrite(b) /\ mode = "passthrough" /\ remap_to_origin_clear_discard(b),
         commit_requested => commit_requested',
         UNCHANGED <<mode, faults, data, meta, disk, migrations, stage, acked, submits>>
  PROVE  DataSound'
<1> USE DEF TargetInv, TargetTypes
<1>1. /\ bios[b] \in BioRecords /\ bios[b].o \in Oblocks /\ ClientInv
      /\ \A c \in Cblocks : policy[c] = bios[b].o <=> meta[c] = bios[b].o
  BY BioFacts, Unheld DEF BioRecords, DataSound
<1>2. ASSUME NEW to \in {"origin", "cache", "both"}, NEW c \in Cblocks \cup {Null},
             bios' = [bios EXCEPT ![b] = Sent(b, to, c)],
             to # "origin" => c \in Cblocks /\ meta[c] = bios[b].o /\ mode # "passthrough",
             to = "both" => AWrite(bios[b]) /\ c \notin dirty_bitset',
             to = "cache" /\ AWrite(bios[b]) => c \in dirty_bitset',
             to = "origin" => \A d \in Cblocks :
               meta[d] = bios[b].o => ~AWrite(bios[b]) /\ mode = "passthrough",
             \/ dirty_bitset' = dirty_bitset
             \/ AWrite(bios[b]) /\ c \in Cblocks /\ meta[c] = bios[b].o
                /\ dirty_bitset' = dirty_bitset \cup {c},
             AWrite(bios[b]) => bios[b].o \notin discard_bitset',
             discard_bitset' \subseteq discard_bitset,
             stage = "bios" \/ mode # "passthrough" \/ bios[b].op = "read"
      PROVE  DataSound'
  <2>1. /\ bios'[b] = Sent(b, to, c) /\ \A x \in Bios : x # b => bios'[x] = bios[x]
    BY <1>2 DEF BioTypes
  <2>2. /\ bios'[b].at \in {"io", "flush"} /\ SameRequest(bios[b], bios'[b])
        /\ bios'[b].to = to /\ bios'[b].c = c
        /\ bios'[b].at = "flush" => bios[b].op \in {"fua", "flush"}
    BY <2>1, SentFacts DEF SameRequest
  <2>3. Routed(bios[b])'
    BY <1>2, <2>2 DEF Routed, SameRequest, AWrite
  <2> QED
    BY <1>2, <2>1, <2>2, <2>3, SentData
<1>3. CASE mode # "passthrough" /\ \E c \in MappedTo(bios[b].o) : remap_hit(b, c)
  <2>1. PICK c \in Cblocks : meta[c] = bios[b].o /\ remap_hit(b, c)
    BY <1>1, <1>3 DEF MappedTo
  <2>2. CASE remap_to_cache_dirty(b, c)
    BY <1>2, <1>3, <2>1, <2>2 DEF remap_to_cache_dirty, IsWrite, AWrite, clear_discard, bits
  <2>3. CASE /\ IsWrite(b) /\ c \notin dirty_bitset /\ remap_to_origin_then_cache(b, c)
    BY <1>2, <1>3, <2>1, <2>3 DEF remap_to_origin_then_cache, IsWrite, AWrite, clear_discard
  <2> QED
    BY <2>1, <2>2, <2>3 DEF remap_hit
<1>4. CASE /\ remap_to_origin_clear_discard(b)
           /\ \/ MappedTo(bios[b].o) = {} /\ stage = "bios"
              \/ ~IsWrite(b) /\ mode = "passthrough"
  <2>1. \A d \in Cblocks : meta[d] = bios[b].o => ~AWrite(bios[b]) /\ mode = "passthrough"
    BY <1>1, <1>4 DEF MappedTo, IsWrite, AWrite
  <2> QED
    BY <1>1, <1>2, <1>4, <2>1 DEF remap_to_origin_clear_discard, IsWrite, AWrite, clear_discard
<1> QED
  BY <1>3, <1>4

LEMMA cache_mapData ==
  ASSUME TargetInv, TargetInv', DataSound, NEW b \in Bios, cache_map(b)
  PROVE  DataSound'
<1> USE DEF TargetInv, TargetTypes
<1>1. /\ bios[b].at = "submitted" /\ bios[b].o \in Oblocks
      /\ UNCHANGED <<mode, faults, data, meta, disk, migrations, stage, commit_requested, acked, submits>>
  BY BioFacts DEF cache_map, BioRecords, mapping, session
<1>2. CASE /\ bios' = [bios EXCEPT ![b] = Deferred(b)] \/ bios' = [bios EXCEPT ![b] = Waiting(b, bios[b].o)]
           /\ UNCHANGED bits
  <2>1. AllKept
    BY <1>1, <1>2, DeferredFacts, WaitingFacts DEF AllKept, Kept, SameRequest, BioTypes
  <2> QED
    BY <1>1, <1>2, <2>1, KeptData DEF bits
<1>3. CASE /\ bios[b].op \in {"read", "write"} /\ bios[b].o \notin cells
           /\ \E c \in MappedTo(bios[b].o) :
                IF mode = "passthrough"
                  THEN bios[b].op = "read" /\ remap_to_origin_clear_discard(b)
                  ELSE remap_hit(b, c)
  BY <1>1, <1>3, RemapData DEF IsWrite
<1> QED
  BY <1>2, <1>3 DEF cache_map

LEMMA WritethroughData ==
  ASSUME TargetInv, TargetInv', DataSound, NEW b \in Bios, process_deferred_writethrough_bio(b)
  PROVE  DataSound'
<1> USE DEF TargetInv, TargetTypes
<1>1. /\ bios[b].at = "writethrough" /\ bios[b] \in BioRecords
      /\ bios' = [bios EXCEPT ![b] = [bios[b] EXCEPT !.at = "io", !.to = "cache"]]
      /\ UNCHANGED <<mode, faults, data, mapping, bits, migrations, stage, commit_requested, acked, session>>
  BY BioFacts DEF process_deferred_writethrough_bio
<1>2. AllKept
  BY <1>1 DEF AllKept, Kept, SameRequest, BioTypes, BioRecords
<1> QED
  BY <1>1, <1>2, KeptData DEF mapping, bits, session

LEMMA SubmitData ==
  ASSUME TargetInv, TargetInv', DataSound, NEW b \in Bios, NEW op \in Ops, NEW o \in Oblocks,
         NEW full \in BOOLEAN, Submit(b, op, o, full)
  PROVE  DataSound'
<1> USE DEF TargetInv, TargetTypes
<1>1. /\ ClientInv /\ FlightInv /\ ContentsInv /\ bios[b] = Idle /\ bios[b].at = "idle"
      /\ submits' = submits + 1 /\ submits \in Nat
      /\ op \notin {"read", "flush"} =>
           \A x \in Bios : bios[x].at # "idle" => bios[x].o # o \/ bios[x].op = "read"
      /\ UNCHANGED <<mode, faults, data, mapping, bits, cells, migrations, stage, commit_requested>>
  BY DEF DataSound, Submit, Idle, DataTypes
<1>2. /\ op = "discard" => acked'[o] = NoPromise
      /\ op # "discard" => acked' = acked
      /\ \A p \in Oblocks : p # o => acked'[p] = acked[p]
      /\ \A p \in Oblocks : acked[p] \in Int /\ acked'[p] \in Int
                            /\ acked'[p] <= acked[p] /\ acked[p] <= submits /\ NoPromise <= acked'[p]
  BY <1>1 DEF Submit, DataTypes, ClientInv, Valued, NoPromise
<1>3. /\ bios'[b].op = op /\ bios'[b].o = o /\ bios'[b].v = submits + 1 /\ bios'[b].at = "submitted"
      /\ bios'[b].floor = acked[o]
  BY DEF Submit
<1>4. ASSUME NEW x \in Bios, x # b
      PROVE  /\ bios'[x].at = bios[x].at
             /\ bios[x].at # "idle" =>
                  /\ bios[x] \in BioRecords /\ bios[x].o \in Oblocks
                  /\ bios'[x].op = bios[x].op /\ bios'[x].o = bios[x].o /\ bios'[x].v = bios[x].v
                  /\ bios'[x].full = bios[x].full /\ bios'[x].to = bios[x].to /\ bios'[x].c = bios[x].c
                  /\ bios'[x].floor =
                       IF op = "discard" /\ bios[x].op = "read" /\ bios[x].o = o
                         THEN NoPromise ELSE bios[x].floor
  <2>1. bios[x].at # "idle" => bios[x] \in BioRecords
    BY BioFacts
  <2>2. bios'[x] = IF op = "discard" /\ x \in Reads(o)
                     THEN [bios[x] EXCEPT !.floor = NoPromise] ELSE bios[x]
    BY <1>4 DEF Submit
  <2>3. CASE bios[x].at = "idle"
    BY <2>2, <2>3 DEF Reads
  <2>4. CASE bios[x].at # "idle"
    BY <2>1, <2>2, <2>4 DEF Reads, BioRecords
  <2> QED
    BY <2>3, <2>4
<1>5. ASSUME NEW x \in Bios, bios'[x].at # "idle" PROVE Promised(bios[x])'
  <2>1. CASE x = b
    BY <1>1, <1>2, <1>3, <2>1 DEF Promised, AWrite, Sending
  <2>2. CASE x # b
    <3>1. bios[x].at # "idle" /\ Promised(bios[x]) /\ bios[x].v \in Nat /\ bios[x].floor \in Int
      BY <1>1, <1>4, <1>5, <2>2 DEF ClientInv, BioRecords
    <3>2. CASE bios[x].o # o
      BY <1>1, <1>2, <1>4, <2>2, <3>1, <3>2 DEF Promised, AWrite, Sending
    <3>3. CASE bios[x].o = o /\ op = "discard"
      BY <1>1, <1>2, <1>4, <2>2, <3>1, <3>3 DEF Promised, AWrite, Sending
    <3>4. CASE op # "discard"
      BY <1>1, <1>2, <1>4, <2>2, <3>1, <3>4 DEF Promised, AWrite, Sending
    <3> QED
      BY <3>2, <3>3, <3>4
  <2> QED
    BY <2>1, <2>2
<1>6. ASSUME NEW y \in Bios, NEW x \in Bios, y # x, bios'[y].at # "idle", bios'[x].at # "idle",
             bios'[y].o = bios'[x].o, bios'[y].op \in {"write", "fua", "discard"}
      PROVE  bios'[x].op \in {"read", "flush"}
  <2>1. CASE y = b
    BY <1>1, <1>3, <1>4, <1>6, <2>1
  <2>2. CASE x = b
    BY <1>1, <1>3, <1>4, <1>6, <2>2, DmTargetAssumption
  <2>3. CASE x # b /\ y # b
    <3>1. /\ bios[y].at # "idle" /\ bios[x].at # "idle" /\ bios[y].o = bios[x].o
          /\ bios[y].op \in {"write", "fua", "discard"} /\ bios'[x].op = bios[x].op
      BY <1>4, <1>6, <2>3
    <3> QED
      BY <1>1, <1>6, <3>1 DEF ClientInv
  <2> QED
    BY <2>1, <2>2, <2>3
<1>7. ASSUME NEW x \in Bios, Carries(bios[x])'
      PROVE  /\ x # b /\ Carries(bios[x]) /\ bios'[x].o = bios[x].o /\ bios'[x].op = bios[x].op
             /\ Routed(bios[x]) /\ Routed(bios[x])'
  <2>1. x # b /\ bios[x].at # "idle"
    BY <1>3, <1>4, <1>7 DEF Carries, Sending
  <2>2. Carries(bios[x]) /\ Routed(bios[x])
    BY <1>1, <1>4, <1>7, <2>1 DEF Carries, Sending, FlightInv
  <2> QED
    BY <1>1, <1>4, <2>1, <2>2 DEF Routed, AWrite, mapping, bits, data
<1>8. ClientInv'
  <2>1. Valued'
    BY <1>1, <1>2 DEF ClientInv, Valued, data
  <2>2. \A p \in discard_bitset' : acked'[p] = NoPromise
    BY <1>1, <1>2 DEF ClientInv, bits, MappingTypes, NoPromise
  <2>3. \A x \in Bios : Carries(bios[x])' /\ AWrite(bios[x])' => bios'[x].o \notin discard_bitset'
    BY <1>1, <1>7 DEF ClientInv, AWrite, bits
  <2> QED
    BY <1>5, <1>6, <2>1, <2>2, <2>3 DEF ClientInv
<1>9. FlightInv'
  <2>1. ASSUME NEW m \in migrations PROVE HolderKnown(m)'
    <3>1. /\ HolderKnown(m) /\ (m.overwrite => m.holder # Null)
          /\ m.holder # Null => /\ bios'[m.holder].o = bios[m.holder].o
                                /\ bios'[m.holder].op = bios[m.holder].op
                                /\ bios'[m.holder].v = bios[m.holder].v
                                /\ bios'[m.holder].full = bios[m.holder].full
      BY <1>1, <1>4, HolderFacts, MigrationFacts DEF FlightInv, MapInv, Shaped
    <3> QED
      BY <1>1, <3>1 DEF HolderKnown, AWrite, OnCache, data, bits
  <2> QED
    BY <1>1, <1>7, <2>1 DEF FlightInv
<1>10. ContentsInv'
  BY <1>1, <1>2, ContentsFrame DEF data, bits, mapping, SameMove
<1>11. ASSUME "commit" \notin faults PROVE CommitInv'
  <2>1. CommitInv
    BY <1>11 DEF DataSound
  <2>2. \A c \in Cblocks : disk'[c] # meta'[c] => NotOnDisk(c)'
    BY <1>1, <2>1 DEF CommitInv, NotOnDisk, mapping
  <2>3. \A x \in Bios : Carries(bios[x])' /\ AWrite(bios[x])' =>
          \A c \in Cblocks : disk'[c] = bios'[x].o <=> meta'[c] = bios'[x].o
    BY <1>1, <1>7, <2>1 DEF CommitInv, AWrite, mapping
  <2>4. ASSUME NEW c \in Cblocks, disk[c] # Null PROVE OnCache(disk[c], c)' >= acked'[disk[c]]
    <3>1. disk[c] \in Oblocks /\ OnCache(disk[c], c) >= acked[disk[c]]
      BY <2>1, <2>4 DEF CommitInv, MappingTypes, Mappings
    <3>2. OnCache(disk[c], c)' = OnCache(disk[c], c) /\ OnCache(disk[c], c) \in Int
      BY <1>1, <3>1, ContentsTypes DEF OnCache, data, mapping
    <3> QED
      BY <1>2, <3>1, <3>2
  <2> QED
    BY <1>1, <2>1, <2>2, <2>3, <2>4 DEF CommitInv, mapping
<1> QED
  BY <1>1, <1>8, <1>9, <1>10, <1>11 DEF DataSound

LEMMA DiscardData ==
  ASSUME TargetInv, TargetInv', DataSound, NEW b \in Bios, bios[b].at = "deferred",
         process_discard_bio(b), UNCHANGED <<mode, faults, data, stage, acked, session>>
  PROVE  DataSound'
<1> USE DEF TargetInv, TargetTypes
<1>1. /\ ClientInv /\ bios[b] \in BioRecords /\ bios[b].op = "discard"
      /\ bios' = [bios EXCEPT ![b] = Idle] /\ discard_bitset' = discard_bitset \cup {bios[b].o}
  BY BioFacts DEF DataSound, process_discard_bio, set_discard
<1>2. AllKept
  BY <1>1 DEF AllKept, Kept, BioTypes
<1>3. MayDiscard(bios[b].o)
  BY <1>1 DEF MayDiscard, ClientInv, Promised, AWrite
<1> QED
  BY <1>1, <1>2, <1>3, KeptData DEF process_discard_bio, mapping, session

LEMMA FlushData ==
  ASSUME TargetInv, TargetInv', DataSound, NEW b \in Bios, bios[b].at = "deferred",
         stage = "bios", process_flush_bio(b)
  PROVE  DataSound'
<1> USE DEF TargetInv, TargetTypes
<1>1. /\ bios[b] \in BioRecords /\ bios[b].op = "flush"
      /\ bios' = [bios EXCEPT ![b] = Sent(b, "origin", Null)]
  BY BioFacts DEF process_flush_bio
<1>2. /\ bios'[b] = Sent(b, "origin", Null) /\ \A x \in Bios : x # b => bios'[x] = bios[x]
  BY <1>1 DEF BioTypes
<1>3. /\ bios'[b].at = "flush" /\ SameRequest(bios[b], bios'[b])
  BY <1>1, <1>2, SentFacts DEF SameRequest, BioRecords
<1>4. ~AWrite(bios[b])
  BY <1>1 DEF AWrite
<1>5. UNCHANGED <<mode, faults, data, meta, disk, migrations, acked, submits, discard_bitset, dirty_bitset>>
  BY DEF process_flush_bio, mapping, bits, session
<1>6. commit_requested'
  BY DEF process_flush_bio
<1> QED
  BY <1>1, <1>2, <1>3, <1>4, <1>5, <1>6, SentData DEF process_flush_bio

\* A migration begins.
LEMMA StartData ==
  ASSUME TargetInv, TargetInv', DataSound, NEW mg \in MigrationRecords, Start(mg),
         mg.waits = {x \in Bios : \/ bios[x].at \in {"io", "writethrough"}
                                  \/ bios[x].at = "flush" /\ bios[x].op = "fua"},
         mg.phase = "quiescing", ~mg.overwrite,
         mg.holder # Null =>
           /\ mg.holder \in Bios /\ bios[mg.holder].at = "deferred"
           /\ bios[mg.holder].o = IF mg.kind = "invalidate" THEN mg.old ELSE mg.new,
         Moves(mg) => mg.new \in Oblocks /\ \A d \in Cblocks : meta[d] # mg.new,
         commit_requested => commit_requested',
         UNCHANGED <<mode, faults, data, meta, disk, bits, stage, acked, submits>>
  PROVE  DataSound'
<1> USE DEF TargetInv, TargetTypes
<1>1. /\ ClientInv /\ FlightInv /\ ContentsInv
      /\ migrations' = migrations \cup {mg}
      /\ \A x \in Bios : x # mg.holder => bios'[x] = bios[x]
  BY DEF DataSound, Start
<1>2. mg.holder \in Bios =>
        SameRequest(bios[mg.holder], bios'[mg.holder]) /\ bios'[mg.holder].at = "held"
  <2>1. ASSUME mg.holder \in Bios
        PROVE SameRequest(bios[mg.holder], bios'[mg.holder]) /\ bios'[mg.holder].at = "held"
    <3>1. bios[mg.holder] \in BioRecords /\ bios'[mg.holder] = [bios[mg.holder] EXCEPT !.at = "held"]
      BY <2>1, BioFacts, DmTargetAssumption DEF Start
    <3> QED
      BY <3>1 DEF BioRecords, SameRequest
  <2> QED
    BY <2>1
<1>3. AllKept
  <2>1. ASSUME NEW x \in Bios PROVE Kept(bios[x], bios'[x])
    <3>1. CASE x = mg.holder
      BY <1>2, <3>1, DmTargetAssumption DEF Kept
    <3>2. CASE x # mg.holder
      BY <1>1, <3>2 DEF Kept
    <3> QED
      BY <3>1, <3>2
  <2> QED
    BY <2>1 DEF AllKept
<1>4. ClientInv'
  BY <1>1, <1>3, ClientKept, ValuedKept DEF ClientInv, bits
<1>5. ASSUME NEW b \in Bios, Carries(bios[b])'
      PROVE  bios'[b] = bios[b] /\ Carries(bios[b]) /\ Routed(bios[b])' /\ b \in mg.waits
  <2>1. b # mg.holder
    BY <1>2, <1>5 DEF Carries, Sending
  <2>2. bios'[b] = bios[b] /\ Carries(bios[b])
    BY <1>1, <1>5, <2>1 DEF Carries, Sending
  <2> QED
    BY <1>1, <1>3, <1>5, <2>2, RoutedKept DEF FlightInv, data, bits, Carries, Sending, AllKept
<1>6. ASSUME NEW m \in migrations PROVE HolderKnown(m)'
  <2>1. /\ HolderKnown(m) /\ (m.overwrite => m.holder # Null)
        /\ m.holder # Null => bios'[m.holder] = bios[m.holder]
    BY <1>1, HolderFacts, MigrationFacts DEF FlightInv, MapInv, Shaped
  <2> QED
    BY <2>1 DEF HolderKnown, AWrite, OnCache, data, bits
<1>7. HolderKnown(mg)'
  BY <1>2 DEF HolderKnown, SameRequest
<1>8. FlightInv'
  BY <1>1, <1>5, <1>6, <1>7 DEF FlightInv
<1>9. Current(mg)'
  BY <1>1 DEF Current, Moves, ContentsInv, CleanAtOrigin, data
<1>10. ContentsInv'
  BY <1>1, <1>9, ContentsFrame DEF data, bits, DataTypes, SameMove
<1>11. ASSUME "commit" \notin faults PROVE CommitInv'
  <2>1. CommitInv
    BY <1>11 DEF DataSound
  <2>2. \A c \in Cblocks : disk'[c] # meta'[c] => NotOnDisk(c)'
    BY <1>1, <2>1 DEF CommitInv, NotOnDisk
  <2>3. \A b \in Bios : Carries(bios[b])' /\ AWrite(bios[b])' =>
          \A c \in Cblocks : disk'[c] = bios'[b].o <=> meta'[c] = bios'[b].o
    BY <1>5, <2>1 DEF CommitInv, AWrite
  <2>4. \A c \in Cblocks : disk'[c] # Null => OnCache(disk[c], c)' >= acked'[disk'[c]]
    BY <2>1 DEF CommitInv, OnCache, data
  <2> QED
    BY <2>1, <2>2, <2>3, <2>4 DEF CommitInv
<1> QED
  BY <1>4, <1>8, <1>10, <1>11 DEF DataSound

LEMMA WritebackData ==
  ASSUME TargetInv, TargetInv', DataSound, NEW c \in Cblocks, writeback_some_dirty_blocks(c)
  PROVE  DataSound'
<1> USE DEF TargetInv, TargetTypes
<1>1. PICK mg : mg = Migration("writeback", policy[c], Null, c, Null)
  OBVIOUS
<1>2. /\ mg \in MigrationRecords /\ mg.kind = "writeback" /\ mg.holder = Null
      /\ mg.phase = "quiescing" /\ ~mg.overwrite
      /\ mg.waits = {x \in Bios : \/ bios[x].at \in {"io", "writethrough"}
                                  \/ bios[x].at = "flush" /\ bios[x].op = "fua"}
  BY <1>1 DEF Migration, MigrationRecords, MappingTypes, Mappings
<1> QED
  BY <1>1, <1>2, StartData DEF writeback_some_dirty_blocks, Moves, mapping, session

LEMMA MovesData ==
  ASSUME TargetInv, TargetInv', DataSound, NEW b \in Bios, bios[b].at = "deferred",
         bios[b].op \in {"read", "write", "fua"}, stage = "bios",
         UNCHANGED <<mode, faults, data, meta, disk, bits, stage, acked, session>>,
         commit_requested => commit_requested', bios[b].o \notin cells,
         NEW kind \in {"invalidate", "promote", "demote"}, NEW old, NEW new, NEW c \in Cblocks,
         \/ kind = "invalidate" /\ old = bios[b].o /\ new = Null
         \/ /\ kind = "promote" /\ old = Null /\ new = bios[b].o
            /\ MappedTo(new) = {}
         \/ /\ kind = "demote" /\ old = policy[c] /\ new = bios[b].o
            /\ MappedTo(new) = {},
         Start(Migration(kind, old, new, c, b))
  PROVE  DataSound'
<1> USE DEF TargetInv, TargetTypes
<1>1. PICK mg : mg = Migration(kind, old, new, c, b)
  OBVIOUS
<1>2. bios[b].o \in Oblocks /\ old \in Oblocks \cup {Null} /\ new \in Oblocks \cup {Null} /\ b # Null
  BY BioFacts, DmTargetAssumption DEF BioRecords, MappingTypes, Mappings
<1>3. /\ mg \in MigrationRecords /\ mg.kind = kind /\ mg.holder = b /\ mg.old = old /\ mg.new = new
      /\ mg.phase = "quiescing" /\ ~mg.overwrite
      /\ mg.waits = {x \in Bios : \/ bios[x].at \in {"io", "writethrough"}
                                  \/ bios[x].at = "flush" /\ bios[x].op = "fua"}
  BY <1>1, <1>2 DEF Migration, MigrationRecords
<1>4. Moves(mg) => mg.new \in Oblocks /\ \A d \in Cblocks : meta[d] # mg.new
  BY <1>2, <1>3, Unheld DEF Moves, MappedTo
<1> QED
  BY <1>1, <1>2, <1>3, <1>4, StartData DEF session

LEMMA DeferredBioData ==
  ASSUME TargetInv, TargetInv', DataSound, NEW b \in Bios, process_deferred_bio(b)
  PROVE  DataSound'
<1> USE DEF TargetInv, TargetTypes
<1>1. stage = "bios" /\ bios[b].at = "deferred"
  BY DEF process_deferred_bio
<1>2. CASE process_flush_bio(b)
  BY <1>1, <1>2, FlushData
<1>3. CASE process_discard_bio(b)
  BY <1>1, <1>3, DiscardData DEF process_discard_bio, session
<1>4. CASE process_bio(b)
  <2>1. /\ bios[b].op \in {"read", "write", "fua"} /\ bios[b].o \in Oblocks
        /\ UNCHANGED <<mode, faults, data, meta, disk, stage, acked, session>>
        /\ commit_requested => commit_requested'
    <3>1. bios[b].op \in {"read", "write", "fua"} /\ bios[b].o \in Oblocks
      BY <1>1, <1>4, BioFacts DEF process_bio, BioRecords
    <3>2. UNCHANGED <<mode, faults, data, meta, disk, stage, acked, session>>
      BY <1>4 DEF process_bio, process_bio_unmoved, process_bio_moves, mapping
    <3>3. commit_requested => commit_requested'
      BY <1>4, Zenon DEF process_bio, process_bio_unmoved, process_bio_moves
    <3> QED
      BY <3>1, <3>2, <3>3
  <2>2. ASSUME NEW o \in Oblocks, bios' = [bios EXCEPT ![b] = Waiting(b, o)],
               UNCHANGED <<bits, migrations>>
        PROVE  DataSound'
    <3>1. AllKept
      BY <1>1, <2>2, WaitingFacts DEF AllKept, Kept, SameRequest, BioTypes
    <3> QED
      BY <2>1, <2>2, <3>1, KeptData DEF bits, session
  <2>3. CASE process_bio_unmoved(b)
    <3>1. CASE /\ \E c \in MappedTo(bios[b].o) :
                    Start(Migration("invalidate", bios[b].o, Null, c, b))
               /\ bios[b].o \notin cells /\ UNCHANGED bits
      <4>1. PICK c \in Cblocks : Start(Migration("invalidate", bios[b].o, Null, c, b))
        BY <3>1 DEF MappedTo
      <4> QED
        BY <1>1, <2>1, <3>1, <4>1, MovesData
    <3>2. CASE /\ UNCHANGED migrations /\ bios[b].o \notin cells
               /\ \/ mode # "passthrough" /\ \E c \in MappedTo(bios[b].o) : remap_hit(b, c)
                  \/ MappedTo(bios[b].o) = {} /\ stage = "bios" /\ remap_to_origin_clear_discard(b)
                  \/ ~IsWrite(b) /\ mode = "passthrough" /\ remap_to_origin_clear_discard(b)
      BY <1>1, <2>1, <3>2, RemapData DEF session
    <3> QED
      BY <1>1, <2>1, <2>2, <2>3, <3>1, <3>2 DEF process_bio_unmoved
  <2>4. CASE process_bio_moves(b)
    <3>1. PICK c \in Cblocks :
            \/ Start(Migration("promote", Null, bios[b].o, c, b))
            \/ Start(Migration("demote", policy[c], bios[b].o, c, b))
            \/ /\ bios' = [bios EXCEPT ![b] = Waiting(b, policy[c])] /\ policy[c] \in cells
               /\ UNCHANGED <<policy, inflight, cells, migrations>>
      BY <2>4 DEF process_bio_moves
    <3>2. /\ bios[b].o \notin cells /\ MappedTo(bios[b].o) = {}
          /\ UNCHANGED <<meta, disk, bits, commit_requested>>
      BY <2>4 DEF process_bio_moves
    <3>3. CASE Start(Migration("promote", Null, bios[b].o, c, b))
      BY <1>1, <2>1, <3>2, <3>3, MovesData
    <3>4. CASE Start(Migration("demote", policy[c], bios[b].o, c, b))
      BY <1>1, <2>1, <3>2, <3>4, MovesData
    <3>5. CASE /\ bios' = [bios EXCEPT ![b] = Waiting(b, policy[c])] /\ policy[c] \in cells
               /\ UNCHANGED <<policy, inflight, cells, migrations>>
      BY <2>2, <3>2, <3>5 DEF MappingTypes
    <3> QED
      BY <3>1, <3>3, <3>4, <3>5
  <2> QED
    BY <1>4, <2>3, <2>4 DEF process_bio
<1> QED
  BY <1>2, <1>3, <1>4 DEF process_deferred_bio

\* A bio ends: the others go on, and the migrations wait for one less.
LEMMA EndFacts ==
  ASSUME TargetTypes, MapInv, FlightInv, NEW b \in Bios, End(b)
  PROVE  /\ bios'[b] = Idle /\ (\A x \in Bios : x # b => bios'[x] = bios[x])
         /\ AllKept
         /\ \A n \in migrations' : \E m \in migrations : SameMove(m, n)
         /\ \A m \in migrations : \E n \in migrations' : SameMove(m, n) /\ n.phase = m.phase
         /\ \A n \in migrations', x \in Bios :
              Carries(bios[x])' /\ IsBlockOf(bios'[x].o, n) => x \in n.waits
<1> USE DEF TargetTypes
<1>1. /\ bios'[b] = Idle /\ (\A x \in Bios : x # b => bios'[x] = bios[x])
      /\ migrations' = NotWaitedFor(b)
  BY DEF End, BioTypes
<1>2. AllKept
  BY <1>1 DEF AllKept, Kept
<1>3. ASSUME NEW m \in migrations, NEW n, n = [m EXCEPT !.waits = @ \ {b}]
      PROVE  SameMove(m, n) /\ n.phase = m.phase /\ n.waits = m.waits \ {b}
  BY <1>3, MigrationFacts DEF MigrationRecords, SameMove
<1>4. ASSUME NEW n \in migrations'
      PROVE  \E m \in migrations : SameMove(m, n) /\ n.waits = m.waits \ {b}
  <2>1. PICK m \in migrations : n = [m EXCEPT !.waits = @ \ {b}]
    BY <1>1 DEF NotWaitedFor
  <2> QED
    BY <1>3, <2>1
<1>5. ASSUME NEW m \in migrations
      PROVE  \E n \in migrations' : SameMove(m, n) /\ n.phase = m.phase
  <2>1. PICK n : n = [m EXCEPT !.waits = @ \ {b}]
    OBVIOUS
  <2>2. n \in migrations'
    BY <1>1, <2>1 DEF NotWaitedFor
  <2> QED
    BY <1>3, <2>1, <2>2
<1>6. ASSUME NEW n \in migrations', NEW x \in Bios, Carries(bios[x])', IsBlockOf(bios'[x].o, n)
      PROVE  x \in n.waits
  <2>1. PICK m \in migrations : SameMove(m, n) /\ n.waits = m.waits \ {b}
    BY <1>4
  <2>2. x # b /\ bios'[x] = bios[x]
    BY <1>1, <1>6 DEF Carries, Sending, Idle
  <2>3. Carries(bios[x]) /\ IsBlockOf(bios[x].o, m)
    BY <1>6, <2>1, <2>2 DEF Carries, Sending, SameMove, IsBlockOf
  <2> QED
    BY <2>1, <2>2, <2>3 DEF FlightInv
<1> QED
  BY <1>1, <1>2, <1>4, <1>5, <1>6

\* What waits for the disk still does.
LEMMA NotOnDiskKept ==
  ASSUME MapInv, CommitInv, UNCHANGED <<mode, meta, disk>>,
         \A m \in migrations : \E n \in migrations' : SameMove(m, n) /\ n.phase = m.phase
  PROVE  \A c \in Cblocks : disk'[c] # meta'[c] => NotOnDisk(c)'
<1>1. ASSUME NEW c \in Cblocks, disk[c] # meta[c], ~(mode = "passthrough" /\ meta[c] = Null)
      PROVE  NotOnDisk(c)'
  <2>1. PICK mg \in migrations :
          /\ mg.c = c /\ mg.phase = "need_commit"
          /\ disk[c] # Null => IsBlockOf(disk[c], mg)
    BY <1>1 DEF CommitInv, NotOnDisk
  <2>2. PICK n \in migrations' : SameMove(mg, n) /\ n.phase = mg.phase
    OBVIOUS
  <2> QED
    BY <2>1, <2>2 DEF NotOnDisk, SameMove, IsBlockOf
<1> QED
  BY <1>1 DEF NotOnDisk

LEMMA EndReadFlushData ==
  ASSUME TargetInv, TargetInv', DataSound, NEW b \in Bios, EndRead(b) \/ EndFlush(b)
  PROVE  DataSound'
<1> USE DEF TargetInv, TargetTypes
<1>1. /\ End(b) /\ ClientInv /\ FlightInv /\ ContentsInv
      /\ UNCHANGED <<mode, faults, data, mapping, bits, cells, stage, commit_requested, acked, session>>
  BY DEF EndRead, EndFlush, DataSound
<1>2. /\ bios'[b] = Idle /\ (\A x \in Bios : x # b => bios'[x] = bios[x])
      /\ AllKept
      /\ \A n \in migrations' : \E m \in migrations : SameMove(m, n)
      /\ \A m \in migrations : \E n \in migrations' : SameMove(m, n) /\ n.phase = m.phase
      /\ \A n \in migrations', x \in Bios :
           Carries(bios[x])' /\ IsBlockOf(bios'[x].o, n) => x \in n.waits
  BY <1>1, EndFacts
<1>3. bios[b].at = "io"
  BY DEF EndRead, EndFlush
<1>4. ClientInv'
  BY <1>1, <1>2, ClientKept, ValuedKept DEF ClientInv, bits, session
<1>5. ASSUME NEW x \in Bios, Carries(bios[x])'
      PROVE  bios'[x] = bios[x] /\ Carries(bios[x]) /\ Routed(bios[x])'
  <2>1. bios'[x] = bios[x] /\ Carries(bios[x])
    BY <1>2, <1>5 DEF Carries, Sending, Idle
  <2> QED
    BY <1>1, <1>2, <1>5, <2>1, RoutedKept DEF FlightInv, data, bits, mapping, AllKept
<1>6. ASSUME NEW n \in migrations' PROVE HolderKnown(n)'
  <2>1. PICK m \in migrations : SameMove(m, n)
    BY <1>2
  <2>2. \A x \in Bios : bios[x].at = "held" => bios'[x] = bios[x]
    BY <1>2, <1>3
  <2> QED
    BY <1>1, <2>1, <2>2, HolderRelabelled DEF FlightInv, data, bits
<1>7. FlightInv'
  BY <1>2, <1>5, <1>6 DEF FlightInv
<1>8. ContentsInv'
  BY <1>1, <1>2, ContentsFrame DEF data, bits, DataTypes, mapping
<1>9. ASSUME "commit" \notin faults PROVE CommitInv'
  <2>1. CommitInv
    BY <1>9 DEF DataSound
  <2>2. \A c \in Cblocks : disk'[c] # meta'[c] => NotOnDisk(c)'
    BY <1>1, <1>2, <2>1, NotOnDiskKept DEF mapping
  <2>3. \A x \in Bios : Carries(bios[x])' /\ AWrite(bios[x])' =>
          \A c \in Cblocks : disk'[c] = bios'[x].o <=> meta'[c] = bios'[x].o
    BY <1>1, <1>5, <2>1 DEF CommitInv, AWrite, mapping
  <2>4. \A c \in Cblocks : disk'[c] # Null => OnCache(disk[c], c)' >= acked'[disk'[c]]
    BY <1>1, <2>1 DEF CommitInv, OnCache, data, mapping
  <2> QED
    BY <1>1, <2>1, <2>2, <2>3, <2>4 DEF CommitInv, mapping
<1> QED
  BY <1>1, <1>4, <1>7, <1>8, <1>9 DEF DataSound

LEMMA EndWriteData ==
  ASSUME TargetInv, TargetInv', DataSound, NEW b \in Bios, EndWrite(b)
  PROVE  DataSound'
<1> USE DEF TargetInv, TargetTypes
<1>1. PICK o, v, to, c : o = bios[b].o /\ v = bios[b].v /\ to = bios[b].to /\ c = bios[b].c
  OBVIOUS
<1>2. /\ ClientInv /\ FlightInv /\ ContentsInv
      /\ bios[b] \in BioRecords /\ bios[b].at = "io" /\ AWrite(bios[b]) /\ Carries(bios[b])
      /\ o \in Oblocks /\ o # Null /\ v \in Nat /\ acked[o] < v /\ acked[o] \in Int
      /\ o \notin discard_bitset /\ Routed(bios[b])
      /\ to \in {"origin", "cache", "both"}
      /\ to # "origin" => c \in Cblocks /\ meta[c] = o
      /\ UNCHANGED <<mode, faults, mapping, bits, cells, stage, commit_requested, session>>
  <2>1. bios[b] \in BioRecords /\ AWrite(bios[b]) /\ bios[b].at = "io"
    BY BioFacts DEF EndWrite, IsWrite, AWrite
  <2>2. Carries(bios[b])
    BY <2>1 DEF Carries, Sending, AWrite
  <2> QED
    BY <1>1, <2>1, <2>2, DmTargetAssumption
    DEF DataSound, ClientInv, Promised, FlightInv, EndWrite, BioRecords, Routed, DataTypes
<1>3. \A x \in Bios : x # b /\ bios[x].at # "idle" /\ bios[x].o = o => bios[x].op \in {"read", "flush"}
  BY <1>1, <1>2 DEF ClientInv, AWrite
<1>4. \A m \in migrations : m.phase # "quiescing" => ~IsBlockOf(o, m) /\ (to # "origin" => c # m.c)
  BY <1>1, <1>2, NoCarrier DEF WaitInv
\* The rest of the block was current where the write went.
<1>5. /\ to = "cache" => OnCache(o, c) >= acked[o]
      /\ to # "cache" => CleanAtOrigin(o) /\ origin[o] >= acked[o]
  <2>1. to # "cache" => CleanAtOrigin(o)
    BY <1>1, <1>2 DEF Routed, CleanAtOrigin, ContentsInv
  <2> QED
    BY <1>2, <2>1 DEF ContentsInv
<1>6. /\ to = "cache" => Written(b, OnCache(o, c)) = v
      /\ to # "cache" => Written(b, origin[o]) = v
  BY <1>1, <1>5 DEF Written
<1>7. /\ \A d \in Cblocks : IF to = "cache" /\ d = c THEN ssd'[d] = <<o, v>> ELSE ssd'[d] = ssd[d]
      /\ \A p \in Oblocks : origin'[p] = IF to # "cache" /\ p = o THEN v ELSE origin[p]
      /\ \A p \in Oblocks : acked'[p] = IF to # "both" /\ p = o THEN v ELSE acked[p]
  BY <1>1, <1>2, <1>6 DEF EndWrite, DataTypes
<1>8. /\ AllKept \/ to = "both"
      /\ \A x \in Bios : x # b => bios'[x] = bios[x]
      /\ IF to = "both"
           THEN bios'[b].at = "writethrough" /\ bios'[b].to = to /\ bios'[b].c = c
                /\ SameRequest(bios[b], bios'[b])
           ELSE bios'[b] = Idle
      /\ \A n \in migrations' : \E m \in migrations : SameMove(m, n)
      /\ \A m \in migrations : \E n \in migrations' : SameMove(m, n) /\ n.phase = m.phase
      /\ \A n \in migrations', x \in Bios :
           Carries(bios[x])' /\ IsBlockOf(bios'[x].o, n) => x \in n.waits
  <2>1. CASE to # "both"
    BY <1>1, <1>2, <2>1, EndFacts DEF EndWrite
  <2>2. CASE to = "both"
    <3>1. /\ bios' = [bios EXCEPT ![b] = [bios[b] EXCEPT !.at = "writethrough"]]
          /\ migrations' = migrations
      BY <1>1, <2>2 DEF EndWrite
    <3>2. /\ \A x \in Bios : x # b => bios'[x] = bios[x]
          /\ bios'[b].at = "writethrough" /\ bios'[b].to = to /\ bios'[b].c = c
          /\ SameRequest(bios[b], bios'[b])
      BY <1>1, <1>2, <3>1 DEF BioTypes, BioRecords, SameRequest
    <3>3. \A n \in migrations', x \in Bios :
            Carries(bios[x])' /\ IsBlockOf(bios'[x].o, n) => x \in n.waits
      BY <1>2, <3>1, <3>2 DEF FlightInv, SameRequest, Carries, Sending
    <3> QED
      BY <2>2, <3>1, <3>2, <3>3 DEF SameMove
  <2> QED
    BY <2>1, <2>2
<1>9. ASSUME NEW x \in Bios, Carries(bios[x])'
      PROVE  /\ Carries(bios[x]) /\ SameRequest(bios[x], bios'[x]) /\ Routed(bios[x])'
             /\ x = b => to = "both"
  <2>1. CASE x = b
    <3>1. to = "both" /\ bios'[b].at = "writethrough" /\ bios'[b].to = to /\ bios'[b].c = c
          /\ SameRequest(bios[b], bios'[b])
      BY <1>8, <1>9, <2>1 DEF Carries, Sending, Idle
    <3>2. Routed(bios[b])'
      BY <1>1, <1>2, <1>7, <3>1 DEF Routed, SameRequest, AWrite, mapping, bits
    <3> QED
      BY <1>2, <2>1, <3>1, <3>2
  <2>2. CASE x # b
    <3>1. bios'[x] = bios[x] /\ Carries(bios[x]) /\ Routed(bios[x])
          /\ bios[x].at # "idle" /\ bios[x] \in BioRecords
      BY <1>2, <1>8, <1>9, <2>2, BioFacts DEF FlightInv, Carries, Sending
    <3>2. AWrite(bios[x]) => origin'[bios[x].o] = origin[bios[x].o]
      BY <1>3, <1>7, <2>2, <3>1 DEF AWrite, BioRecords
    <3>3. Kept(bios[x], bios'[x])
      BY <3>1 DEF Kept
    <3> QED
      BY <1>2, <1>9, <2>2, <3>1, <3>2, <3>3, RoutedKept DEF SameRequest, mapping, bits
  <2> QED
    BY <2>1, <2>2
<1>10. ClientInv'
  <2>1. /\ \A p \in Oblocks : origin'[p] >= NoPromise
        /\ \A d \in Cblocks : ssd'[d][2] >= NoPromise
    BY <1>2, <1>7 DEF ClientInv, Valued, NoPromise
  <2>2. CASE to # "both"
    <3>1. acked' = [acked EXCEPT ![bios[b].o] = bios[b].v]
      BY <1>1, <2>2 DEF EndWrite
    <3>2. bios[b].at # "idle" /\ bios'[b] = Idle /\ AllKept /\ UNCHANGED <<submits, discard_bitset>>
      BY <1>2, <1>8, <2>2 DEF session, bits
    <3> QED
      BY <1>1, <1>2, <2>1, <3>1, <3>2, ClientAcked
  <2>3. CASE to = "both"
    <3>1. acked' = acked /\ UNCHANGED <<submits, discard_bitset>>
      BY <1>1, <1>2, <2>3 DEF EndWrite, session, bits
    <3>2. Valued'
      BY <1>2, <2>1, <3>1 DEF ClientInv, Valued
    <3>3. \A x \in Bios : bios'[x].at # "idle" => Lasts(bios[x], bios'[x])
      BY <1>2, <1>8, <2>3 DEF Lasts, SameRequest, Sending
    <3> QED
      BY <1>2, <3>1, <3>2, <3>3, ClientLasts
  <2> QED
    BY <2>2, <2>3
<1>11. FlightInv'
  <2>1. ASSUME NEW n \in migrations' PROVE HolderKnown(n)'
    <3>1. PICK m \in migrations : SameMove(m, n)
      BY <1>8
    <3>2. /\ HolderKnown(m) /\ Shaped(m) /\ m.c \in Cblocks
          /\ m.holder # Null => bios'[m.holder] = bios[m.holder]
          /\ m.overwrite => m.holder # Null /\ ssd'[m.c] = ssd[m.c]
      BY <1>2, <1>4, <1>7, <1>8, HolderFacts, MigrationFacts DEF FlightInv, MapInv, Shaped
    <3> QED
      BY <1>2, <3>1, <3>2 DEF HolderKnown, SameMove, AWrite, OnCache, bits
  <2> QED
    BY <1>8, <1>9, <2>1 DEF FlightInv
<1>12. ASSUME NEW d \in Cblocks, NEW p \in Oblocks, to = "cache" => (d = c <=> p = o)
       PROVE  OnCache(p, d)' = IF to = "cache" /\ d = c THEN v ELSE OnCache(p, d)
  BY <1>7, <1>12 DEF OnCache
<1>13. ASSUME NEW d \in Cblocks, meta[d] # Null PROVE OnCache(meta[d], d)' >= acked'[meta[d]]
  <2>1. meta[d] \in Oblocks /\ OnCache(meta[d], d) >= acked[meta[d]]
    BY <1>2, <1>13 DEF ContentsInv, MappingTypes, Mappings
  <2>2. to = "cache" => (d = c <=> meta[d] = o)
    BY <1>2, <1>13 DEF ContentsInv
  <2>3. to = "origin" => meta[d] # o
    BY <1>1, <1>2 DEF Routed
  <2>4. OnCache(meta[d], d)' = IF to = "cache" /\ d = c THEN v ELSE OnCache(meta[d], d)
    <3>1. (OnCache(meta[d], d))' = OnCache(meta[d], d)'
      OBVIOUS
    <3> QED
      BY <1>2, <1>12, <2>1, <2>2 DEF mapping
  <2> QED
    BY <1>2, <1>7, <2>1, <2>2, <2>3, <2>4
<1>14. ASSUME NEW p \in Oblocks, CleanAtOrigin(p)' PROVE origin'[p] >= acked'[p]
  <2>1. CleanAtOrigin(p)
    BY <1>2, <1>14 DEF CleanAtOrigin, mapping, bits
  <2>2. origin[p] >= acked[p]
    BY <1>2, <2>1 DEF ContentsInv
  <2>3. to = "cache" /\ p = o => origin[o] >= v
    BY <1>1, <1>2, <2>1 DEF Routed, CleanAtOrigin
  <2> QED
    BY <1>2, <1>7, <2>2, <2>3
<1>15. ASSUME NEW n \in migrations' PROVE Current(n)'
  <2>1. PICK m \in migrations : SameMove(m, n)
    BY <1>8
  <2>2. Current(m) /\ Shaped(m) /\ m.c \in Cblocks
    BY <1>2, MigrationFacts DEF ContentsInv, MapInv
  <2>3. /\ m.kind \in {"writeback", "demote"} => m.old \in Oblocks
        /\ m.kind = "promote" => m.new \in Oblocks
    BY <2>2, MigrationFacts DEF Shaped
  <2>4. CASE m.kind = "promote"
    <3>1. m.new = o => to = "origin" \/ to = "both"
      BY <1>2, <1>4, <2>2, <2>4 DEF Current, Moves, Shaped, PastCommit
    <3>2. origin'[m.new] >= acked'[m.new]
      BY <1>2, <1>7, <2>2, <2>3, <2>4, <3>1 DEF Current
    <3>3. m.phase = "completed" => m.new # o /\ (to = "cache" => m.c # c)
      BY <1>2, <1>4, <2>3, <2>4 DEF IsBlockOf
    <3>4. m.phase = "completed" =>
            OnCache(m.new, m.c)' = OnCache(m.new, m.c) /\ acked'[m.new] = acked[m.new]
      BY <1>7, <1>12, <2>2, <2>3, <2>4, <3>3
    <3> QED
      BY <1>2, <2>1, <2>2, <2>4, <3>2, <3>4 DEF Current, SameMove, Moves, mapping
  <2>5. CASE m.kind \in {"writeback", "demote"}
    <3>1. m.phase = "completed" => m.old # o
      BY <1>2, <1>4, <2>3, <2>5 DEF IsBlockOf
    <3>2. m.phase = "completed" => origin'[m.old] = origin[m.old] /\ acked'[m.old] = acked[m.old]
      BY <1>7, <2>3, <2>5, <3>1
    <3> QED
      BY <1>2, <2>1, <2>2, <2>5, <3>2 DEF Current, SameMove, Moves, mapping, bits
  <2>6. CASE m.kind = "invalidate"
    BY <2>1, <2>6 DEF Current, SameMove, Moves
  <2> QED
    BY <2>4, <2>5, <2>6, MigrationFacts
<1>16. ContentsInv'
  BY <1>2, <1>13, <1>14, <1>15 DEF ContentsInv, mapping
<1>17. ASSUME "commit" \notin faults PROVE CommitInv'
  <2>1. CommitInv /\ disk' = disk /\ meta' = meta
    BY <1>2, <1>17 DEF DataSound, mapping
  <2>2. \A d \in Cblocks : disk'[d] # meta'[d] => NotOnDisk(d)'
    BY <1>2, <1>8, <2>1, NotOnDiskKept
  <2>3. \A x \in Bios : Carries(bios[x])' /\ AWrite(bios[x])' =>
          \A d \in Cblocks : disk'[d] = bios'[x].o <=> meta'[d] = bios'[x].o
    BY <1>9, <2>1 DEF CommitInv, SameRequest, AWrite
  <2>4. ASSUME NEW d \in Cblocks, disk[d] # Null PROVE OnCache(disk[d], d)' >= acked'[disk[d]]
    <3>1. disk[d] \in Oblocks /\ OnCache(disk[d], d) >= acked[disk[d]]
      BY <2>1, <2>4 DEF CommitInv, MappingTypes, Mappings
    <3>2. disk[d] = o <=> meta[d] = o
      BY <1>1, <1>2, <2>1 DEF CommitInv
    <3>3. to = "cache" => (d = c <=> disk[d] = o)
      BY <1>2, <3>2 DEF ContentsInv
    <3>4. to = "origin" => disk[d] # o
      BY <1>1, <1>2, <3>2 DEF Routed
    <3>5. OnCache(disk[d], d)' = IF to = "cache" /\ d = c THEN v ELSE OnCache(disk[d], d)
      BY <1>12, <2>1, <3>1, <3>3
    <3> QED
      BY <1>2, <1>7, <3>1, <3>3, <3>4, <3>5
  <2> QED
    BY <1>2, <2>1, <2>2, <2>3, <2>4 DEF CommitInv
<1> QED
  BY <1>2, <1>10, <1>11, <1>16, <1>17 DEF DataSound

LEMMA StageData ==
  ASSUME TargetInv, TargetInv', DataSound, NextStage \/ start_quiescing \/ UNCHANGED tgtVars
  PROVE  DataSound'
<1>1. AllKept /\ discard_bitset' = discard_bitset
  BY DEF NextStage, start_quiescing, AllKept, Kept, flow, bits, tgtVars
<1>2. /\ stage \in {"copies", "commit"} => stage' \in {stage, "commit"}
      /\ migrations' = migrations
      /\ UNCHANGED <<mode, faults, data, meta, disk, dirty_bitset, acked, submits, commit_requested>>
  BY DEF NextStage, start_quiescing, mapping, bits, flow, session, tgtVars
<1> QED
  BY <1>1, <1>2, KeptData

-----------------------------------------------------------------------------
(***************************************************************************)
(* Invalidations by message, reloads and crashes.                          *)
(***************************************************************************)
\* In passthrough mode the origin has everything.
LEMMA InvalidationData ==
  ASSUME TargetInv, TargetInv', DataSound, NEW c \in Cblocks, process_invalidation_request(c)
  PROVE  DataSound'
<1> USE DEF TargetInv, TargetTypes
<1>1. /\ ClientInv /\ FlightInv /\ ContentsInv
      /\ mode = "passthrough" /\ dirty_bitset = {} /\ stage = "copies"
      /\ commit_requested' = TRUE
      /\ UNCHANGED <<mode, faults, origin, ssd, disk, dirty_bitset, discard_bitset, migrations, bios,
                     stage, acked, submits>>
  BY DEF DataSound, process_invalidation_request, MapInv, data, bits, flow, session
<1>2. meta'[c] = Null /\ \A d \in Cblocks : d # c => meta'[d] = meta[d]
  BY DEF process_invalidation_request, MappingTypes, Mappings
<1>3. ClientInv'
  BY <1>1 DEF ClientInv, Valued, Promised
<1>4. ASSUME NEW b \in Bios, Carries(bios[b])' PROVE Routed(bios[b])'
  <2>1. Routed(bios[b]) /\ bios[b] \in BioRecords
    BY <1>1, <1>4, BioFacts DEF FlightInv, Carries, Sending
  <2>2. bios[b].o \in Oblocks
    BY <2>1 DEF BioRecords
  <2>3. bios[b].o # Null
    BY <2>2, DmTargetAssumption
  <2> QED
    BY <1>1, <1>2, <2>1, <2>3 DEF Routed, AWrite
<1>5. \A m \in migrations : HolderKnown(m)'
  BY <1>1 DEF FlightInv, HolderKnown, OnCache, AWrite
<1>6. FlightInv'
  BY <1>1, <1>4, <1>5 DEF FlightInv, Carries, Sending, IsBlockOf
<1>7. \A m \in migrations : Current(m)'
  BY <1>1, MigrationFacts DEF MapInv, Shaped, Current, Moves
<1>8. \A o \in Oblocks : origin'[o] >= acked'[o]
  BY <1>1 DEF ContentsInv, CleanAtOrigin
<1>9. \A d \in Cblocks : meta'[d] # Null => OnCache(meta[d], d)' >= acked'[meta'[d]]
  BY <1>1, <1>2 DEF ContentsInv, OnCache
<1>10. ContentsInv'
  BY <1>1, <1>2, <1>7, <1>8, <1>9 DEF ContentsInv
<1>11. ASSUME "commit" \notin faults PROVE CommitInv'
  <2>1. CommitInv
    BY <1>11 DEF DataSound
  <2>2. \A d \in Cblocks : disk'[d] # meta'[d] => NotOnDisk(d)'
    BY <1>1, <1>2, <2>1 DEF CommitInv, NotOnDisk
  <2>3. \A d \in Cblocks : disk'[d] # Null => OnCache(disk[d], d)' >= acked'[disk'[d]]
    BY <1>1, <2>1 DEF CommitInv, OnCache
  <2>4. ASSUME NEW b \in Bios, Carries(bios[b])', AWrite(bios[b])', NEW d \in Cblocks
        PROVE  disk'[d] = bios'[b].o <=> meta'[d] = bios'[b].o
    <3>1. Carries(bios[b]) /\ AWrite(bios[b]) /\ Routed(bios[b]) /\ bios[b] \in BioRecords
      BY <1>1, <2>4, BioFacts DEF FlightInv, Carries, Sending, AWrite
    <3>2. bios[b].o # Null /\ meta[d] # bios[b].o /\ disk[d] # bios[b].o
      BY <1>1, <2>1, <3>1, DmTargetAssumption DEF CommitInv, Routed, BioRecords
    <3> QED
      BY <1>1, <1>2, <3>2
  <2> QED
    BY <1>1, <2>1, <2>2, <2>3, <2>4 DEF CommitInv
<1> QED
  BY <1>1, <1>3, <1>6, <1>10, <1>11 DEF DataSound

\* The target starts with a mapping that finds what is promised.
LEMMA RestartData ==
  ASSUME TargetTypes, TargetTypes', NEW m \in Mappings, NEW dirty, NEW discards,
         Restart(m, dirty, discards), ClientInv,
         \A o \in Oblocks : origin'[o] >= NoPromise,
         \A c \in Cblocks : ssd'[c][2] >= NoPromise,
         \A o \in discards : acked[o] = NoPromise,
         \A c, d \in Cblocks : m[c] = m[d] /\ m[c] # Null => c = d,
         \A c \in Cblocks : m[c] # Null => OnCache(m[c], c)' >= acked[m[c]],
         \A o \in Oblocks : (\A c \in Cblocks : m[c] = o => c \notin dirty) => origin'[o] >= acked[o]
  PROVE  DataSound'
<1>1. /\ meta' = m /\ disk' = m /\ migrations' = {}
      /\ dirty_bitset' = dirty /\ discard_bitset' = discards
      /\ \A b \in Bios : bios'[b] = Idle
      /\ UNCHANGED <<faults, acked, submits>>
  BY DEF Restart
<1>2. \A b \in Bios : bios'[b].at = "idle" /\ ~Carries(bios[b])'
  BY <1>1 DEF Carries, Sending, Idle
<1>3. Valued'
  BY <1>1 DEF ClientInv, Valued
<1>4. ClientInv'
  BY <1>1, <1>2, <1>3 DEF ClientInv
<1>5. FlightInv'
  BY <1>1, <1>2 DEF FlightInv
<1>6. \A c \in Cblocks : meta'[c] # Null => OnCache(meta[c], c)' >= acked'[meta'[c]]
  BY <1>1 DEF OnCache
<1>7. \A o \in Oblocks : CleanAtOrigin(o)' => origin'[o] >= acked'[o]
  BY <1>1 DEF CleanAtOrigin
<1>8. ContentsInv'
  BY <1>1, <1>6, <1>7 DEF ContentsInv
<1>9. CommitInv'
  <2>1. \A c \in Cblocks : disk'[c] # Null => OnCache(disk[c], c)' >= acked'[disk'[c]]
    BY <1>1 DEF OnCache
  <2> QED
    BY <1>1, <1>2, <2>1 DEF CommitInv
<1> QED
  BY <1>4, <1>5, <1>8, <1>9 DEF DataSound

LEMMA ReloadData ==
  ASSUME TargetInv, TargetInv', DataSound, NEW ok \in BOOLEAN, Reload(ok)
  PROVE  DataSound'
<1> USE DEF TargetInv, TargetTypes
<1> DEFINE dirty == IF ok THEN dirty_bitset \cap Mapped(meta) ELSE Mapped(meta)
           discards == IF ok THEN discard_bitset ELSE {}
<1>1. Restart(meta, dirty, discards) /\ UNCHANGED <<origin, ssd, acked>>
  BY DEF Reload, data, Restart
<1>2. ClientInv /\ ContentsInv /\ meta \in Mappings
  BY DEF DataSound, MappingTypes
<1>3. \A o \in discards : acked[o] = NoPromise
  BY <1>2 DEF ClientInv
<1>4. \A c \in Cblocks : meta[c] # Null => ssd'[c] = ssd[c] /\ OnCache(meta[c], c) >= acked[meta[c]]
  BY <1>1, <1>2 DEF ContentsInv
<1>5. ASSUME NEW o \in Oblocks, \A c \in Cblocks : meta[c] = o => c \notin dirty
      PROVE  origin'[o] >= acked[o]
  <2>1. CleanAtOrigin(o)
    BY <1>5, DmTargetAssumption DEF CleanAtOrigin, Mapped
  <2> QED
    BY <1>1, <1>2, <2>1 DEF ContentsInv
<1>6. /\ \A o \in Oblocks : origin'[o] >= NoPromise
      /\ \A c \in Cblocks : ssd'[c][2] >= NoPromise
  BY <1>1, <1>2 DEF ClientInv, Valued
<1>7. \A c, d \in Cblocks : meta[c] = meta[d] /\ meta[c] # Null => c = d
  BY <1>2 DEF ContentsInv
<1> HIDE DEF dirty, discards
<1>8. \A c \in Cblocks : meta[c] # Null =>
        (IF ssd'[c][1] = meta[c] THEN ssd'[c][2] ELSE NoPromise) >= acked[meta[c]]
  BY <1>4 DEF OnCache
<1> QED
  BY <1>1, <1>2, <1>3, <1>5, <1>6, <1>7, <1>8, RestartData DEF OnCache

\* A write that is on its way leaves all of it where it goes, and is newer than what
\* was acknowledged.
LEMMA WrittenWhole ==
  ASSUME TargetInv, DataSound, NEW b \in Bios, bios[b].at = "io", IsWrite(b)
  PROVE  /\ Carries(bios[b]) /\ AWrite(bios[b]) /\ bios[b] \in BioRecords /\ Routed(bios[b])
         /\ acked[bios[b].o] < bios[b].v
         /\ bios[b].to = "cache" => Written(b, OnCache(bios[b].o, bios[b].c)) = bios[b].v
         /\ bios[b].to # "cache" => Written(b, origin[bios[b].o]) = bios[b].v
<1> USE DEF TargetInv, TargetTypes
<1>1. ClientInv /\ FlightInv /\ ContentsInv
  BY DEF DataSound
<1>2. Carries(bios[b]) /\ AWrite(bios[b]) /\ bios[b] \in BioRecords
  BY BioFacts DEF Carries, Sending, AWrite, IsWrite
<1>3. Routed(bios[b]) /\ Promised(bios[b])
  BY <1>1, <1>2 DEF FlightInv, ClientInv
<1>4. bios[b].o \in Oblocks /\ bios[b].o # Null
  BY <1>2, DmTargetAssumption DEF BioRecords
<1>5. bios[b].to = "cache" => OnCache(bios[b].o, bios[b].c) >= acked[bios[b].o]
  BY <1>1, <1>3, <1>4 DEF ContentsInv, Routed
<1>6. bios[b].to # "cache" => origin[bios[b].o] >= acked[bios[b].o]
  BY <1>1, <1>2, <1>3, <1>4 DEF ContentsInv, Routed, CleanAtOrigin
<1> QED
  BY <1>2, <1>3, <1>5, <1>6 DEF Written, Promised

\* After a crash the disk's mapping finds what was acknowledged: where a copy was
\* under way it does not look, and a write that was done is newer.
LEMMA CrashData ==
  ASSUME TargetInv, TargetInv', DataSound, "commit" \notin faults, Crash
  PROVE  DataSound'
<1> USE DEF TargetInv, TargetTypes
<1>1. PICK done \in SUBSET {b \in Bios : bios[b].at = "io" /\ IsWrite(b)} :
       /\ origin' = [o \in Oblocks |->
            IF \E mg \in migrations :
                 mg.phase = "copying" /\ mg.kind \in {"writeback", "demote"} /\ mg.old = o
              THEN NoPromise
              ELSE IF \E b \in done : bios[b].to # "cache" /\ bios[b].o = o
                THEN LET b == CHOOSE b \in done : bios[b].to # "cache" /\ bios[b].o = o
                     IN  Written(b, origin[o])
                ELSE origin[o]]
       /\ ssd' = [c \in Cblocks |->
            IF \E mg \in migrations : mg.phase = "copying" /\ mg.kind = "promote" /\ mg.c = c
              THEN <<Null, NoPromise>>
              ELSE IF \E b \in done : bios[b].to = "cache" /\ bios[b].c = c
                THEN LET b == CHOOSE b \in done : bios[b].to = "cache" /\ bios[b].c = c
                     IN  <<bios[b].o, Written(b, OnCache(bios[b].o, c))>>
                ELSE ssd[c]]
  BY DEF Crash
<1>2. /\ ClientInv /\ FlightInv /\ ContentsInv /\ CommitInv
      /\ disk \in Mappings /\ meta \in Mappings
      /\ Restart(disk, Mapped(disk), {})
  BY DEF DataSound, Crash, MappingTypes
\* A copying migration's cache block is as on disk.
<1>3. \A mg \in migrations : mg.phase = "copying" =>
        mg.c \in Cblocks /\ Shaped(mg) /\ mg.kind # "invalidate" /\ disk[mg.c] = meta[mg.c]
  BY <1>2, CommittedYet, MigrationFacts DEF MapInv, Shaped
<1>4. ASSUME NEW b \in done
      PROVE  /\ b \in Bios /\ bios[b].o \in Oblocks /\ Routed(bios[b])
             /\ acked[bios[b].o] < bios[b].v
             /\ bios[b].to = "cache" => Written(b, OnCache(bios[b].o, bios[b].c)) = bios[b].v
             /\ bios[b].to # "cache" => Written(b, origin[bios[b].o]) = bios[b].v
             /\ \A c \in Cblocks : disk[c] = bios[b].o <=> meta[c] = bios[b].o
             /\ bios[b].v \in Int
  <2>1. b \in Bios /\ bios[b].at = "io" /\ IsWrite(b)
    OBVIOUS
  <2>2. /\ Carries(bios[b]) /\ AWrite(bios[b]) /\ bios[b] \in BioRecords /\ Routed(bios[b])
        /\ acked[bios[b].o] < bios[b].v
        /\ bios[b].to = "cache" => Written(b, OnCache(bios[b].o, bios[b].c)) = bios[b].v
        /\ bios[b].to # "cache" => Written(b, origin[bios[b].o]) = bios[b].v
    BY <2>1, WrittenWhole
  <2> QED
    BY <1>2, <2>1, <2>2 DEF CommitInv, BioRecords
<1>5. ASSUME NEW o \in Oblocks
      PROVE  \/ /\ \E c \in Cblocks : disk[c] = o
                /\ origin'[o] = NoPromise
             \/ origin'[o] > acked[o]
             \/ origin'[o] = origin[o]
  <2>1. CASE \E mg \in migrations :
               mg.phase = "copying" /\ mg.kind \in {"writeback", "demote"} /\ mg.old = o
    <3>1. PICK mg \in migrations :
            mg.phase = "copying" /\ mg.kind \in {"writeback", "demote"} /\ mg.old = o
      BY <2>1
    <3>2. mg.c \in Cblocks /\ disk[mg.c] = o
      BY <1>3, <3>1 DEF Shaped, PastCommit
    <3> QED
      BY <1>1, <2>1, <3>2
  <2>2. CASE /\ ~\E mg \in migrations :
                   mg.phase = "copying" /\ mg.kind \in {"writeback", "demote"} /\ mg.old = o
             /\ \E b \in done : bios[b].to # "cache" /\ bios[b].o = o
    <3>1. PICK b \in done : /\ bios[b].to # "cache" /\ bios[b].o = o
                            /\ origin'[o] = Written(b, origin[o])
      <4>1. PICK b : b = CHOOSE x \in done : bios[x].to # "cache" /\ bios[x].o = o
        OBVIOUS
      <4>2. b \in done /\ bios[b].to # "cache" /\ bios[b].o = o
        BY <2>2, <4>1
      <4>3. origin'[o] = Written(b, origin[o])
        BY <1>1, <2>2, <4>1
      <4> QED
        BY <4>2, <4>3
    <3> QED
      BY <1>4, <3>1 DEF DataTypes
  <2>3. CASE /\ ~\E mg \in migrations :
                   mg.phase = "copying" /\ mg.kind \in {"writeback", "demote"} /\ mg.old = o
             /\ ~\E b \in done : bios[b].to # "cache" /\ bios[b].o = o
    BY <1>1, <2>3
  <2> QED
    BY <2>1, <2>2, <2>3
<1>6. ASSUME NEW c \in Cblocks
      PROVE  \/ disk[c] = Null /\ ssd'[c] = <<Null, NoPromise>>
             \/ ssd'[c][1] = disk[c] /\ disk[c] \in Oblocks /\ ssd'[c][2] > acked[disk[c]]
             \/ ssd'[c] = ssd[c]
  <2>1. CASE \E mg \in migrations : mg.phase = "copying" /\ mg.kind = "promote" /\ mg.c = c
    BY <1>1, <1>3, <2>1 DEF Shaped, PastCommit
  <2>2. CASE /\ ~\E mg \in migrations : mg.phase = "copying" /\ mg.kind = "promote" /\ mg.c = c
             /\ \E b \in done : bios[b].to = "cache" /\ bios[b].c = c
    <3>1. PICK b \in done : /\ bios[b].to = "cache" /\ bios[b].c = c
                            /\ ssd'[c] = <<bios[b].o, Written(b, OnCache(bios[b].o, c))>>
      <4>1. PICK b : b = CHOOSE x \in done : bios[x].to = "cache" /\ bios[x].c = c
        OBVIOUS
      <4>2. b \in done /\ bios[b].to = "cache" /\ bios[b].c = c
        BY <2>2, <4>1
      <4>3. ssd'[c] = <<bios[b].o, Written(b, OnCache(bios[b].o, c))>>
        BY <1>1, <2>2, <4>1
      <4> QED
        BY <4>2, <4>3
    <3>2. disk[c] = bios[b].o /\ bios[b].o \in Oblocks
      BY <1>4, <3>1 DEF Routed
    <3> QED
      BY <1>4, <3>1, <3>2 DEF DataTypes
  <2>3. CASE /\ ~\E mg \in migrations : mg.phase = "copying" /\ mg.kind = "promote" /\ mg.c = c
             /\ ~\E b \in done : bios[b].to = "cache" /\ bios[b].c = c
    BY <1>1, <2>3
  <2> QED
    BY <2>1, <2>2, <2>3
<1>7. \A o \in Oblocks : acked[o] \in Int /\ acked[o] >= NoPromise /\ origin[o] >= NoPromise
  BY <1>2 DEF ClientInv, Valued, DataTypes
<1>8. \A o \in Oblocks : origin'[o] >= NoPromise
  BY <1>5, <1>7 DEF NoPromise, DataTypes
<1>9. \A c \in Cblocks : ssd'[c][2] >= NoPromise
  BY <1>2, <1>6, <1>7 DEF ClientInv, Valued, NoPromise, DataTypes
<1>10. ASSUME NEW c \in Cblocks, disk[c] # Null
       PROVE  (IF ssd'[c][1] = disk[c] THEN ssd'[c][2] ELSE NoPromise) >= acked[disk[c]]
  <2>1. disk[c] \in Oblocks /\ OnCache(disk[c], c) >= acked[disk[c]]
    BY <1>2, <1>10 DEF CommitInv, Mappings
  <2> QED
    BY <1>6, <1>7, <1>10, <2>1 DEF OnCache, DataTypes
<1>11. ASSUME NEW o \in Oblocks, \A c \in Cblocks : disk[c] = o => c \notin Mapped(disk)
       PROVE  origin'[o] >= acked[o]
  <2>1. o # Null /\ \A c \in Cblocks : disk[c] # o
    BY <1>11, DmTargetAssumption DEF Mapped
  <2>2. CASE origin'[o] = origin[o] /\ \E c \in Cblocks : meta[c] = o
    <3>1. PICK c \in Cblocks : meta[c] = o
      BY <2>2
    <3>2. PICK mg \in migrations : mg.c = c /\ mg.phase = "need_commit"
      BY <1>2, <2>1, <3>1 DEF CommitInv, NotOnDisk
    <3>3. mg.kind = "promote" /\ mg.new = o /\ Current(mg)
      BY <1>2, <2>1, <3>1, <3>2, MigrationFacts DEF MapInv, Shaped, PastCommit, ContentsInv
    <3> QED
      BY <2>2, <3>3 DEF Current
  <2>3. CASE origin'[o] = origin[o] /\ \A c \in Cblocks : meta[c] # o
    BY <1>2, <2>3 DEF ContentsInv, CleanAtOrigin
  <2> QED
    BY <1>5, <1>7, <2>1, <2>2, <2>3 DEF DataTypes
<1>12. \A c, d \in Cblocks : disk[c] = disk[d] /\ disk[c] # Null => c = d
  BY <1>2 DEF CommitInv
<1> QED
  BY <1>2, <1>8, <1>9, <1>10, <1>11, <1>12, RestartData DEF OnCache

-----------------------------------------------------------------------------
LEMMA DataInit == TargetInit => DataInv
<1> SUFFICES ASSUME TargetInit PROVE DataSound
  BY DEF DataInv
<1>1. /\ origin = [o \in Oblocks |-> 0] /\ acked = [o \in Oblocks |-> 0] /\ submits = 0
      /\ ssd = [c \in Cblocks |-> <<Null, NoPromise>>]
      /\ meta = NoMapping /\ disk = NoMapping
      /\ dirty_bitset = {} /\ discard_bitset = {} /\ migrations = {}
      /\ bios = [b \in Bios |-> Idle]
  BY DEF TargetInit
<1>2. \A b \in Bios : bios[b].at = "idle" /\ ~Carries(bios[b])
  BY <1>1 DEF Carries, Sending, Idle
<1>3. ClientInv
  BY <1>1, <1>2 DEF ClientInv, Valued, NoPromise
<1>4. FlightInv
  BY <1>1, <1>2 DEF FlightInv
<1>5. ContentsInv
  BY <1>1 DEF ContentsInv, NoMapping
<1>6. CommitInv
  BY <1>1, <1>2 DEF CommitInv, NoMapping
<1> QED
  BY <1>3, <1>4, <1>5, <1>6 DEF DataSound

LEMMA DataNext == TargetInv /\ TargetInv' /\ DataInv /\ [TargetNext]_tgtVars => DataInv'
<1> SUFFICES ASSUME TargetInv, TargetInv', DataInv, [TargetNext]_tgtVars, ~CommitLost'
             PROVE  DataSound'
  BY DEF DataInv
<1>1. faults' = faults
  BY DEF TargetNext, BioStep, do_worker, Submit, cache_map, EndRead, EndFlush, EndWrite,
         copy_complete, writeback_some_dirty_blocks, process_invalidation_request,
         process_deferred_writethrough_bio, process_deferred_bio, process_flush_bio,
         process_discard_bio, process_bio, issue_copy, complete_migration,
         migration_success_post_commit, commit_if_needed, NextStage, start_quiescing, Reload, Crash,
         Restart, tgtVars
<1>2. DataSound /\ ~CommitLost
  BY <1>1 DEF DataInv, CommitLost
<1>3. CASE \E b \in Bios, op \in Ops, o \in Oblocks, full \in BOOLEAN : Submit(b, op, o, full)
  BY <1>2, <1>3, SubmitData
<1>4. CASE \E b \in Bios : BioStep(b)
  BY <1>2, <1>4, cache_mapData, EndReadFlushData, EndWriteData DEF BioStep
<1>5. CASE \E mg \in migrations, err \in BOOLEAN : copy_complete(mg, err)
  BY <1>2, <1>5, CopyData
<1>6. CASE do_worker
  <2>1. CASE \E c \in Cblocks : writeback_some_dirty_blocks(c) \/ process_invalidation_request(c)
    BY <1>2, <2>1, WritebackData, InvalidationData
  <2>2. CASE \E b \in Bios : process_deferred_writethrough_bio(b) \/ process_deferred_bio(b)
    BY <1>2, <2>2, WritethroughData, DeferredBioData
  <2>3. CASE \E mg \in migrations :
               issue_copy(mg) \/ complete_migration(mg) \/ migration_success_post_commit(mg)
    BY <1>2, <2>3, IssueData, CompleteData, PostCommitData
  <2>4. CASE commit_if_needed
    BY <1>2, <2>4, CommitData
  <2>5. CASE NextStage
    BY <1>2, <2>5, StageData
  <2> QED
    BY <1>6, <2>1, <2>2, <2>3, <2>4, <2>5 DEF do_worker
<1>7. CASE start_quiescing \/ UNCHANGED tgtVars
  BY <1>2, <1>7, StageData
<1>8. CASE \E ok \in BOOLEAN : Reload(ok)
  BY <1>2, <1>8, ReloadData
<1>9. CASE Crash
  <2>1. "commit" \notin faults
    BY <1>2, <1>9 DEF CommitLost, Crash
  <2> QED
    BY <1>2, <1>9, <2>1, CrashData
<1> QED
  BY <1>3, <1>4, <1>5, <1>6, <1>7, <1>8, <1>9 DEF TargetNext

LEMMA DataAlways == TargetSpec => []DataInv
BY TargetAlways, DataInit, DataNext, PTL DEF TargetSpec

\* A mapped block that is not dirty may be dropped, for the origin has what was
\* acknowledged: process_invalidation_request, a demotion without a copy.
THEOREM TargetCleanMayBeDropped == TargetSpec => []CleanMayBeDropped
<1>1. TargetInv /\ DataInv => CleanMayBeDropped
  <2> SUFFICES ASSUME TargetInv, DataInv, ~CommitLost, NEW c \in Mapped(meta) \ dirty_bitset
               PROVE  origin[meta[c]] >= acked[meta[c]]
    BY DEF CleanMayBeDropped
  <2>1. ContentsInv /\ c \in Cblocks /\ meta[c] \in Oblocks
    BY DEF TargetInv, TargetTypes, MappingTypes, Mappings, DataInv, DataSound, Mapped
  <2>2. CleanAtOrigin(meta[c])
    BY <2>1 DEF CleanAtOrigin, ContentsInv, Mapped
  <2> QED
    BY <2>1, <2>2 DEF ContentsInv
<1> QED
  BY <1>1, TargetAlways, DataAlways, PTL

\* A crash would lose nothing that was acknowledged, at any moment: commit_if_needed
\* and the waiting for it see to that.
THEOREM TargetCrashSafe == TargetSpec => []CrashSafe
<1>1. TargetInv /\ DataInv => CrashSafe
  <2> SUFFICES ASSUME TargetInv, DataInv, "commit" \notin faults, NEW o \in Oblocks,
                      NEW at, at = {c \in Cblocks : disk[c] = o}
               PROVE  /\ at = {} => origin[o] >= acked[o]
                      /\ \A c \in at : OnCache(o, c) >= acked[o]
                      /\ Cardinality(at) <= 1
    BY DEF CrashSafe
  <2> USE DEF TargetInv, TargetTypes
  <2>1. ContentsInv /\ CommitInv /\ o # Null
    BY DmTargetAssumption DEF DataInv, DataSound, CommitLost
  <2>2. ASSUME at = {} PROVE origin[o] >= acked[o]
    <3>1. CASE \E c \in Cblocks : meta[c] = o
      <4>1. PICK c \in Cblocks : meta[c] = o
        BY <3>1
      <4>2. PICK mg \in migrations : mg.c = c /\ mg.phase = "need_commit"
        BY <2>1, <2>2, <4>1 DEF CommitInv, NotOnDisk
      <4>3. mg.kind = "promote" /\ mg.new = o /\ Current(mg)
        BY <2>1, <4>1, <4>2, MigrationFacts DEF MapInv, Shaped, PastCommit, ContentsInv
      <4> QED
        BY <4>3 DEF Current
    <3>2. CASE \A c \in Cblocks : meta[c] # o
      BY <2>1, <3>2 DEF ContentsInv, CleanAtOrigin
    <3> QED
      BY <3>1, <3>2
  <2>3. \A c \in at : OnCache(o, c) >= acked[o]
    BY <2>1 DEF CommitInv
  <2>4. Cardinality(at) <= 1
    <3>1. CASE at = {}
      BY <3>1, FS_EmptySet
    <3>2. CASE \E c \in at : TRUE
      <4>1. PICK c \in at : \A d \in at : d = c
        BY <2>1, <3>2 DEF CommitInv
      <4>2. at = {c} /\ Cardinality({c}) = 1
        BY <4>1, FS_Singleton
      <4> QED
        BY <4>2
    <3> QED
      BY <3>1, <3>2
  <2> QED
    BY <2>2, <2>3, <2>4
<1> QED
  BY <1>1, TargetAlways, DataAlways, PTL

\* A read returns what was last written before it was submitted, or something newer:
\* at any moment that is what is where the bio was sent, so also when EndRead comes.
THEOREM TargetReadsLatest == TargetSpec => ReadsLatest
<1>1. ASSUME TargetInv, DataInv, NEW b \in Bios, bios[b].at = "io", bios[b].op = "read", ~CommitLost
      PROVE  bios[b].floor <=
               IF bios[b].to = "origin" THEN origin[bios[b].o] ELSE OnCache(bios[b].o, bios[b].c)
  <2> USE DEF TargetInv, TargetTypes
  <2>1. ClientInv /\ FlightInv /\ ContentsInv
    BY <1>1 DEF DataInv, DataSound
  <2>2. Carries(bios[b]) /\ bios[b] \in BioRecords
    BY <1>1, BioFacts DEF Carries, Sending
  <2>3. /\ Routed(bios[b]) /\ bios[b].floor <= acked[bios[b].o]
        /\ bios[b].o \in Oblocks /\ bios[b].o # Null
        /\ bios[b].floor \in Int /\ acked[bios[b].o] \in Int
    BY <1>1, <2>1, <2>2, DmTargetAssumption
    DEF FlightInv, ClientInv, Promised, BioRecords, DataTypes
  <2>4. CASE bios[b].to = "origin"
    <3>1. CleanAtOrigin(bios[b].o)
      BY <1>1, <2>3, <2>4 DEF Routed, CleanAtOrigin, MapInv
    <3>2. origin[bios[b].o] >= acked[bios[b].o] /\ origin[bios[b].o] \in Int
      BY <1>1, <2>1, <2>3, <3>1 DEF ContentsInv, DataTypes
    <3> QED
      BY <2>3, <2>4, <3>2
  <2>5. CASE bios[b].to = "cache"
    <3>1. bios[b].c \in Cblocks /\ meta[bios[b].c] = bios[b].o
      BY <2>3, <2>5 DEF Routed
    <3>2. /\ OnCache(bios[b].o, bios[b].c) >= acked[bios[b].o]
          /\ OnCache(bios[b].o, bios[b].c) \in Int
      BY <1>1, <2>1, <2>3, <3>1, ContentsTypes DEF ContentsInv
    <3> QED
      BY <2>3, <2>5, <3>2
  <2> QED
    BY <1>1, <2>3, <2>4, <2>5 DEF Routed, AWrite
<1>2. TargetInv /\ DataInv =>
        [\A b \in Bios :
           /\ bios[b].at = "io" /\ bios[b].op = "read" /\ ~CommitLost
           /\ bios'[b] = Idle /\ restarts' = restarts
           => bios[b].floor <=
                IF bios[b].to = "origin" THEN origin[bios[b].o] ELSE OnCache(bios[b].o, bios[b].c)
        ]_tgtVars
  BY <1>1
<1> QED
  BY <1>2, TargetAlways, DataAlways, PTL DEF ReadsLatest

============================================================================
