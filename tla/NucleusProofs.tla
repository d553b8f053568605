--------------------------- MODULE NucleusProofs ---------------------------
(***************************************************************************)
(* Lemmas about the queue and the pool operators of Nucleus, for every     *)
(* pool size and every set of blocks.                                      *)
(***************************************************************************)
EXTENDS Nucleus, TLAPS, SequenceTheorems, FiniteSetTheorems

-----------------------------------------------------------------------------
(***************************************************************************)
(* Queues without repetition.                                              *)
(***************************************************************************)

\* What RemoveAt leaves of a sequence, position by position.
LEMMA RemoveAtFacts ==
  ASSUME NEW S, NEW q \in Seq(S), NEW i \in 1 .. Len(q)
  PROVE  /\ RemoveAt(q, i) \in Seq(S)
         /\ Len(RemoveAt(q, i)) = Len(q) - 1
         /\ \A j \in 1 .. Len(q) - 1 :
              RemoveAt(q, i)[j] = IF j < i THEN q[j] ELSE q[j + 1]
<1> DEFINE a == SubSeq(q, 1, i - 1)
           b == SubSeq(q, i + 1, Len(q))
<1>1. a \in Seq(S) /\ Len(a) = i - 1 /\ \A j \in 1 .. i - 1 : a[j] = q[j]
  BY SubSeqProperties, SMT
<1>2. b \in Seq(S) /\ Len(b) = Len(q) - i /\ \A j \in 1 .. Len(q) - i : b[j] = q[i + j]
  BY SubSeqProperties, SMT
<1>3. RemoveAt(q, i) = a \o b
  BY DEF RemoveAt
<1>4. /\ a \o b \in Seq(S)
      /\ Len(a \o b) = Len(a) + Len(b)
      /\ \A j \in 1 .. Len(a) + Len(b) :
            (a \o b)[j] = IF j <= Len(a) THEN a[j] ELSE b[j - Len(a)]
  BY <1>1, <1>2, ConcatProperties
<1> HIDE DEF a, b
<1> QED
  BY <1>1, <1>2, <1>3, <1>4, LenProperties

\* queue_remove takes the item out and keeps the queue free of repetitions.
LEMMA QueueRemove ==
  ASSUME NEW S, NEW q \in Seq(S), IsInjective(q), NEW e
  PROVE  /\ queue_remove(q, e) \in Seq(S)
         /\ IsInjective(queue_remove(q, e))
         /\ ToSet(queue_remove(q, e)) = ToSet(q) \ {e}
         /\ Len(queue_remove(q, e)) = IF e \in ToSet(q) THEN Len(q) - 1 ELSE Len(q)
<1>1. CASE e \notin ToSet(q)
  BY <1>1 DEF queue_remove
<1>2. CASE e \in ToSet(q)
  <2> DEFINE i == CHOOSE i \in DOMAIN q : q[i] = e
             r == RemoveAt(q, i)
  <2>1. i \in 1 .. Len(q) /\ q[i] = e
    BY <1>2, LenProperties DEF ToSet
  <2>2. queue_remove(q, e) = r
    BY <1>2 DEF queue_remove
  <2> HIDE DEF i
  <2>3. /\ r \in Seq(S)
        /\ Len(r) = Len(q) - 1
        /\ \A j \in 1 .. Len(q) - 1 : r[j] = IF j < i THEN q[j] ELSE q[j + 1]
    BY <2>1, RemoveAtFacts
  <2>4. Len(q) \in Nat /\ DOMAIN q = 1 .. Len(q) /\ DOMAIN r = 1 .. Len(q) - 1
    BY <2>3, LenProperties
  <2> HIDE DEF r
  <2>5. \A j, k \in DOMAIN q : q[j] = q[k] => j = k
    BY DEF IsInjective
  <2>6. IsInjective(r)
    <3> SUFFICES ASSUME NEW j \in DOMAIN r, NEW k \in DOMAIN r, r[j] = r[k]
                 PROVE  j = k
      BY DEF IsInjective
    <3>1. /\ r[j] = q[IF j < i THEN j ELSE j + 1]
          /\ r[k] = q[IF k < i THEN k ELSE k + 1]
      BY <2>3, <2>4
    <3>2. /\ (IF j < i THEN j ELSE j + 1) \in DOMAIN q
          /\ (IF k < i THEN k ELSE k + 1) \in DOMAIN q
      BY <2>1, <2>4
    <3>3. (IF j < i THEN j ELSE j + 1) = (IF k < i THEN k ELSE k + 1)
      BY <3>1, <3>2, <2>5
    <3> QED
      BY <3>3, <2>1, <2>4
  <2>7. ToSet(r) = ToSet(q) \ {e}
    <3>1. ASSUME NEW x \in ToSet(r)
          PROVE  x \in ToSet(q) \ {e}
      <4>1. PICK j \in 1 .. Len(q) - 1 : x = r[j]
        BY <2>4 DEF ToSet
      <4>2. x = q[IF j < i THEN j ELSE j + 1]
        BY <4>1, <2>3
      <4>3. (IF j < i THEN j ELSE j + 1) \in DOMAIN q /\ (IF j < i THEN j ELSE j + 1) # i
        BY <2>1, <2>4
      <4> QED
        BY <4>2, <4>3, <2>1, <2>4, <2>5 DEF ToSet
    <3>2. ASSUME NEW x \in ToSet(q), x # e
          PROVE  x \in ToSet(r)
      <4>1. PICK k \in 1 .. Len(q) : x = q[k]
        BY <2>4 DEF ToSet
      <4>2. k # i
        BY <4>1, <3>2, <2>1
      <4>3. CASE k < i
        BY <4>1, <4>3, <2>1, <2>3, <2>4 DEF ToSet
      <4>4. CASE k > i
        <5>1. k - 1 \in 1 .. Len(q) - 1 /\ ~(k - 1 < i) /\ (k - 1) + 1 = k
          BY <4>4, <2>1, <2>4
        <5>2. r[k - 1] = q[k]
          BY <5>1, <2>3
        <5> QED
          BY <5>1, <5>2, <4>1, <2>4 DEF ToSet
      <4> QED
        BY <4>2, <4>3, <4>4, <2>1, <2>4
    <3> QED
      BY <3>1, <3>2
  <2> QED
    BY <1>2, <2>2, <2>3, <2>6, <2>7
<1> QED
  BY <1>1, <1>2

\* queue_push adds an item that is not in the queue yet.
LEMMA QueuePush ==
  ASSUME NEW S, NEW q \in Seq(S), IsInjective(q), NEW e \in S, e \notin ToSet(q)
  PROVE  /\ queue_push(q, e) \in Seq(S)
         /\ IsInjective(queue_push(q, e))
         /\ ToSet(queue_push(q, e)) = ToSet(q) \cup {e}
         /\ Len(queue_push(q, e)) = Len(q) + 1
<1> DEFINE r == queue_push(q, e)
<1>1. /\ r \in Seq(S)
      /\ Len(q) \in Nat
      /\ Len(r) = Len(q) + 1
      /\ DOMAIN q = 1 .. Len(q)
      /\ DOMAIN r = 1 .. Len(q) + 1
      /\ r[Len(q) + 1] = e
      /\ \A j \in 1 .. Len(q) : r[j] = q[j]
  BY LenProperties, AppendProperties DEF queue_push
<1> HIDE DEF r
<1>2. \A j \in 1 .. Len(q) : q[j] # e
  BY <1>1 DEF ToSet
<1>3. IsInjective(r)
  BY <1>1, <1>2 DEF IsInjective
<1>4. ToSet(r) = ToSet(q) \cup {e}
  BY <1>1 DEF ToSet
<1> QED
  BY <1>1, <1>3, <1>4 DEF r

\* The same at the head, where free_entry puts an entry back.
LEMMA QueueCons ==
  ASSUME NEW S, NEW q \in Seq(S), IsInjective(q), NEW e \in S, e \notin ToSet(q)
  PROVE  /\ <<e>> \o q \in Seq(S)
         /\ IsInjective(<<e>> \o q)
         /\ ToSet(<<e>> \o q) = ToSet(q) \cup {e}
         /\ <<e>> \o q # <<>>
         /\ Head(<<e>> \o q) = e
<1> DEFINE r == <<e>> \o q
<1>1. /\ r \in Seq(S)
      /\ Len(q) \in Nat
      /\ Len(r) = Len(q) + 1
      /\ DOMAIN q = 1 .. Len(q)
      /\ DOMAIN r = 1 .. Len(q) + 1
      /\ r[1] = e
      /\ \A j \in 2 .. Len(q) + 1 : r[j] = q[j - 1]
  <2>1. <<e>> \in Seq(S) /\ Len(<<e>>) = 1 /\ <<e>>[1] = e
    OBVIOUS
  <2> QED
    BY <2>1, LenProperties, ConcatProperties
<1>2. r # <<>> /\ Head(r) = e
  BY <1>1
<1> HIDE DEF r
<1>3. \A j \in 1 .. Len(q) : q[j] # e
  BY <1>1 DEF ToSet
<1>4. \A j \in DOMAIN r : j # 1 => j - 1 \in DOMAIN q /\ r[j] = q[j - 1]
  BY <1>1
<1>5. IsInjective(r)
  <2> SUFFICES ASSUME NEW j \in DOMAIN r, NEW k \in DOMAIN r, r[j] = r[k]
               PROVE  j = k
    BY DEF IsInjective
  <2>1. CASE j = 1 \/ k = 1
    BY <2>1, <1>1, <1>3, <1>4
  <2>2. CASE j # 1 /\ k # 1
    <3>1. j - 1 = k - 1
      BY <2>2, <1>4 DEF IsInjective
    <3> QED
      BY <3>1, <1>1
  <2> QED
    BY <2>1, <2>2
<1>6. ToSet(r) = ToSet(q) \cup {e}
  <2>1. ASSUME NEW x \in ToSet(r)
        PROVE  x \in ToSet(q) \cup {e}
    BY <1>1, <1>4 DEF ToSet
  <2>2. ASSUME NEW x \in ToSet(q)
        PROVE  x \in ToSet(r)
    <3>1. PICK j \in 1 .. Len(q) : x = q[j]
      BY <1>1 DEF ToSet
    <3>2. j + 1 \in DOMAIN r /\ r[j + 1] = q[j]
      BY <1>1
    <3> QED
      BY <3>1, <3>2 DEF ToSet
  <2>3. e \in ToSet(r)
    BY <1>1 DEF ToSet
  <2> QED
    BY <2>1, <2>2, <2>3
<1> QED
  BY <1>1, <1>2, <1>5, <1>6 DEF r

\* Popping takes the head out.
LEMMA QueuePop ==
  ASSUME NEW S, NEW q \in Seq(S), IsInjective(q), q # <<>>
  PROVE  /\ Head(q) \in S
         /\ Head(q) \in ToSet(q)
         /\ Tail(q) \in Seq(S)
         /\ IsInjective(Tail(q))
         /\ ToSet(Tail(q)) = ToSet(q) \ {Head(q)}
<1> DEFINE t == Tail(q)
<1>1. /\ Len(q) \in Nat \ {0}
      /\ DOMAIN q = 1 .. Len(q)
      /\ Head(q) = q[1]
      /\ t \in Seq(S)
      /\ DOMAIN t = 1 .. Len(q) - 1
      /\ \A j \in 1 .. Len(q) - 1 : t[j] = q[j + 1]
  BY LenProperties, EmptySeq, HeadTailProperties
<1>2. Head(q) \in S /\ Head(q) \in ToSet(q)
  BY <1>1, HeadTailProperties DEF ToSet
<1> HIDE DEF t
<1>3. \A j \in DOMAIN t : j + 1 \in DOMAIN q /\ t[j] = q[j + 1]
  BY <1>1
<1>4. IsInjective(t)
  <2> SUFFICES ASSUME NEW j \in DOMAIN t, NEW k \in DOMAIN t, t[j] = t[k]
               PROVE  j = k
    BY DEF IsInjective
  <2>1. j + 1 = k + 1
    BY <1>3 DEF IsInjective
  <2> QED
    BY <2>1, <1>1
<1>5. ToSet(t) = ToSet(q) \ {Head(q)}
  <2>1. ASSUME NEW x \in ToSet(t)
        PROVE  x \in ToSet(q) \ {Head(q)}
    <3>1. PICK j \in 1 .. Len(q) - 1 : x = t[j]
      BY <1>1 DEF ToSet
    <3>2. j + 1 \in DOMAIN q /\ x = q[j + 1] /\ j + 1 # 1 /\ 1 \in DOMAIN q
      BY <3>1, <1>1
    <3>3. x # q[1]
      BY <3>2 DEF IsInjective
    <3> QED
      BY <3>2, <3>3, <1>1 DEF ToSet
  <2>2. ASSUME NEW x \in ToSet(q), x # Head(q)
        PROVE  x \in ToSet(t)
    <3>1. PICK j \in 1 .. Len(q) : x = q[j]
      BY <1>1 DEF ToSet
    <3>2. j - 1 \in 1 .. Len(q) - 1 /\ (j - 1) + 1 = j
      BY <3>1, <2>2, <1>1
    <3>3. t[j - 1] = q[j]
      BY <3>2, <1>1
    <3> QED
      BY <3>1, <3>2, <3>3, <1>1 DEF ToSet
  <2> QED
    BY <2>1, <2>2
<1> QED
  BY <1>1, <1>2, <1>4, <1>5 DEF t

-----------------------------------------------------------------------------
(***************************************************************************)
(* The pool.                                                               *)
(***************************************************************************)

\* What every policy's pool satisfies between two calls: an entry is on the free
\* list or allocated, and hashed exactly when it is allocated; the counters count;
\* no two entries are for the same block.
PoolSound(p) ==
  /\ p \in Pools
  /\ IsInjective(p.free)
  /\ ToSet(p.free) = Cblocks \ p.allocated
  /\ p.ht = p.allocated
  /\ p.migrating \subseteq p.allocated
  /\ p.nr_allocated = Cardinality(p.allocated)
  /\ p.nr_migrating = Cardinality(p.migrating)
  /\ \A c \in p.ht : p.oblock[c] \in Oblocks
  /\ \A c, d \in p.ht : p.oblock[c] = p.oblock[d] => c = d

\* Block o has no entry.
NotHashed(p, o) == \A c \in p.ht : p.oblock[c] # o

\* Every set of entries is finite, and its cardinality changes by one with an entry.
LEMMA CblocksFinite ==
  ASSUME NEW S \in SUBSET Cblocks, NEW e
  PROVE  /\ IsFiniteSet(S)
         /\ Cardinality(S) \in Nat
         /\ e \notin S => Cardinality(S \cup {e}) = Cardinality(S) + 1
         /\ e \in S => /\ Cardinality(S \ {e}) = Cardinality(S) - 1
                       /\ Cardinality(S \ {e}) \in Nat
<1>1. IsFiniteSet(Cblocks)
  <2>1. 0 \in Int /\ CacheSize - 1 \in Int
    BY NucleusAssumption
  <2> QED
    BY <2>1, FS_Interval DEF Cblocks
<1>2. IsFiniteSet(S) /\ IsFiniteSet(S \ {e})
  BY <1>1, FS_Subset
<1> QED
  BY <1>2, FS_AddElement, FS_RemoveElement, FS_CardinalityType

\* epool_init leaves every entry on the free list.
LEMMA PoolInitSound == PoolSound(epool_init)
<1> DEFINE f == [i \in 1 .. CacheSize |-> CacheSize - i]
<1>1. f \in Seq(Cblocks) /\ DOMAIN f = 1 .. CacheSize
  <2>1. f \in [1 .. CacheSize -> Cblocks]
    BY NucleusAssumption DEF Cblocks
  <2> QED
    BY <2>1, NucleusAssumption, SeqDef
<1>2. IsInjective(f)
  BY NucleusAssumption DEF IsInjective
<1>3. ToSet(f) = Cblocks
  <2>1. ASSUME NEW c \in Cblocks PROVE c \in ToSet(f)
    <3>1. CacheSize - c \in 1 .. CacheSize /\ CacheSize - (CacheSize - c) = c
      BY NucleusAssumption DEF Cblocks
    <3> QED
      BY <3>1 DEF ToSet
  <2> QED
    BY <2>1, NucleusAssumption DEF ToSet, Cblocks
<1>4. Cardinality({}) = 0
  BY FS_EmptySet
<1>5. epool_init \in Pools
  BY <1>1 DEF epool_init, Pools
<1> QED
  BY <1>1, <1>2, <1>3, <1>4, <1>5 DEF PoolSound, epool_init

\* hash_lookup finds the entry of a block if there is one.
LEMMA LookupFacts ==
  ASSUME NEW p, PoolSound(p), NEW o \in Oblocks
  PROVE  /\ hash_lookup(p, o) # Null =>
              /\ hash_lookup(p, o) \in Cblocks
              /\ hash_lookup(p, o) \in p.allocated
              /\ p.oblock[hash_lookup(p, o)] = o
         /\ hash_lookup(p, o) = Null => NotHashed(p, o)
         /\ \A c \in p.ht : p.oblock[c] = o => hash_lookup(p, o) = c
<1>1. p.ht \subseteq Cblocks /\ p.ht = p.allocated
  BY DEF PoolSound, Pools
<1>2. Null \notin Cblocks
  BY NucleusAssumption DEF Cblocks
<1>3. \A c, d \in p.ht : p.oblock[c] = p.oblock[d] => c = d
  BY DEF PoolSound
<1>4. CASE \E c \in p.ht : p.oblock[c] = o
  <2>1. hash_lookup(p, o) \in p.ht /\ p.oblock[hash_lookup(p, o)] = o
    BY <1>4 DEF hash_lookup
  <2> QED
    BY <2>1, <1>1, <1>2, <1>3
<1>5. CASE ~\E c \in p.ht : p.oblock[c] = o
  BY <1>5 DEF hash_lookup, NotHashed
<1> QED
  BY <1>4, <1>5

\* Allocating a free entry for a block that has none.
LEMMA AllocSound ==
  ASSUME NEW p, PoolSound(p), NEW e \in Cblocks, e \notin p.allocated,
         NEW o \in Oblocks, NotHashed(p, o), NEW q, q = alloc_pool_entry(p, e, o)
  PROVE  /\ PoolSound(q)
         /\ q.allocated = p.allocated \cup {e}
         /\ q.migrating = p.migrating
<1>1. p \in Pools /\ p.ht = p.allocated
  BY DEF PoolSound
<1>2. /\ p.free \in Seq(Cblocks)
      /\ p.allocated \in SUBSET Cblocks
      /\ p.nr_allocated \in Nat
  BY <1>1 DEF Pools
<1>3. /\ queue_remove(p.free, e) \in Seq(Cblocks)
      /\ IsInjective(queue_remove(p.free, e))
      /\ ToSet(queue_remove(p.free, e)) = ToSet(p.free) \ {e}
  BY <1>2, QueueRemove DEF PoolSound
<1>4. p.nr_allocated + 1 \in Nat
  BY <1>2
<1>5. alloc_this_entry(p, e) \in Pools
  BY <1>1, <1>3, <1>4 DEF alloc_this_entry, Pools
<1>6. /\ q.oblock = [p.oblock EXCEPT ![e] = o]
      /\ q.dirty = p.dirty \ {e}
      /\ q.allocated = p.allocated \cup {e}
      /\ q.migrating = p.migrating
      /\ q.free = queue_remove(p.free, e)
      /\ q.ht = p.ht \cup {e}
      /\ q.nr_allocated = p.nr_allocated + 1
      /\ q.nr_migrating = p.nr_migrating
  BY <1>1 DEF alloc_pool_entry, alloc_this_entry, Pools
<1>7. q \in Pools
  BY <1>5 DEF alloc_pool_entry, Pools
<1>8. q.nr_allocated = Cardinality(q.allocated)
  <2>1. Cardinality(p.allocated \cup {e}) = Cardinality(p.allocated) + 1
    BY <1>2, CblocksFinite
  <2> QED
    BY <1>6, <2>1 DEF PoolSound
<1>9. p.oblock \in [Cblocks -> Oblocks \cup {Null}]
  BY <1>1 DEF Pools
<1>10. /\ \A c \in q.ht : q.oblock[c] \in Oblocks
       /\ \A c, d \in q.ht : q.oblock[c] = q.oblock[d] => c = d
  BY <1>1, <1>2, <1>6, <1>9 DEF PoolSound, NotHashed
<1>11. /\ IsInjective(q.free)
       /\ ToSet(q.free) = Cblocks \ q.allocated
  BY <1>3, <1>6 DEF PoolSound
<1>12. PoolSound(q)
  BY <1>6, <1>7, <1>8, <1>10, <1>11 DEF PoolSound
<1> QED
  BY <1>6, <1>12

LEMMA AllocOblock ==
  ASSUME NEW p, PoolSound(p), NEW e \in Cblocks, NEW o \in Oblocks,
         NEW q, q = alloc_pool_entry(p, e, o)
  PROVE  q.oblock = [p.oblock EXCEPT ![e] = o]
  BY DEF alloc_pool_entry, alloc_this_entry, PoolSound, Pools

\* An allocated entry starts to migrate.
LEMMA MigratingSound ==
  ASSUME NEW p, PoolSound(p), NEW e \in p.allocated, e \notin p.migrating
  PROVE  /\ PoolSound(migrating_entry(p, e))
         /\ migrating_entry(p, e).allocated = p.allocated
         /\ migrating_entry(p, e).migrating = p.migrating \cup {e}
         /\ migrating_entry(p, e).oblock = p.oblock
<1> DEFINE q == migrating_entry(p, e)
<1>1. p \in Pools
  BY DEF PoolSound
<1>2. /\ p.migrating \in SUBSET Cblocks
      /\ p.nr_migrating \in Nat
      /\ e \in Cblocks
  BY <1>1 DEF Pools
<1>3. p.nr_migrating + 1 \in Nat
  BY <1>2
<1>4. q \in Pools
  BY <1>1, <1>2, <1>3 DEF migrating_entry, Pools
<1>5. /\ q.migrating = p.migrating \cup {e}
      /\ q.nr_migrating = p.nr_migrating + 1
      /\ q.oblock = p.oblock
      /\ q.allocated = p.allocated
      /\ q.nr_allocated = p.nr_allocated
      /\ q.free = p.free
      /\ q.ht = p.ht
  BY <1>1 DEF migrating_entry, Pools
<1>6. Cardinality(p.migrating \cup {e}) = Cardinality(p.migrating) + 1
  BY <1>2, CblocksFinite
<1> HIDE DEF q
<1>7. PoolSound(q)
  BY <1>4, <1>5, <1>6 DEF PoolSound
<1> QED
  BY <1>5, <1>7 DEF q

\* A migrating entry has migrated.
LEMMA MigratedSound ==
  ASSUME NEW p, PoolSound(p), NEW e \in p.migrating
  PROVE  /\ PoolSound(migrated_entry(p, e))
         /\ migrated_entry(p, e).allocated = p.allocated
         /\ migrated_entry(p, e).migrating = p.migrating \ {e}
         /\ migrated_entry(p, e).oblock = p.oblock
<1> DEFINE q == migrated_entry(p, e)
<1> USE DEF Pools
<1>1. p \in Pools /\ e \in Cblocks
  BY DEF PoolSound
<1>3. /\ Cardinality(p.migrating \ {e}) = Cardinality(p.migrating) - 1
      /\ Cardinality(p.migrating \ {e}) \in Nat
  BY <1>1, CblocksFinite
<1>4. /\ q = [p EXCEPT !.migrating = p.migrating \ {e},
                       !.nr_migrating = p.nr_migrating - 1]
      /\ q \in Pools
  BY <1>1, <1>3 DEF migrated_entry, PoolSound
<1>5. q.nr_migrating = Cardinality(q.migrating)
  BY <1>1, <1>3, <1>4 DEF PoolSound
<1> QED
  BY <1>1, <1>4, <1>5 DEF PoolSound

\* Removing an allocated entry, migrating or not, puts it on the free list, where
\* it is the next one to be allocated.
LEMMA RemoveSound ==
  ASSUME NEW p, PoolSound(p), NEW e \in p.allocated
  PROVE  /\ PoolSound(cache_nucleus_remove(p, e))
         /\ cache_nucleus_remove(p, e).allocated = p.allocated \ {e}
         /\ cache_nucleus_remove(p, e).migrating = p.migrating \ {e}
         /\ cache_nucleus_remove(p, e).oblock = p.oblock
         /\ alloc_entry(cache_nucleus_remove(p, e)) = e
<1> DEFINE q == cache_nucleus_remove(p, e)
<1> USE DEF Pools
<1>1. p \in Pools /\ e \in Cblocks /\ e \in p.ht
  BY DEF PoolSound
<1>2. /\ q.oblock = p.oblock
      /\ q.dirty = p.dirty
      /\ q.allocated = p.allocated \ {e}
      /\ q.migrating = p.migrating \ {e}
      /\ q.free = <<e>> \o p.free
      /\ q.ht = p.ht \ {e}
      /\ q.nr_allocated = p.nr_allocated - 1
      /\ q.nr_migrating = IF e \in p.migrating THEN p.nr_migrating - 1 ELSE p.nr_migrating
  BY <1>1 DEF cache_nucleus_remove, free_entry
<1>3. /\ q.free \in Seq(Cblocks)
      /\ IsInjective(q.free)
      /\ ToSet(q.free) = Cblocks \ q.allocated
      /\ q.free # <<>>
      /\ Head(q.free) = e
  BY <1>1, <1>2, QueueCons DEF PoolSound
<1>4. /\ Cardinality(q.allocated) = Cardinality(p.allocated) - 1
      /\ Cardinality(q.allocated) \in Nat
  <2>1. p.allocated \in SUBSET Cblocks /\ q.allocated = p.allocated \ {e}
    BY <1>1, <1>2
  <2> QED
    BY <2>1, CblocksFinite
<1>5. /\ Cardinality(q.migrating) = IF e \in p.migrating THEN Cardinality(p.migrating) - 1
                                    ELSE Cardinality(p.migrating)
      /\ Cardinality(q.migrating) \in Nat
  <2>1. p.migrating \in SUBSET Cblocks /\ q.migrating = p.migrating \ {e}
    BY <1>1, <1>2
  <2>2. CASE e \in p.migrating
    BY <2>1, <2>2, CblocksFinite
  <2>3. CASE e \notin p.migrating
    <3>1. p.migrating \ {e} = p.migrating
      BY <2>3
    <3> QED
      BY <2>1, <2>3, <3>1, CblocksFinite
  <2> QED
    BY <2>2, <2>3
<1>6. q.nr_allocated = Cardinality(q.allocated) /\ q.nr_migrating = Cardinality(q.migrating)
  BY <1>1, <1>2, <1>4, <1>5 DEF PoolSound
<1>7. q \in Pools
  BY <1>1, <1>2, <1>3, <1>4, <1>5, <1>6 DEF cache_nucleus_remove, free_entry
<1>8. /\ \A c \in q.ht : q.oblock[c] \in Oblocks
      /\ \A c, d \in q.ht : q.oblock[c] = q.oblock[d] => c = d
      /\ q.ht = q.allocated
      /\ q.migrating \subseteq q.allocated
  BY <1>1, <1>2 DEF PoolSound
<1> HIDE DEF q, Pools
<1>9. PoolSound(q)
  BY <1>3, <1>6, <1>7, <1>8 DEF PoolSound
<1> QED
  BY <1>2, <1>3, <1>9 DEF q, alloc_entry

\* Renaming a cached block to one that is not cached.
LEMMA RemapSound ==
  ASSUME NEW p, PoolSound(p), NEW o \in Oblocks, NEW n \in Oblocks,
         hash_lookup(p, o) # Null, NotHashed(p, n), NEW q, q = default_remap(p, o, n)
  PROVE  /\ PoolSound(q)
         /\ q.allocated = p.allocated
         /\ q.migrating = p.migrating
<1> DEFINE e == hash_lookup(p, o)
<1> USE DEF Pools
<1>1. p \in Pools /\ e \in Cblocks /\ e \in p.ht
  BY LookupFacts DEF PoolSound
<1> HIDE DEF e
<1>2. q = [p EXCEPT !.oblock = [p.oblock EXCEPT ![e] = n]] /\ q \in Pools
  BY <1>1 DEF default_remap, e
<1>3. \A c \in q.ht : q.oblock[c] \in Oblocks
  BY <1>1, <1>2 DEF PoolSound
<1>4. \A c, d \in q.ht : q.oblock[c] = q.oblock[d] => c = d
  BY <1>1, <1>2 DEF PoolSound, NotHashed
<1> QED
  BY <1>1, <1>2, <1>3, <1>4 DEF PoolSound, e

LEMMA RemapOblock ==
  ASSUME NEW p, PoolSound(p), NEW o \in Oblocks, NEW n \in Oblocks,
         NEW q, q = default_remap(p, o, n)
  PROVE  q.oblock = [p.oblock EXCEPT ![hash_lookup(p, o)] = n]
  BY DEF default_remap, PoolSound, Pools

\* The dirty flag concerns none of this.
LEMMA DirtySound ==
  ASSUME NEW p, PoolSound(p), NEW e \in Cblocks, NEW write \in BOOLEAN
  PROVE  /\ PoolSound(mark_dirty(p, e, write))
         /\ mark_dirty(p, e, write).allocated = p.allocated
         /\ mark_dirty(p, e, write).migrating = p.migrating
         /\ mark_dirty(p, e, write).oblock = p.oblock
<1>1. p \in Pools
  BY DEF PoolSound
<1>2. CASE ~write
  BY <1>2 DEF mark_dirty
<1>3. CASE write
  <2>1. /\ mark_dirty(p, e, write) = [p EXCEPT !.dirty = p.dirty \cup {e}]
        /\ mark_dirty(p, e, write) \in Pools
    BY <1>1, <1>3 DEF mark_dirty, Pools
  <2> QED
    BY <1>1, <2>1 DEF PoolSound, Pools
<1> QED
  BY <1>2, <1>3

\* A full cache has no free entry, and one that is not gives out a free entry.
LEMMA AllocEntryFacts ==
  ASSUME NEW p, PoolSound(p)
  PROVE  /\ cache_is_full(p) => p.allocated = Cblocks
         /\ ~cache_is_full(p) => /\ alloc_entry(p) \in Cblocks
                                 /\ alloc_entry(p) \notin p.allocated
                                 /\ alloc_entry(p) # Null
<1>1. p.free \in Seq(Cblocks) /\ p.allocated \subseteq Cblocks
  BY DEF PoolSound, Pools
<1>2. CASE p.free = <<>>
  <2>1. ToSet(<<>>) = {}
    BY DEF ToSet
  <2>2. Cblocks \ p.allocated = {}
    BY <1>2, <2>1 DEF PoolSound
  <2> QED
    BY <1>1, <1>2, <2>2 DEF cache_is_full
<1>3. CASE p.free # <<>>
  <2>1. Head(p.free) \in Cblocks /\ Head(p.free) \in ToSet(p.free)
    BY <1>1, <1>3, QueuePop DEF PoolSound
  <2> QED
    BY <1>3, <2>1, NucleusAssumption DEF PoolSound, cache_is_full, alloc_entry, Cblocks
<1> QED
  BY <1>2, <1>3

-----------------------------------------------------------------------------
(***************************************************************************)
(* The blocks of a pool, which is what a caller sees of it.                *)
(***************************************************************************)

\* The blocks that are cached, and those that are still being copied.
Blocks(p) == {p.oblock[c] : c \in p.ht}
MovingBlocks(p) == {p.oblock[c] : c \in p.migrating}

\* There are as many cached blocks as allocated entries: a cache is full exactly
\* when it has CacheSize blocks.
LEMMA BlocksCardinality ==
  ASSUME NEW p, PoolSound(p)
  PROVE  /\ Cardinality(Blocks(p)) = Cardinality(p.allocated)
         /\ Cardinality(Blocks(p)) \in Nat
         /\ cache_is_full(p) => Cardinality(Blocks(p)) = CacheSize
         /\ ~cache_is_full(p) => Cardinality(Blocks(p)) < CacheSize
<1> DEFINE f == [c \in p.ht |-> p.oblock[c]]
<1>1. p.allocated \in SUBSET Cblocks /\ p.ht = p.allocated
  BY DEF PoolSound, Pools
<1>2. f \in Bijection(p.ht, Blocks(p))
  <2>1. f \in [p.ht -> Blocks(p)]
    BY DEF Blocks
  <2>2. \A c, d \in p.ht : f[c] = f[d] => c = d
    BY DEF PoolSound
  <2>3. \A o \in Blocks(p) : \E c \in p.ht : f[c] = o
    BY DEF Blocks
  <2> HIDE DEF f
  <2> QED
    BY <2>1, <2>2, <2>3 DEF Bijection, Injection, Surjection, IsInjective
<1>3. IsFiniteSet(p.allocated) /\ Cardinality(p.allocated) \in Nat
  BY <1>1, CblocksFinite
<1>4. Cardinality(Blocks(p)) = Cardinality(p.allocated)
  BY <1>1, <1>2, <1>3, FS_Bijection DEF ExistsBijection
<1>5. IsFiniteSet(Cblocks) /\ Cardinality(Cblocks) = CacheSize
  <2>1. 0 \in Int /\ CacheSize - 1 \in Int /\ ~(0 > CacheSize - 1)
    BY NucleusAssumption
  <2>2. IsFiniteSet(Cblocks) /\ Cardinality(Cblocks) = (CacheSize - 1) - 0 + 1
    BY <2>1, FS_Interval DEF Cblocks
  <2> QED
    BY <2>2, NucleusAssumption
<1>6. cache_is_full(p) => Cardinality(p.allocated) = CacheSize
  BY <1>5, AllocEntryFacts
<1>7. ~cache_is_full(p) => Cardinality(p.allocated) < CacheSize
  <2> SUFFICES ASSUME ~cache_is_full(p) PROVE Cardinality(p.allocated) < CacheSize
    OBVIOUS
  <2>1. p.allocated # Cblocks
    BY AllocEntryFacts
  <2>2. Cardinality(p.allocated) <= CacheSize /\ Cardinality(p.allocated) # CacheSize
    BY <1>1, <1>5, <2>1, FS_Subset
  <2> QED
    BY <1>3, <2>2, NucleusAssumption
<1> QED
  BY <1>3, <1>4, <1>6, <1>7

\* Preloading adds a block, which is not being copied.
LEMMA AllocBlocks ==
  ASSUME NEW p, PoolSound(p), NEW e \in Cblocks, e \notin p.allocated,
         NEW o \in Oblocks, NotHashed(p, o), NEW q, q = alloc_pool_entry(p, e, o)
  PROVE  /\ Blocks(q) = Blocks(p) \cup {o}
         /\ MovingBlocks(q) = MovingBlocks(p)
<1>1. /\ PoolSound(q)
      /\ q.allocated = p.allocated \cup {e}
      /\ q.migrating = p.migrating
      /\ q.oblock = [p.oblock EXCEPT ![e] = o]
  BY AllocSound, AllocOblock
<1>2. /\ q.ht = p.ht \cup {e} /\ e \notin p.ht /\ e \notin p.migrating
      /\ p.oblock \in [Cblocks -> Oblocks \cup {Null}]
      /\ p.ht \subseteq Cblocks /\ p.migrating \subseteq Cblocks
  BY <1>1 DEF PoolSound, Pools
<1>3. q.oblock[e] = o /\ \A c \in Cblocks \ {e} : q.oblock[c] = p.oblock[c]
  BY <1>1, <1>2
<1>4. Blocks(q) = Blocks(p) \cup {o}
  BY <1>2, <1>3 DEF Blocks
<1>5. MovingBlocks(q) = MovingBlocks(p)
  BY <1>1, <1>2, <1>3 DEF MovingBlocks
<1> QED
  BY <1>4, <1>5

\* The entry that a missed block gets: named, migrating, dirty if written.
AdmitEntry(p, e, o, write) ==
  mark_dirty(migrating_entry(alloc_pool_entry(p, e, o), e), e, write)

\* Admitting a block adds it to the cached blocks and to those being copied.
LEMMA AdmitSound ==
  ASSUME NEW p, PoolSound(p), NEW e \in Cblocks, e \notin p.allocated,
         NEW o \in Oblocks, NotHashed(p, o), NEW write \in BOOLEAN
  PROVE  /\ PoolSound(AdmitEntry(p, e, o, write))
         /\ AdmitEntry(p, e, o, write).allocated = p.allocated \cup {e}
         /\ AdmitEntry(p, e, o, write).migrating = p.migrating \cup {e}
         /\ Blocks(AdmitEntry(p, e, o, write)) = Blocks(p) \cup {o}
         /\ MovingBlocks(AdmitEntry(p, e, o, write)) = MovingBlocks(p) \cup {o}
<1> DEFINE moving == migrating_entry(alloc_pool_entry(p, e, o), e)
           q == mark_dirty(moving, e, write)
<1>0. PICK named : named = alloc_pool_entry(p, e, o)
  OBVIOUS
<1>1. /\ PoolSound(named)
      /\ named.allocated = p.allocated \cup {e}
      /\ named.migrating = p.migrating
      /\ named.oblock = [p.oblock EXCEPT ![e] = o]
      /\ Blocks(named) = Blocks(p) \cup {o}
      /\ MovingBlocks(named) = MovingBlocks(p)
  BY <1>0, AllocSound, AllocOblock, AllocBlocks
<1>2. e \notin named.migrating /\ e \in named.allocated
  BY <1>1 DEF PoolSound
<1>3. named.oblock[e] = o
  BY <1>1 DEF PoolSound, Pools
<1>4. /\ PoolSound(moving)
      /\ moving.allocated = named.allocated
      /\ moving.migrating = named.migrating \cup {e}
      /\ moving.oblock = named.oblock
  BY <1>0, <1>1, <1>2, MigratingSound
<1> HIDE DEF moving
<1>5. /\ PoolSound(q)
      /\ q.allocated = moving.allocated
      /\ q.migrating = moving.migrating
      /\ q.oblock = moving.oblock
  BY <1>4, DirtySound
<1> HIDE DEF q
<1>6. Blocks(q) = Blocks(named)
  BY <1>1, <1>4, <1>5 DEF Blocks, PoolSound
<1>7. MovingBlocks(q) = MovingBlocks(named) \cup {o}
  BY <1>3, <1>4, <1>5 DEF MovingBlocks
<1> QED
  BY <1>1, <1>4, <1>5, <1>6, <1>7 DEF AdmitEntry, q, moving

\* Removing an entry removes its block, and no other.
LEMMA RemoveBlocks ==
  ASSUME NEW p, PoolSound(p), NEW e \in p.allocated
  PROVE  /\ Blocks(cache_nucleus_remove(p, e)) = Blocks(p) \ {p.oblock[e]}
         /\ MovingBlocks(cache_nucleus_remove(p, e)) = MovingBlocks(p) \ {p.oblock[e]}
<1> DEFINE q == cache_nucleus_remove(p, e)
<1>1. /\ PoolSound(q)
      /\ q.allocated = p.allocated \ {e}
      /\ q.migrating = p.migrating \ {e}
      /\ q.oblock = p.oblock
  BY RemoveSound
<1>2. /\ q.ht = p.ht \ {e} /\ e \in p.ht /\ p.migrating \subseteq p.ht
      /\ \A c, d \in p.ht : p.oblock[c] = p.oblock[d] => c = d
  BY <1>1 DEF PoolSound
<1> HIDE DEF q
<1>3. Blocks(q) = Blocks(p) \ {p.oblock[e]}
  BY <1>1, <1>2 DEF Blocks
<1>4. MovingBlocks(q) = MovingBlocks(p) \ {p.oblock[e]}
  BY <1>1, <1>2 DEF MovingBlocks
<1> QED
  BY <1>3, <1>4 DEF q

\* The end of a migration takes its block, and no other, from those being copied.
LEMMA MigratedBlocks ==
  ASSUME NEW p, PoolSound(p), NEW e \in p.migrating
  PROVE  /\ Blocks(migrated_entry(p, e)) = Blocks(p)
         /\ MovingBlocks(migrated_entry(p, e)) = MovingBlocks(p) \ {p.oblock[e]}
<1> DEFINE q == migrated_entry(p, e)
<1>1. /\ PoolSound(q)
      /\ q.allocated = p.allocated
      /\ q.migrating = p.migrating \ {e}
      /\ q.oblock = p.oblock
  BY MigratedSound
<1>2. /\ q.ht = p.ht /\ p.migrating \subseteq p.ht
      /\ \A c, d \in p.ht : p.oblock[c] = p.oblock[d] => c = d
  BY <1>1 DEF PoolSound
<1> HIDE DEF q
<1>3. Blocks(q) = Blocks(p)
  BY <1>1, <1>2 DEF Blocks
<1>4. MovingBlocks(q) = MovingBlocks(p) \ {p.oblock[e]}
  BY <1>1, <1>2 DEF MovingBlocks
<1> QED
  BY <1>3, <1>4 DEF q

\* A renamed block is replaced by its new name, among those being copied too.
LEMMA RemapBlocks ==
  ASSUME NEW p, PoolSound(p), NEW o \in Oblocks, NEW n \in Oblocks,
         hash_lookup(p, o) # Null, NotHashed(p, n), NEW q, q = default_remap(p, o, n)
  PROVE  /\ Blocks(q) = (Blocks(p) \ {o}) \cup {n}
         /\ MovingBlocks(q) =
              IF o \in MovingBlocks(p) THEN (MovingBlocks(p) \ {o}) \cup {n}
                                       ELSE MovingBlocks(p)
<1> DEFINE e == hash_lookup(p, o)
<1>1. /\ PoolSound(q)
      /\ q.allocated = p.allocated
      /\ q.migrating = p.migrating
      /\ q.oblock = [p.oblock EXCEPT ![e] = n]
  BY RemapSound, RemapOblock
<1>2. /\ e \in Cblocks /\ e \in p.ht /\ p.oblock[e] = o
      /\ q.ht = p.ht
      /\ p.migrating \subseteq p.ht /\ p.ht \subseteq Cblocks
      /\ p.oblock \in [Cblocks -> Oblocks \cup {Null}]
      /\ \A c, d \in p.ht : p.oblock[c] = p.oblock[d] => c = d
  <2>1. e \in Cblocks /\ e \in p.allocated /\ p.oblock[e] = o
    BY LookupFacts
  <2> HIDE DEF e
  <2> QED
    BY <1>1, <2>1 DEF PoolSound, Pools
<1> HIDE DEF e
<1>3. q.oblock[e] = n /\ \A c \in Cblocks \ {e} : q.oblock[c] = p.oblock[c]
  BY <1>1, <1>2
<1>4. Blocks(q) = (Blocks(p) \ {o}) \cup {n}
  BY <1>2, <1>3 DEF Blocks
<1>5. o \in MovingBlocks(p) <=> e \in p.migrating
  BY <1>2 DEF MovingBlocks
<1>6. CASE e \in p.migrating
  <2>1. MovingBlocks(q) = (MovingBlocks(p) \ {o}) \cup {n}
    BY <1>1, <1>2, <1>3, <1>6 DEF MovingBlocks
  <2> QED
    BY <1>4, <1>5, <1>6, <2>1
<1>7. CASE e \notin p.migrating
  <2>1. MovingBlocks(q) = MovingBlocks(p)
    BY <1>1, <1>2, <1>3, <1>7 DEF MovingBlocks
  <2> QED
    BY <1>4, <1>5, <1>7, <2>1
<1> QED
  BY <1>6, <1>7

\* Whether an entry is marked dirty does not change what is cached.
LEMMA DirtyBlocks ==
  ASSUME NEW p, PoolSound(p), NEW e \in Cblocks, NEW write \in BOOLEAN
  PROVE  /\ Blocks(mark_dirty(p, e, write)) = Blocks(p)
         /\ MovingBlocks(mark_dirty(p, e, write)) = MovingBlocks(p)
<1> DEFINE q == mark_dirty(p, e, write)
<1>1. /\ PoolSound(q)
      /\ q.allocated = p.allocated
      /\ q.migrating = p.migrating
      /\ q.oblock = p.oblock
  BY DirtySound
<1> HIDE DEF q
<1>2. Blocks(q) = Blocks(p) /\ MovingBlocks(q) = MovingBlocks(p)
  BY <1>1 DEF Blocks, MovingBlocks, PoolSound
<1> QED
  BY <1>2 DEF q

\* The entry of a cached block, and of one that is being copied.
LEMMA CachedEntry ==
  ASSUME NEW p, PoolSound(p), NEW o \in Oblocks, o \in Blocks(p)
  PROVE  /\ hash_lookup(p, o) \in Cblocks
         /\ hash_lookup(p, o) \in p.allocated
         /\ hash_lookup(p, o) # Null
         /\ p.oblock[hash_lookup(p, o)] = o
         /\ o \in MovingBlocks(p) => hash_lookup(p, o) \in p.migrating
         /\ p.nr_allocated > 0
<1> DEFINE e == hash_lookup(p, o)
<1>1. PICK c \in p.ht : p.oblock[c] = o
  BY DEF Blocks
<1>2. c \in Cblocks /\ e = c
  BY <1>1, LookupFacts DEF PoolSound, Pools
<1>3. e # Null /\ e \in p.allocated /\ p.oblock[e] = o
  BY <1>1, <1>2, NucleusAssumption DEF PoolSound, Cblocks
<1>4. o \in MovingBlocks(p) => e \in p.migrating
  BY <1>2, LookupFacts DEF MovingBlocks, PoolSound
<1>5. p.nr_allocated > 0
  <2>1. p.allocated \in SUBSET Cblocks /\ p.nr_allocated = Cardinality(p.allocated)
    BY DEF PoolSound, Pools
  <2>2. /\ Cardinality(p.allocated \ {e}) \in Nat
        /\ Cardinality(p.allocated \ {e}) = Cardinality(p.allocated) - 1
        /\ Cardinality(p.allocated) \in Nat
    BY <1>3, <2>1, CblocksFinite
  <2> QED
    BY <2>1, <2>2
<1> QED
  BY <1>2, <1>3, <1>4, <1>5

\* Blocks are blocks, and those being copied are cached.
LEMMA BlocksType ==
  ASSUME NEW p, PoolSound(p)
  PROVE  Blocks(p) \subseteq Oblocks /\ MovingBlocks(p) \subseteq Blocks(p)
BY DEF PoolSound, Blocks, MovingBlocks

\* The blocks that are not cached are those that no hashed entry has.
LEMMA NotInBlocks ==
  ASSUME NEW p, NEW o, o \notin Blocks(p)
  PROVE  NotHashed(p, o)
BY DEF Blocks, NotHashed

\* A block has an entry if and only if it is cached.
LEMMA LookupIsCached ==
  ASSUME NEW p, PoolSound(p), NEW o \in Oblocks
  PROVE  hash_lookup(p, o) # Null <=> o \in Blocks(p)
<1>1. hash_lookup(p, o) # Null => o \in Blocks(p)
  BY LookupFacts DEF PoolSound, Blocks
<1> QED
  BY <1>1, CachedEntry

-----------------------------------------------------------------------------
(***************************************************************************)
(* A queue that holds exactly the resident entries of a pool: LRU's, and   *)
(* LARC's.                                                                 *)
(***************************************************************************)
QueueSound(q, p) ==
  /\ q \in Seq(Cblocks)
  /\ IsInjective(q)
  /\ ToSet(q) = p.allocated \ p.migrating

\* The entry at the head of the queue may be evicted: its block is not being
\* copied, and the entry that is allocated next is the victim's.
LEMMA VictimSound ==
  ASSUME NEW p, PoolSound(p), NEW q, QueueSound(q, p), q # <<>>
  PROVE  /\ Head(q) \in Cblocks
         /\ Head(q) \in p.allocated
         /\ Head(q) \notin p.migrating
         /\ p.oblock[Head(q)] \in Blocks(p) \ MovingBlocks(p)
         /\ PoolSound(cache_nucleus_remove(p, Head(q)))
         /\ cache_nucleus_remove(p, Head(q)).allocated = p.allocated \ {Head(q)}
         /\ cache_nucleus_remove(p, Head(q)).migrating = p.migrating
         /\ Blocks(cache_nucleus_remove(p, Head(q))) = Blocks(p) \ {p.oblock[Head(q)]}
         /\ MovingBlocks(cache_nucleus_remove(p, Head(q))) = MovingBlocks(p)
         /\ alloc_entry(cache_nucleus_remove(p, Head(q))) = Head(q)
         /\ Tail(q) \in Seq(Cblocks)
         /\ IsInjective(Tail(q))
         /\ ToSet(Tail(q)) = ToSet(q) \ {Head(q)}
<1> DEFINE v == Head(q)
           r == cache_nucleus_remove(p, v)
<1>1. /\ v \in Cblocks /\ v \in ToSet(q)
      /\ Tail(q) \in Seq(Cblocks)
      /\ IsInjective(Tail(q))
      /\ ToSet(Tail(q)) = ToSet(q) \ {v}
  BY QueuePop DEF QueueSound
<1> HIDE DEF v
<1>2. v \in p.allocated /\ v \notin p.migrating
  BY <1>1 DEF QueueSound
<1>3. p.oblock[v] \in Blocks(p) \ MovingBlocks(p)
  BY <1>2 DEF PoolSound, Blocks, MovingBlocks
<1>4. /\ PoolSound(r)
      /\ r.allocated = p.allocated \ {v}
      /\ r.migrating = p.migrating \ {v}
      /\ alloc_entry(r) = v
  BY <1>2, RemoveSound
<1>5. /\ Blocks(r) = Blocks(p) \ {p.oblock[v]}
      /\ MovingBlocks(r) = MovingBlocks(p) \ {p.oblock[v]}
  BY <1>2, RemoveBlocks
<1> HIDE DEF r
<1> QED
  BY <1>1, <1>2, <1>3, <1>4, <1>5 DEF v, r

\* The pool and the queue once a missed block has been admitted: in the victim's
\* entry if the cache is full, else in a free one.
LEMMA AdmitQueueSound ==
  ASSUME NEW p, PoolSound(p), NEW q, QueueSound(q, p), NEW e, NEW write \in BOOLEAN,
         NEW o \in Oblocks, o \notin Blocks(p), NEW evicted,
         \/ /\ q # <<>>
            /\ evicted = cache_nucleus_remove(p, Head(q))
         \/ ~cache_is_full(p) /\ evicted = p,
         e = alloc_entry(evicted)
  PROVE  /\ e \in Cblocks /\ e # Null
         /\ PoolSound(AdmitEntry(evicted, e, o, write))
         /\ MovingBlocks(AdmitEntry(evicted, e, o, write)) = MovingBlocks(p) \cup {o}
         /\ q # <<>> /\ evicted = cache_nucleus_remove(p, Head(q)) =>
              /\ QueueSound(Tail(q), AdmitEntry(evicted, e, o, write))
              /\ Blocks(AdmitEntry(evicted, e, o, write)) =
                   (Blocks(p) \ {p.oblock[Head(q)]}) \cup {o}
         /\ evicted = p =>
              /\ QueueSound(q, AdmitEntry(evicted, e, o, write))
              /\ Blocks(AdmitEntry(evicted, e, o, write)) = Blocks(p) \cup {o}
<1> DEFINE r == AdmitEntry(evicted, e, o, write)
<1>1. CASE q # <<>> /\ evicted = cache_nucleus_remove(p, Head(q))
  <2>1. /\ e = Head(q) /\ e \in Cblocks /\ e \in p.allocated /\ e \notin p.migrating
        /\ PoolSound(evicted)
        /\ evicted.allocated = p.allocated \ {e}
        /\ evicted.migrating = p.migrating
        /\ Blocks(evicted) = Blocks(p) \ {p.oblock[e]}
        /\ MovingBlocks(evicted) = MovingBlocks(p)
        /\ Tail(q) \in Seq(Cblocks)
        /\ IsInjective(Tail(q))
        /\ ToSet(Tail(q)) = ToSet(q) \ {e}
    BY <1>1, VictimSound
  <2>2. NotHashed(evicted, o)
    BY <2>1, NotInBlocks
  <2>3. /\ PoolSound(r)
        /\ r.allocated = evicted.allocated \cup {e}
        /\ r.migrating = evicted.migrating \cup {e}
        /\ Blocks(r) = Blocks(evicted) \cup {o}
        /\ MovingBlocks(r) = MovingBlocks(evicted) \cup {o}
    BY <2>1, <2>2, AdmitSound
  <2> HIDE DEF r
  <2>4. QueueSound(Tail(q), r)
    BY <2>1, <2>3 DEF QueueSound
  <2>5. e # Null
    BY <2>1, NucleusAssumption DEF Cblocks
  <2>6. evicted # p
    BY <2>1
  <2> QED
    BY <1>1, <2>1, <2>3, <2>4, <2>5, <2>6 DEF r
<1>2. CASE ~cache_is_full(p) /\ evicted = p
  <2>1. e \in Cblocks /\ e \notin p.allocated /\ e # Null
    BY <1>2, AllocEntryFacts
  <2>2. NotHashed(p, o)
    BY NotInBlocks
  <2>3. /\ PoolSound(r)
        /\ r.allocated = p.allocated \cup {e}
        /\ r.migrating = p.migrating \cup {e}
        /\ Blocks(r) = Blocks(p) \cup {o}
        /\ MovingBlocks(r) = MovingBlocks(p) \cup {o}
    BY <1>2, <2>1, <2>2, AdmitSound
  <2> HIDE DEF r
  <2>4. QueueSound(q, r)
    BY <2>1, <2>3 DEF QueueSound
  <2>5. q # <<>> => cache_nucleus_remove(p, Head(q)) # p
    BY VictimSound
  <2> QED
    BY <1>2, <2>1, <2>3, <2>4, <2>5 DEF r
<1> QED
  BY <1>1, <1>2

\* A removed entry leaves the queue, if it is in it.
LEMMA RemoveQueueSound ==
  ASSUME NEW p, PoolSound(p), NEW q, QueueSound(q, p), NEW e \in p.allocated
  PROVE  QueueSound(IF e \in p.migrating THEN q ELSE queue_remove(q, e),
                    cache_nucleus_remove(p, e))
<1>1. /\ cache_nucleus_remove(p, e).allocated = p.allocated \ {e}
      /\ cache_nucleus_remove(p, e).migrating = p.migrating \ {e}
  BY RemoveSound
<1>2. CASE e \in p.migrating
  BY <1>1, <1>2 DEF QueueSound
<1>3. CASE e \notin p.migrating
  <2> DEFINE r == queue_remove(q, e)
  <2>1. r \in Seq(Cblocks) /\ IsInjective(r) /\ ToSet(r) = ToSet(q) \ {e}
    BY QueueRemove DEF QueueSound
  <2> HIDE DEF r
  <2>2. ToSet(r) = (p.allocated \ {e}) \ (p.migrating \ {e})
    BY <1>3, <2>1 DEF QueueSound
  <2>3. QueueSound(r, cache_nucleus_remove(p, e))
    BY <1>1, <2>1, <2>2 DEF QueueSound
  <2> QED
    BY <1>3, <2>3 DEF r
<1> QED
  BY <1>2, <1>3

\* An entry that has been hit moves to the end of the queue, if it is in it.
LEMMA HitQueueSound ==
  ASSUME NEW p, PoolSound(p), NEW q, QueueSound(q, p), NEW e \in p.allocated,
         NEW write \in BOOLEAN
  PROVE  QueueSound(IF e \in p.migrating THEN q ELSE queue_push(queue_remove(q, e), e),
                    mark_dirty(p, e, write))
<1>1. e \in Cblocks
  BY DEF PoolSound, Pools
<1>2. /\ mark_dirty(p, e, write).allocated = p.allocated
      /\ mark_dirty(p, e, write).migrating = p.migrating
  BY <1>1, DirtySound
<1>3. CASE e \in p.migrating
  BY <1>2, <1>3 DEF QueueSound
<1>4. CASE e \notin p.migrating
  <2> DEFINE r == queue_remove(q, e)
             s == queue_push(r, e)
  <2>1. r \in Seq(Cblocks) /\ IsInjective(r) /\ ToSet(r) = ToSet(q) \ {e}
    BY QueueRemove DEF QueueSound
  <2> HIDE DEF r
  <2>2. s \in Seq(Cblocks) /\ IsInjective(s) /\ ToSet(s) = ToSet(r) \cup {e}
    BY <1>1, <2>1, QueuePush
  <2> HIDE DEF s
  <2>3. QueueSound(s, mark_dirty(p, e, write))
    BY <1>2, <1>4, <2>1, <2>2 DEF QueueSound
  <2> QED
    BY <1>4, <2>3 DEF s, r
<1> QED
  BY <1>3, <1>4

-----------------------------------------------------------------------------
(***************************************************************************)
(* Statistics, answers, and the larger and the smaller of two numbers.     *)
(***************************************************************************)

\* inc wraps around at StatModulus.
LEMMA IncType ==
  ASSUME NEW s \in Stats, NEW S
  PROVE  inc(s, S) \in Stats
<1>1. ASSUME NEW x \in 0 .. StatModulus - 1
      PROVE  (x + 1) % StatModulus \in 0 .. StatModulus - 1
  BY NucleusAssumption
<1> QED
  BY <1>1 DEF inc, Stats

\* An answer that names no cache block.
LEMMA OpOnlyType ==
  ASSUME NEW op \in Operations, NEW o \in Oblocks
  PROVE  /\ OpOnly(op, o) \in Results
         /\ OpOnly(op, o).op = op
         /\ OpOnly(op, o).oblock = o
         /\ OpOnly(op, o).old_oblock = Null
  BY DEF OpOnly, Results

\* The larger of two numbers.
LEMMA MaxOfTwo ==
  ASSUME NEW a \in Int, NEW b \in Int
  PROVE  Max({a, b}) = IF a >= b THEN a ELSE b
<1>1. \E x \in {a, b} : \A y \in {a, b} : x >= y
  OBVIOUS
<1>2. Max({a, b}) \in {a, b} /\ \A y \in {a, b} : Max({a, b}) >= y
  BY <1>1 DEF Max
<1> QED
  BY <1>2

\* The smaller of two numbers.
LEMMA MinOfTwo ==
  ASSUME NEW a \in Int, NEW b \in Int
  PROVE  Min({a, b}) = IF a <= b THEN a ELSE b
<1>1. \E x \in {a, b} : \A y \in {a, b} : x <= y
  OBVIOUS
<1>2. Min({a, b}) \in {a, b} /\ \A y \in {a, b} : Min({a, b}) <= y
  BY <1>1 DEF Min
<1> QED
  BY <1>2

\* What is left over by an integer division is less than the divisor.
LEMMA DivFacts ==
  ASSUME NEW a \in Nat, NEW b \in Nat, b > 0
  PROVE  /\ a \div b \in Nat
         /\ b * (a \div b) <= a
         /\ a < b * (a \div b) + b
  OBVIOUS
============================================================================
