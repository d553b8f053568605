----------------------------- MODULE ArcProofs ------------------------------
(***************************************************************************)
(* The safety of the ARC policy, for every size of the two pools, every    *)
(* set of blocks and every caller: its lists are exact whatever is         *)
(* removed, and as long as nothing is removed its bounds hold, the history *)
(* never overflows, and each of its steps is one of CachePolicy.           *)
(*                                                                         *)
(* The two halves of ARC are proved apart: T1 and T2, which share the      *)
(* entries of the cache, and B1 and B2, which share the blocks that are    *)
(* remembered.  What a request does to both is composed from one lemma for *)
(* each list it changes.                                                   *)
(***************************************************************************)
EXTENDS Arc, NucleusProofs

-----------------------------------------------------------------------------
(***************************************************************************)
(* The invariant.                                                          *)
(***************************************************************************)

\* Queues and lengths: one of each for every list.
ListsShape(qs, len) == DOMAIN qs = Lists /\ len \in [Lists -> Int]

\* The entries that count in list l, of those allocated.
EntriesOf(lc, alloc, l) == {c \in alloc : lc[c] = l}

\* T1 and T2 against the entries: alloc are allocated, mov of them migrating.
ResidentSound(alloc, mov, lc, qs, len) ==
  /\ alloc \subseteq Cblocks /\ mov \subseteq alloc
  /\ lc \in [Cblocks -> Resident \cup {None}]
  /\ \A c \in Cblocks : lc[c] = None <=> c \notin alloc
  /\ \A l \in Resident :
       /\ qs[l] \in Seq(Cblocks)
       /\ IsInjective(qs[l])
       /\ ToSet(qs[l]) = EntriesOf(lc, alloc \ mov, l)
       /\ len[l] = Cardinality(EntriesOf(lc, alloc, l))

\* The blocks in the history lists.
HistoryBlocks(qs) == ToSet(qs["B1"]) \cup ToSet(qs["B2"])

\* B1 and B2: blocks, each in one of them, once.
HistorySound(qs, len) ==
  /\ \A l \in History :
       /\ qs[l] \in Seq(Oblocks)
       /\ IsInjective(qs[l])
       /\ len[l] = Len(qs[l])
  /\ ToSet(qs["B1"]) \cap ToSet(qs["B2"]) = {}

\* The bounds of ARC.  The last one is what makes them inductive: the history is
\* used only once the cache is full, and a full cache stays full.
Bounded(len) ==
  /\ len["T1"] + len["B1"] <= CacheSize
  /\ len["T1"] + len["T2"] + len["B1"] + len["B2"] <= 2 * CacheSize
  /\ len["B1"] + len["B2"] > 0 => len["T1"] + len["T2"] = CacheSize

\* Nothing changes in B1 and B2, or in T1 and T2.
HistoryKept(qs, len, qt, lem) == \A l \in History : qt[l] = qs[l] /\ lem[l] = len[l]
ResidentKept(qs, len, qt, lem) == \A l \in Resident : qt[l] = qs[l] /\ lem[l] = len[l]

ArcInv ==
  /\ PoolSound(pool)
  /\ ListsShape(arc_q, length)
  /\ ResidentSound(pool.allocated, pool.migrating, loc, arc_q, length)
  /\ HistorySound(arc_q, length)
  /\ Blocks(pool) \cap HistoryBlocks(arc_q) = {}
  /\ loading => HistoryBlocks(arc_q) = {}
  /\ removals = {} => Bounded(length)
  /\ removals = {} /\ MetaSize >= CacheSize => ~crashed
  /\ p \in 0 .. CacheSize
  /\ stats \in Stats
  /\ result \in Results \cup {NoResult}
  /\ crashed \in BOOLEAN
  /\ loading \in BOOLEAN
  /\ removals \in Callers

-----------------------------------------------------------------------------
(***************************************************************************)
(* Changes of one list.                                                    *)
(***************************************************************************)

\* The lists are distinct.
LEMMA ListNames ==
  /\ Resident \subseteq Lists /\ History \subseteq Lists
  /\ Resident \cap History = {}
  /\ None \notin Lists
  BY DEF Resident, History, Lists, None

\* One length changes, by one.
LEMMA CountFacts ==
  ASSUME NEW len \in [Lists -> Int], NEW l \in Lists \cup {None}
  PROVE  /\ AddTo(len, l) \in [Lists -> Int]
         /\ TakeFrom(len, l) \in [Lists -> Int]
         /\ \A k \in Lists :
              /\ AddTo(len, l)[k] = IF k = l THEN len[k] + 1 ELSE len[k]
              /\ TakeFrom(len, l)[k] = IF k = l THEN len[k] - 1 ELSE len[k]
<1>1. CASE l = None
  BY <1>1, ListNames DEF AddTo, TakeFrom
<1>2. CASE l # None
  <2>1. /\ AddTo(len, l) = [len EXCEPT ![l] = len[l] + 1]
        /\ TakeFrom(len, l) = [len EXCEPT ![l] = len[l] - 1]
        /\ l \in Lists
    BY <1>2 DEF AddTo, TakeFrom
  <2> QED
    BY <2>1
<1> QED
  BY <1>1, <1>2

\* One queue changes.
LEMMA QueueFacts ==
  ASSUME NEW qs, DOMAIN qs = Lists, NEW l \in Lists \cup {None}, NEW x
  PROVE  /\ DOMAIN Push(qs, l, x) = Lists
         /\ DOMAIN Drop(qs, l, x) = Lists
         /\ \A k \in Lists :
              /\ Push(qs, l, x)[k] = IF k = l THEN queue_push(qs[k], x) ELSE qs[k]
              /\ Drop(qs, l, x)[k] = IF k = l THEN queue_remove(qs[k], x) ELSE qs[k]
<1>1. CASE l = None
  BY <1>1, ListNames DEF Push, Drop
<1>2. CASE l # None
  <2>1. /\ Push(qs, l, x) = [qs EXCEPT ![l] = queue_push(qs[l], x)]
        /\ Drop(qs, l, x) = [qs EXCEPT ![l] = queue_remove(qs[l], x)]
        /\ l \in Lists
    BY <1>2 DEF Push, Drop
  <2> QED
    BY <2>1
<1> QED
  BY <1>1, <1>2

\* Each half of ARC depends only on its own lists.
LEMMA ResidentSame ==
  ASSUME NEW alloc, NEW mov, NEW lc, NEW qs, NEW len, NEW qt, NEW lem,
         ResidentSound(alloc, mov, lc, qs, len),
         ResidentKept(qs, len, qt, lem)
  PROVE  ResidentSound(alloc, mov, lc, qt, lem)
  BY DEF ResidentSound, ResidentKept

LEMMA HistorySame ==
  ASSUME NEW qs, NEW len, NEW qt, NEW lem,
         HistorySound(qs, len),
         HistoryKept(qs, len, qt, lem)
  PROVE  HistorySound(qt, lem) /\ HistoryBlocks(qt) = HistoryBlocks(qs)
  BY DEF HistorySound, HistoryBlocks, History, HistoryKept

-----------------------------------------------------------------------------
(***************************************************************************)
(* T1 and T2: an entry leaves its list, enters a list while it migrates,   *)
(* and is queued once it has migrated.                                     *)
(***************************************************************************)

\* The entries of one list are finitely many, and all counted.
LEMMA EntriesFinite ==
  ASSUME NEW alloc, alloc \subseteq Cblocks, NEW lc, NEW l, NEW e
  PROVE  LET E == EntriesOf(lc, alloc, l)
         IN  /\ E \in SUBSET Cblocks
             /\ Cardinality(E) \in Nat
             /\ e \notin E => Cardinality(E \cup {e}) = Cardinality(E) + 1
             /\ e \in E => Cardinality(E \ {e}) = Cardinality(E) - 1
<1>1. EntriesOf(lc, alloc, l) \in SUBSET Cblocks
  BY DEF EntriesOf
<1> QED
  BY <1>1, CblocksFinite

\* An allocated entry is in one of the two lists.
LEMMA EntryList ==
  ASSUME NEW alloc, NEW mov, NEW lc, NEW qs, NEW len,
         ResidentSound(alloc, mov, lc, qs, len), NEW e \in alloc
  PROVE  lc[e] \in Resident /\ lc[e] \in Lists /\ lc[e] # None
  BY ListNames DEF ResidentSound

\* Entry e leaves the list that it counts in, and its queue unless it migrates.
Leaves(e, mov, lc, qs, len, lf, qt, lem) ==
  /\ lf = [lc EXCEPT ![e] = None]
  /\ qt = IF e \in mov THEN qs ELSE Drop(qs, lc[e], e)
  /\ lem = TakeFrom(len, lc[e])

LEMMA LeaveList ==
  ASSUME NEW alloc, NEW mov, NEW lc, NEW qs, NEW len, NEW e \in alloc,
         NEW lf, NEW qt, NEW lem,
         ListsShape(qs, len), ResidentSound(alloc, mov, lc, qs, len),
         Leaves(e, mov, lc, qs, len, lf, qt, lem)
  PROVE  /\ ListsShape(qt, lem)
         /\ ResidentSound(alloc \ {e}, mov \ {e}, lf, qt, lem)
         /\ HistoryKept(qs, len, qt, lem)
<1>a. alloc \subseteq Cblocks /\ mov \subseteq alloc
  BY DEF ResidentSound
<1>1. lc[e] \in Resident /\ lc[e] \in Lists /\ lc[e] # None /\ e \in Cblocks
  BY <1>a, EntryList
<1>2. DOMAIN qs = Lists /\ len \in [Lists -> Int] /\ lc \in [Cblocks -> Resident \cup {None}]
  BY DEF ListsShape, ResidentSound
<1>3. /\ DOMAIN qt = Lists
      /\ \A k \in Lists : qt[k] = IF k = lc[e] /\ e \notin mov THEN queue_remove(qs[k], e)
                                                              ELSE qs[k]
  <2>1. qt = IF e \in mov THEN qs ELSE Drop(qs, lc[e], e)
    BY DEF Leaves
  <2> QED
    BY <1>1, <1>2, <2>1, QueueFacts
<1>4. /\ lem \in [Lists -> Int]
      /\ \A k \in Lists : lem[k] = IF k = lc[e] THEN len[k] - 1 ELSE len[k]
  BY <1>1, <1>2, CountFacts DEF Leaves
<1>5. /\ lf \in [Cblocks -> Resident \cup {None}]
      /\ \A c \in Cblocks : lf[c] = IF c = e THEN None ELSE lc[c]
  BY <1>1, <1>2 DEF Leaves
<1>6. \A c \in Cblocks : lf[c] = None <=> c \notin alloc \ {e}
  BY <1>5 DEF ResidentSound
<1>7. ASSUME NEW l \in Resident
      PROVE  /\ qt[l] \in Seq(Cblocks)
             /\ IsInjective(qt[l])
             /\ ToSet(qt[l]) = EntriesOf(lf, (alloc \ {e}) \ (mov \ {e}), l)
             /\ lem[l] = Cardinality(EntriesOf(lf, alloc \ {e}, l))
  <2>1. /\ qs[l] \in Seq(Cblocks) /\ IsInjective(qs[l]) /\ l \in Lists /\ l # None
        /\ ToSet(qs[l]) = EntriesOf(lc, alloc \ mov, l)
        /\ len[l] = Cardinality(EntriesOf(lc, alloc, l))
    BY ListNames DEF ResidentSound
  <2>2. EntriesOf(lf, alloc \ {e}, l) = EntriesOf(lc, alloc, l) \ {e}
    BY <1>a, <1>5 DEF EntriesOf
  <2>3. e \in EntriesOf(lc, alloc, l) <=> l = lc[e]
    BY DEF EntriesOf
  <2>4. lem[l] = Cardinality(EntriesOf(lf, alloc \ {e}, l))
    <3>1. CASE l = lc[e]
      <4>1. Cardinality(EntriesOf(lc, alloc, l) \ {e}) = Cardinality(EntriesOf(lc, alloc, l)) - 1
        BY <2>3, <3>1, <1>a, EntriesFinite
      <4> QED
        BY <1>4, <2>1, <2>2, <3>1, <4>1
    <3>2. CASE l # lc[e]
      <4>1. EntriesOf(lc, alloc, l) \ {e} = EntriesOf(lc, alloc, l)
        BY <2>3, <3>2
      <4> QED
        BY <1>4, <2>1, <2>2, <3>2, <4>1
    <3> QED
      BY <3>1, <3>2
  <2>5. EntriesOf(lf, (alloc \ {e}) \ (mov \ {e}), l) = EntriesOf(lc, alloc \ mov, l) \ {e}
    BY <1>a, <1>5 DEF EntriesOf
  <2>6. CASE l = lc[e] /\ e \notin mov
    <3>1. qt[l] = queue_remove(qs[l], e)
      BY <1>3, <2>1, <2>6
    <3>2. /\ queue_remove(qs[l], e) \in Seq(Cblocks)
          /\ IsInjective(queue_remove(qs[l], e))
          /\ ToSet(queue_remove(qs[l], e)) = ToSet(qs[l]) \ {e}
      BY <2>1, QueueRemove
    <3> QED
      BY <2>1, <2>4, <2>5, <3>1, <3>2
  <2>7. CASE ~(l = lc[e] /\ e \notin mov)
    <3>1. qt[l] = qs[l]
      BY <1>3, <2>1, <2>7
    <3>2. e \notin EntriesOf(lc, alloc \ mov, l)
      BY <2>7 DEF EntriesOf
    <3> QED
      BY <2>1, <2>4, <2>5, <3>1, <3>2
  <2> QED
    BY <2>6, <2>7
<1>8. HistoryKept(qs, len, qt, lem)
  BY <1>1, <1>3, <1>4, ListNames DEF HistoryKept
<1> QED
  BY <1>3, <1>4, <1>5, <1>6, <1>7, <1>8, <1>a DEF ListsShape, ResidentSound

LEMMA EnterList ==
  ASSUME NEW alloc, NEW mov,
         NEW lc, NEW qs, NEW len, ListsShape(qs, len),
         ResidentSound(alloc, mov, lc, qs, len),
         NEW e \in Cblocks, e \notin alloc, NEW l \in Resident,
         NEW lf, lf = [lc EXCEPT ![e] = l],
         NEW lem, lem = AddTo(len, l)
  PROVE  /\ ListsShape(qs, lem)
         /\ ResidentSound(alloc \cup {e}, mov \cup {e}, lf, qs, lem)
         /\ HistoryKept(qs, len, qs, lem)
<1>a. alloc \subseteq Cblocks /\ mov \subseteq alloc
  BY DEF ResidentSound
<1>1. l \in Lists /\ l # None
  BY ListNames
<1>2. DOMAIN qs = Lists /\ len \in [Lists -> Int] /\ lc \in [Cblocks -> Resident \cup {None}]
  BY DEF ListsShape, ResidentSound
<1>3. /\ lem \in [Lists -> Int]
      /\ \A k \in Lists : lem[k] = IF k = l THEN len[k] + 1 ELSE len[k]
  BY <1>1, <1>2, CountFacts
<1>4. /\ lf \in [Cblocks -> Resident \cup {None}]
      /\ \A c \in Cblocks : lf[c] = IF c = e THEN l ELSE lc[c]
  BY <1>2
<1>5. \A c \in Cblocks : lf[c] = None <=> c \notin alloc \cup {e}
  BY <1>1, <1>4 DEF ResidentSound
<1>6. ASSUME NEW k \in Resident
      PROVE  /\ qs[k] \in Seq(Cblocks)
             /\ IsInjective(qs[k])
             /\ ToSet(qs[k]) = EntriesOf(lf, (alloc \cup {e}) \ (mov \cup {e}), k)
             /\ lem[k] = Cardinality(EntriesOf(lf, alloc \cup {e}, k))
  <2>1. /\ qs[k] \in Seq(Cblocks) /\ IsInjective(qs[k]) /\ k \in Lists
        /\ ToSet(qs[k]) = EntriesOf(lc, alloc \ mov, k)
        /\ len[k] = Cardinality(EntriesOf(lc, alloc, k))
    BY ListNames DEF ResidentSound
  <2>2. EntriesOf(lf, (alloc \cup {e}) \ (mov \cup {e}), k) = EntriesOf(lc, alloc \ mov, k)
    BY <1>a, <1>4 DEF EntriesOf
  <2>3. e \notin EntriesOf(lc, alloc, k)
    BY DEF EntriesOf
  <2>4. EntriesOf(lf, alloc \cup {e}, k) =
          IF k = l THEN EntriesOf(lc, alloc, k) \cup {e} ELSE EntriesOf(lc, alloc, k)
    BY <1>a, <1>4 DEF EntriesOf
  <2>5. lem[k] = Cardinality(EntriesOf(lf, alloc \cup {e}, k))
    BY <1>3, <2>1, <2>3, <2>4, <1>a, EntriesFinite
  <2> QED
    BY <2>1, <2>2, <2>5
<1>7. HistoryKept(qs, len, qs, lem)
  BY <1>3, ListNames DEF HistoryKept
<1> QED
  BY <1>2, <1>3, <1>4, <1>5, <1>6, <1>7, <1>a DEF ListsShape, ResidentSound

LEMMA QueueEntry ==
  ASSUME NEW alloc, NEW mov,
         NEW lc, NEW qs, NEW len, ListsShape(qs, len),
         ResidentSound(alloc, mov, lc, qs, len), NEW e \in mov,
         NEW d, d = lc[e], NEW qt, qt = Push(qs, d, e)
  PROVE  /\ ListsShape(qt, len)
         /\ ResidentSound(alloc, mov \ {e}, lc, qt, len)
         /\ HistoryKept(qs, len, qt, len)
<1>a. alloc \subseteq Cblocks /\ mov \subseteq alloc
  BY DEF ResidentSound
<1>1. lc[e] \in Resident /\ lc[e] \in Lists /\ e \in Cblocks
  BY <1>a, EntryList
<1>2. DOMAIN qs = Lists /\ len \in [Lists -> Int]
  BY DEF ListsShape
<1>3. /\ DOMAIN qt = Lists
      /\ \A k \in Lists : qt[k] = IF k = lc[e] THEN queue_push(qs[k], e) ELSE qs[k]
  BY <1>1, <1>2, QueueFacts
<1>4. ASSUME NEW l \in Resident
      PROVE  /\ qt[l] \in Seq(Cblocks)
             /\ IsInjective(qt[l])
             /\ ToSet(qt[l]) = EntriesOf(lc, alloc \ (mov \ {e}), l)
             /\ len[l] = Cardinality(EntriesOf(lc, alloc, l))
  <2>1. /\ qs[l] \in Seq(Cblocks) /\ IsInjective(qs[l]) /\ l \in Lists
        /\ ToSet(qs[l]) = EntriesOf(lc, alloc \ mov, l)
        /\ len[l] = Cardinality(EntriesOf(lc, alloc, l))
    BY ListNames DEF ResidentSound
  <2>2. CASE l = lc[e]
    <3>1. e \notin ToSet(qs[l])
      BY <2>1 DEF EntriesOf
    <3>2. /\ queue_push(qs[l], e) \in Seq(Cblocks)
          /\ IsInjective(queue_push(qs[l], e))
          /\ ToSet(queue_push(qs[l], e)) = ToSet(qs[l]) \cup {e}
      BY <1>1, <2>1, <3>1, QueuePush
    <3>3. EntriesOf(lc, alloc \ (mov \ {e}), l) = EntriesOf(lc, alloc \ mov, l) \cup {e}
      BY <1>a, <2>2 DEF EntriesOf
    <3> QED
      BY <1>3, <2>1, <2>2, <3>2, <3>3
  <2>3. CASE l # lc[e]
    <3>1. EntriesOf(lc, alloc \ (mov \ {e}), l) = EntriesOf(lc, alloc \ mov, l)
      BY <2>3 DEF EntriesOf
    <3> QED
      BY <1>3, <2>1, <2>3, <3>1
  <2> QED
    BY <2>2, <2>3
<1>5. HistoryKept(qs, len, qt, len)
  BY <1>1, <1>3, ListNames DEF HistoryKept
<1> QED
  BY <1>2, <1>3, <1>4, <1>5, <1>a DEF ListsShape, ResidentSound

\* The changes of one list after another leave B1 and B2 alone.
LEMMA KeptTwice ==
  ASSUME NEW qs, NEW len, NEW qt, NEW lem, NEW qu, NEW leu,
         HistoryKept(qs, len, qt, lem), HistoryKept(qt, lem, qu, leu)
  PROVE  HistoryKept(qs, len, qu, leu)
  BY DEF HistoryKept

\* A hit: an entry leaves its list and enters list d.
Moves(e, d, alloc, mov, lc, qs, len, lf, qt, lem) ==
  /\ e \in alloc /\ d \in Resident
  /\ lf = [lc EXCEPT ![e] = d]
  /\ qt = IF e \in mov THEN qs ELSE Push(Drop(qs, lc[e], e), d, e)
  /\ lem = AddTo(TakeFrom(len, lc[e]), d)

LEMMA MoveEntry ==
  ASSUME NEW alloc, NEW mov, NEW lc, NEW qs, NEW len,
         NEW e, NEW d, NEW lf, NEW qt, NEW lem,
         ListsShape(qs, len), ResidentSound(alloc, mov, lc, qs, len),
         Moves(e, d, alloc, mov, lc, qs, len, lf, qt, lem)
  PROVE  /\ ListsShape(qt, lem)
         /\ ResidentSound(alloc, mov, lf, qt, lem)
         /\ HistoryKept(qs, len, qt, lem)
<1> DEFINE lg == [lc EXCEPT ![e] = None]
           qg == IF e \in mov THEN qs ELSE Drop(qs, lc[e], e)
           leg == TakeFrom(len, lc[e])
<1>1. /\ lc \in [Cblocks -> Resident \cup {None}] /\ alloc \subseteq Cblocks
      /\ mov \subseteq alloc /\ e \in Cblocks /\ e \in alloc /\ d \in Resident
  BY DEF ResidentSound, Moves
<1>2. /\ lf = [lg EXCEPT ![e] = d] /\ lf[e] = d
      /\ lem = AddTo(leg, d)
      /\ e \in mov => qt = qg
      /\ e \notin mov => qt = Push(qg, d, e)
  BY <1>1 DEF Moves
<1>3. Leaves(e, mov, lc, qs, len, lg, qg, leg)
  BY DEF Leaves
<1> HIDE DEF lg, qg, leg
<1>5. /\ ListsShape(qg, leg)
      /\ ResidentSound(alloc \ {e}, mov \ {e}, lg, qg, leg)
      /\ HistoryKept(qs, len, qg, leg)
  BY <1>1, <1>3, LeaveList
<1>6. /\ ListsShape(qg, lem)
      /\ ResidentSound((alloc \ {e}) \cup {e}, (mov \ {e}) \cup {e}, lf, qg, lem)
      /\ HistoryKept(qg, leg, qg, lem)
  <2> DEFINE al == alloc \ {e}
             mo == mov \ {e}
  <2>1. /\ e \in Cblocks /\ e \notin al /\ d \in Resident
        /\ lf = [lg EXCEPT ![e] = d] /\ lem = AddTo(leg, d)
    BY <1>1, <1>2
  <2>2. ListsShape(qg, leg) /\ ResidentSound(al, mo, lg, qg, leg)
    BY <1>5
  <2> HIDE DEF al, mo
  <2>3. /\ ListsShape(qg, lem)
        /\ ResidentSound(al \cup {e}, mo \cup {e}, lf, qg, lem)
        /\ HistoryKept(qg, leg, qg, lem)
    BY <2>1, <2>2, EnterList
  <2> QED
    BY <2>3 DEF al, mo
<1>7. (alloc \ {e}) \cup {e} = alloc
  BY <1>1
<1>8. HistoryKept(qs, len, qg, lem)
  BY <1>5, <1>6, KeptTwice
<1>9. CASE e \in mov
  <2>1. (mov \ {e}) \cup {e} = mov
    BY <1>9
  <2> QED
    BY <1>2, <1>6, <1>7, <1>8, <1>9, <2>1
<1>10. CASE e \notin mov
  <2>1. (mov \ {e}) \cup {e} = mov \cup {e}
    OBVIOUS
  <2>2. ResidentSound(alloc, mov \cup {e}, lf, qg, lem)
    BY <1>6, <1>7, <2>1
  <2>3. /\ ListsShape(qt, lem)
        /\ ResidentSound(alloc, (mov \cup {e}) \ {e}, lf, qt, lem)
        /\ HistoryKept(qg, lem, qt, lem)
    <3>1. e \in mov \cup {e} /\ d = lf[e] /\ qt = Push(qg, d, e)
      BY <1>2, <1>10
    <3> QED
      BY <1>6, <2>2, <3>1, QueueEntry
  <2>4. (mov \cup {e}) \ {e} = mov
    BY <1>10
  <2>5. HistoryKept(qs, len, qt, lem)
    BY <1>8, <2>3, KeptTwice
  <2> QED
    BY <2>3, <2>4, <2>5
<1> QED
  BY <1>9, <1>10

-----------------------------------------------------------------------------
(***************************************************************************)
(* B1 and B2: a block is forgotten, a block is remembered.                 *)
(***************************************************************************)

\* A history list holds as many blocks as its length says.
LEMMA HistoryFacts ==
  ASSUME NEW qs, NEW len, HistorySound(qs, len), NEW l \in History
  PROVE  /\ qs[l] \in Seq(Oblocks) /\ IsInjective(qs[l])
         /\ len[l] \in Nat /\ len[l] = Len(qs[l])
         /\ qs[l] = <<>> <=> len[l] = 0
         /\ ToSet(qs[l]) \subseteq HistoryBlocks(qs)
         /\ ToSet(qs[l]) \subseteq Oblocks
         /\ qs[l] # <<>> => Head(qs[l]) \in ToSet(qs[l])
<1>1. /\ qs[l] \in Seq(Oblocks) /\ IsInjective(qs[l]) /\ len[l] = Len(qs[l])
      /\ len[l] \in Nat
  BY LenProperties DEF HistorySound
<1>2. qs[l] = <<>> <=> len[l] = 0
  BY <1>1, EmptySeq, LenProperties
<1>3. ToSet(qs[l]) \subseteq HistoryBlocks(qs)
  BY DEF HistoryBlocks, History
<1>4. ToSet(qs[l]) \subseteq Oblocks
  BY <1>1, LenProperties DEF ToSet
<1>5. qs[l] # <<>> => Head(qs[l]) \in ToSet(qs[l])
  BY <1>1, QueuePop
<1> QED
  BY <1>1, <1>2, <1>3, <1>4, <1>5

LEMMA ForgetBlock ==
  ASSUME NEW qs, NEW len, ListsShape(qs, len), HistorySound(qs, len),
         NEW l \in History, NEW x \in ToSet(qs[l]),
         NEW qt, qt = Drop(qs, l, x), NEW lem, lem = TakeFrom(len, l)
  PROVE  /\ ListsShape(qt, lem)
         /\ HistorySound(qt, lem)
         /\ HistoryBlocks(qt) = HistoryBlocks(qs) \ {x}
         /\ ResidentKept(qs, len, qt, lem)
<1>1. l \in Lists /\ DOMAIN qs = Lists /\ len \in [Lists -> Int]
  BY ListNames DEF ListsShape
<1>2. /\ DOMAIN qt = Lists
      /\ \A k \in Lists : qt[k] = IF k = l THEN queue_remove(qs[k], x) ELSE qs[k]
  BY <1>1, QueueFacts
<1>3. /\ lem \in [Lists -> Int]
      /\ \A k \in Lists : lem[k] = IF k = l THEN len[k] - 1 ELSE len[k]
  BY <1>1, CountFacts
<1>4. ASSUME NEW k \in History
      PROVE  /\ qt[k] \in Seq(Oblocks) /\ IsInjective(qt[k]) /\ lem[k] = Len(qt[k])
             /\ ToSet(qt[k]) = IF k = l THEN ToSet(qs[k]) \ {x} ELSE ToSet(qs[k])
  <2>1. /\ qs[k] \in Seq(Oblocks) /\ IsInjective(qs[k]) /\ len[k] = Len(qs[k])
        /\ k \in Lists
    BY ListNames, HistoryFacts
  <2>2. CASE k = l
    <3>1. qt[k] = queue_remove(qs[k], x) /\ lem[k] = len[k] - 1
      BY <1>2, <1>3, <2>1, <2>2
    <3>2. /\ queue_remove(qs[k], x) \in Seq(Oblocks) /\ IsInjective(queue_remove(qs[k], x))
          /\ ToSet(queue_remove(qs[k], x)) = ToSet(qs[k]) \ {x}
          /\ Len(queue_remove(qs[k], x)) = Len(qs[k]) - 1
      BY <2>1, <2>2, QueueRemove
    <3> QED
      BY <2>1, <2>2, <3>1, <3>2
  <2>3. CASE k # l
    BY <1>2, <1>3, <2>1, <2>3
  <2> QED
    BY <2>2, <2>3
<1>5. "B1" \in History /\ "B2" \in History /\ (l = "B1" \/ l = "B2")
  BY DEF History
<1>6. ToSet(qs["B1"]) \cap ToSet(qs["B2"]) = {}
  BY DEF HistorySound
<1>7. /\ ToSet(qt["B1"]) \cap ToSet(qt["B2"]) = {}
      /\ HistoryBlocks(qt) = HistoryBlocks(qs) \ {x}
  BY <1>4, <1>5, <1>6 DEF HistoryBlocks
<1>8. ResidentKept(qs, len, qt, lem)
  BY <1>2, <1>3, ListNames DEF ResidentKept
<1> QED
  BY <1>2, <1>3, <1>4, <1>7, <1>8 DEF ListsShape, HistorySound

LEMMA RememberBlock ==
  ASSUME NEW qs, NEW len, ListsShape(qs, len), HistorySound(qs, len),
         NEW l \in History, NEW x \in Oblocks, x \notin HistoryBlocks(qs),
         NEW qt, qt = Push(qs, l, x), NEW lem, lem = AddTo(len, l)
  PROVE  /\ ListsShape(qt, lem)
         /\ HistorySound(qt, lem)
         /\ HistoryBlocks(qt) = HistoryBlocks(qs) \cup {x}
         /\ ResidentKept(qs, len, qt, lem)
<1>1. l \in Lists /\ DOMAIN qs = Lists /\ len \in [Lists -> Int]
  BY ListNames DEF ListsShape
<1>2. /\ DOMAIN qt = Lists
      /\ \A k \in Lists : qt[k] = IF k = l THEN queue_push(qs[k], x) ELSE qs[k]
  BY <1>1, QueueFacts
<1>3. /\ lem \in [Lists -> Int]
      /\ \A k \in Lists : lem[k] = IF k = l THEN len[k] + 1 ELSE len[k]
  BY <1>1, CountFacts
<1>4. ASSUME NEW k \in History
      PROVE  /\ qt[k] \in Seq(Oblocks) /\ IsInjective(qt[k]) /\ lem[k] = Len(qt[k])
             /\ ToSet(qt[k]) = IF k = l THEN ToSet(qs[k]) \cup {x} ELSE ToSet(qs[k])
  <2>1. /\ qs[k] \in Seq(Oblocks) /\ IsInjective(qs[k]) /\ len[k] = Len(qs[k])
        /\ k \in Lists /\ x \notin ToSet(qs[k])
    BY ListNames, HistoryFacts
  <2>2. CASE k = l
    <3>1. qt[k] = queue_push(qs[k], x) /\ lem[k] = len[k] + 1
      BY <1>2, <1>3, <2>1, <2>2
    <3>2. /\ queue_push(qs[k], x) \in Seq(Oblocks) /\ IsInjective(queue_push(qs[k], x))
          /\ ToSet(queue_push(qs[k], x)) = ToSet(qs[k]) \cup {x}
          /\ Len(queue_push(qs[k], x)) = Len(qs[k]) + 1
      BY <2>1, QueuePush
    <3> QED
      BY <2>1, <2>2, <3>1, <3>2
  <2>3. CASE k # l
    BY <1>2, <1>3, <2>1, <2>3
  <2> QED
    BY <2>2, <2>3
<1>5. "B1" \in History /\ "B2" \in History /\ (l = "B1" \/ l = "B2")
  BY DEF History
<1>6. /\ ToSet(qs["B1"]) \cap ToSet(qs["B2"]) = {}
      /\ x \notin ToSet(qs["B1"]) /\ x \notin ToSet(qs["B2"])
  BY DEF HistorySound, HistoryBlocks
<1>7. /\ ToSet(qt["B1"]) \cap ToSet(qt["B2"]) = {}
      /\ HistoryBlocks(qt) = HistoryBlocks(qs) \cup {x}
  BY <1>4, <1>5, <1>6 DEF HistoryBlocks
<1>8. ResidentKept(qs, len, qt, lem)
  BY <1>2, <1>3, ListNames DEF ResidentKept
<1> QED
  BY <1>2, <1>3, <1>4, <1>7, <1>8 DEF ListsShape, HistorySound

-----------------------------------------------------------------------------
(***************************************************************************)
(* What a state that satisfies the invariant says of the lengths, and of   *)
(* the list of a block.                                                    *)
(***************************************************************************)

\* What a caller sees of the pool, and of the history.
LEMMA ArcBlocks ==
  /\ Cached = Blocks(pool) /\ Inflight = MovingBlocks(pool)
  /\ Cached' = Blocks(pool') /\ Inflight' = MovingBlocks(pool')
  /\ Remembered = HistoryBlocks(arc_q) /\ Remembered' = HistoryBlocks(arc_q')
  BY DEF Cached, Inflight, Blocks, MovingBlocks, Remembered, HistoryBlocks

\* The entry sets of a sound pool.
LEMMA PoolEntries ==
  ASSUME PoolSound(pool)
  PROVE  /\ pool.allocated \in SUBSET Cblocks
         /\ pool.migrating \in SUBSET pool.allocated
         /\ pool.oblock \in [Cblocks -> Oblocks \cup {Null}]
         /\ \A e \in pool.allocated : pool.oblock[e] \in Blocks(pool)
  BY DEF PoolSound, Pools, Blocks

\* T1 and T2 together are the entries of the cache.
LEMMA LengthFacts ==
  ASSUME ArcInv
  PROVE  /\ \A l \in Lists : length[l] \in Nat
         /\ length["T1"] + length["T2"] = Cardinality(Blocks(pool))
         /\ length["T1"] + length["T2"] <= CacheSize
         /\ cache_is_full(pool) <=> length["T1"] + length["T2"] = CacheSize
<1> DEFINE E(l) == EntriesOf(loc, pool.allocated, l)
<1>1. /\ PoolSound(pool) /\ ResidentSound(pool.allocated, pool.migrating, loc, arc_q, length)
      /\ HistorySound(arc_q, length) /\ pool.allocated \in SUBSET Cblocks
  BY PoolEntries DEF ArcInv
<1>2. length["T1"] = Cardinality(E("T1")) /\ length["T2"] = Cardinality(E("T2"))
  BY <1>1 DEF ResidentSound, Resident
<1>3. /\ E("T1") \in SUBSET Cblocks /\ E("T2") \in SUBSET Cblocks
      /\ E("T1") \cup E("T2") = pool.allocated /\ E("T1") \cap E("T2") = {}
  <2>1. \A c \in pool.allocated : loc[c] = "T1" \/ loc[c] = "T2"
    BY <1>1, EntryList DEF Resident
  <2> QED
    BY <1>1, <2>1 DEF EntriesOf
<1> HIDE DEF E
<1>4. /\ IsFiniteSet(E("T1")) /\ IsFiniteSet(E("T2"))
      /\ Cardinality(E("T1")) \in Nat /\ Cardinality(E("T2")) \in Nat
  BY <1>3, CblocksFinite
<1>5. Cardinality(pool.allocated) = Cardinality(E("T1")) + Cardinality(E("T2"))
  <2>1. /\ Cardinality(E("T1") \cup E("T2")) =
             Cardinality(E("T1")) + Cardinality(E("T2")) - Cardinality(E("T1") \cap E("T2"))
        /\ Cardinality({}) = 0
    BY <1>4, FS_Union, FS_EmptySet
  <2>2. /\ Cardinality(E("T1") \cap E("T2")) = 0
        /\ Cardinality(E("T1") \cup E("T2")) = Cardinality(pool.allocated)
    BY <1>3, <2>1
  <2> QED
    BY <1>4, <2>1, <2>2
<1>6. /\ Cardinality(Blocks(pool)) = Cardinality(pool.allocated)
      /\ cache_is_full(pool) => Cardinality(Blocks(pool)) = CacheSize
      /\ ~cache_is_full(pool) => Cardinality(Blocks(pool)) < CacheSize
      /\ CacheSize \in Nat
  BY <1>1, BlocksCardinality, NucleusAssumption
<1>7. \A l \in History : length[l] \in Nat
  BY <1>1, HistoryFacts
<1>8. \A l \in Lists : length[l] \in Nat
  BY <1>2, <1>4, <1>7 DEF Lists, Resident
<1> QED
  BY <1>2, <1>4, <1>5, <1>6, <1>8

\* A resident list with entries, none of which is in flight, is not empty.
LEMMA QueueOfList ==
  ASSUME ArcInv, NEW l \in Resident
  PROVE  /\ arc_q[l] \in Seq(Cblocks) /\ IsInjective(arc_q[l])
         /\ arc_q[l] # <<>> => /\ Head(arc_q[l]) \in pool.allocated \ pool.migrating
                               /\ loc[Head(arc_q[l])] = l
                               /\ length[l] > 0
         /\ arc_q[l] = <<>> /\ length[l] > 0 => pool.migrating # {}
<1>1. /\ arc_q[l] \in Seq(Cblocks) /\ IsInjective(arc_q[l])
      /\ ToSet(arc_q[l]) = EntriesOf(loc, pool.allocated \ pool.migrating, l)
      /\ length[l] = Cardinality(EntriesOf(loc, pool.allocated, l))
      /\ EntriesOf(loc, pool.allocated, l) \in SUBSET Cblocks
  BY PoolEntries DEF ArcInv, ResidentSound, EntriesOf
<1>2. ASSUME arc_q[l] # <<>>
      PROVE  /\ Head(arc_q[l]) \in pool.allocated \ pool.migrating
             /\ loc[Head(arc_q[l])] = l
             /\ length[l] > 0
  <2>1. Head(arc_q[l]) \in ToSet(arc_q[l])
    BY <1>1, <1>2, QueuePop
  <2>2. /\ Head(arc_q[l]) \in pool.allocated \ pool.migrating
        /\ loc[Head(arc_q[l])] = l
        /\ EntriesOf(loc, pool.allocated, l) # {}
    BY <1>1, <2>1 DEF EntriesOf
  <2>3. IsFiniteSet(EntriesOf(loc, pool.allocated, l))
    BY <1>1, CblocksFinite
  <2>4. Cardinality(EntriesOf(loc, pool.allocated, l)) \in Nat \ {0}
    BY <2>2, <2>3, FS_EmptySet, FS_CardinalityType
  <2> QED
    BY <1>1, <2>2, <2>4
<1>3. ASSUME arc_q[l] = <<>>, pool.migrating = {} PROVE length[l] = 0
  <2>1. ToSet(arc_q[l]) = {}
    BY <1>3 DEF ToSet
  <2>2. EntriesOf(loc, pool.allocated, l) = {}
    BY <1>1, <1>3, <2>1 DEF EntriesOf
  <2> QED
    BY <1>1, <2>2, FS_EmptySet
<1> QED
  BY <1>1, <1>2, <1>3

\* The list of a block: that of its entry if it is cached, the history list that it is
\* in if it is remembered, and none otherwise.
LEMMA LocationFacts ==
  ASSUME ArcInv, NEW o \in Oblocks
  PROVE  /\ Location(o) \in Lists \cup {None}
         /\ Location(o) \in Resident <=> o \in Blocks(pool)
         /\ Location(o) \in Resident => Location(o) = loc[Lookup(o)]
         /\ Location(o) \in History => o \in ToSet(arc_q[Location(o)])
         /\ o \in HistoryBlocks(arc_q) => Location(o) \in History
<1>1. PoolSound(pool) /\ Blocks(pool) \cap HistoryBlocks(arc_q) = {}
  BY DEF ArcInv
<1>2. CASE o \in Blocks(pool)
  <2>1. Lookup(o) # Null /\ Lookup(o) \in pool.allocated
    BY <1>1, <1>2, CachedEntry DEF Lookup
  <2>2. Location(o) = loc[Lookup(o)]
    BY <2>1 DEF Location
  <2>3. loc[Lookup(o)] \in Resident
    BY <1>1, <2>1, PoolEntries, EntryList DEF ArcInv
  <2> QED
    BY <1>1, <1>2, <2>2, <2>3, ListNames
<1>3. CASE o \notin Blocks(pool)
  <2>1. Lookup(o) = Null
    BY <1>1, <1>3, LookupIsCached DEF Lookup
  <2>2. CASE o \in ToSet(arc_q["B1"])
    BY <1>3, <2>1, <2>2, ListNames DEF Location, History
  <2>3. CASE o \in ToSet(arc_q["B2"]) /\ o \notin ToSet(arc_q["B1"])
    BY <1>3, <2>1, <2>3, ListNames DEF Location, History
  <2>4. CASE o \notin HistoryBlocks(arc_q)
    <3>1. Location(o) = None
      BY <2>1, <2>4 DEF Location, HistoryBlocks
    <3> QED
      BY <1>3, <2>4, <3>1, ListNames
  <2> QED
    BY <2>2, <2>3, <2>4 DEF HistoryBlocks
<1> QED
  BY <1>2, <1>3

-----------------------------------------------------------------------------
(***************************************************************************)
(* The transaction.                                                        *)
(***************************************************************************)

\* A transaction, field by field.
IsTransaction(at, np, l, dest, evict, remember, room) ==
  /\ at.p = np /\ at.current_loc = l /\ at.dest = dest
  /\ at.cache_evict = evict /\ at.remember = remember /\ at.meta_evict = room

\* The history list that the victim of a transaction is remembered in.
MemoryOf(at) ==
  CASE at.cache_evict # None /\ at.remember /\ at.cache_evict = "T1" -> "B1"
    [] at.cache_evict # None /\ at.remember /\ at.cache_evict = "T2" -> "B2"
    [] OTHER -> None

LEMMA MemoryFacts ==
  ASSUME NEW at
  PROVE  /\ MemoryOf(at) \in History \cup {None}
         /\ at.remember /\ at.cache_evict = "T1" => MemoryOf(at) = "B1"
         /\ at.remember /\ at.cache_evict = "T2" => MemoryOf(at) = "B2"
         /\ ~at.remember \/ at.cache_evict = None => MemoryOf(at) = None
         /\ MemoryOf(at) # None => at.cache_evict # None
<1>1. None # "T1" /\ None # "T2" /\ None # "B1" /\ None # "B2"
  BY DEF None
<1>2. CASE at.cache_evict # None /\ at.remember /\ at.cache_evict = "T1"
  BY <1>1, <1>2 DEF MemoryOf, History
<1>3. CASE at.cache_evict # None /\ at.remember /\ at.cache_evict = "T2"
  BY <1>1, <1>3 DEF MemoryOf, History
<1>4. CASE ~(\/ at.cache_evict # None /\ at.remember /\ at.cache_evict = "T1"
             \/ at.cache_evict # None /\ at.remember /\ at.cache_evict = "T2")
  <2>1. MemoryOf(at) = None
    BY <1>4 DEF MemoryOf
  <2> QED
    BY <1>1, <1>4, <2>1
<1> QED
  BY <1>2, <1>3, <1>4

\* The target stays between 0 and the size of the cache.
LEMMA AdaptFacts ==
  ASSUME ArcInv, NEW l \in History, length[l] > 0
  PROVE  arc_adapt(l) \in 0 .. CacheSize
<1>1. /\ length["B1"] \in Nat /\ length["B2"] \in Nat
      /\ p \in Nat /\ p <= CacheSize /\ CacheSize \in Nat
  BY LengthFacts, NucleusAssumption DEF ArcInv, Lists, History
<1>2. CASE l = "B1"
  <2> DEFINE d == length["B2"] \div length["B1"]
             m == Max({d, 1})
  <2>1. d \in Nat
    BY <1>1, <1>2, DivFacts
  <2>2. arc_adapt(l) = Min({CacheSize, p + m})
    BY <1>2 DEF arc_adapt
  <2> HIDE DEF d
  <2>3. m \in Nat
    BY <2>1, MaxOfTwo
  <2> HIDE DEF m
  <2>4. Min({CacheSize, p + m}) = IF CacheSize <= p + m THEN CacheSize ELSE p + m
    BY <1>1, <2>3, MinOfTwo
  <2> QED
    BY <1>1, <2>2, <2>3, <2>4
<1>3. CASE l = "B2"
  <2> DEFINE d == length["B1"] \div length["B2"]
             m == Max({d, 1})
  <2>1. d \in Nat
    BY <1>1, <1>3, DivFacts
  <2>2. arc_adapt(l) = Max({p - m, 0})
    BY <1>3 DEF arc_adapt
  <2> HIDE DEF d
  <2>3. m \in Nat
    BY <2>1, MaxOfTwo
  <2> HIDE DEF m
  <2>4. Max({p - m, 0}) = IF p - m >= 0 THEN p - m ELSE 0
    BY <1>1, <2>3, MaxOfTwo
  <2> QED
    BY <1>1, <2>2, <2>3, <2>4
<1> QED
  BY <1>2, <1>3 DEF History

\* A miss: the four cases of arc_transaction_set.
LEMMA MissCases ==
  ASSUME ArcInv
  PROVE  LET t1 == length["T1"]
             L1 == length["T1"] + length["B1"]
             L2 == length["T2"] + length["B2"]
             r  == arc_replace(None, p)
         IN  /\ L1 = CacheSize /\ t1 < CacheSize =>
                  IsTransaction(arc_miss, p, None, "T1", r, TRUE, "B1")
             /\ L1 = CacheSize /\ t1 >= CacheSize =>
                  IsTransaction(arc_miss, p, None, "T1", "T1", FALSE, None)
             /\ L1 < CacheSize /\ L1 + L2 >= CacheSize =>
                  IsTransaction(arc_miss, p, None, "T1", r, TRUE,
                                         IF L1 + L2 = 2 * CacheSize THEN "B2" ELSE None)
             /\ ~(L1 = CacheSize) /\ ~(L1 < CacheSize /\ L1 + L2 >= CacheSize) =>
                  IsTransaction(arc_miss, p, None, "T1", None, FALSE, None)
<1> DEFINE t1 == length["T1"]
           L1 == length["T1"] + length["B1"]
           L2 == length["T2"] + length["B2"]
           r  == arc_replace(None, p)
           at == [p |-> p, current_loc |-> None, dest |-> "T1", cache_evict |-> None,
                  remember |-> FALSE, meta_evict |-> None]
           room == IF L1 + L2 = 2 * CacheSize THEN "B2" ELSE None
           replaced == [at EXCEPT !.cache_evict = r, !.remember = TRUE]
<1>1. t1 \in Int /\ L1 \in Int /\ L2 \in Int /\ CacheSize \in Nat
  BY LengthFacts, NucleusAssumption DEF Lists, Resident, History
<1>2. arc_miss = CASE L1 = CacheSize /\ t1 < CacheSize -> [replaced EXCEPT !.meta_evict = "B1"]
                   [] L1 = CacheSize /\ t1 >= CacheSize -> [at EXCEPT !.cache_evict = "T1"]
                   [] L1 < CacheSize /\ L1 + L2 >= CacheSize ->
                        [replaced EXCEPT !.meta_evict = room]
                   [] OTHER -> at
  BY DEF arc_miss
<1>3. /\ IsTransaction([replaced EXCEPT !.meta_evict = "B1"], p, None, "T1", r, TRUE, "B1")
      /\ IsTransaction([at EXCEPT !.cache_evict = "T1"], p, None, "T1", "T1", FALSE, None)
      /\ IsTransaction([replaced EXCEPT !.meta_evict = room], p, None, "T1", r, TRUE, room)
      /\ IsTransaction(at, p, None, "T1", None, FALSE, None)
  <2> HIDE DEF t1, L1, L2, r, room
  <2>1. IsTransaction([replaced EXCEPT !.meta_evict = "B1"], p, None, "T1", r, TRUE, "B1")
    BY DEF IsTransaction
  <2>2. IsTransaction([replaced EXCEPT !.meta_evict = room], p, None, "T1", r, TRUE, room)
    BY DEF IsTransaction
  <2>3. /\ IsTransaction([at EXCEPT !.cache_evict = "T1"], p, None, "T1", "T1", FALSE, None)
        /\ IsTransaction(at, p, None, "T1", None, FALSE, None)
    BY DEF IsTransaction
  <2> QED
    BY <2>1, <2>2, <2>3
<1> HIDE DEF t1, L1, L2, r, at, room, replaced
<1>4. /\ L1 = CacheSize /\ t1 < CacheSize => arc_miss = [replaced EXCEPT !.meta_evict = "B1"]
      /\ L1 = CacheSize /\ t1 >= CacheSize => arc_miss = [at EXCEPT !.cache_evict = "T1"]
      /\ L1 < CacheSize /\ L1 + L2 >= CacheSize =>
           arc_miss = [replaced EXCEPT !.meta_evict = room]
      /\ ~(L1 = CacheSize) /\ ~(L1 < CacheSize /\ L1 + L2 >= CacheSize) => arc_miss = at
  <2>1. CASE L1 = CacheSize /\ t1 < CacheSize
    BY <1>1, <1>2, <2>1
  <2>2. CASE L1 = CacheSize /\ t1 >= CacheSize
    BY <1>1, <1>2, <2>2
  <2>3. CASE L1 < CacheSize /\ L1 + L2 >= CacheSize
    BY <1>1, <1>2, <2>3
  <2>4. CASE ~(L1 = CacheSize) /\ ~(L1 < CacheSize /\ L1 + L2 >= CacheSize)
    BY <1>1, <1>2, <2>4
  <2> QED
    BY <1>1, <2>1, <2>2, <2>3, <2>4
<1> QED
  BY <1>3, <1>4, Zenon DEF t1, L1, L2, r, room

\* What a transaction is, whatever has been removed before.
LEMMA TransactionFacts ==
  ASSUME ArcInv, NEW o \in Oblocks, NEW at, at = arc_transaction_set(o)
  PROVE  /\ at.p \in 0 .. CacheSize
         /\ at.current_loc = Location(o)
         /\ at.dest \in Resident
         /\ at.cache_evict \in Resident \cup {None}
         /\ at.remember \in BOOLEAN
         /\ at.meta_evict \in History \cup {None}
         /\ at.current_loc \in Resident => at.dest = "T2" /\ at.cache_evict = None
         /\ at.current_loc \in History =>
              IsTransaction(at, arc_adapt(Location(o)), Location(o), "T2",
                               arc_replace(Location(o), arc_adapt(Location(o))), TRUE, None)
         /\ at.current_loc = None => at = arc_miss
<1> DEFINE l == Location(o)
<1>1. /\ l \in Lists \cup {None} /\ None \notin Lists /\ Resident \cap History = {}
      /\ Lists = Resident \cup History /\ "T1" \in Resident /\ "T2" \in Resident
      /\ "B1" \in History /\ "B2" \in History
  BY LocationFacts, ListNames DEF Lists, Resident, History
<1>2. \A x, y : arc_replace(x, y) \in Resident
  BY <1>1 DEF arc_replace
<1>3. p \in 0 .. CacheSize
  BY DEF ArcInv
<1>4. CASE l \in Resident
  <2>1. IsTransaction(at, p, l, "T2", None, FALSE, None)
    BY <1>1, <1>4 DEF arc_transaction_set, IsTransaction
  <2> HIDE DEF l
  <2> QED
    BY <1>1, <1>3, <1>4, <2>1 DEF IsTransaction, l
<1>5. CASE l \in History
  <2>1. IsTransaction(at, arc_adapt(l), l, "T2", arc_replace(l, arc_adapt(l)), TRUE, None)
    BY <1>1, <1>5 DEF arc_transaction_set, IsTransaction
  <2>2. length[l] > 0
    <3>1. l \in History /\ o \in ToSet(arc_q[l])
      BY <1>5, LocationFacts
    <3>2. arc_q[l] # <<>>
      BY <3>1 DEF ToSet
    <3>3. HistorySound(arc_q, length)
      BY DEF ArcInv
    <3> HIDE DEF l
    <3> QED
      BY <3>1, <3>2, <3>3, HistoryFacts
  <2>3. arc_adapt(l) \in 0 .. CacheSize
    BY <1>5, <2>2, AdaptFacts
  <2>4. arc_replace(l, arc_adapt(l)) \in Resident
    BY <1>2
  <2> HIDE DEF l
  <2>5. /\ at.p \in 0 .. CacheSize /\ at.current_loc = l /\ at.dest = "T2"
        /\ at.cache_evict \in Resident /\ at.remember = TRUE /\ at.meta_evict = None
    BY <2>1, <2>3, <2>4 DEF IsTransaction
  <2>6. l \notin Resident /\ l # None
    BY <1>1, <1>5
  <2> QED
    BY <1>1, <2>1, <2>5, <2>6 DEF l
<1>6. CASE l = None
  <2>1. at = arc_miss
    BY <1>1, <1>6 DEF arc_transaction_set
  <2>2. /\ length["T1"] \in Nat /\ length["T2"] \in Nat
        /\ length["B1"] \in Nat /\ length["B2"] \in Nat /\ CacheSize \in Nat
    BY <1>1, LengthFacts, NucleusAssumption
  <2>3. \E r \in Resident \cup {None}, rem \in BOOLEAN, room \in History \cup {None} :
          IsTransaction(arc_miss, p, None, "T1", r, rem, room)
    <3> DEFINE t1 == length["T1"]
               L1 == length["T1"] + length["B1"]
               L2 == length["T2"] + length["B2"]
               R  == arc_replace(None, p)
               M  == IF L1 + L2 = 2 * CacheSize THEN "B2" ELSE None
    <3>1. M \in History \cup {None} /\ R \in Resident
      BY <1>1, <1>2
    <3>2. \/ IsTransaction(arc_miss, p, None, "T1", R, TRUE, "B1")
          \/ IsTransaction(arc_miss, p, None, "T1", "T1", FALSE, None)
          \/ IsTransaction(arc_miss, p, None, "T1", R, TRUE, M)
          \/ IsTransaction(arc_miss, p, None, "T1", None, FALSE, None)
      <4>1. t1 \in Int /\ L1 \in Int /\ L2 \in Int
        BY <2>2
      <4>2. /\ L1 = CacheSize /\ t1 < CacheSize =>
                 IsTransaction(arc_miss, p, None, "T1", R, TRUE, "B1")
            /\ L1 = CacheSize /\ t1 >= CacheSize =>
                 IsTransaction(arc_miss, p, None, "T1", "T1", FALSE, None)
            /\ L1 < CacheSize /\ L1 + L2 >= CacheSize =>
                 IsTransaction(arc_miss, p, None, "T1", R, TRUE, M)
            /\ ~(L1 = CacheSize) /\ ~(L1 < CacheSize /\ L1 + L2 >= CacheSize) =>
                 IsTransaction(arc_miss, p, None, "T1", None, FALSE, None)
        BY MissCases
      <4> HIDE DEF t1, L1, L2, R, M
      <4>3. \/ L1 = CacheSize /\ t1 < CacheSize
            \/ L1 = CacheSize /\ t1 >= CacheSize
            \/ L1 < CacheSize /\ L1 + L2 >= CacheSize
            \/ ~(L1 = CacheSize) /\ ~(L1 < CacheSize /\ L1 + L2 >= CacheSize)
        BY <2>2, <4>1
      <4> QED
        BY <4>2, <4>3, Zenon
    <3> HIDE DEF R, M
    <3> QED
      BY <1>1, <3>1, <3>2
  <2> QED
    BY <1>1, <1>3, <1>6, <2>1, <2>3 DEF IsTransaction
<1> QED
  BY <1>1, <1>4, <1>5, <1>6

\* The lengths after a miss.
After(at) ==
  AddTo(AddTo(TakeFrom(TakeFrom(length, arc_forget(at)), at.cache_evict),
              MemoryOf(at)), at.dest)

LEMMA AfterFacts ==
  ASSUME ArcInv, NEW o \in Oblocks, NEW at, at = arc_transaction_set(o)
  PROVE  /\ arc_forget(at) \in History \cup {None}
         /\ After(at) \in [Lists -> Int]
         /\ \A k \in Lists :
              After(at)[k] = ((length[k] - (IF k = arc_forget(at) THEN 1 ELSE 0))
                                - (IF k = at.cache_evict THEN 1 ELSE 0))
                               + (IF k = MemoryOf(at) THEN 1 ELSE 0)
                               + (IF k = at.dest THEN 1 ELSE 0)
<1> DEFINE n1 == TakeFrom(length, arc_forget(at))
           n2 == TakeFrom(n1, at.cache_evict)
           n3 == AddTo(n2, MemoryOf(at))
           n4 == AddTo(n3, at.dest)
<1>1. arc_forget(at) \in History \cup {None}
  BY TransactionFacts DEF arc_forget
<1>2. /\ arc_forget(at) \in Lists \cup {None} /\ at.cache_evict \in Lists \cup {None}
      /\ MemoryOf(at) \in Lists \cup {None} /\ at.dest \in Lists \cup {None}
  BY <1>1, TransactionFacts, MemoryFacts, ListNames
<1>3. length \in [Lists -> Int]
  BY DEF ArcInv, ListsShape
<1>4. /\ n1 \in [Lists -> Int]
      /\ \A k \in Lists : n1[k] = IF k = arc_forget(at) THEN length[k] - 1 ELSE length[k]
  BY <1>2, <1>3, CountFacts
<1> HIDE DEF n1
<1>5. /\ n2 \in [Lists -> Int]
      /\ \A k \in Lists : n2[k] = IF k = at.cache_evict THEN n1[k] - 1 ELSE n1[k]
  BY <1>2, <1>4, CountFacts
<1> HIDE DEF n2
<1>6. /\ n3 \in [Lists -> Int]
      /\ \A k \in Lists : n3[k] = IF k = MemoryOf(at) THEN n2[k] + 1 ELSE n2[k]
  BY <1>2, <1>5, CountFacts
<1> HIDE DEF n3
<1>7. /\ n4 \in [Lists -> Int]
      /\ \A k \in Lists : n4[k] = IF k = at.dest THEN n3[k] + 1 ELSE n3[k]
  BY <1>2, <1>6, CountFacts
<1>8. After(at) = n4
  BY DEF After, n1, n2, n3
<1> HIDE DEF n4
<1> QED
  BY <1>1, <1>3, <1>4, <1>5, <1>6, <1>7, <1>8

\* What the four bounded lengths become, list by list.
LEMMA AfterLists ==
  ASSUME ArcInv, NEW o \in Oblocks, NEW at, at = arc_transaction_set(o)
  PROVE  LET n == After(at)
         IN  /\ n["T1"] = (length["T1"] - (IF at.cache_evict = "T1" THEN 1 ELSE 0))
                            + (IF at.dest = "T1" THEN 1 ELSE 0)
             /\ n["T2"] = (length["T2"] - (IF at.cache_evict = "T2" THEN 1 ELSE 0))
                            + (IF at.dest = "T2" THEN 1 ELSE 0)
             /\ n["B1"] = (length["B1"] - (IF arc_forget(at) = "B1" THEN 1 ELSE 0))
                            + (IF MemoryOf(at) = "B1" THEN 1 ELSE 0)
             /\ n["B2"] = (length["B2"] - (IF arc_forget(at) = "B2" THEN 1 ELSE 0))
                            + (IF MemoryOf(at) = "B2" THEN 1 ELSE 0)
<1>1. /\ "T1" \in Lists /\ "T2" \in Lists /\ "B1" \in Lists /\ "B2" \in Lists
      /\ length["T1"] \in Nat /\ length["T2"] \in Nat
      /\ length["B1"] \in Nat /\ length["B2"] \in Nat
  BY LengthFacts DEF Lists, Resident, History
<1>2. /\ arc_forget(at) \in {"B1", "B2", None} /\ MemoryOf(at) \in {"B1", "B2", None}
      /\ at.cache_evict \in {"T1", "T2", None} /\ at.dest \in {"T1", "T2"}
      /\ None \notin {"T1", "T2", "B1", "B2"}
  BY AfterFacts, TransactionFacts, MemoryFacts, ListNames DEF History, Resident, Lists
<1>3. \A k \in Lists :
        After(at)[k] = ((length[k] - (IF k = arc_forget(at) THEN 1 ELSE 0))
                          - (IF k = at.cache_evict THEN 1 ELSE 0))
                         + (IF k = MemoryOf(at) THEN 1 ELSE 0)
                         + (IF k = at.dest THEN 1 ELSE 0)
  BY AfterFacts
<1> QED
  BY <1>1, <1>2, <1>3

\* As long as nothing has been removed, a miss evicts exactly from a full cache, and
\* from a list with entries; a history list that makes room is not empty; there is room
\* for the victim in the history; and the bounds hold afterwards.
MissIsBounded(at) ==
  /\ arc_forget(at) # None => length[arc_forget(at)] > 0
  /\ at.cache_evict # None <=> length["T1"] + length["T2"] = CacheSize
  /\ at.cache_evict # None => length[at.cache_evict] > 0
  /\ MemoryOf(at) # None =>
       length["B1"] + length["B2"] - (IF arc_forget(at) = None THEN 0 ELSE 1) < CacheSize
  /\ Bounded(After(at))

\* The block is remembered: one block leaves the history, another one enters it.
LEMMA GhostMissBounded ==
  ASSUME ArcInv, removals = {}, NEW o \in Oblocks, o \notin Blocks(pool),
         Location(o) \in History,
         NEW at, at = arc_transaction_set(o)
  PROVE  MissIsBounded(at)
<1> DEFINE t1 == length["T1"]
           t2 == length["T2"]
           b1 == length["B1"]
           b2 == length["B2"]
           n1 == After(at)["T1"]
           n2 == After(at)["T2"]
           m1 == After(at)["B1"]
           m2 == After(at)["B2"]
           l  == Location(o)
           np == arc_adapt(l)
           r  == arc_replace(l, np)
<1>1. /\ t1 \in Nat /\ t2 \in Nat /\ b1 \in Nat /\ b2 \in Nat
      /\ CacheSize \in Nat /\ CacheSize >= 2
  BY LengthFacts, NucleusAssumption DEF Lists, Resident, History
<1>2. /\ t1 + b1 <= CacheSize
      /\ t1 + t2 + b1 + b2 <= 2 * CacheSize
      /\ b1 + b2 > 0 => t1 + t2 = CacheSize
  BY DEF ArcInv, Bounded
<1>3. /\ l = "B1" \/ l = "B2"
      /\ length[l] > 0
  <2>1. l \in History /\ o \in ToSet(arc_q[l]) /\ HistorySound(arc_q, length)
    BY LocationFacts DEF ArcInv
  <2>2. arc_q[l] # <<>>
    BY <2>1 DEF ToSet
  <2> HIDE DEF l
  <2> QED
    BY <2>1, <2>2, HistoryFacts DEF History
<1>4. /\ at.current_loc = l /\ at.current_loc \in History
      /\ at.dest = "T2" /\ at.cache_evict = r /\ at.remember = TRUE
  BY TransactionFacts DEF IsTransaction
<1>5. arc_forget(at) = l /\ l # None
  BY <1>3, <1>4 DEF arc_forget, None
<1>6. np \in 0 .. CacheSize
  BY <1>3, <1>4, AdaptFacts
<1>7. /\ r = IF t1 >= 1 /\ ((l = "B2" /\ t1 = np) \/ t1 > np) THEN "T1" ELSE "T2"
      /\ None # "T1" /\ None # "T2"
  BY DEF arc_replace, None
<1>8. MemoryOf(at) = IF r = "T1" THEN "B1" ELSE "B2"
  BY <1>4, <1>7, MemoryFacts
<1>9. /\ n1 = (t1 - (IF r = "T1" THEN 1 ELSE 0)) + 0
      /\ n2 = (t2 - (IF r = "T2" THEN 1 ELSE 0)) + 1
      /\ m1 = (b1 - (IF l = "B1" THEN 1 ELSE 0)) + (IF r = "T1" THEN 1 ELSE 0)
      /\ m2 = (b2 - (IF l = "B2" THEN 1 ELSE 0)) + (IF r = "T2" THEN 1 ELSE 0)
  <2> HIDE DEF r, l
  <2> QED
    BY <1>1, <1>4, <1>5, <1>7, <1>8, AfterLists
<1>10. b1 + b2 > 0 /\ t1 + t2 = CacheSize
  BY <1>1, <1>2, <1>3
<1>11. /\ r = "T1" => t1 > 0
       /\ r = "T2" => t2 > 0
       /\ r = "T1" \/ r = "T2"
  <2> HIDE DEF l, np, r, t1, t2, b1, b2
  <2>1. ASSUME r = "T2", t2 = 0 PROVE FALSE
    <3>1. t1 = CacheSize
      BY <1>1, <1>10, <2>1
    <3>2. np = CacheSize /\ l # "B2"
      BY <1>1, <1>6, <1>7, <2>1, <3>1
    <3>3. b1 > 0
      BY <1>3, <3>2 DEF b1
    <3> QED
      BY <1>1, <1>2, <3>1, <3>3
  <2> QED
    BY <1>1, <1>7, <2>1
<1>12. length[r] > 0
  BY <1>11
<1>13. Bounded(After(at))
  <2> HIDE DEF l, np, r, t1, t2, b1, b2, n1, n2, m1, m2
  <2>1. /\ n1 + m1 <= CacheSize
        /\ n1 + n2 + m1 + m2 <= 2 * CacheSize
        /\ n1 + n2 = CacheSize
    BY <1>1, <1>2, <1>3, <1>9, <1>10, <1>11
  <2> QED
    BY <2>1 DEF Bounded, n1, n2, m1, m2
<1>14. b1 + b2 - 1 < CacheSize
  BY <1>1, <1>2, <1>10
<1> HIDE DEF l, np, r
<1> QED
  BY <1>3, <1>4, <1>5, <1>7, <1>10, <1>11, <1>12, <1>13, <1>14 DEF MissIsBounded

\* The block is unknown: the four cases.
LEMMA NewMissBounded ==
  ASSUME ArcInv, removals = {}, NEW o \in Oblocks, Location(o) = None,
         NEW at, at = arc_transaction_set(o)
  PROVE  MissIsBounded(at)
<1> DEFINE t1 == length["T1"]
           t2 == length["T2"]
           b1 == length["B1"]
           b2 == length["B2"]
           n1 == After(at)["T1"]
           n2 == After(at)["T2"]
           m1 == After(at)["B1"]
           m2 == After(at)["B2"]
           r  == arc_replace(None, p)
           M  == IF (t1 + b1) + (t2 + b2) = 2 * CacheSize THEN "B2" ELSE None
<1>1. /\ t1 \in Nat /\ t2 \in Nat /\ b1 \in Nat /\ b2 \in Nat
      /\ CacheSize \in Nat /\ CacheSize >= 2 /\ t1 + t2 <= CacheSize
  BY LengthFacts, NucleusAssumption DEF Lists, Resident, History
<1>2. /\ t1 + b1 <= CacheSize
      /\ t1 + t2 + b1 + b2 <= 2 * CacheSize
      /\ b1 + b2 > 0 => t1 + t2 = CacheSize
  BY DEF ArcInv, Bounded
<1>3. at = arc_miss /\ at.current_loc = None
  BY TransactionFacts, ListNames
<1>4. /\ None \notin History
      /\ None # "T1" /\ None # "T2" /\ None # "B1" /\ None # "B2"
  BY DEF None, History
<1>5. arc_forget(at) = at.meta_evict
  BY <1>3, <1>4 DEF arc_forget
<1>6. /\ r = "T1" \/ r = "T2"
      /\ r = "T1" => t1 > 0
  BY <1>1 DEF arc_replace
<1>7. /\ n1 = (t1 - (IF at.cache_evict = "T1" THEN 1 ELSE 0))
                + (IF at.dest = "T1" THEN 1 ELSE 0)
      /\ n2 = (t2 - (IF at.cache_evict = "T2" THEN 1 ELSE 0))
                + (IF at.dest = "T2" THEN 1 ELSE 0)
      /\ m1 = (b1 - (IF arc_forget(at) = "B1" THEN 1 ELSE 0))
                + (IF MemoryOf(at) = "B1" THEN 1 ELSE 0)
      /\ m2 = (b2 - (IF arc_forget(at) = "B2" THEN 1 ELSE 0))
                + (IF MemoryOf(at) = "B2" THEN 1 ELSE 0)
  BY AfterLists
<1>8. /\ at.remember /\ at.cache_evict = "T1" => MemoryOf(at) = "B1"
      /\ at.remember /\ at.cache_evict = "T2" => MemoryOf(at) = "B2"
      /\ ~at.remember \/ at.cache_evict = None => MemoryOf(at) = None
  BY MemoryFacts
<1>9. /\ t1 + b1 = CacheSize /\ t1 < CacheSize =>
           IsTransaction(at, p, None, "T1", r, TRUE, "B1")
      /\ t1 + b1 = CacheSize /\ t1 >= CacheSize =>
           IsTransaction(at, p, None, "T1", "T1", FALSE, None)
      /\ t1 + b1 < CacheSize /\ (t1 + b1) + (t2 + b2) >= CacheSize =>
           IsTransaction(at, p, None, "T1", r, TRUE, M)
      /\ ~(t1 + b1 = CacheSize)
         /\ ~(t1 + b1 < CacheSize /\ (t1 + b1) + (t2 + b2) >= CacheSize) =>
           IsTransaction(at, p, None, "T1", None, FALSE, None)
  BY <1>3, MissCases
<1> HIDE DEF r, M
<1>10. CASE t1 + b1 = CacheSize /\ t1 < CacheSize
  <2>1. /\ at.cache_evict = r /\ at.dest = "T1" /\ at.remember = TRUE
        /\ arc_forget(at) = "B1"
    BY <1>5, <1>9, <1>10 DEF IsTransaction
  <2>2. t1 + t2 = CacheSize /\ b1 > 0 /\ t2 > 0 /\ b1 + b2 - 1 < CacheSize
    BY <1>1, <1>2, <1>10
  <2>3. n1 + m1 <= CacheSize /\ n1 + n2 + m1 + m2 <= 2 * CacheSize /\ n1 + n2 = CacheSize
    <3> HIDE DEF n1, n2, m1, m2
    <3> QED
      BY <1>1, <1>2, <1>4, <1>6, <1>7, <1>8, <2>1, <2>2
  <2>4. Bounded(After(at))
    BY <2>3 DEF Bounded
  <2>5. length[r] > 0
    BY <1>6, <2>2
  <2> QED
    BY <1>4, <1>6, <2>1, <2>2, <2>4, <2>5 DEF MissIsBounded
<1>11. CASE t1 + b1 = CacheSize /\ t1 >= CacheSize
  <2>1. /\ at.cache_evict = "T1" /\ at.dest = "T1" /\ at.remember = FALSE
        /\ arc_forget(at) = None /\ MemoryOf(at) = None
    BY <1>5, <1>8, <1>9, <1>11 DEF IsTransaction
  <2>2. t1 + t2 = CacheSize /\ t1 > 0
    BY <1>1, <1>2, <1>11
  <2>3. n1 = t1 /\ n2 = t2 /\ m1 = b1 /\ m2 = b2
    <3> HIDE DEF n1, n2, m1, m2
    <3> QED
      BY <1>1, <1>4, <1>7, <2>1
  <2>4. Bounded(After(at))
    BY <1>2, <2>3 DEF Bounded
  <2> QED
    BY <1>4, <2>1, <2>2, <2>4 DEF MissIsBounded
<1>12. CASE t1 + b1 < CacheSize /\ (t1 + b1) + (t2 + b2) >= CacheSize
  <2>1. /\ at.cache_evict = r /\ at.dest = "T1" /\ at.remember = TRUE
        /\ arc_forget(at) = M
    BY <1>5, <1>9, <1>12 DEF IsTransaction
  <2>2. t1 + t2 = CacheSize /\ t2 > 0
    BY <1>1, <1>2, <1>12
  <2>3. CASE (t1 + b1) + (t2 + b2) = 2 * CacheSize
    <3>1. M = "B2" /\ b2 > 0 /\ b1 + b2 - 1 < CacheSize
      BY <1>1, <1>12, <2>2, <2>3 DEF M
    <3>2. n1 + m1 <= CacheSize /\ n1 + n2 + m1 + m2 <= 2 * CacheSize /\ n1 + n2 = CacheSize
      <4> HIDE DEF n1, n2, m1, m2
      <4> QED
        BY <1>1, <1>2, <1>4, <1>6, <1>7, <1>8, <1>12, <2>1, <2>2, <3>1
    <3>3. Bounded(After(at))
      BY <3>2 DEF Bounded
    <3>4. length[r] > 0
      BY <1>6, <2>2
    <3> QED
      BY <1>4, <1>6, <2>1, <2>2, <3>1, <3>3, <3>4 DEF MissIsBounded
  <2>4. CASE (t1 + b1) + (t2 + b2) # 2 * CacheSize
    <3>1. M = None /\ b1 + b2 < CacheSize
      BY <1>1, <1>2, <1>12, <2>2, <2>4 DEF M
    <3>2. n1 + m1 <= CacheSize /\ n1 + n2 + m1 + m2 <= 2 * CacheSize /\ n1 + n2 = CacheSize
      <4> HIDE DEF n1, n2, m1, m2
      <4> QED
        BY <1>1, <1>2, <1>4, <1>6, <1>7, <1>8, <1>12, <2>1, <2>2, <3>1
    <3>3. Bounded(After(at))
      BY <3>2 DEF Bounded
    <3>4. length[r] > 0
      BY <1>6, <2>2
    <3>5. b1 + b2 - 0 < CacheSize
      BY <1>1, <3>1
    <3> QED
      BY <1>4, <1>6, <2>1, <2>2, <3>1, <3>3, <3>4, <3>5 DEF MissIsBounded
  <2> QED
    BY <2>3, <2>4
<1>13. CASE /\ ~(t1 + b1 = CacheSize)
            /\ ~(t1 + b1 < CacheSize /\ (t1 + b1) + (t2 + b2) >= CacheSize)
  <2>1. /\ at.cache_evict = None /\ at.dest = "T1" /\ at.remember = FALSE
        /\ arc_forget(at) = None /\ MemoryOf(at) = None
    BY <1>5, <1>8, <1>9, <1>13 DEF IsTransaction
  <2>2. t1 + t2 < CacheSize /\ b1 = 0 /\ b2 = 0
    BY <1>1, <1>2, <1>13
  <2>3. n1 = t1 + 1 /\ n2 = t2 /\ m1 = b1 /\ m2 = b2
    <3> HIDE DEF n1, n2, m1, m2
    <3> QED
      BY <1>1, <1>4, <1>7, <2>1
  <2>4. Bounded(After(at))
    <3>1. n1 + m1 <= CacheSize /\ n1 + n2 + m1 + m2 <= 2 * CacheSize /\ ~(m1 + m2 > 0)
      <4> HIDE DEF n1, n2, m1, m2
      <4> QED
        BY <1>1, <2>2, <2>3
    <3> QED
      BY <3>1 DEF Bounded
  <2> QED
    BY <1>1, <2>1, <2>2, <2>4 DEF MissIsBounded
<1> QED
  BY <1>1, <1>10, <1>11, <1>12, <1>13

-----------------------------------------------------------------------------
(***************************************************************************)
(* Every call preserves the invariant.  Each lemma says also what the call *)
(* does to the cached blocks, and what it returns.                         *)
(***************************************************************************)
LEMMA ArcInitInv == ArcInit => ArcInv
<1> SUFFICES ASSUME ArcInit PROVE ArcInv
  OBVIOUS
<1>1. PoolSound(pool) /\ pool.allocated = {} /\ pool.migrating = {} /\ pool.ht = {}
  BY PoolInitSound DEF ArcInit, epool_init
<1>2. DOMAIN arc_q = Lists /\ \A l \in Lists : arc_q[l] = <<>> /\ length[l] = 0
  BY DEF ArcInit
<1>3. ListsShape(arc_q, length)
  BY <1>2 DEF ArcInit, ListsShape
<1>4. ToSet(<<>>) = {} /\ IsInjective(<<>>) /\ Len(<<>>) = 0
  BY DEF ToSet, IsInjective
<1>5. /\ loc \in [Cblocks -> Resident \cup {None}]
      /\ \A c \in Cblocks : loc[c] = None
  BY DEF ArcInit
<1>6. \A l : EntriesOf(loc, {}, l) = {}
  BY DEF EntriesOf
<1>7. ASSUME NEW l \in Resident
      PROVE  /\ arc_q[l] \in Seq(Cblocks) /\ IsInjective(arc_q[l])
             /\ ToSet(arc_q[l]) = EntriesOf(loc, {} \ {}, l)
             /\ length[l] = Cardinality(EntriesOf(loc, {}, l))
  <2>1. arc_q[l] = <<>> /\ length[l] = 0
    BY <1>2, ListNames
  <2>2. {} \ {} = {}
    OBVIOUS
  <2> QED
    BY <1>4, <1>6, <2>1, <2>2, FS_EmptySet, EmptySeq
<1>8. ResidentSound(pool.allocated, pool.migrating, loc, arc_q, length)
  BY <1>1, <1>5, <1>7 DEF ResidentSound
<1>9. "B1" \in Lists /\ "B2" \in Lists
  BY DEF Lists, History
<1>10. HistoryBlocks(arc_q) = {}
  BY <1>2, <1>4, <1>9 DEF HistoryBlocks
<1>11. HistorySound(arc_q, length)
  BY <1>2, <1>4, <1>9, <1>10, ListNames, EmptySeq DEF HistorySound, HistoryBlocks
<1>12. Bounded(length)
  <2>1. "T1" \in Lists /\ "T2" \in Lists
    BY DEF Lists, Resident
  <2> QED
    BY <1>2, <1>9, <2>1, NucleusAssumption DEF Bounded
<1>13. stats \in Stats
  BY NucleusAssumption DEF ArcInit, stats_init, Stats
<1>14. p \in 0 .. CacheSize
  BY NucleusAssumption DEF ArcInit
<1> QED
  BY <1>1, <1>3, <1>8, <1>10, <1>11, <1>12, <1>13, <1>14 DEF ArcInv, ArcInit

\* Loading a mapping of an earlier session, into a cache that is not full.
LEMMA ArcLoadStep ==
  ASSUME ArcInv, NEW o \in Oblocks, NEW c \in Cblocks, ArcLoad(o, c)
  PROVE  /\ ArcInv'
         /\ ~cache_is_full(pool)
         /\ Blocks(pool') = Blocks(pool) \cup {o}
         /\ MovingBlocks(pool') = MovingBlocks(pool)
         /\ result' = NoResult
<1> DEFINE lf == [loc EXCEPT ![c] = "T1"]
           lem == AddTo(length, "T1")
           alloc == pool.allocated \cup {c}
<1>1. /\ PoolSound(pool) /\ ListsShape(arc_q, length) /\ HistorySound(arc_q, length)
      /\ ResidentSound(pool.allocated, pool.migrating, loc, arc_q, length)
      /\ loading /\ HistoryBlocks(arc_q) = {}
  BY DEF ArcInv, ArcLoad
<1>2. /\ c \notin pool.allocated /\ NotHashed(pool, o) /\ o \notin Blocks(pool)
  BY ArcBlocks, NotInBlocks DEF ArcLoad
<1>3. /\ pool' = alloc_pool_entry(pool, c, o)
      /\ loc' = lf /\ length' = lem /\ arc_q' = Push(arc_q, "T1", c)
      /\ result' = NoResult
      /\ UNCHANGED <<p, stats, crashed, loading, removals>>
  BY <1>2 DEF ArcLoad, arc_insert_api
<1>4. /\ PoolSound(pool')
      /\ pool'.allocated = alloc
      /\ pool'.migrating = pool.migrating
  BY <1>1, <1>2, <1>3, AllocSound
<1>5. /\ Blocks(pool') = Blocks(pool) \cup {o}
      /\ MovingBlocks(pool') = MovingBlocks(pool)
  BY <1>1, <1>2, <1>3, AllocBlocks
<1>6. /\ pool.allocated \in SUBSET Cblocks /\ pool.migrating \in SUBSET pool.allocated
      /\ "T1" \in Resident /\ c \notin pool.migrating
  BY <1>1, <1>2, PoolEntries DEF Resident
<1>7. /\ ListsShape(arc_q, lem)
      /\ ResidentSound(alloc, pool.migrating \cup {c}, lf, arc_q, lem)
      /\ HistoryKept(arc_q, length, arc_q, lem)
  <2> HIDE DEF lf, lem
  <2>1. lf = [loc EXCEPT ![c] = "T1"] /\ lem = AddTo(length, "T1")
    BY DEF lf, lem
  <2> QED
    BY <1>1, <1>2, <1>6, <2>1, EnterList
<1>8. lf[c] = "T1"
  BY <1>1 DEF ResidentSound
<1> HIDE DEF lf, lem
<1>9. /\ ListsShape(arc_q', lem)
      /\ ResidentSound(alloc, (pool.migrating \cup {c}) \ {c}, lf, arc_q', lem)
      /\ HistoryKept(arc_q, lem, arc_q', lem)
  <2> DEFINE mov == pool.migrating \cup {c}
  <2>1. /\ alloc \in SUBSET Cblocks /\ mov \in SUBSET alloc
        /\ c \in mov /\ "T1" = lf[c] /\ arc_q' = Push(arc_q, "T1", c)
    BY <1>3, <1>6, <1>8
  <2>2. ListsShape(arc_q, lem) /\ ResidentSound(alloc, mov, lf, arc_q, lem)
    BY <1>7
  <2> HIDE DEF alloc, mov
  <2>3. /\ ListsShape(arc_q', lem)
        /\ ResidentSound(alloc, mov \ {c}, lf, arc_q', lem)
        /\ HistoryKept(arc_q, lem, arc_q', lem)
    BY <2>1, <2>2, QueueEntry
  <2> QED
    BY <2>3 DEF mov
<1>10. (pool.migrating \cup {c}) \ {c} = pool.migrating
  BY <1>6
<1>11. /\ HistorySound(arc_q', lem)
       /\ HistoryBlocks(arc_q') = {}
  <2>1. HistorySound(arc_q, lem)
    BY <1>1, <1>7, HistorySame
  <2> QED
    BY <1>1, <1>9, <2>1, HistorySame
<1>12. ~cache_is_full(pool)
  BY <1>1, <1>2, AllocEntryFacts
<1>13. removals = {} => Bounded(length')
  <2> SUFFICES ASSUME removals = {} PROVE Bounded(lem)
    BY <1>3
  <2>1. /\ \A l \in Lists : length[l] \in Nat
        /\ length["T1"] + length["T2"] <= CacheSize
        /\ length["T1"] + length["T2"] # CacheSize
    BY <1>12, LengthFacts
  <2>2. /\ "T1" \in Lists /\ "T2" \in Lists /\ "B1" \in Lists /\ "B2" \in Lists
        /\ None # "T1" /\ "T1" \in Lists \cup {None}
    BY DEF Lists, Resident, History, None
  <2>3. length["B1"] = 0 /\ length["B2"] = 0
    <3>1. arc_q["B1"] = <<>> /\ arc_q["B2"] = <<>>
      <4>1. ASSUME NEW l \in History PROVE arc_q[l] = <<>>
        BY <1>1, HistoryFacts
      <4> QED
        BY <4>1 DEF History
    <3> QED
      BY <1>1, <3>1, HistoryFacts DEF History
  <2>4. \A k \in Lists : lem[k] = IF k = "T1" THEN length[k] + 1 ELSE length[k]
    <3>1. length \in [Lists -> Int]
      BY <1>1 DEF ListsShape
    <3> QED
      BY <2>2, <3>1, CountFacts DEF lem
  <2>5. /\ lem["T1"] = length["T1"] + 1 /\ lem["T2"] = length["T2"]
        /\ lem["B1"] = 0 /\ lem["B2"] = 0
    BY <2>2, <2>3, <2>4
  <2>6. length["T1"] \in Nat /\ length["T2"] \in Nat /\ CacheSize \in Nat
    BY <2>1, <2>2, NucleusAssumption
  <2> QED
    BY <2>1, <2>5, <2>6 DEF Bounded
<1>14. Blocks(pool') \cap HistoryBlocks(arc_q') = {}
  BY <1>11
<1>15. ResidentSound(pool'.allocated, pool'.migrating, loc', arc_q', length')
  BY <1>3, <1>4, <1>9, <1>10
<1>16. ListsShape(arc_q', length') /\ HistorySound(arc_q', length')
  BY <1>3, <1>9, <1>11
<1> HIDE DEF alloc
<1> QED
  BY <1>3, <1>4, <1>5, <1>11, <1>12, <1>13, <1>14, <1>15, <1>16 DEF ArcInv

\* A hit in the cache.
LEMMA ArcHitStep ==
  ASSUME ArcInv, NEW o \in Oblocks, NEW write \in BOOLEAN,
         NEW at, at = arc_transaction_set(o), at.current_loc \in Resident,
         arc_commit_hit(at, o, write), loading' = FALSE, UNCHANGED removals
  PROVE  /\ ArcInv'
         /\ o \in Blocks(pool)
         /\ Blocks(pool') = Blocks(pool)
         /\ MovingBlocks(pool') = MovingBlocks(pool)
         /\ result'.op = "HIT" /\ result'.oblock = o /\ result'.old_oblock = Null
<1> DEFINE e == Lookup(o)
<1>1. /\ PoolSound(pool) /\ ListsShape(arc_q, length) /\ HistorySound(arc_q, length)
      /\ ResidentSound(pool.allocated, pool.migrating, loc, arc_q, length)
      /\ Blocks(pool) \cap HistoryBlocks(arc_q) = {}
  BY DEF ArcInv
<1>2. at.current_loc = Location(o) /\ at.dest = "T2"
  BY TransactionFacts
<1>3. o \in Blocks(pool)
  BY <1>2, LocationFacts
<1>4. e \in Cblocks /\ e \in pool.allocated
  BY <1>1, <1>3, CachedEntry DEF Lookup
<1>5. /\ pool' = mark_dirty(pool, e, write)
      /\ loc' = [loc EXCEPT ![e] = "T2"]
      /\ length' = AddTo(TakeFrom(length, loc[e]), "T2")
      /\ arc_q' = IF e \in pool.migrating THEN arc_q
                  ELSE Push(Drop(arc_q, loc[e], e), "T2", e)
      /\ stats' = inc(stats, {"hits", "ios"})
      /\ UNCHANGED <<p, crashed>>
  BY <1>2 DEF arc_commit_hit, arc_hit
<1>6. result' = [OpOnly("HIT", o) EXCEPT !.cblock = e]
  BY DEF arc_commit_hit
<1> HIDE DEF e
<1>7. /\ result' \in Results
      /\ result'.op = "HIT" /\ result'.oblock = o /\ result'.old_oblock = Null
  BY <1>4, <1>6 DEF OpOnly, Results, Operations
<1>8. /\ PoolSound(pool')
      /\ pool'.allocated = pool.allocated /\ pool'.migrating = pool.migrating
      /\ Blocks(pool') = Blocks(pool) /\ MovingBlocks(pool') = MovingBlocks(pool)
  BY <1>1, <1>4, <1>5, DirtySound, DirtyBlocks
<1>9. /\ ListsShape(arc_q', length')
      /\ ResidentSound(pool.allocated, pool.migrating, loc', arc_q', length')
      /\ HistoryKept(arc_q, length, arc_q', length')
  <2>1. Moves(e, "T2", pool.allocated, pool.migrating, loc, arc_q, length,
                       loc', arc_q', length')
    BY <1>4, <1>5 DEF Moves, Resident
  <2> QED
    BY <1>1, <2>1, MoveEntry
<1>10. HistorySound(arc_q', length') /\ HistoryBlocks(arc_q') = HistoryBlocks(arc_q)
  BY <1>1, <1>9, HistorySame
<1>11. removals' = {} => Bounded(length')
  <2> SUFFICES ASSUME removals = {} PROVE Bounded(length')
    OBVIOUS
  <2> DEFINE l == loc[e]
             n == TakeFrom(length, l)
  <2>1. l \in Resident /\ length \in [Lists -> Int]
    BY <1>1, <1>4, EntryList DEF ListsShape
  <2>2. /\ "T1" \in Lists /\ "T2" \in Lists /\ "B1" \in Lists /\ "B2" \in Lists
        /\ l \in Lists /\ (l = "T1" \/ l = "T2")
    BY <2>1 DEF Lists, Resident, History
  <2>3. length' = AddTo(n, "T2")
    BY <1>5
  <2> HIDE DEF l
  <2>4. /\ n \in [Lists -> Int]
        /\ \A k \in Lists : n[k] = IF k = l THEN length[k] - 1 ELSE length[k]
    BY <2>1, <2>2, CountFacts
  <2> HIDE DEF n
  <2>5. \A k \in Lists : length'[k] = IF k = "T2" THEN n[k] + 1 ELSE n[k]
    BY <2>2, <2>3, <2>4, CountFacts
  <2>6. /\ length["T1"] \in Int /\ length["T2"] \in Int
        /\ length["B1"] \in Int /\ length["B2"] \in Int /\ CacheSize \in Int
    BY <2>1, <2>2, NucleusAssumption
  <2>7. /\ length'["B1"] = length["B1"] /\ length'["B2"] = length["B2"]
        /\ length'["T1"] <= length["T1"]
        /\ length'["T1"] + length'["T2"] = length["T1"] + length["T2"]
        /\ length'["T1"] \in Int /\ length'["T2"] \in Int
    BY <2>2, <2>4, <2>5, <2>6
  <2>8. Bounded(length)
    BY DEF ArcInv
  <2> QED
    BY <2>6, <2>7, <2>8 DEF Bounded
<1>12. stats' \in Stats
  BY <1>5, IncType DEF ArcInv
<1> QED
  BY <1>1, <1>3, <1>5, <1>7, <1>8, <1>9, <1>10, <1>11, <1>12 DEF ArcInv

-----------------------------------------------------------------------------
(***************************************************************************)
(* A miss, one list after the other: the history forgets a block, T1 or T2 *)
(* loses its victim, which the history remembers, and the block gets an    *)
(* entry.                                                                  *)
(***************************************************************************)
Gone(at, o)   == IF at.current_loc \in History THEN o ELSE Head(arc_q[arc_forget(at)])
Victim(at)    == Head(arc_q[at.cache_evict])
Forgot(at, o) == IF arc_forget(at) = None THEN arc_q
                 ELSE Drop(arc_q, arc_forget(at), Gone(at, o))
Popped(at, o) == IF at.cache_evict # None
                   THEN Drop(Forgot(at, o), at.cache_evict, Victim(at))
                   ELSE Forgot(at, o)
Evicted(at)   == IF at.cache_evict # None THEN cache_nucleus_remove(pool, Victim(at))
                                          ELSE pool
Memorised(at, o) == IF MemoryOf(at) = None THEN Popped(at, o)
                    ELSE Push(Popped(at, o), MemoryOf(at), pool.oblock[Victim(at)])
LocEvicted(at) == IF at.cache_evict # None THEN [loc EXCEPT ![Victim(at)] = None] ELSE loc

\* When a miss stops the program.
MissIsFatal(at, o) ==
  \/ arc_forget(at) # None /\ arc_q[arc_forget(at)] = <<>>
  \/ MemoryOf(at) # None /\ meta_is_full(Popped(at, o))
  \/ alloc_entry(Evicted(at)) = Null

\* The commit of a miss, in those terms.
LEMMA MissCommit ==
  ASSUME NEW at, NEW o, NEW write, arc_commit_miss(at, o, write)
  PROVE  LET e == alloc_entry(Evicted(at))
         IN  /\ MissIsFatal(at, o) => LogFatal
             /\ ~MissIsFatal(at, o) =>
                  /\ p' = at.p
                  /\ pool' = AdmitEntry(Evicted(at), e, o, write)
                  /\ loc' = [c \in Cblocks |->
                               CASE c = e -> at.dest
                                 [] c # e /\ at.cache_evict # None /\ c = Victim(at) -> None
                                 [] OTHER -> loc[c]]
                  /\ arc_q' = Memorised(at, o)
                  /\ length' = After(at)
                  /\ stats' = inc(stats, {"misses", "ios"}
                                     \cup IF at.cache_evict # None THEN {"demotions"} ELSE {})
                  /\ result' =
                       [ op             |-> IF at.cache_evict # None THEN "REPLACE" ELSE "NEW",
                         oblock         |-> o,
                         cblock         |-> e,
                         old_oblock     |-> IF at.cache_evict # None
                                              THEN pool.oblock[Victim(at)] ELSE Null,
                         dirty_eviction |-> at.cache_evict # None /\ Victim(at) \in pool.dirty ]
                  /\ UNCHANGED crashed
<1> DEFINE e == alloc_entry(Evicted(at))
           D == {"misses", "ios"} \cup IF at.cache_evict # None THEN {"demotions"} ELSE {}
           L == [c \in Cblocks |->
                  CASE c = e -> at.dest
                    [] c # e /\ at.cache_evict # None /\ c = Victim(at) -> None
                    [] OTHER -> loc[c]]
           R == [ op             |-> IF at.cache_evict # None THEN "REPLACE" ELSE "NEW",
                  oblock         |-> o,
                  cblock         |-> e,
                  old_oblock     |-> IF at.cache_evict # None
                                       THEN pool.oblock[Victim(at)] ELSE Null,
                  dirty_eviction |-> at.cache_evict # None /\ Victim(at) \in pool.dirty ]
<1>1. IF MissIsFatal(at, o)
        THEN LogFatal
        ELSE /\ p' = at.p
             /\ pool' = AdmitEntry(Evicted(at), e, o, write)
             /\ loc' = L
             /\ arc_q' = Memorised(at, o)
             /\ length' = After(at)
             /\ stats' = inc(stats, D)
             /\ result' = R
             /\ UNCHANGED crashed
  BY Zenon DEF arc_commit_miss, MissIsFatal, Memorised, Popped, Forgot, Evicted, Gone, Victim,
               MemoryOf, After, AdmitEntry
<1> HIDE DEF D, L, R
<1>2. /\ MissIsFatal(at, o) => LogFatal
      /\ ~MissIsFatal(at, o) =>
           /\ p' = at.p
           /\ pool' = AdmitEntry(Evicted(at), e, o, write)
           /\ loc' = L
           /\ arc_q' = Memorised(at, o)
           /\ length' = After(at)
           /\ stats' = inc(stats, D)
           /\ result' = R
           /\ UNCHANGED crashed
  BY <1>1
<1> QED
  BY <1>2, Zenon DEF D, L, R

\* The history forgets a block.
LEMMA MissForgets ==
  ASSUME ArcInv, NEW o \in Oblocks, o \notin Blocks(pool),
         NEW at, at = arc_transaction_set(o),
         arc_forget(at) # None => arc_q[arc_forget(at)] # <<>>,
         NEW q1, q1 = Forgot(at, o), NEW n1, n1 = TakeFrom(length, arc_forget(at))
  PROVE  /\ ListsShape(q1, n1) /\ HistorySound(q1, n1)
         /\ ResidentKept(arc_q, length, q1, n1)
         /\ HistoryBlocks(q1) \subseteq HistoryBlocks(arc_q)
         /\ o \notin HistoryBlocks(q1)
<1> DEFINE f == arc_forget(at)
           g == Gone(at, o)
<1>1. /\ ListsShape(arc_q, length) /\ HistorySound(arc_q, length)
      /\ ListsShape(arc_q, length)
  BY DEF ArcInv
<1>2. f \in History \cup {None} /\ at.current_loc = Location(o)
  BY AfterFacts, TransactionFacts
<1>3. /\ at.current_loc \in History => f = at.current_loc /\ g = o
      /\ at.current_loc \notin History => g = Head(arc_q[f])
  BY DEF arc_forget, Gone
<1>4. /\ f = None => q1 = arc_q /\ n1 = length
      /\ f # None => q1 = Drop(arc_q, f, g) /\ n1 = TakeFrom(length, f)
  BY DEF Forgot, TakeFrom
<1>5. o \in HistoryBlocks(arc_q) => at.current_loc \in History
  BY <1>2, LocationFacts
<1> HIDE DEF f, g
<1>6. CASE f = None
  <2>1. at.current_loc \notin History
    BY <1>3, <1>6, ListNames
  <2>2. ResidentKept(arc_q, length, arc_q, length)
    BY DEF ResidentKept
  <2> QED
    BY <1>1, <1>4, <1>5, <1>6, <2>1, <2>2
<1>7. CASE f # None
  <2>1. f \in History
    BY <1>2, <1>7
  <2>2. g \in ToSet(arc_q[f])
    <3>1. CASE at.current_loc \in History
      BY <1>2, <1>3, <3>1, LocationFacts
    <3>2. CASE at.current_loc \notin History
      <4>1. arc_q[f] # <<>>
        BY <1>7 DEF f
      <4> QED
        BY <1>1, <1>3, <2>1, <3>2, <4>1, HistoryFacts
    <3> QED
      BY <3>1, <3>2
  <2>3. q1 = Drop(arc_q, f, g) /\ n1 = TakeFrom(length, f)
    BY <1>4, <1>7
  <2>4. /\ ListsShape(q1, n1) /\ HistorySound(q1, n1)
        /\ HistoryBlocks(q1) = HistoryBlocks(arc_q) \ {g}
        /\ ResidentKept(arc_q, length, q1, n1)
    BY <1>1, <2>1, <2>2, <2>3, ForgetBlock
  <2>5. o \notin HistoryBlocks(q1)
    BY <1>3, <1>5, <2>4
  <2> QED
    BY <2>4, <2>5
<1> QED
  BY <1>6, <1>7

\* The victim: the oldest entry of the list to evict from, which has migrated.
LEMMA VictimFacts ==
  ASSUME ArcInv, NEW o \in Oblocks, NEW at, at = arc_transaction_set(o),
         arc_transaction_is_legal(at), at.cache_evict # None
  PROVE  /\ Victim(at) \in pool.allocated /\ Victim(at) \notin pool.migrating
         /\ Victim(at) \in Cblocks
         /\ loc[Victim(at)] = at.cache_evict
         /\ pool.oblock[Victim(at)] \in Blocks(pool) \ MovingBlocks(pool)
         /\ pool.oblock[Victim(at)] \in Oblocks
<1> DEFINE l == at.cache_evict
           v == Victim(at)
<1>1. l \in Resident
  BY TransactionFacts
<1>2. arc_q[l] # <<>> /\ v = Head(arc_q[l])
  <2>1. Len(arc_q[l]) > 0
    BY DEF arc_transaction_is_legal
  <2>2. Len(<<>>) = 0
    OBVIOUS
  <2> QED
    BY <2>1, <2>2 DEF Victim
<1> HIDE DEF l, v
<1>3. v \in pool.allocated /\ v \notin pool.migrating /\ loc[v] = l
  BY <1>1, <1>2, QueueOfList
<1>4. PoolSound(pool)
  BY DEF ArcInv
<1>5. /\ v \in Cblocks
      /\ pool.oblock[v] \in Blocks(pool) \ MovingBlocks(pool)
      /\ pool.oblock[v] \in Oblocks
  BY <1>3, <1>4 DEF PoolSound, Pools, Blocks, MovingBlocks
<1> QED
  BY <1>3, <1>5 DEF l, v

\* The pool after the eviction.
LEMMA EvictedPool ==
  ASSUME ArcInv, NEW o \in Oblocks, NEW at, at = arc_transaction_set(o),
         arc_transaction_is_legal(at)
  PROVE  /\ PoolSound(Evicted(at))
         /\ Evicted(at).migrating = pool.migrating
         /\ MovingBlocks(Evicted(at)) = MovingBlocks(pool)
         /\ at.cache_evict # None =>
              /\ alloc_entry(Evicted(at)) = Victim(at)
              /\ Evicted(at).allocated = pool.allocated \ {Victim(at)}
              /\ Blocks(Evicted(at)) = Blocks(pool) \ {pool.oblock[Victim(at)]}
         /\ at.cache_evict = None => Evicted(at) = pool
         /\ alloc_entry(Evicted(at)) # Null =>
              /\ alloc_entry(Evicted(at)) \in Cblocks
              /\ alloc_entry(Evicted(at)) \notin Evicted(at).allocated
<1>1. PoolSound(pool)
  BY DEF ArcInv
<1>2. CASE at.cache_evict # None
  <2> DEFINE v == Victim(at)
             q == cache_nucleus_remove(pool, v)
  <2>1. /\ v \in pool.allocated /\ v \notin pool.migrating /\ v \in Cblocks
        /\ pool.oblock[v] \notin MovingBlocks(pool)
    BY <1>2, VictimFacts
  <2>2. Evicted(at) = q
    BY <1>2 DEF Evicted
  <2> HIDE DEF v
  <2>3. /\ PoolSound(q) /\ q.allocated = pool.allocated \ {v}
        /\ q.migrating = pool.migrating \ {v} /\ alloc_entry(q) = v
        /\ Blocks(q) = Blocks(pool) \ {pool.oblock[v]}
        /\ MovingBlocks(q) = MovingBlocks(pool) \ {pool.oblock[v]}
    BY <1>1, <2>1, RemoveSound, RemoveBlocks
  <2> HIDE DEF q
  <2>4. q.migrating = pool.migrating /\ MovingBlocks(q) = MovingBlocks(pool)
    BY <2>1, <2>3
  <2> QED
    BY <1>2, <2>1, <2>2, <2>3, <2>4 DEF v
<1>3. CASE at.cache_evict = None
  <2>1. Evicted(at) = pool
    BY <1>3 DEF Evicted
  <2>2. alloc_entry(pool) # Null => /\ alloc_entry(pool) \in Cblocks
                                    /\ alloc_entry(pool) \notin pool.allocated
    BY <1>1, AllocEntryFacts DEF alloc_entry, cache_is_full
  <2> QED
    BY <1>1, <1>3, <2>1, <2>2
<1> QED
  BY <1>2, <1>3

\* T1 or T2 loses its victim.
LEMMA MissEvicts ==
  ASSUME ArcInv, NEW o \in Oblocks, o \notin Blocks(pool),
         NEW at, at = arc_transaction_set(o), arc_transaction_is_legal(at),
         arc_forget(at) # None => arc_q[arc_forget(at)] # <<>>,
         NEW q1, q1 = Forgot(at, o), NEW n1, n1 = TakeFrom(length, arc_forget(at)),
         NEW q2, q2 = Popped(at, o), NEW n2, n2 = TakeFrom(n1, at.cache_evict)
  PROVE  /\ ListsShape(q2, n2)
         /\ ResidentSound(Evicted(at).allocated, pool.migrating, LocEvicted(at), q2, n2)
         /\ HistorySound(q2, n2)
         /\ HistoryBlocks(q2) \subseteq HistoryBlocks(arc_q)
         /\ o \notin HistoryBlocks(q2)
<1> DEFINE A == pool.allocated
           M == pool.migrating
           v == Victim(at)
<1>1. /\ ListsShape(q1, n1) /\ HistorySound(q1, n1)
      /\ ResidentKept(arc_q, length, q1, n1)
      /\ HistoryBlocks(q1) \subseteq HistoryBlocks(arc_q)
      /\ o \notin HistoryBlocks(q1)
  BY MissForgets
<1>2. ResidentSound(A, M, loc, arc_q, length)
  BY DEF ArcInv
<1>3. ResidentSound(A, M, loc, q1, n1)
  BY <1>1, <1>2, ResidentSame
<1>4. CASE at.cache_evict # None
  <2>1. v \in A /\ v \notin M /\ loc[v] = at.cache_evict
    BY <1>4, VictimFacts
  <2>2. /\ q2 = Drop(q1, at.cache_evict, v)
        /\ LocEvicted(at) = [loc EXCEPT ![v] = None]
    BY <1>4 DEF Popped, LocEvicted
  <2>3. Evicted(at).allocated = A \ {v}
    BY <1>4, EvictedPool
  <2> HIDE DEF A, M, v
  <2>4. Leaves(v, M, loc, q1, n1, LocEvicted(at), q2, n2)
    BY <2>1, <2>2 DEF Leaves
  <2>5. /\ ListsShape(q2, n2)
        /\ ResidentSound(A \ {v}, M \ {v}, LocEvicted(at), q2, n2)
        /\ HistoryKept(q1, n1, q2, n2)
    BY <1>1, <1>3, <2>1, <2>4, LeaveList
  <2>6. M \ {v} = M
    BY <2>1
  <2>7. HistorySound(q2, n2) /\ HistoryBlocks(q2) = HistoryBlocks(q1)
    BY <1>1, <2>5, HistorySame
  <2>8. ResidentSound(A \ {v}, M, LocEvicted(at), q2, n2)
    BY <2>5, <2>6
  <2> QED
    BY <1>1, <2>3, <2>5, <2>7, <2>8 DEF M
<1>5. CASE at.cache_evict = None
  <2>1. q2 = q1 /\ n2 = n1 /\ LocEvicted(at) = loc /\ Evicted(at) = pool
    BY <1>5 DEF Popped, LocEvicted, TakeFrom, Evicted
  <2> QED
    BY <1>1, <1>3, <2>1
<1> QED
  BY <1>4, <1>5

\* The history remembers the victim, if there is one and its list says so.
LEMMA MissRemembers ==
  ASSUME ArcInv, NEW o \in Oblocks, o \notin Blocks(pool),
         NEW at, at = arc_transaction_set(o), arc_transaction_is_legal(at),
         arc_forget(at) # None => arc_q[arc_forget(at)] # <<>>,
         NEW n2, n2 = TakeFrom(TakeFrom(length, arc_forget(at)), at.cache_evict),
         NEW q3, q3 = Memorised(at, o), NEW n3, n3 = AddTo(n2, MemoryOf(at))
  PROVE  /\ ListsShape(q3, n3)
         /\ ResidentSound(Evicted(at).allocated, pool.migrating, LocEvicted(at), q3, n3)
         /\ HistorySound(q3, n3)
         /\ (Blocks(Evicted(at)) \cup {o}) \cap HistoryBlocks(q3) = {}
<1> DEFINE q2 == Popped(at, o)
           m  == MemoryOf(at)
           b  == pool.oblock[Victim(at)]
<1>1. /\ ListsShape(q2, n2)
      /\ ResidentSound(Evicted(at).allocated, pool.migrating, LocEvicted(at), q2, n2)
      /\ HistorySound(q2, n2)
      /\ HistoryBlocks(q2) \subseteq HistoryBlocks(arc_q)
      /\ o \notin HistoryBlocks(q2)
  <2> DEFINE n1 == TakeFrom(length, arc_forget(at))
             q1 == Forgot(at, o)
  <2>1. n2 = TakeFrom(n1, at.cache_evict)
    OBVIOUS
  <2>2. n1 = TakeFrom(length, arc_forget(at)) /\ q1 = Forgot(at, o) /\ q2 = Popped(at, o)
    OBVIOUS
  <2> HIDE DEF n1, q1, q2
  <2> QED
    BY <2>1, <2>2, MissEvicts
<1>2. Blocks(pool) \cap HistoryBlocks(arc_q) = {}
  BY DEF ArcInv
<1>3. m \in History \cup {None} /\ (m # None => at.cache_evict # None)
  BY MemoryFacts
<1>4. /\ m = None => q3 = q2 /\ n3 = n2
      /\ m # None => q3 = Push(q2, m, b) /\ n3 = AddTo(n2, m)
  BY DEF Memorised, AddTo
<1> HIDE DEF q2, m, b
<1>5. CASE m = None
  <2>1. Blocks(Evicted(at)) \subseteq Blocks(pool)
    <3>1. CASE at.cache_evict = None
      BY <3>1, EvictedPool
    <3>2. CASE at.cache_evict # None
      BY <3>2, EvictedPool
    <3> QED
      BY <3>1, <3>2
  <2> QED
    BY <1>1, <1>2, <1>4, <1>5, <2>1
<1>6. CASE m # None
  <2>1. m \in History /\ at.cache_evict # None
    BY <1>3, <1>6
  <2>2. b \in Oblocks /\ b \in Blocks(pool)
    BY <2>1, VictimFacts DEF b
  <2>3. Blocks(Evicted(at)) = Blocks(pool) \ {b}
    BY <2>1, EvictedPool DEF b
  <2>4. b \notin HistoryBlocks(q2)
    BY <1>1, <1>2, <2>2
  <2>5. q3 = Push(q2, m, b) /\ n3 = AddTo(n2, m)
    BY <1>4, <1>6
  <2>6. /\ ListsShape(q3, n3) /\ HistorySound(q3, n3)
        /\ HistoryBlocks(q3) = HistoryBlocks(q2) \cup {b}
        /\ ResidentKept(q2, n2, q3, n3)
    BY <1>1, <2>1, <2>2, <2>4, <2>5, RememberBlock
  <2>7. ResidentSound(Evicted(at).allocated, pool.migrating, LocEvicted(at), q3, n3)
    BY <1>1, <2>6, ResidentSame
  <2>8. (Blocks(Evicted(at)) \cup {o}) \cap HistoryBlocks(q3) = {}
    BY <1>1, <1>2, <2>2, <2>3, <2>6
  <2> QED
    BY <2>6, <2>7, <2>8
<1> QED
  BY <1>5, <1>6

\* The block gets an entry.
LEMMA MissEnters ==
  ASSUME ArcInv, NEW o \in Oblocks, o \notin Blocks(pool),
         NEW at, at = arc_transaction_set(o), arc_transaction_is_legal(at),
         arc_forget(at) # None => arc_q[arc_forget(at)] # <<>>,
         NEW e, e = alloc_entry(Evicted(at)), e # Null,
         NEW lf, lf = [c \in Cblocks |->
                         CASE c = e -> at.dest
                           [] c # e /\ at.cache_evict # None /\ c = Victim(at) -> None
                           [] OTHER -> loc[c]]
  PROVE  /\ ListsShape(Memorised(at, o), After(at))
         /\ ResidentSound(Evicted(at).allocated \cup {e}, pool.migrating \cup {e}, lf,
                          Memorised(at, o), After(at))
         /\ HistorySound(Memorised(at, o), After(at))
         /\ (Blocks(Evicted(at)) \cup {o}) \cap HistoryBlocks(Memorised(at, o)) = {}
<1> DEFINE n2 == TakeFrom(TakeFrom(length, arc_forget(at)), at.cache_evict)
           n3 == AddTo(n2, MemoryOf(at))
           n4 == AddTo(n3, at.dest)
           q3 == Memorised(at, o)
           A  == Evicted(at).allocated
           d  == at.dest
<1>1. After(at) = n4
  BY DEF After
<1>2. /\ n3 = AddTo(n2, MemoryOf(at)) /\ n4 = AddTo(n3, d)
      /\ n2 = TakeFrom(TakeFrom(length, arc_forget(at)), at.cache_evict)
      /\ q3 = Memorised(at, o)
  OBVIOUS
<1>3. e \in Cblocks /\ e \notin A /\ d \in Resident
  BY EvictedPool, TransactionFacts
<1>4. loc \in [Cblocks -> Resident \cup {None}] /\ (at.cache_evict # None => Victim(at) \in Cblocks)
  BY VictimFacts DEF ArcInv, ResidentSound
<1>5. lf = [LocEvicted(at) EXCEPT ![e] = d]
  <2>1. CASE at.cache_evict # None
    BY <1>3, <1>4, <2>1 DEF LocEvicted
  <2>2. CASE at.cache_evict = None
    BY <1>3, <1>4, <2>2 DEF LocEvicted
  <2> QED
    BY <2>1, <2>2
<1> HIDE DEF n2, n3, n4, q3, A, d
<1>6. /\ ListsShape(q3, n3)
      /\ ResidentSound(A, pool.migrating, LocEvicted(at), q3, n3)
      /\ HistorySound(q3, n3)
      /\ (Blocks(Evicted(at)) \cup {o}) \cap HistoryBlocks(q3) = {}
  BY <1>2, MissRemembers DEF A
<1>7. /\ ListsShape(q3, n4)
      /\ ResidentSound(A \cup {e}, pool.migrating \cup {e}, lf, q3, n4)
      /\ HistoryKept(q3, n3, q3, n4)
  <2> DEFINE M == pool.migrating
             lg == LocEvicted(at)
  <2>1. lf = [lg EXCEPT ![e] = d] /\ n4 = AddTo(n3, d)
    BY <1>2, <1>5
  <2>2. ListsShape(q3, n3) /\ ResidentSound(A, M, lg, q3, n3)
    BY <1>6
  <2> HIDE DEF M, lg
  <2>3. /\ ListsShape(q3, n4)
        /\ ResidentSound(A \cup {e}, M \cup {e}, lf, q3, n4)
        /\ HistoryKept(q3, n3, q3, n4)
    BY <1>3, <2>1, <2>2, EnterList
  <2> QED
    BY <2>3 DEF M
<1>8. HistorySound(q3, n4)
  BY <1>6, <1>7, HistorySame
<1> QED
  BY <1>1, <1>6, <1>7, <1>8 DEF A, q3

\* A miss is bounded, whether the block is remembered or unknown.
LEMMA MissBounded ==
  ASSUME ArcInv, removals = {}, NEW o \in Oblocks, o \notin Blocks(pool),
         NEW at, at = arc_transaction_set(o)
  PROVE  MissIsBounded(at)
<1>1. Location(o) \in History \/ Location(o) = None
  BY LocationFacts DEF Lists
<1>2. CASE Location(o) \in History
  BY <1>2, GhostMissBounded
<1>3. CASE Location(o) = None
  BY <1>3, NewMissBounded
<1> QED
  BY <1>1, <1>2, <1>3

\* As long as nothing has been removed a miss does not stop the program, if the meta
\* pool is as large as the cache.
LEMMA MissNotFatal ==
  ASSUME ArcInv, removals = {}, MetaSize >= CacheSize, NEW o \in Oblocks, o \notin Blocks(pool),
         NEW at, at = arc_transaction_set(o), arc_transaction_is_legal(at)
  PROVE  ~MissIsFatal(at, o)
<1> DEFINE f == arc_forget(at)
           l == at.cache_evict
           m == MemoryOf(at)
           n1 == TakeFrom(length, f)
           n2 == TakeFrom(n1, l)
           q2 == Popped(at, o)
<1>1. /\ f # None => length[f] > 0
      /\ l # None <=> length["T1"] + length["T2"] = CacheSize
      /\ m # None => length["B1"] + length["B2"] - (IF f = None THEN 0 ELSE 1) < CacheSize
  BY MissBounded DEF MissIsBounded
<1>2. f \in History \cup {None} /\ l \in Resident \cup {None}
  BY AfterFacts, TransactionFacts
<1>3. HistorySound(arc_q, length) /\ length \in [Lists -> Int]
  BY DEF ArcInv, ListsShape
<1>4. f # None => arc_q[f] # <<>>
  <2> HIDE DEF f
  <2> QED
    BY <1>1, <1>2, <1>3, HistoryFacts
<1>5. HistorySound(q2, n2)
  <2> DEFINE q1 == Forgot(at, o)
  <2>1. /\ q1 = Forgot(at, o) /\ n1 = TakeFrom(length, arc_forget(at))
        /\ q2 = Popped(at, o) /\ n2 = TakeFrom(n1, at.cache_evict)
    OBVIOUS
  <2>2. arc_forget(at) # None => arc_q[arc_forget(at)] # <<>>
    BY <1>4
  <2> HIDE DEF q1, n1, q2, n2
  <2> QED
    BY <2>1, <2>2, MissEvicts
<1>6. n2["B1"] + n2["B2"] = length["B1"] + length["B2"] - (IF f = None THEN 0 ELSE 1)
  <2>1. f \in Lists \cup {None} /\ l \in Lists \cup {None}
    BY <1>2, ListNames
  <2>2. /\ "B1" \in Lists /\ "B2" \in Lists
        /\ f = "B1" \/ f = "B2" \/ f = None
        /\ l # "B1" /\ l # "B2" /\ None # "B1" /\ None # "B2"
    BY <1>2, ListNames DEF Lists, History, Resident
  <2> HIDE DEF f, l
  <2>3. n1 \in [Lists -> Int] /\ \A k \in Lists : n1[k] = IF k = f THEN length[k] - 1 ELSE length[k]
    BY <1>3, <2>1, CountFacts
  <2> HIDE DEF n1
  <2>4. \A k \in Lists : n2[k] = IF k = l THEN n1[k] - 1 ELSE n1[k]
    BY <2>1, <2>3, CountFacts
  <2>5. length["B1"] \in Int /\ length["B2"] \in Int
    BY <1>3, <2>2
  <2> HIDE DEF n2
  <2> QED
    BY <2>2, <2>3, <2>4, <2>5
<1>7. m # None => ~meta_is_full(q2)
  <2>1. n2["B1"] = Len(q2["B1"]) /\ n2["B2"] = Len(q2["B2"])
    BY <1>5 DEF HistorySound, History
  <2>2. n2["B1"] \in Nat /\ n2["B2"] \in Nat
    BY <1>5, HistoryFacts DEF History
  <2> HIDE DEF n2, q2, m, f
  <2>3. m # None => n2["B1"] + n2["B2"] < CacheSize
    BY <1>1, <1>6
  <2>4. CacheSize \in Nat /\ MetaSize \in Nat
    BY NucleusAssumption, ArcAssumption
  <2>5. SUFFICES ASSUME m # None, meta_is_full(q2) PROVE FALSE
    OBVIOUS
  <2>6. Len(q2["B1"]) + Len(q2["B2"]) >= MetaSize
    BY <2>5 DEF meta_is_full
  <2>7. n2["B1"] + n2["B2"] < CacheSize
    BY <2>3, <2>5
  <2>8. n2["B1"] + n2["B2"] >= MetaSize
    BY <2>1, <2>6
  <2> QED
    BY <2>2, <2>4, <2>7, <2>8
<1>8. alloc_entry(Evicted(at)) # Null
  <2>1. PoolSound(pool)
    BY DEF ArcInv
  <2>2. CASE l # None
    <3>1. alloc_entry(Evicted(at)) = Victim(at) /\ Victim(at) \in Cblocks
      BY <2>2, EvictedPool, VictimFacts
    <3> QED
      BY <3>1, NucleusAssumption DEF Cblocks
  <2>3. CASE l = None
    <3>1. Evicted(at) = pool
      BY <2>3, EvictedPool
    <3>2. ~cache_is_full(pool)
      BY <1>1, <2>3, LengthFacts
    <3> QED
      BY <2>1, <3>1, <3>2, AllocEntryFacts
  <2> QED
    BY <2>2, <2>3
<1> QED
  BY <1>4, <1>7, <1>8 DEF MissIsFatal

\* A miss.
LEMMA ArcMissStep ==
  ASSUME ArcInv, NEW o \in Oblocks, NEW write \in BOOLEAN,
         NEW at, at = arc_transaction_set(o), arc_transaction_is_legal(at),
         at.current_loc \notin Resident,
         arc_commit_miss(at, o, write), loading' = FALSE, UNCHANGED removals
  PROVE  /\ ArcInv'
         /\ o \notin Blocks(pool)
         /\ MissIsFatal(at, o) => crashed' = TRUE /\ UNCHANGED <<pool, result>>
         /\ ~MissIsFatal(at, o) =>
              /\ MovingBlocks(pool') = MovingBlocks(pool) \cup {o}
              /\ result'.oblock = o
              /\ at.cache_evict # None =>
                   /\ Blocks(pool') = (Blocks(pool) \ {pool.oblock[Victim(at)]}) \cup {o}
                   /\ result'.op = "REPLACE" /\ result'.cblock = Victim(at)
                   /\ result'.old_oblock = pool.oblock[Victim(at)]
              /\ at.cache_evict = None =>
                   /\ ~cache_is_full(pool)
                   /\ Blocks(pool') = Blocks(pool) \cup {o}
                   /\ result'.op = "NEW" /\ result'.old_oblock = Null
<1> DEFINE e == alloc_entry(Evicted(at))
           v == Victim(at)
           ev == at.cache_evict # None
           pv == Evicted(at)
           q3 == Memorised(at, o)
<1>1. o \notin Blocks(pool) /\ PoolSound(pool)
  BY TransactionFacts, LocationFacts DEF ArcInv
<1>2. CASE MissIsFatal(at, o)
  <2>1. LogFatal
    BY <1>2, MissCommit
  <2>2. ~(removals = {} /\ MetaSize >= CacheSize)
    BY <1>1, <1>2, MissNotFatal
  <2> QED
    BY <1>1, <1>2, <2>1, <2>2 DEF ArcInv, LogFatal
<1>3. CASE ~MissIsFatal(at, o)
  <2>1. /\ arc_forget(at) # None => arc_q[arc_forget(at)] # <<>>
        /\ e # Null
    BY <1>3 DEF MissIsFatal
  <2>2. /\ p' = at.p
        /\ pool' = AdmitEntry(pv, e, o, write)
        /\ loc' = [c \in Cblocks |->
                     CASE c = e -> at.dest
                       [] c # e /\ at.cache_evict # None /\ c = Victim(at) -> None
                       [] OTHER -> loc[c]]
        /\ arc_q' = q3
        /\ length' = After(at)
        /\ stats' = inc(stats, {"misses", "ios"} \cup IF ev THEN {"demotions"} ELSE {})
        /\ crashed' = crashed
    BY <1>3, MissCommit
  <2>3. result' = [ op             |-> IF ev THEN "REPLACE" ELSE "NEW",
                    oblock         |-> o,
                    cblock         |-> e,
                    old_oblock     |-> IF ev THEN pool.oblock[v] ELSE Null,
                    dirty_eviction |-> ev /\ v \in pool.dirty ]
    BY <1>3, MissCommit
  <2>4. /\ PoolSound(pv) /\ pv.migrating = pool.migrating
        /\ MovingBlocks(pv) = MovingBlocks(pool)
        /\ ev => e = v /\ Blocks(pv) = Blocks(pool) \ {pool.oblock[v]}
        /\ ~ev => pv = pool
        /\ e \in Cblocks /\ e \notin pv.allocated
    BY <2>1, EvictedPool
  <2>5. /\ ListsShape(q3, After(at))
        /\ ResidentSound(pv.allocated \cup {e}, pool.migrating \cup {e}, loc', q3, After(at))
        /\ HistorySound(q3, After(at))
        /\ (Blocks(pv) \cup {o}) \cap HistoryBlocks(q3) = {}
    <3>1. e = alloc_entry(Evicted(at)) /\ pv = Evicted(at) /\ q3 = Memorised(at, o)
      OBVIOUS
    <3> HIDE DEF e, pv, q3, ev, v
    <3> QED
      BY <1>1, <2>1, <2>2, <3>1, MissEnters
  <2>6. ev => v \in Cblocks /\ pool.oblock[v] \in Oblocks
    BY VictimFacts
  <2> HIDE DEF e, v, ev, pv, q3
  <2>7. o \notin Blocks(pv)
    BY <1>1, <2>4
  <2>8. /\ PoolSound(pool')
        /\ pool'.allocated = pv.allocated \cup {e}
        /\ pool'.migrating = pv.migrating \cup {e}
        /\ Blocks(pool') = Blocks(pv) \cup {o}
        /\ MovingBlocks(pool') = MovingBlocks(pv) \cup {o}
    BY <2>2, <2>4, <2>7, NotInBlocks, AdmitSound
  <2>9. /\ result' \in Results /\ result'.oblock = o /\ result'.cblock = e
        /\ ev => result'.op = "REPLACE" /\ result'.old_oblock = pool.oblock[v]
        /\ ~ev => result'.op = "NEW" /\ result'.old_oblock = Null
    <3>1. ev \in BOOLEAN /\ (v \in pool.dirty) \in BOOLEAN /\ (ev /\ v \in pool.dirty) \in BOOLEAN
      BY DEF ev
    <3>2. CASE ev
      BY <2>3, <2>4, <2>6, <3>1, <3>2 DEF Results, Operations
    <3>3. CASE ~ev
      BY <2>3, <2>4, <3>1, <3>3 DEF Results, Operations
    <3> QED
      BY <3>2, <3>3
  <2>10. p' \in 0 .. CacheSize
    BY <2>2, TransactionFacts
  <2>11. stats' \in Stats
    BY <2>2, IncType DEF ArcInv
  <2>12. removals' = {} => Bounded(length')
    BY <1>1, <2>2, MissBounded DEF MissIsBounded
  <2>13. ~ev => ~cache_is_full(pool)
    BY <2>1, <2>4, <1>1 DEF cache_is_full, alloc_entry, e, pv
  <2>14. /\ ListsShape(arc_q', length')
         /\ ResidentSound(pool'.allocated, pool'.migrating, loc', arc_q', length')
         /\ HistorySound(arc_q', length')
         /\ Blocks(pool') \cap HistoryBlocks(arc_q') = {}
    BY <2>2, <2>4, <2>5, <2>8
  <2>15. ArcInv'
    BY <2>2, <2>8, <2>9, <2>10, <2>11, <2>12, <2>14 DEF ArcInv
  <2> QED
    BY <1>1, <1>3, <2>4, <2>8, <2>9, <2>13, <2>15 DEF ev, v
<1> QED
  BY <1>2, <1>3

\* A request that cannot be served: the list to evict from has no entry in its queue.
LEMMA ArcFailStep ==
  ASSUME ArcInv, NEW o \in Oblocks,
         NEW at, at = arc_transaction_set(o), ~arc_transaction_is_legal(at),
         result' = OpOnly("FAIL", o), loading' = FALSE, UNCHANGED removals,
         UNCHANGED <<pool, loc, arc_q, length, p, stats, crashed>>
  PROVE  /\ ArcInv'
         /\ o \notin Blocks(pool)
         /\ result'.op = "FAIL" /\ result'.oblock = o /\ result'.old_oblock = Null
         /\ removals = {} => cache_is_full(pool) /\ pool.migrating # {}
<1> DEFINE l == at.cache_evict
<1>1. l # None /\ ~(Len(arc_q[l]) > 0)
  BY DEF arc_transaction_is_legal
<1>2. l \in Resident /\ o \notin Blocks(pool)
  BY <1>1, TransactionFacts, LocationFacts
<1>3. /\ result' \in Results
      /\ result'.op = "FAIL" /\ result'.oblock = o /\ result'.old_oblock = Null
  BY OpOnlyType DEF Operations
<1>4. ArcInv'
  BY <1>3 DEF ArcInv, ListsShape, ResidentSound, HistorySound, Bounded
<1>5. removals = {} => cache_is_full(pool) /\ pool.migrating # {}
  <2> SUFFICES ASSUME removals = {}
               PROVE  cache_is_full(pool) /\ pool.migrating # {}
    OBVIOUS
  <2>1. length[l] > 0 /\ length["T1"] + length["T2"] = CacheSize
    BY <1>1, <1>2, MissBounded DEF MissIsBounded
  <2> HIDE DEF l
  <2>2. arc_q[l] \in Seq(Cblocks)
    BY <1>2, QueueOfList
  <2>3. arc_q[l] = <<>>
    <3>1. Len(arc_q[l]) \in Nat
      BY <2>2, LenProperties
    <3>2. Len(arc_q[l]) = 0
      BY <1>1, <3>1
    <3> QED
      BY <2>2, <3>2, EmptySeq
  <2> QED
    BY <1>2, <2>1, <2>3, QueueOfList, LengthFacts
<1> QED
  BY <1>2, <1>3, <1>4, <1>5

\* Removing a cached block, which the history may have to remember.
LEMMA ArcRemoveCachedStep ==
  ASSUME ArcInv, removals # {}, NEW o \in Oblocks, NEW r \in BOOLEAN, o \in Blocks(pool),
         arc_remove_cached(o, r), loading' = FALSE, UNCHANGED removals
  PROVE  ArcInv'
<1> DEFINE e    == Lookup(o)
           q1   == arc_remove_entry(e)
           n1   == TakeFrom(length, loc[e])
           d    == CASE r /\ loc[e] = "T1" -> "B1"
                     [] r /\ loc[e] # "T1" -> "B2"
                     [] OTHER -> None
           full == d # None /\ meta_is_full(q1)
           q2   == IF full THEN Drop(q1, d, Head(q1[d])) ELSE q1
           n2   == IF full THEN TakeFrom(n1, d) ELSE n1
           q3   == Push(q2, d, o)
           n3   == AddTo(n2, d)
<1>1. IF full /\ q1[d] = <<>>
        THEN LogFatal
        ELSE /\ pool' = cache_nucleus_remove(pool, e)
             /\ loc' = [loc EXCEPT ![e] = None]
             /\ arc_q' = q3
             /\ length' = n3
             /\ stats' = IF e \in pool.migrating THEN stats ELSE inc(stats, {"demotions"})
             /\ result' = NoResult
             /\ UNCHANGED <<p, crashed>>
  BY DEF arc_remove_cached
<1>2. /\ PoolSound(pool) /\ ListsShape(arc_q, length) /\ HistorySound(arc_q, length)
      /\ ResidentSound(pool.allocated, pool.migrating, loc, arc_q, length)
      /\ Blocks(pool) \cap HistoryBlocks(arc_q) = {}
  BY DEF ArcInv
<1>3. e \in pool.allocated /\ pool.oblock[e] = o
  BY <1>2, CachedEntry DEF Lookup
<1>4. CASE full /\ q1[d] = <<>>
  <2>1. LogFatal
    BY <1>1, <1>4
  <2> QED
    BY <2>1 DEF ArcInv, LogFatal
<1>5. CASE ~(full /\ q1[d] = <<>>)
  <2>1. /\ pool' = cache_nucleus_remove(pool, e)
        /\ loc' = [loc EXCEPT ![e] = None]
        /\ arc_q' = q3
        /\ length' = n3
        /\ stats' = IF e \in pool.migrating THEN stats ELSE inc(stats, {"demotions"})
        /\ result' = NoResult
        /\ UNCHANGED <<p, crashed>>
    BY <1>1, <1>5
  <2>2. Leaves(e, pool.migrating, loc, arc_q, length, loc', q1, n1)
    BY <2>1 DEF Leaves, arc_remove_entry
  <2>3. d \in History \cup {None}
    BY DEF History
  <2>4. /\ full => q2 = Drop(q1, d, Head(q1[d])) /\ n2 = TakeFrom(n1, d)
        /\ ~full => q2 = q1 /\ n2 = n1
        /\ full => d # None /\ q1[d] # <<>>
    BY <1>5
  <2>5. q3 = Push(q2, d, o) /\ n3 = AddTo(n2, d)
    OBVIOUS
  <2> HIDE DEF e, q1, n1, d, full, q2, n2, q3, n3
  <2>6. /\ PoolSound(pool')
        /\ pool'.allocated = pool.allocated \ {e}
        /\ pool'.migrating = pool.migrating \ {e}
        /\ Blocks(pool') = Blocks(pool) \ {o}
    BY <1>2, <1>3, <2>1, RemoveSound, RemoveBlocks
  <2>7. /\ ListsShape(q1, n1)
        /\ ResidentSound(pool.allocated \ {e}, pool.migrating \ {e}, loc', q1, n1)
        /\ HistoryKept(arc_q, length, q1, n1)
    BY <1>2, <1>3, <2>2, LeaveList
  <2>8. /\ ResidentSound(pool'.allocated, pool'.migrating, loc', q1, n1)
        /\ HistorySound(q1, n1) /\ HistoryBlocks(q1) = HistoryBlocks(arc_q)
    BY <1>2, <2>6, <2>7, HistorySame
  <2>9. /\ ListsShape(q2, n2) /\ HistorySound(q2, n2)
        /\ ResidentSound(pool'.allocated, pool'.migrating, loc', q2, n2)
        /\ HistoryBlocks(q2) \subseteq HistoryBlocks(arc_q)
    <3>1. CASE full
      <4> DEFINE x == Head(q1[d])
      <4>1. d \in History /\ q1[d] # <<>>
        BY <2>3, <2>4, <3>1
      <4>2. x \in ToSet(q1[d])
        BY <2>8, <4>1, HistoryFacts
      <4>3. q2 = Drop(q1, d, x) /\ n2 = TakeFrom(n1, d)
        BY <2>4, <3>1
      <4> HIDE DEF x
      <4>4. /\ ListsShape(q2, n2) /\ HistorySound(q2, n2)
            /\ HistoryBlocks(q2) = HistoryBlocks(q1) \ {x}
            /\ ResidentKept(q1, n1, q2, n2)
        BY <2>7, <2>8, <4>1, <4>2, <4>3, ForgetBlock
      <4>5. ResidentSound(pool'.allocated, pool'.migrating, loc', q2, n2)
        BY <2>8, <4>4, ResidentSame
      <4> QED
        BY <2>8, <4>4, <4>5
    <3>2. CASE ~full
      BY <2>4, <2>7, <2>8, <3>2
    <3> QED
      BY <3>1, <3>2
  <2>10. /\ ListsShape(q3, n3) /\ HistorySound(q3, n3)
         /\ ResidentSound(pool'.allocated, pool'.migrating, loc', q3, n3)
         /\ HistoryBlocks(q3) \subseteq HistoryBlocks(arc_q) \cup {o}
    <3>1. CASE d = None
      <4>1. q3 = q2 /\ n3 = n2
        BY <2>5, <3>1 DEF Push, AddTo
      <4> QED
        BY <2>9, <4>1
    <3>2. CASE d # None
      <4>1. d \in History /\ o \notin HistoryBlocks(q2)
        BY <1>2, <2>3, <2>9, <3>2
      <4>2. /\ ListsShape(q3, n3) /\ HistorySound(q3, n3)
            /\ HistoryBlocks(q3) = HistoryBlocks(q2) \cup {o}
            /\ ResidentKept(q2, n2, q3, n3)
        BY <2>5, <2>9, <4>1, RememberBlock
      <4>3. ResidentSound(pool'.allocated, pool'.migrating, loc', q3, n3)
        BY <2>9, <4>2, ResidentSame
      <4> QED
        BY <2>9, <4>2, <4>3
    <3> QED
      BY <3>1, <3>2
  <2>11. Blocks(pool') \cap HistoryBlocks(arc_q') = {}
    BY <1>2, <2>1, <2>6, <2>10
  <2>12. stats' \in Stats
    BY <2>1, IncType DEF ArcInv
  <2>13. /\ ListsShape(arc_q', length') /\ HistorySound(arc_q', length')
         /\ ResidentSound(pool'.allocated, pool'.migrating, loc', arc_q', length')
    BY <2>1, <2>10
  <2> QED
    BY <2>1, <2>6, <2>11, <2>12, <2>13 DEF ArcInv
<1> QED
  BY <1>4, <1>5

\* Removing a block that is only remembered.
LEMMA ArcRemoveHistoryStep ==
  ASSUME ArcInv, removals # {}, NEW o \in Oblocks, o \in HistoryBlocks(arc_q),
         arc_remove_history(o), loading' = FALSE, UNCHANGED removals
  PROVE  ArcInv'
<1> DEFINE l == Location(o)
<1>1. /\ PoolSound(pool) /\ ListsShape(arc_q, length) /\ HistorySound(arc_q, length)
      /\ ResidentSound(pool.allocated, pool.migrating, loc, arc_q, length)
      /\ Blocks(pool) \cap HistoryBlocks(arc_q) = {}
  BY DEF ArcInv
<1>2. l \in History /\ o \in ToSet(arc_q[l])
  BY LocationFacts
<1>3. /\ arc_q' = Drop(arc_q, l, o) /\ length' = TakeFrom(length, l)
      /\ result' = NoResult
      /\ UNCHANGED <<pool, loc, p, stats, crashed>>
  BY DEF arc_remove_history
<1> HIDE DEF l
<1>4. /\ ListsShape(arc_q', length') /\ HistorySound(arc_q', length')
      /\ HistoryBlocks(arc_q') = HistoryBlocks(arc_q) \ {o}
      /\ ResidentKept(arc_q, length, arc_q', length')
  BY <1>1, <1>2, <1>3, ForgetBlock
<1>5. ResidentSound(pool.allocated, pool.migrating, loc, arc_q', length')
  BY <1>1, <1>4, ResidentSame
<1>6. Blocks(pool) \cap HistoryBlocks(arc_q') = {}
  BY <1>1, <1>4
<1> QED
  BY <1>1, <1>3, <1>4, <1>5, <1>6 DEF ArcInv

\* The end of a migration.
LEMMA ArcMigratedStep ==
  ASSUME ArcInv, NEW o \in Oblocks, ArcMigrated(o)
  PROVE  /\ ArcInv'
         /\ Blocks(pool') = Blocks(pool)
         /\ MovingBlocks(pool') = MovingBlocks(pool) \ {o}
         /\ result' = NoResult
<1> DEFINE e == Lookup(o)
           l == loc[e]
<1>1. /\ PoolSound(pool) /\ ListsShape(arc_q, length) /\ HistorySound(arc_q, length)
      /\ ResidentSound(pool.allocated, pool.migrating, loc, arc_q, length)
      /\ Blocks(pool) \cap HistoryBlocks(arc_q) = {}
  BY DEF ArcInv
<1>2. /\ e \in Cblocks /\ e \in pool.allocated /\ e \in pool.migrating
      /\ pool.oblock[e] = o /\ pool.nr_allocated > 0
  BY <1>1, ArcBlocks, BlocksType, CachedEntry DEF ArcMigrated, Lookup
<1>3. l # None
  <2> HIDE DEF e
  <2> QED
    BY <1>1, <1>2, EntryList
<1>4. /\ pool' = migrated_entry(pool, e)
      /\ arc_q' = Push(arc_q, l, e)
      /\ stats' = inc(stats, {"promotions"})
      /\ result' = NoResult
      /\ loading' = FALSE
      /\ UNCHANGED <<loc, length, p, crashed, removals>>
  BY <1>2, <1>3 DEF ArcMigrated, arc_migrated_api, migrated_entry_asserts
<1>5. l = loc[e]
  OBVIOUS
<1> HIDE DEF e, l
<1>6. /\ PoolSound(pool')
      /\ pool'.allocated = pool.allocated
      /\ pool'.migrating = pool.migrating \ {e}
  BY <1>1, <1>2, <1>4, MigratedSound
<1>7. /\ Blocks(pool') = Blocks(pool)
      /\ MovingBlocks(pool') = MovingBlocks(pool) \ {o}
  BY <1>1, <1>2, <1>4, MigratedBlocks
<1>8. /\ ListsShape(arc_q', length)
      /\ ResidentSound(pool.allocated, pool.migrating \ {e}, loc, arc_q', length)
      /\ HistoryKept(arc_q, length, arc_q', length)
  BY <1>1, <1>2, <1>4, <1>5, QueueEntry
<1>9. HistorySound(arc_q', length) /\ HistoryBlocks(arc_q') = HistoryBlocks(arc_q)
  BY <1>1, <1>8, HistorySame
<1>10. stats' \in Stats
  BY <1>4, IncType DEF ArcInv
<1> QED
  BY <1>1, <1>4, <1>6, <1>7, <1>8, <1>9, <1>10 DEF ArcInv

\* Renaming a cached block to one that the policy does not know.
LEMMA ArcRemapStep ==
  ASSUME ArcInv, NEW o \in Oblocks, NEW n \in Oblocks, ArcRemap(o, n)
  PROVE  /\ ArcInv'
         /\ Blocks(pool') = (Blocks(pool) \ {o}) \cup {n}
         /\ MovingBlocks(pool') =
              IF o \in MovingBlocks(pool) THEN (MovingBlocks(pool) \ {o}) \cup {n}
                                          ELSE MovingBlocks(pool)
         /\ result' = NoResult
<1>1. /\ PoolSound(pool)
      /\ ResidentSound(pool.allocated, pool.migrating, loc, arc_q, length)
      /\ Blocks(pool) \cap HistoryBlocks(arc_q) = {}
  BY DEF ArcInv
<1>2. hash_lookup(pool, o) # Null
  BY <1>1, ArcBlocks, CachedEntry DEF ArcRemap
<1>3. NotHashed(pool, n) /\ n \notin HistoryBlocks(arc_q)
  BY ArcBlocks, NotInBlocks DEF ArcRemap
<1>4. /\ pool' = default_remap(pool, o, n)
      /\ result' = NoResult
      /\ loading' = FALSE
      /\ UNCHANGED <<loc, arc_q, length, p, stats, crashed, removals>>
  BY DEF ArcRemap, arc_remap
<1>5. /\ PoolSound(pool')
      /\ pool'.allocated = pool.allocated
      /\ pool'.migrating = pool.migrating
  <2>1. PoolSound(pool) /\ pool' = default_remap(pool, o, n)
    BY <1>1, <1>4
  <2> QED
    BY <1>2, <1>3, <2>1, RemapSound
<1>6. /\ Blocks(pool') = (Blocks(pool) \ {o}) \cup {n}
      /\ MovingBlocks(pool') =
           IF o \in MovingBlocks(pool) THEN (MovingBlocks(pool) \ {o}) \cup {n}
                                       ELSE MovingBlocks(pool)
  BY <1>1, <1>2, <1>3, <1>4, RemapBlocks
<1>7. Blocks(pool') \cap HistoryBlocks(arc_q) = {}
  BY <1>1, <1>3, <1>6
<1> QED
  BY <1>1, <1>4, <1>5, <1>6, <1>7 DEF ArcInv

\* A request is a hit, a miss or a failure.
LEMMA ArcMapCases ==
  ASSUME NEW o, NEW write, arc_map_api(o, write), NEW at, at = arc_transaction_set(o)
  PROVE  \/ arc_transaction_is_legal(at) /\ at.current_loc \in Resident
            /\ arc_commit_hit(at, o, write)
         \/ arc_transaction_is_legal(at) /\ at.current_loc \notin Resident
            /\ arc_commit_miss(at, o, write)
         \/ ~arc_transaction_is_legal(at) /\ result' = OpOnly("FAIL", o)
            /\ UNCHANGED <<pool, loc, arc_q, length, p, stats, crashed>>
  BY DEF arc_map_api

LEMMA ArcMapInv ==
  ASSUME ArcInv, NEW o \in Oblocks, NEW write \in BOOLEAN, ArcMap(o, write)
  PROVE  ArcInv'
<1> DEFINE at == arc_transaction_set(o)
<1>1. arc_map_api(o, write) /\ loading' = FALSE /\ UNCHANGED removals
  BY DEF ArcMap
<1>2. at = arc_transaction_set(o)
  OBVIOUS
<1> HIDE DEF at
<1> QED
  BY <1>1, <1>2, ArcMapCases, ArcHitStep, ArcMissStep, ArcFailStep

\* ArcInv is inductive.
LEMMA ArcNextInv == ArcInv /\ [ArcNext]_<<arcVars, loading, removals>> => ArcInv'
<1> SUFFICES ASSUME ArcInv, [ArcNext]_<<arcVars, loading, removals>>
             PROVE  ArcInv'
  OBVIOUS
<1>1. ASSUME NEW o \in Oblocks, NEW c \in Cblocks, ArcLoad(o, c)
      PROVE  ArcInv'
  BY <1>1, ArcLoadStep
<1>2. ASSUME NEW o \in Oblocks, NEW write \in Writes, ArcMap(o, write)
      PROVE  ArcInv'
  BY <1>2, ArcMapInv, ArcAssumption
<1>3. ASSUME NEW o \in Oblocks, NEW r \in BOOLEAN, ArcRemove(o, r)
      PROVE  ArcInv'
  <2>1. /\ removals # {} /\ loading' = FALSE /\ UNCHANGED removals
        /\ arc_remove_api(o, r)
        /\ o \in Blocks(pool) \/ o \in HistoryBlocks(arc_q)
    BY <1>3, ArcBlocks DEF ArcRemove
  <2>2. CASE o \in Blocks(pool)
    <3>1. arc_remove_cached(o, r)
      BY <2>1, <2>2, ArcBlocks DEF arc_remove_api
    <3> QED
      BY <2>1, <2>2, <3>1, ArcRemoveCachedStep
  <2>3. CASE o \notin Blocks(pool)
    <3>1. arc_remove_history(o)
      BY <2>1, <2>3, ArcBlocks DEF arc_remove_api
    <3> QED
      BY <2>1, <2>3, <3>1, ArcRemoveHistoryStep
  <2> QED
    BY <2>2, <2>3
<1>4. ASSUME NEW o \in Oblocks, ArcMigrated(o)
      PROVE  ArcInv'
  BY <1>4, ArcMigratedStep
<1>5. ASSUME NEW o \in Oblocks, NEW n \in Oblocks, ArcRemap(o, n)
      PROVE  ArcInv'
  BY <1>5, ArcRemapStep
<1>6. CASE UNCHANGED <<arcVars, loading, removals>>
  BY <1>6 DEF arcVars, ArcInv, ListsShape, ResidentSound, HistorySound, HistoryBlocks, Bounded
<1> QED
  BY <1>1, <1>2, <1>3, <1>4, <1>5, <1>6 DEF ArcNext

\* The lists are sound in every reachable state.
LEMMA ArcAlways == ArcSpec => []ArcInv
  BY ArcInitInv, ArcNextInv, PTL DEF ArcSpec

\* The lists of ARC are exact whatever is removed, a block is known once, and the
\* bounds of the paper hold as long as nothing is removed.
THEOREM ArcSafety == ArcSpec => []ArcSound
<1>1. ArcInv => ArcSound
  <2> SUFFICES ASSUME ArcInv PROVE ArcSound
    OBVIOUS
  <2>1. /\ PoolSound(pool) /\ ListsShape(arc_q, length) /\ HistorySound(arc_q, length)
        /\ ResidentSound(pool.allocated, pool.migrating, loc, arc_q, length)
        /\ Blocks(pool) \cap HistoryBlocks(arc_q) = {}
    BY DEF ArcInv
  <2>2. \A l \in Lists : length[l] \in Nat
    BY LengthFacts
  <2>3. ArcTypeOK
    <3>1. length \in [Lists -> Nat]
      BY <2>1, <2>2 DEF ListsShape
    <3> QED
      BY <2>1, <3>1 DEF ArcInv, ArcTypeOK, PoolSound, ResidentSound, HistorySound
  <2>4. ArcListsExact
    <3>1. \A l \in Resident :
            /\ IsInjective(arc_q[l])
            /\ ToSet(arc_q[l]) = {c \in pool.allocated \ pool.migrating : loc[c] = l}
            /\ length[l] = Cardinality({c \in pool.allocated : loc[c] = l})
      BY <2>1 DEF ResidentSound, EntriesOf
    <3>2. \A l \in History : IsInjective(arc_q[l]) /\ length[l] = Len(arc_q[l])
      BY <2>1 DEF HistorySound
    <3>3. \A c \in Cblocks : loc[c] = None <=> c \notin pool.allocated
      BY <2>1 DEF ResidentSound
    <3> QED
      BY <3>1, <3>2, <3>3, Zenon DEF ArcListsExact, Lists
  <2>5. ArcKnownOnce
    BY <2>1, ArcBlocks DEF ArcKnownOnce, PoolSound, HistorySound
  <2>6. ArcBounds
    BY DEF ArcInv, ArcBounds, Bounded
  <2> QED
    BY <2>3, <2>4, <2>5, <2>6 DEF ArcSound
<1> QED
  BY <1>1, ArcAlways, PTL

\* As long as nothing is removed no assertion fails and no pool runs out, if the meta
\* pool is as large as the cache.
THEOREM ArcAssertionsHold == ArcSpec => []ArcNoAssertionFails
<1>1. ArcInv => ArcNoAssertionFails
  BY DEF ArcInv, ArcNoAssertionFails
<1> QED
  BY <1>1, ArcAlways, PTL

-----------------------------------------------------------------------------
(***************************************************************************)
(* ARC does what CachePolicy says, as long as nothing is removed.          *)
(***************************************************************************)

\* The answer that a result stands for.
LEMMA ArcAnswer ==
  ASSUME NEW r
  PROVE  LET a == IF r.op = "NONE" THEN <<"NONE", Null>> ELSE <<r.op, r.old_oblock>>
         IN  /\ r = NoResult => a = Policy!Void
             /\ \A op \in Operations : r.op = op => a = <<op, r.old_oblock>>
  BY DEF NoResult, Operations, Policy!Void

\* The policy counts with the same Cardinality.
LEMMA PolicyCardinality == \A S : Policy!Cardinality(S) = Cardinality(S)
  BY Zenon DEF Policy!Cardinality, Cardinality

\* An empty cache is an empty policy.
LEMMA ArcInitRefines == ArcInit => Policy!PolicyInit
<1> SUFFICES ASSUME ArcInit PROVE Policy!PolicyInit
  OBVIOUS
<1>1. pool.ht = {} /\ pool.migrating = {} /\ result = NoResult
  BY DEF ArcInit, epool_init
<1>2. Cached = {} /\ Inflight = {}
  BY <1>1 DEF Cached, Inflight
<1> QED
  BY <1>1, <1>2, ArcAnswer DEF Policy!PolicyInit

\* A request is a hit, an admission or a failure of the policy; if it stops the
\* program no caller sees anything.
LEMMA ArcMapRefines ==
  ASSUME ArcInv, removals = {}, NEW o \in Oblocks, NEW write \in BOOLEAN, ArcMap(o, write)
  PROVE  \/ Policy!Hit(o) \/ Policy!New(o) \/ Policy!Fail(o)
         \/ \E v \in Oblocks : Policy!Replace(o, v)
         \/ UNCHANGED <<pool, result>>
<1> DEFINE at == arc_transaction_set(o)
<1>1. /\ Cached = Blocks(pool) /\ Inflight = MovingBlocks(pool)
      /\ Cached' = Blocks(pool') /\ Inflight' = MovingBlocks(pool')
  BY ArcBlocks
<1>2. PoolSound(pool)
  BY DEF ArcInv
<1>3. arc_map_api(o, write) /\ loading' = FALSE /\ UNCHANGED removals
  BY DEF ArcMap
<1>4. at = arc_transaction_set(o)
  OBVIOUS
<1> HIDE DEF at
<1>5. CASE /\ arc_transaction_is_legal(at) /\ at.current_loc \in Resident
           /\ arc_commit_hit(at, o, write)
  <2>1. /\ o \in Blocks(pool)
        /\ Blocks(pool') = Blocks(pool) /\ MovingBlocks(pool') = MovingBlocks(pool)
        /\ result'.op = "HIT" /\ result'.old_oblock = Null
    BY <1>3, <1>4, <1>5, ArcHitStep
  <2> QED
    BY <1>1, <2>1 DEF Policy!Hit
<1>6. CASE /\ arc_transaction_is_legal(at) /\ at.current_loc \notin Resident
           /\ arc_commit_miss(at, o, write)
  <2>1. CASE MissIsFatal(at, o)
    BY <1>3, <1>4, <1>6, <2>1, ArcMissStep
  <2>2. CASE ~MissIsFatal(at, o) /\ at.cache_evict # None
    <3> DEFINE v == pool.oblock[Victim(at)]
    <3>1. /\ o \notin Blocks(pool)
          /\ MovingBlocks(pool') = MovingBlocks(pool) \cup {o}
          /\ Blocks(pool') = (Blocks(pool) \ {v}) \cup {o}
          /\ result'.op = "REPLACE" /\ result'.old_oblock = v
      BY <1>3, <1>4, <1>6, <2>2, ArcMissStep
    <3>2. v \in Blocks(pool) \ MovingBlocks(pool) /\ v \in Oblocks
      BY <1>4, <1>6, <2>2, VictimFacts
    <3>3. Cardinality(Blocks(pool)) = CacheSize
      BY <1>4, <2>2, <3>1, MissBounded, LengthFacts DEF MissIsBounded
    <3> HIDE DEF v
    <3>4. Policy!Replace(o, v)
      BY <1>1, <3>1, <3>2, <3>3, PolicyCardinality DEF Policy!Replace
    <3> QED
      BY <3>2, <3>4
  <2>3. CASE ~MissIsFatal(at, o) /\ at.cache_evict = None
    <3>1. /\ o \notin Blocks(pool) /\ ~cache_is_full(pool)
          /\ MovingBlocks(pool') = MovingBlocks(pool) \cup {o}
          /\ Blocks(pool') = Blocks(pool) \cup {o}
          /\ result'.op = "NEW" /\ result'.old_oblock = Null
      BY <1>3, <1>4, <1>6, <2>3, ArcMissStep
    <3>2. Cardinality(Blocks(pool)) < CacheSize
      BY <1>2, <3>1, BlocksCardinality
    <3>3. Policy!New(o)
      BY <1>1, <3>1, <3>2, PolicyCardinality DEF Policy!New
    <3> QED
      BY <3>3
  <2> QED
    BY <2>1, <2>2, <2>3
<1>7. CASE /\ ~arc_transaction_is_legal(at) /\ result' = OpOnly("FAIL", o)
           /\ UNCHANGED <<pool, loc, arc_q, length, p, stats, crashed>>
  <2>1. /\ o \notin Blocks(pool)
        /\ result'.op = "FAIL" /\ result'.old_oblock = Null
        /\ cache_is_full(pool) /\ pool.migrating # {}
    BY <1>3, <1>4, <1>7, ArcFailStep
  <2>2. Cardinality(Blocks(pool)) = CacheSize
    BY <1>2, <2>1, BlocksCardinality
  <2>3. MovingBlocks(pool) # {}
    BY <2>1 DEF MovingBlocks
  <2>4. Cached' = Cached /\ Inflight' = Inflight
    BY <1>1, <1>7
  <2> QED
    BY <1>1, <2>1, <2>2, <2>3, <2>4, PolicyCardinality DEF Policy!Fail
<1> QED
  BY <1>3, <1>4, <1>5, <1>6, <1>7, ArcMapCases

\* Without removals every step of ARC is a step of the policy, or one that no caller
\* sees.
LEMMA ArcNextRefines ==
  ArcInv /\ [ArcNext]_<<arcVars, loading, removals>> =>
    [removals = {} => Policy!PolicyNext \/ UNCHANGED Policy!policyVars]_arcVars
<1> SUFFICES ASSUME ArcInv, ArcNext, removals = {}
             PROVE  Policy!PolicyNext \/ UNCHANGED Policy!policyVars
  BY DEF arcVars
<1>1. /\ Cached = Blocks(pool) /\ Inflight = MovingBlocks(pool)
      /\ Cached' = Blocks(pool') /\ Inflight' = MovingBlocks(pool')
  BY ArcBlocks
<1>2. PoolSound(pool)
  BY DEF ArcInv
<1>3. ASSUME UNCHANGED <<pool, result>>
      PROVE  UNCHANGED Policy!policyVars
  BY <1>3 DEF Policy!policyVars, Cached, Inflight
<1>4. ASSUME NEW o \in Oblocks, NEW c \in Cblocks, ArcLoad(o, c)
      PROVE  Policy!PolicyNext
  <2>1. /\ ~cache_is_full(pool)
        /\ Blocks(pool') = Blocks(pool) \cup {o}
        /\ MovingBlocks(pool') = MovingBlocks(pool)
        /\ result' = NoResult
    BY <1>4, ArcLoadStep
  <2>2. Cardinality(Blocks(pool)) < CacheSize
    BY <1>2, <2>1, BlocksCardinality
  <2>3. o \notin Cached
    BY <1>4 DEF ArcLoad
  <2>4. Policy!Preload(o)
    BY <1>1, <2>1, <2>2, <2>3, ArcAnswer, PolicyCardinality DEF Policy!Preload
  <2> QED
    BY <2>4 DEF Policy!PolicyNext
<1>5. ASSUME NEW o \in Oblocks, NEW write \in Writes, ArcMap(o, write)
      PROVE  Policy!PolicyNext \/ UNCHANGED <<pool, result>>
  BY <1>5, ArcMapRefines, ArcAssumption DEF Policy!PolicyNext
<1>6. ASSUME NEW o \in Oblocks, NEW r \in BOOLEAN, ArcRemove(o, r)
      PROVE  FALSE
  BY <1>6 DEF ArcRemove
<1>7. ASSUME NEW o \in Oblocks, ArcMigrated(o)
      PROVE  Policy!PolicyNext
  <2>1. /\ Blocks(pool') = Blocks(pool)
        /\ MovingBlocks(pool') = MovingBlocks(pool) \ {o}
        /\ result' = NoResult
    BY <1>7, ArcMigratedStep
  <2>2. o \in Inflight
    BY <1>7 DEF ArcMigrated
  <2>3. Policy!Migrated(o)
    BY <1>1, <2>1, <2>2, ArcAnswer DEF Policy!Migrated
  <2> QED
    BY <2>3 DEF Policy!PolicyNext
<1>8. ASSUME NEW o \in Oblocks, NEW n \in Oblocks, ArcRemap(o, n)
      PROVE  Policy!PolicyNext
  <2>1. /\ Blocks(pool') = (Blocks(pool) \ {o}) \cup {n}
        /\ MovingBlocks(pool') =
             IF o \in MovingBlocks(pool) THEN (MovingBlocks(pool) \ {o}) \cup {n}
                                         ELSE MovingBlocks(pool)
        /\ result' = NoResult
    BY <1>8, ArcRemapStep
  <2>2. o \in Cached /\ n \notin Cached
    BY <1>8 DEF ArcRemap
  <2>3. Policy!Rename(o, n)
    BY <1>1, <2>1, <2>2, ArcAnswer DEF Policy!Rename
  <2> QED
    BY <2>3 DEF Policy!PolicyNext
<1> QED
  BY <1>3, <1>4, <1>5, <1>6, <1>7, <1>8 DEF ArcNext

\* ARC implements what every policy promises, as long as nothing is removed: it evicts
\* only from a full cache and never a block in flight, and it fails only from a full
\* cache while a block is in flight.
THEOREM ArcRefinesPolicy == ArcSpec => ArcImplementsPolicy
<1>1. ArcInv /\ [ArcNext]_<<arcVars, loading, removals>> =>
        [removals = {} => Policy!PolicyNext \/ UNCHANGED Policy!policyVars]_arcVars
  BY ArcNextRefines
<1> QED
  BY <1>1, ArcInitRefines, ArcAlways, PTL DEF ArcSpec, ArcImplementsPolicy

-----------------------------------------------------------------------------
(***************************************************************************)
(* What a request is announced to do.                                      *)
(***************************************************************************)

\* What ArcVictimAsAnnounced says of one step.
ArcAnswersSoundly ==
  removals = {} /\ result' # NoResult /\ ~crashed' =>
    LET announced == arc_next_victim_api(result'.oblock)
    IN  /\ result'.op = announced.op
        /\ result'.op = "REPLACE" =>
             /\ result'.old_oblock = pool.oblock[announced.victim]
             /\ result'.cblock = announced.victim

\* It holds of a request.
LEMMA ArcMapAnswer ==
  ASSUME ArcInv, NEW o \in Oblocks, NEW write \in BOOLEAN, ArcMap(o, write)
  PROVE  ArcAnswersSoundly
<1> DEFINE at == arc_transaction_set(o)
           a  == arc_next_victim_api(o)
<1>1. arc_map_api(o, write) /\ loading' = FALSE /\ UNCHANGED removals
  BY DEF ArcMap
<1>2. at = arc_transaction_set(o)
  OBVIOUS
<1>3. at.current_loc \in Resident => at.cache_evict = None
  BY TransactionFacts
<1>4. /\ ~arc_transaction_is_legal(at) => a = [op |-> "FAIL", victim |-> Null]
      /\ arc_transaction_is_legal(at) /\ at.current_loc \in Resident =>
           a = [op |-> "HIT", victim |-> Null]
      /\ arc_transaction_is_legal(at) /\ at.current_loc \notin Resident
           /\ at.cache_evict # None => a = [op |-> "REPLACE", victim |-> Victim(at)]
      /\ arc_transaction_is_legal(at) /\ at.current_loc \notin Resident
           /\ at.cache_evict = None => a = [op |-> "NEW", victim |-> Null]
  BY DEF arc_next_victim_api, Victim
<1>5. ASSUME result'.oblock = o, result'.op = a.op,
             a.op = "REPLACE" => /\ result'.old_oblock = pool.oblock[a.victim]
                                 /\ result'.cblock = a.victim
      PROVE  ArcAnswersSoundly
  BY <1>5 DEF ArcAnswersSoundly
<1> HIDE DEF at, a
<1>6. CASE /\ arc_transaction_is_legal(at) /\ at.current_loc \in Resident
           /\ arc_commit_hit(at, o, write)
  <2>1. result'.op = "HIT" /\ result'.oblock = o
    BY <1>1, <1>2, <1>6, ArcHitStep
  <2>2. a.op = "HIT"
    BY <1>4, <1>6
  <2> QED
    BY <1>5, <2>1, <2>2
<1>7. CASE /\ arc_transaction_is_legal(at) /\ at.current_loc \notin Resident
           /\ arc_commit_miss(at, o, write)
  <2>1. CASE MissIsFatal(at, o)
    <3>1. crashed' = TRUE
      BY <1>1, <1>2, <1>7, <2>1, ArcMissStep
    <3> QED
      BY <3>1 DEF ArcAnswersSoundly
  <2>2. CASE ~MissIsFatal(at, o) /\ at.cache_evict # None
    <3>1. /\ result'.oblock = o
          /\ result'.op = "REPLACE" /\ result'.cblock = Victim(at)
          /\ result'.old_oblock = pool.oblock[Victim(at)]
      BY <1>1, <1>2, <1>7, <2>2, ArcMissStep
    <3>2. a.op = "REPLACE" /\ a.victim = Victim(at)
      BY <1>4, <1>7, <2>2
    <3> QED
      BY <1>5, <3>1, <3>2
  <2>3. CASE ~MissIsFatal(at, o) /\ at.cache_evict = None
    <3>1. result'.oblock = o /\ result'.op = "NEW"
      BY <1>1, <1>2, <1>7, <2>3, ArcMissStep
    <3>2. a.op = "NEW"
      BY <1>4, <1>7, <2>3
    <3> QED
      BY <1>5, <3>1, <3>2
  <2> QED
    BY <2>1, <2>2, <2>3
<1>8. CASE /\ ~arc_transaction_is_legal(at) /\ result' = OpOnly("FAIL", o)
  <2>1. result'.op = "FAIL" /\ result'.oblock = o
    BY <1>8, OpOnlyType DEF Operations
  <2>2. a.op = "FAIL"
    BY <1>4, <1>8
  <2> QED
    BY <1>5, <2>1, <2>2
<1> QED
  BY <1>1, <1>2, <1>6, <1>7, <1>8, ArcMapCases

\* The other calls answer nothing.
LEMMA ArcNextAnswer ==
  ArcInv /\ [ArcNext]_<<arcVars, loading, removals>> => [ArcAnswersSoundly]_arcVars
<1> SUFFICES ASSUME ArcInv, ArcNext
             PROVE  ArcAnswersSoundly
  BY DEF arcVars
<1>1. ASSUME NEW o \in Oblocks, NEW write \in Writes, ArcMap(o, write)
      PROVE  ArcAnswersSoundly
  BY <1>1, ArcMapAnswer, ArcAssumption
<1>2. ASSUME result' = NoResult \/ removals # {}
      PROVE  ArcAnswersSoundly
  BY <1>2 DEF ArcAnswersSoundly
<1>3. ASSUME NEW o \in Oblocks, NEW r \in BOOLEAN, ArcRemove(o, r)
      PROVE  removals # {}
  BY <1>3 DEF ArcRemove
<1> QED
  BY <1>1, <1>2, <1>3, ArcLoadStep, ArcMigratedStep, ArcRemapStep DEF ArcNext

\* policy_next_victim announces what policy_map then does: the operation, and the
\* entry that it evicts.
THEOREM ArcVictim == ArcSpec => ArcVictimAsAnnounced
<1>1. ArcInv /\ [ArcNext]_<<arcVars, loading, removals>> =>
        [removals = {} /\ result' # NoResult /\ ~crashed' =>
           LET announced == arc_next_victim_api(result'.oblock)
           IN  /\ result'.op = announced.op
               /\ result'.op = "REPLACE" =>
                    /\ result'.old_oblock = pool.oblock[announced.victim]
                    /\ result'.cblock = announced.victim]_arcVars
  BY ArcNextAnswer DEF ArcAnswersSoundly
<1> QED
  BY <1>1, ArcAlways, PTL DEF ArcSpec, ArcVictimAsAnnounced
============================================================================
