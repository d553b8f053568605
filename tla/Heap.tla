-------------------------------- MODULE Heap -------------------------------
(***************************************************************************)
(* The binary min-heap (include/tools/heap.h): an array of items that know *)
(* their own index, here a sequence (item i of the array is h[i + 1]).     *)
(* Items are compared by a function that the user of the heap supplies.    *)
(***************************************************************************)
EXTENDS Integers, SequencesExt

CONSTANT compare(_, _)   \* negative if its first argument goes before the second

heap_parent(i) == i \div 2
heap_left(i)   == 2 * i
heap_right(i)  == 2 * i + 1

heap_swap(h, i, j) == [h EXCEPT ![i] = h[j], ![j] = h[i]]

\* Item i moves up until its parent does not go after it.
RECURSIVE heap_decrease_key(_, _)
heap_decrease_key(h, i) ==
  IF i > 1 /\ compare(h[i], h[heap_parent(i)]) < 0
    THEN heap_decrease_key(heap_swap(h, i, heap_parent(i)), heap_parent(i))
    ELSE h

heap_insert(h, x) == heap_decrease_key(Append(h, x), Len(h) + 1)

\* The first of item i and its children, in the order in which they are compared.
heap_first(h, i) ==
  LET l == heap_left(i)
      r == heap_right(i)
      m == IF l <= Len(h) /\ compare(h[l], h[i]) < 0 THEN l ELSE i
  IN  IF r <= Len(h) /\ compare(h[r], h[m]) < 0 THEN r ELSE m

\* Item i moves down until no child goes before it.
RECURSIVE heapify(_, _)
heapify(h, i) ==
  IF i > Len(h) \/ heap_first(h, i) = i
    THEN h
    ELSE heapify(heap_swap(h, i, heap_first(h, i)), heap_first(h, i))

\* Fault: the item that fills the gap only ever moves down.
heap_delete_down(h, i) ==
  LET rest == Front([h EXCEPT ![i] = Last(h)])
  IN  heapify(rest, i)

\* The last item fills the gap, and moves up or down from there.
heap_delete(h, i) ==
  LET rest == Front([h EXCEPT ![i] = Last(h)])
  IN  IF compare(Last(h), h[i]) < 0
        THEN heap_decrease_key(rest, i)
        ELSE heapify(rest, i)

heap_min(h) == Head(h)
============================================================================
