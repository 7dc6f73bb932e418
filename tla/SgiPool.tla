------------------------------- MODULE SgiPool ------------------------------
(***************************************************************************)
(* The SGI-style second-level allocator of src/sgi_memory_pool: free lists *)
(* of Align-sized classes up to MaxBytes, refilled NObjs nodes at a time   *)
(* by Refill/AllocChunk from the chunk [start_free_, end_free_), which is  *)
(* itself refilled by malloc.  Larger requests go to malloc/free.  Every   *)
(* call holds mtx_ for all its work (or needs no lock at all), so each     *)
(* call is one step; a client holds the blocks it was given and hands     *)
(* them back, with their sizes, to Deallocate and Reallocate.              *)
(*                                                                         *)
(* Memory is byte addresses.  malloc returns the lowest free gap of the   *)
(* heap [HeapBase, HeapBase + MaxHeap) that fits, or fails (returns 0)    *)
(* while the failure budget lasts.  The pool's state is *)
(* a record so that AllocChunk, which calls itself, can be an operator.   *)
(***************************************************************************)
EXTENDS Naturals, Sequences, SequencesExt

CONSTANTS
  Align,      \* kAlign
  MaxBytes,   \* kMaxBytes
  NObjs,      \* the nobjs = 20 Refill asks AllocChunk for
  Sizes,      \* the sizes clients ask for
  MaxHeld,    \* bound on the blocks the client holds
  MaxFails,   \* bound on the mallocs that fail
  HeapBase,   \* the first address malloc returns
  MaxHeap     \* the size of the heap malloc hands regions out of

NLists == MaxBytes \div Align

VARIABLES
  freeList,   \* free_list_: class index -> node addresses, head first
  startFree,  \* start_free_
  endFree,    \* end_free_
  heapSize,   \* heap_size_
  regions,    \* the live malloc'd regions [base, len]
  fails,      \* mallocs that have failed
  held        \* the client's blocks [addr, n], in the order it got them

vars == <<freeList, startFree, endFree, heapSize, regions, fails, held>>

P == [fl |-> freeList, start |-> startFree, end |-> endFree, heap |-> heapSize,
      regions |-> regions, fails |-> fails]

SetPool(p) ==
  /\ freeList' = p.fl
  /\ startFree' = p.start
  /\ endFree' = p.end
  /\ heapSize' = p.heap
  /\ regions' = p.regions
  /\ fails' = p.fails

-----------------------------------------------------------------------------
RoundUp(bytes) == ((bytes + Align - 1) \div Align) * Align

FreelistIndex(bytes) == (bytes + Align - 1) \div Align - 1

HeapEnd == HeapBase + MaxHeap

(* Where malloc(len) puts its region: the lowest gap that fits, or HeapEnd *)
(* when none does (a step that needs it is then out of the model's heap). *)
Base(p, len) ==
  LET gaps == {x \in HeapBase..HeapEnd - len :
                 \A r \in p.regions : x + len <= r.base \/ r.base + r.len <= x}
  IN  IF gaps = {} THEN HeapEnd ELSE Min(gaps)

(* malloc(len) that succeeds. *)
Malloc(p, len) ==
  [p EXCEPT !.regions = @ \cup {[base |-> Base(p, len), len |-> len]}]

(* malloc(len) for a client: f > 0 makes it fail. *)
MallocOrNull(p, len, f) ==
  IF f > 0 THEN [pool |-> [p EXCEPT !.fails = @ + 1], ret |-> 0]
           ELSE [pool |-> Malloc(p, len), ret |-> Base(p, len)]

(* AllocChunk(size, nobjs): the chunk, and how many nodes it holds.  f is  *)
(* how many of the mallocs this call makes fail.  After a failed malloc   *)
(* the chunk is taken from the first non-empty free list of a class >=   *)
(* size; if there is none, malloc is called once more and, if that fails  *)
(* too, start_free_ is nullptr while end_free_ = bytes_to_get.            *)
(* Mutant: the "at least one node" branch hands out all nobjs nodes. *)
ChunkNobjsAll(p, size, nobjs) == nobjs

(* How many nodes the chunk gives when it holds at least one. *)
ChunkNobjs(p, size, nobjs) ==
  IF p.end - p.start >= size * nobjs THEN nobjs ELSE (p.end - p.start) \div size

RECURSIVE AllocChunk(_, _, _, _)
AllocChunk(p, size, nobjs, f) ==
  LET total == size * nobjs
      left == p.end - p.start
      p1 == IF left > 0 THEN [p EXCEPT !.fl[FreelistIndex(left)] = <<p.start>> \o @]
                        ELSE p
      get == 2 * total + RoundUp(p.heap \div 16)
      Got(q, base) == [q EXCEPT !.start = base, !.end = base + get, !.heap = @ + get]
      larger == {i \in size..MaxBytes : i % Align = 0 /\ p1.fl[FreelistIndex(i)] # <<>>}
      i == Min(larger)
      node == Head(p1.fl[FreelistIndex(i)])
      failed == [p1 EXCEPT !.fails = @ + 1]
      n == ChunkNobjs(p, size, nobjs)
  IN  CASE left >= size ->
             [pool |-> [p EXCEPT !.start = @ + n * size], chunk |-> p.start, nobjs |-> n]
        [] f = 0 -> AllocChunk(Got(Malloc(p1, get), Base(p1, get)), size, nobjs, 0)
        [] larger # {} ->
             AllocChunk([failed EXCEPT !.fl[FreelistIndex(i)] = Tail(@),
                                       !.start = node, !.end = node + i],
                        size, nobjs, 0)
        [] f = 1 -> AllocChunk(Got(Malloc(failed, get), Base(failed, get)), size, nobjs, 0)
        [] OTHER -> AllocChunk(Got([failed EXCEPT !.fails = @ + 1], 0), size, nobjs, 0)

(* Mutant: the free list starts at the node Refill returns. *)
RefillFromChunk(p, n, f) ==
  LET r == AllocChunk(p, n, NObjs, f)
  IN  [pool |-> [r.pool EXCEPT !.fl[FreelistIndex(n)] =
                   [k \in 1..r.nobjs - 1 |-> r.chunk + (k - 1) * n]],
       ret |-> r.chunk]

(* Refill(n): the first node is returned, the others become free list n. *)
Refill(p, n, f) ==
  LET r == AllocChunk(p, n, NObjs, f)
  IN  IF r.nobjs = 1
        THEN [pool |-> r.pool, ret |-> r.chunk]
        ELSE [pool |-> [r.pool EXCEPT !.fl[FreelistIndex(n)] =
                          [k \in 1..r.nobjs - 1 |-> r.chunk + k * n]],
              ret |-> r.chunk]

Allocate(p, n, f) ==
  IF n > MaxBytes
    THEN MallocOrNull(p, n, f)
    ELSE LET l == p.fl[FreelistIndex(n)]
         IN  IF l = <<>>
               THEN Refill(p, RoundUp(n), f)
               ELSE [pool |-> [p EXCEPT !.fl[FreelistIndex(n)] = Tail(l)], ret |-> Head(l)]

(* Mutant: a block of the first-level allocator is never freed. *)
DeallocateNoFree(p, a, n) ==
  CASE a = 0 \/ n = 0 \/ n > MaxBytes -> p
    [] OTHER -> [p EXCEPT !.fl[FreelistIndex(n)] = <<a>> \o @]

Deallocate(p, a, n) ==
  CASE a = 0 \/ n = 0 -> p
    [] n > MaxBytes -> [p EXCEPT !.regions = {r \in @ : r.base # a}]
    [] OTHER -> [p EXCEPT !.fl[FreelistIndex(n)] = <<a>> \o @]

(* realloc of a large block moves it to a new region (or fails and keeps  *)
(* it); a small block changes class through Allocate, memcpy, Deallocate. *)
Reallocate(p, a, old, new, f) ==
  CASE old > MaxBytes /\ new > MaxBytes ->
         IF f > 0 THEN [pool |-> [p EXCEPT !.fails = @ + 1], ret |-> 0]
                  ELSE [pool |-> Deallocate(Malloc(p, new), a, old), ret |-> Base(p, new)]
    [] RoundUp(old) = RoundUp(new) -> [pool |-> p, ret |-> a]
    [] OTHER ->
         LET r == Allocate(p, new, f)
         IN  IF r.ret = 0 THEN r ELSE [pool |-> Deallocate(r.pool, a, old), ret |-> r.ret]

-----------------------------------------------------------------------------
(* The static initialisers: empty free lists, no chunk, no heap. *)
Init ==
  /\ freeList = [i \in 0..NLists - 1 |-> <<>>]
  /\ startFree = 0
  /\ endFree = 0
  /\ heapSize = 0
  /\ regions = {}
  /\ fails = 0
  /\ held = <<>>

Within(p) == p.fails <= MaxFails /\ \A r \in p.regions : r.base + r.len <= HeapEnd

ClientAllocate ==
  /\ Len(held) < MaxHeld
  /\ \E n \in Sizes, f \in 0..2 :
       LET r == Allocate(P, n, f)
       IN  /\ Within(r.pool)
           /\ SetPool(r.pool)
           /\ held' = IF r.ret = 0 THEN held ELSE Append(held, [addr |-> r.ret, n |-> n])

ClientDeallocate ==
  \E i \in DOMAIN held :
    /\ SetPool(Deallocate(P, held[i].addr, held[i].n))
    /\ held' = [k \in 1..Len(held) - 1 |-> IF k < i THEN held[k] ELSE held[k + 1]]

ClientReallocate ==
  \E i \in DOMAIN held, new \in Sizes, f \in 0..2 :
    LET r == Reallocate(P, held[i].addr, held[i].n, new, f)
    IN  /\ Within(r.pool)
        /\ SetPool(r.pool)
        /\ held' = IF r.ret = 0 THEN held ELSE [held EXCEPT ![i] = [addr |-> r.ret, n |-> new]]

Next == ClientAllocate \/ ClientDeallocate \/ ClientReallocate

Spec == Init /\ [][Next]_vars

-----------------------------------------------------------------------------
TypeOK ==
  /\ freeList \in [0..NLists - 1 -> Seq(Nat)]
  /\ startFree \in Nat /\ endFree \in Nat /\ startFree <= endFree
  /\ heapSize \in Nat /\ fails \in 0..MaxFails
  /\ held \in Seq([addr : Nat, n : Sizes])

(* The pieces the pool's memory is in: the client's blocks (a small block *)
(* takes RoundUp(n) bytes), the nodes of every free list, and the chunk.  *)
Pieces ==
  [k \in 1..Len(held) |->
     [a |-> held[k].addr,
      len |-> IF held[k].n > MaxBytes THEN held[k].n ELSE RoundUp(held[k].n)]]
  \o FlattenSeq([i \in 1..NLists |->
                   [k \in 1..Len(freeList[i - 1]) |-> [a |-> freeList[i - 1][k], len |-> i * Align]]])
  \o (IF endFree > startFree THEN <<[a |-> startFree, len |-> endFree - startFree]>> ELSE <<>>)

Disjoint(x, y) == x.a + x.len <= y.a \/ y.a + y.len <= x.a

(* No byte is in two places: across any sequence of allocations, frees,   *)
(* reallocations, refills that carve a chunk into a free list, leftovers  *)
(* pushed onto a smaller list and chunks taken from a larger list after a *)
(* failed malloc, the client's blocks, the free nodes and the chunk never *)
(* overlap, and all of them lie in memory malloc returned and not freed.  *)
NoOverlap ==
  /\ \A j, k \in DOMAIN Pieces : j # k => Disjoint(Pieces[j], Pieces[k])
  /\ \A j \in DOMAIN Pieces :
       \E r \in regions : r.base <= Pieces[j].a /\ Pieces[j].a + Pieces[j].len <= r.base + r.len

(* No byte is lost: the pieces add up to every live malloc'd region, so   *)
(* the leftover AllocChunk cannot use and every freed block are kept.     *)
NoLeak ==
  FoldSeq(LAMBDA x, acc : x.len + acc, 0, Pieces)
    = FoldSet(LAMBDA r, acc : r.len + acc, 0, regions)
=============================================================================
