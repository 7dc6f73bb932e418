------------------------------ MODULE NginxPool ------------------------------
(***************************************************************************)
(* The nginx-style region allocator of src/nginx_memory_pool.  A pool is a *)
(* list of equal-sized small blocks, each a SmallBlock header followed by  *)
(* memory handed out by bumping start; requests above kMaxAlloc are        *)
(* malloc'd and hung on the large_ list, whose headers are themselves     *)
(* carved from the small blocks.  Reset rewinds every block; the          *)
(* destructor frees everything.  The class takes no lock: one thread owns *)
(* a pool, so each call is one step.                                       *)
(*                                                                         *)
(* Memory is byte addresses.  malloc returns the lowest 16-aligned gap of *)
(* the heap [HeapBase, HeapBase + MaxHeap) that fits; the model chooses,  *)
(* per call, which malloc of that call (if any) returns nullptr.  The     *)
(* pointer difference p->end - m is cast to size_t, so it is taken modulo *)
(* Word.  The pool's state is a record so that the calls can be composed  *)
(* as the code composes them (AddCleanup calls AllocateSmall and          *)
(* Allocate, AllocateLarge calls AllocateSmall).                           *)
(***************************************************************************)
EXTENDS Integers, Sequences, SequencesExt, Bags

CONSTANTS
  Alignment,      \* kAlignment
  SmallHdr,       \* sizeof(SmallBlock)
  LargeHdr,       \* sizeof(LargeBlock)
  CleanupHdr,     \* sizeof(CleanupBlock)
  PoolObj,        \* sizeof(MemoryPool)
  MaxAlloc,       \* kMaxAlloc
  DefaultPoolSize,\* kDefaultPoolSize
  RequestedSize,  \* the size the owner passes to MemoryPool(size)
  Word,           \* 2^w: size_t values are taken modulo Word
  Sizes,          \* the sizes the owner passes to Allocate
  CleanupSizes,   \* the sizes the owner passes to AddCleanup
  MaxBlocks,      \* bound on the small blocks of a pool
  MaxLarge,       \* bound on the nodes of large_
  MaxFails,       \* bound on the mallocs that fail
  HeapBase,       \* the first address malloc may return
  MaxHeap         \* the size of the heap

VARIABLES
  alive,    \* the MemoryPool object exists
  blocks,   \* root_block_ and its next chain: [base, start, end, failed]
  current,  \* current_block_ as an index into blocks, 0 for nullptr
  size,     \* size_
  large,    \* large_ and its next chain: [hdr, alloc], alloc 0 for nullptr
  cleanup,  \* cleanup_ and its next chain: the CleanupBlock addresses
  regions,  \* the live malloc'd regions [base, len]
  fails,    \* mallocs that have failed
  carved,   \* history: the bag of pieces [a, len] small allocation handed
            \* out since the pool was built or last Reset
  held      \* the large allocations the owner holds

vars == <<alive, blocks, current, size, large, cleanup, regions, fails, carved, held>>

(* The pool as a record; fail is the position, among the mallocs the call *)
(* still makes, of the one that returns nullptr (0: none does).            *)
P(f) == [blocks |-> blocks, current |-> current, size |-> size, large |-> large,
         cleanup |-> cleanup, regions |-> regions, fails |-> fails,
         carved |-> carved, fail |-> f]

SetPool(p) ==
  /\ blocks' = p.blocks
  /\ current' = p.current
  /\ size' = p.size
  /\ large' = p.large
  /\ cleanup' = p.cleanup
  /\ regions' = p.regions
  /\ fails' = p.fails
  /\ carved' = p.carved

-----------------------------------------------------------------------------
AlignSize(n, a) == ((n + a - 1) \div a) * a

AlignPtr(m) == AlignSize(m, Alignment)

MinPoolSize == AlignSize(PoolObj + 2 * LargeHdr, Alignment)

HeapEnd == HeapBase + MaxHeap

(* Where malloc(len) puts its region: the lowest aligned gap that fits,   *)
(* or HeapEnd when none does (a step that needs it is out of the heap).   *)
Base(p, len) ==
  LET gaps == {x \in HeapBase..HeapEnd - len :
                 /\ x % Alignment = 0
                 /\ \A r \in p.regions : x + len <= r.base \/ r.base + r.len <= x}
  IN  IF gaps = {} THEN HeapEnd ELSE Min(gaps)

(* malloc(len): [pool, ret], ret = 0 when this is the malloc that fails. *)
Malloc(p, len) ==
  IF p.fail = 1
    THEN [pool |-> [p EXCEPT !.fail = 0, !.fails = @ + 1], ret |-> 0]
    ELSE [pool |-> [p EXCEPT !.fail = IF @ > 1 THEN @ - 1 ELSE 0,
                             !.regions = @ \cup {[base |-> Base(p, len), len |-> len]}],
          ret |-> Base(p, len)]

Free(p, a) == [p EXCEPT !.regions = {r \in @ : r.base # a}]

Carve(p, a, len) == [p EXCEPT !.carved = @ (+) SetToBag({[a |-> a, len |-> len]})]

(* The ctor: size is clamped to [MinPoolSize(), kDefaultPoolSize] and one *)
(* block of that size is malloc'd; size 0 or a failed malloc leave        *)
(* root_block_ nullptr and size_ 0.                                        *)
Construct(p) ==
  LET n == Min({Max({RequestedSize, MinPoolSize}), DefaultPoolSize})
      r == Malloc(p, n)
  IN  IF RequestedSize = 0 \/ r.ret = 0
        THEN [r.pool EXCEPT !.blocks = <<>>, !.current = 0, !.size = 0]
        ELSE [r.pool EXCEPT !.blocks = <<[base |-> r.ret, start |-> r.ret + SmallHdr,
                                          end |-> r.ret + n, failed |-> 0]>>,
                            !.current = 1, !.size = n, !.large = <<>>, !.cleanup = <<>>]

(* Mutant: current_block_ is left pointing at a freed block. *)
DestoryPoolKeepCurrent(p) ==
  [p EXCEPT !.regions = @ \ ({r \in @ : \E l \in Range(p.large) : l.alloc = r.base}
                             \cup {r \in @ : \E b \in Range(p.blocks) : b.base = r.base}),
            !.blocks = <<>>, !.cleanup = <<>>, !.large = <<>>, !.carved = EmptyBag]

(* DestoryPool: the cleanup handlers (all nullptr here), free every      *)
(* non-null large alloc, free every block.                                 *)
DestoryPool(p) ==
  [p EXCEPT !.regions = @ \ ({r \in @ : \E l \in Range(p.large) : l.alloc = r.base}
                             \cup {r \in @ : \E b \in Range(p.blocks) : b.base = r.base}),
            !.blocks = <<>>, !.current = 0, !.cleanup = <<>>, !.large = <<>>,
            !.carved = EmptyBag]

(* Mutant: the block is freed but its node keeps the pointer. *)
LargeFreeKeepAlloc(p, a) == Free(p, a)

LargeFree(p, a) ==
  [Free(p, a) EXCEPT !.large = [i \in DOMAIN @ |->
                                  IF @[i].alloc = a THEN [@[i] EXCEPT !.alloc = 0] ELSE @[i]]]

Reset(p) ==
  [p EXCEPT !.regions = @ \ {r \in @ : \E l \in Range(p.large) : l.alloc = r.base},
            !.blocks = [i \in DOMAIN @ |-> [@[i] EXCEPT !.start = p.blocks[i].base + SmallHdr,
                                                        !.failed = 0]],
            !.current = 1, !.cleanup = <<>>, !.large = <<>>, !.carved = EmptyBag]

(* AllocateSmallBlock: a new block of size_; the blocks from current_block_ *)
(* on count a failure; current_block_ moves past a block whose count was  *)
(* above 4, and to the new block when the last one's count goes above 4.  *)
AllocateSmallBlock(p, n) ==
  LET r == Malloc(p, p.size)
      m == AlignPtr(r.ret + SmallHdr)
      last == Len(p.blocks)
      skip == {i \in p.current..last - 1 : p.blocks[i].failed > 4}
                \cup {i \in {last} : p.blocks[i].failed + 1 > 4}
      new == [base |-> r.ret, start |-> m + n, end |-> r.ret + p.size, failed |-> 0]
  IN  IF r.ret = 0 THEN r
      ELSE [pool |-> Carve([r.pool EXCEPT
                             !.blocks = [i \in DOMAIN @ |->
                                           IF i >= p.current THEN [@[i] EXCEPT !.failed = @ + 1]
                                                             ELSE @[i]] \o <<new>>,
                             !.current = IF skip = {} THEN @ ELSE Max(skip) + 1],
                           m, n),
            ret |-> m]

(* AllocateSmall(size, true): the first block from current_block_ whose    *)
(* aligned start leaves (size_t)(end - m) >= size bytes.                   *)
AllocateSmall(p, n) ==
  LET M(i) == AlignPtr(p.blocks[i].start)
      fit == {i \in p.current..Len(p.blocks) : (p.blocks[i].end - M(i)) % Word >= n}
      i == Min(fit)
  IN  IF fit = {} THEN AllocateSmallBlock(p, n)
      ELSE [pool |-> Carve([p EXCEPT !.blocks[i].start = M(i) + n], M(i), n), ret |-> M(i)]

(* AllocateLarge: malloc, then reuse a null alloc among the first five    *)
(* nodes of large_, else push a new LargeBlock carved by AllocateSmall    *)
(* (freeing the malloc'd memory when that fails).                          *)
AllocateLarge(p, n) ==
  LET r == Malloc(p, n)
      reuse == {i \in 1..Min({Len(p.large), 5}) : p.large[i].alloc = 0}
      h == AllocateSmall(r.pool, LargeHdr)
  IN  CASE r.ret = 0 -> r
        [] reuse # {} -> [pool |-> [r.pool EXCEPT !.large[Min(reuse)].alloc = r.ret],
                          ret |-> r.ret]
        [] h.ret = 0 -> [pool |-> Free(h.pool, r.ret), ret |-> 0]
        [] OTHER -> [pool |-> [h.pool EXCEPT !.large = <<[hdr |-> h.ret, alloc |-> r.ret]>> \o @],
                     ret |-> r.ret]

Allocate(p, n) == IF n <= MaxAlloc THEN AllocateSmall(p, n) ELSE AllocateLarge(p, n)

(* AddCleanup(size): a CleanupBlock from the small blocks, then its data  *)
(* from Allocate when size > 0; a failure of either returns nullptr, the  *)
(* node not yet linked.                                                    *)
AddCleanup(p, n) ==
  LET c == AllocateSmall(p, CleanupHdr)
      d == IF n > 0 THEN Allocate(c.pool, n) ELSE [pool |-> c.pool, ret |-> 0]
  IN  CASE c.ret = 0 -> c
        [] n > 0 /\ d.ret = 0 -> [pool |-> d.pool, ret |-> 0]
        [] OTHER -> [pool |-> [d.pool EXCEPT !.cleanup = <<c.ret>> \o @],
                     ret |-> c.ret, data |-> d.ret]

-----------------------------------------------------------------------------
(* Before the owner constructs a pool. *)
Init ==
  /\ alive = FALSE
  /\ blocks = <<>>
  /\ current = 0
  /\ size = 0
  /\ large = <<>>
  /\ cleanup = <<>>
  /\ regions = {}
  /\ fails = 0
  /\ carved = EmptyBag
  /\ held = {}

(* Every step stays within the bounds of the model. *)
Within(p) ==
  /\ p.fails <= MaxFails
  /\ Len(p.blocks) <= MaxBlocks
  /\ Len(p.large) <= MaxLarge
  /\ \A r \in p.regions : r.base + r.len <= HeapEnd

Built == alive /\ blocks # <<>>

Create ==
  /\ ~alive
  /\ \E f \in 0..1 :
       /\ Within(Construct(P(f)))
       /\ SetPool(Construct(P(f)))
  /\ alive' = TRUE
  /\ UNCHANGED held

(* The owner calls Allocate; a pool whose ctor left root_block_ nullptr   *)
(* cannot serve one (AllocateSmall would dereference current_block_).     *)
OwnerAllocate ==
  /\ Built
  /\ \E n \in Sizes, f \in 0..2 :
       LET r == Allocate(P(f), n)
       IN  /\ Within(r.pool)
           /\ SetPool(r.pool)
           /\ held' = IF n > MaxAlloc /\ r.ret # 0 THEN held \cup {r.ret} ELSE held
  /\ UNCHANGED alive

OwnerAddCleanup ==
  /\ Built
  /\ \E n \in CleanupSizes, f \in 0..2 :
       LET r == AddCleanup(P(f), n)
       IN  /\ Within(r.pool)
           /\ SetPool(r.pool)
           /\ held' = IF n > MaxAlloc /\ r.ret # 0 THEN held \cup {r.data} ELSE held
  /\ UNCHANGED alive

OwnerLargeFree ==
  /\ Built
  /\ \E a \in held :
       /\ SetPool(LargeFree(P(0), a))
       /\ held' = held \ {a}
  /\ UNCHANGED alive

OwnerReset ==
  /\ Built
  /\ SetPool(Reset(P(0)))
  /\ held' = {}
  /\ UNCHANGED alive

Destroy ==
  /\ alive
  /\ SetPool(DestoryPool(P(0)))
  /\ alive' = FALSE
  /\ held' = {}

Next == Create \/ OwnerAllocate \/ OwnerAddCleanup \/ OwnerLargeFree \/ OwnerReset \/ Destroy

Spec == Init /\ [][Next]_vars

-----------------------------------------------------------------------------
TypeOK ==
  /\ alive \in BOOLEAN
  /\ blocks \in Seq([base : Nat, start : Nat, end : Nat, failed : Nat])
  /\ current \in 0..Len(blocks)
  /\ large \in Seq([hdr : Nat, alloc : Nat])
  /\ cleanup \in Seq(Nat)
  /\ fails \in 0..MaxFails
  /\ held \subseteq Nat

(* Every piece AllocateSmall handed out since the last Reset (the owner's *)
(* blocks and the LargeBlock and CleanupBlock headers) lies inside the    *)
(* data part of one small block, below its start, and no two overlap:     *)
(* the size_t check of AllocateSmall and the new block's start in         *)
(* AllocateSmallBlock never hand out memory past a block's end.            *)
SmallInBounds ==
  /\ \A c \in BagToSet(carved) :
       /\ CopiesIn(c, carved) = 1
       /\ \E b \in Range(blocks) :
            b.base + SmallHdr <= c.a /\ c.a + c.len <= b.start /\ b.start <= b.end
  /\ \A c, d \in BagToSet(carved) : c # d => c.a + c.len <= d.a \/ d.a + d.len <= c.a

(* Nothing malloc'd is lost or freed twice: every live region is a small  *)
(* block or a large allocation the owner still holds, and the non-null    *)
(* allocs of large_ are exactly those, each in one node: LargeFree,       *)
(* reuse of a freed node, a failed header allocation, Reset and the       *)
(* destructor keep large_ and the heap in step.                            *)
LargeAccounting ==
  /\ \A r \in regions : (\E b \in Range(blocks) : b.base = r.base) \/ r.base \in held
  /\ held = {l.alloc : l \in Range(large)} \ {0}
  /\ held \subseteq {r.base : r \in regions}
  /\ \A j, k \in DOMAIN large : j # k /\ large[j].alloc # 0 => large[j].alloc # large[k].alloc
====
