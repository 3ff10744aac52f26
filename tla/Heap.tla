-------------------------------- MODULE Heap --------------------------------
(***************************************************************************)
(* tj_malloc.h: the allocator of the test programs, a circular list of     *)
(* free blocks over a static array that is handed out from its start.      *)
(*                                                                         *)
(* A block is a header of HEADER bytes and, behind it, size bytes; it is   *)
(* named by the address of its header.  Sizes are unsigned and pointers    *)
(* are added to as C does, in units of headers, both modulo WRAP.  What    *)
(* the program writes into its blocks is not modelled: it cannot matter    *)
(* while blocks do not overlap.                                            *)
(***************************************************************************)
EXTENDS Integers

CONSTANTS
  HEADER,      \* sizeof(Header)
  HEAP_SIZE,   \* bytes of the array
  WRAP,        \* 2^32 on the core
  Anchors,     \* where the linker may put base: anywhere off the array
  Programs     \* which sizes a program asks for, and whether it frees

NULL == 0
ARENA == 2 * HEADER    \* address of the array, with room for base below

HeapAssumption ==
  /\ HEADER \in Nat \ {0}
  /\ HEAP_SIZE \in Nat
  /\ WRAP \in Nat
  /\ (HEADER + 1) * HEAP_SIZE + 4 * HEADER < WRAP
  /\ \A x \in Anchors : /\ x \in 1..(WRAP - HEADER)
                        /\ x + HEADER <= ARENA \/ ARENA + HEAP_SIZE <= x
  /\ Programs \subseteq [sizes : SUBSET (Nat \ {0}), frees : BOOLEAN]

VARIABLES
  program,     \* the program that runs
  anchor,      \* address of base, the header that starts the list
  nxt,         \* next field of the headers on the free list
  size,        \* size field of the headers, in use or on the list
  freep,       \* where the next search starts; NULL before the first
  next_index,  \* first byte never handed out
  live         \* the blocks the program holds

heap_vars == <<program, anchor, nxt, size, freep, next_index, live>>
heap == [nxt |-> nxt, size |-> size, freep |-> freep, next_index |-> next_index]

Set(f, x, v) == [y \in DOMAIN f \cup {x} |-> IF y = x THEN v ELSE f[y]]
Drop(f, x) == [y \in DOMAIN f \ {x} |-> f[y]]

\* p + n for a header pointer p.
Plus(p, n) == (p + HEADER * n) % WRAP

\* Mutant: what was handed out is not subtracted.
avail_mem_Whole(h) == HEAP_SIZE

avail_mem(h) == HEAP_SIZE - (h.next_index - ARENA)

-----------------------------------------------------------------------------
(* tj_free. *)

\* Where bp belongs behind p: between p and the next block, or at the end of
\* the circle where the addresses start again.
Between(h, p, bp) ==
  \/ bp > p /\ bp < h.nxt[p]
  \/ p >= h.nxt[p] /\ (bp > p \/ bp < h.nxt[p])

\* The list leads from header p to header q by way of headers in S only.
Leads(h, p, S, q) == p \in S \cup {q} /\ \A r \in S : h.nxt[r] \in S \cup {q}

\* The first place from freep on that is right for bp.
Scan(h, bp) ==
  CHOOSE p \in DOMAIN h.nxt :
    /\ Between(h, p, bp)
    /\ \E S \in SUBSET {q \in DOMAIN h.nxt : ~Between(h, q, bp)} : Leads(h, h.freep, S, p)

\* Mutant: the block is put on the list in front of the one behind it, which
\* is forgotten.
JoinUpper_Forgets(h, bp, n) ==
  [h EXCEPT !.nxt = Set(@, bp, h.nxt[n])]

\* Join to the upper neighbour n, or point to it.  n may be base, which is
\* then off the list unless it is p too; a header that is joined stays in
\* memory.
JoinUpper(h, bp, n) ==
  IF Plus(bp, h.size[bp]) = n
  THEN [h EXCEPT !.size = Set(@, bp, (@[bp] + @[n]) % WRAP),
                 !.nxt = Drop(Set(@, bp, @[n]), n)]
  ELSE [h EXCEPT !.nxt = Set(@, bp, n)]

\* Join to the lower neighbour p, or be pointed to by it.
JoinLower(h, p, bp) ==
  IF Plus(p, h.size[p]) = bp
  THEN [h EXCEPT !.size = Set(@, p, (@[p] + @[bp]) % WRAP),
                 !.nxt = Drop(Set(@, p, @[bp]), bp)]
  ELSE [h EXCEPT !.nxt = Set(@, p, bp)]

Freed(h, bp) ==
  LET p == Scan(h, bp)
  IN  [JoinLower(JoinUpper(h, bp, h.nxt[p]), p, bp) EXCEPT !.freep = p]

-----------------------------------------------------------------------------
(* tj_malloc. *)

\* A new block from the array, put on the free list first.
getmoremem(h, total) ==
  Freed([h EXCEPT !.next_index = @ + total,
                  !.size = Set(@, h.next_index, total - HEADER)], h.next_index)

\* The first block from behind freep to freep that is large enough, with the
\* one in front of it; nothing when there is none.
Fit(h, sz) ==
  LET small == {q \in DOMAIN h.nxt : h.size[h.nxt[q]] < sz /\ h.nxt[q] # h.freep}
  IN  {<<prevp, h.nxt[prevp]>> : prevp \in
         {q \in DOMAIN h.nxt : h.size[h.nxt[q]] >= sz /\ \E S \in SUBSET small : Leads(h, h.freep, S, q)}}

\* Takes p, or the end of it as C computes that, off the list.  A block that
\* is alone on the list stays there.
Carve(h, prevp, p, sz) ==
  IF h.size[p] = sz
  THEN [block |-> p,
        heap |-> [h EXCEPT !.nxt = IF p = prevp THEN @ ELSE Drop(Set(@, prevp, @[p]), p),
                          !.freep = prevp]]
  ELSE LET rest == (h.size[p] - (sz + HEADER)) % WRAP
           q == Plus(p, rest)
       IN  [block |-> q, heap |-> [h EXCEPT !.size = Set(Set(@, p, rest), q, sz), !.freep = prevp]]

Round(sz) == IF sz % 4 = 0 THEN sz ELSE (sz + 4) - (sz % 4)

\* The list before the first call: the anchor alone.
Started(h) ==
  IF h.freep # NULL THEN h
  ELSE [h EXCEPT !.freep = anchor, !.nxt = Set(@, anchor, anchor), !.size = Set(@, anchor, 0)]

Taken(h, sz) ==
  LET total == sz + HEADER
      more == IF Fit(h, sz) # {} \/ avail_mem(h) < total THEN h ELSE getmoremem(h, total)
      found == Fit(more, sz)
  IN  IF found = {} THEN [block |-> NULL, heap |-> more]
      ELSE LET f == CHOOSE f \in found : TRUE IN Carve(more, f[1], f[2], sz)

-----------------------------------------------------------------------------
Install(h) == nxt' = h.nxt /\ size' = h.size /\ freep' = h.freep /\ next_index' = h.next_index

HeapInit ==
  /\ program \in Programs
  /\ anchor \in Anchors
  /\ nxt = [x \in {} |-> NULL] /\ size = [x \in {} |-> 0]
  /\ freep = NULL /\ next_index = ARENA /\ live = {}

\* A call that finds no room returns NULL.
tj_malloc ==
  /\ \E sz \in program.sizes :
       LET r == Taken(Started(heap), Round(sz))
       IN  Install(r.heap) /\ live' = live \cup ({r.block} \ {NULL})
  /\ UNCHANGED <<program, anchor>>

tj_free ==
  /\ program.frees
  /\ \E bp \in live : Install(Freed(heap, bp)) /\ live' = live \ {bp}
  /\ UNCHANGED <<program, anchor>>

HeapNext == tj_malloc \/ tj_free
HeapSpec == HeapInit /\ [][HeapNext]_heap_vars

-----------------------------------------------------------------------------
(* Properties. *)

Free == DOMAIN nxt \ {anchor}
Blocks == live \cup Free

\* The headers the allocator keeps, and where its pointers may point.
HeapTypeOK ==
  /\ freep \in {NULL} \cup DOMAIN nxt
  /\ \A p \in DOMAIN nxt : nxt[p] \in DOMAIN nxt
  /\ Blocks \subseteq DOMAIN size
  /\ next_index \in ARENA..(ARENA + HEAP_SIZE)

Bytes(p) == p..(p + HEADER + size[p] - 1)

\* The array up to next_index is divided among the blocks the program holds
\* and the free ones: none overlaps another, none is lost, and a block on the
\* list is not in use.  The sizes decide it: a merge looks 8 * size bytes
\* ahead, where blocks of the programs' sizes never start, nor does base.  The list is one
\* circle in the order of the addresses, so a search passes every free block.
HeapPartition ==
  /\ live \cap Free = {}
  /\ \A p, q \in Blocks : p # q => Bytes(p) \cap Bytes(q) = {}
  /\ UNION {Bytes(p) : p \in Blocks} = ARENA..(next_index - 1)
  /\ \A p, q \in DOMAIN nxt : p < q => nxt[p] \in (p + 1)..q /\ nxt[q] \notin (p + 1)..q
=============================================================================
