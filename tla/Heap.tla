-------------------------------- MODULE Heap --------------------------------
(***************************************************************************)
(* The kernel heap, kernel/heap.c: a list of blocks, each a header followed *)
(* by the bytes handed out, that grows and shrinks at the break brk        *)
(* (kbrk in kernel/mem.c; what kbrk does to the pages is another matter).  *)
(*                                                                         *)
(* kalloc and kfree are called with interrupts off, or by task 0 when it   *)
(* is the only task: a call is one step.  A request of 0 bytes and         *)
(* kfree(NULL) return at once.  The static calloc and realloc have no      *)
(* callers.                                                                *)
(***************************************************************************)
EXTENDS Integers, FiniteSets

CONSTANTS
    H,          \* sizeof(header_t)
    Base,       \* KERNEL_HEAP_VMA_START
    Limit,      \* bound: no break beyond this address
    Sizes       \* the sizes that are requested

ASSUME HeapAssumption ==
    /\ H \in Nat \ {0}
    /\ Base \in Nat \ {0}
    /\ Limit \in Nat
    /\ Base <= Limit
    /\ Sizes \in SUBSET (Nat \ {0})

VARIABLES
    head, tail,         \* first and last header of the list
    brk,
    size, is_free, next,    \* the header fields, by the header's address
    headers,            \* the headers in the list
    owned               \* what the callers hold: requested size by address

fields == <<size, is_free, next>>
heapVars == <<head, tail, brk, size, is_free, next, headers, owned>>

NULL == 0
Addr == Base .. Limit
Length == 0 .. Limit - Base

\* The address behind block a.
End(a) == a + H + size[a]

InUse(p, n) == [q \in DOMAIN owned \cup {p} |-> IF q = p THEN n ELSE owned[q]]
----------------------------------------------------------------------------
HeapInit ==
    /\ head = NULL /\ tail = NULL
    /\ brk = Base
    /\ size = [a \in Addr |-> 0]
    /\ is_free = [a \in Addr |-> 0]
    /\ next = [a \in Addr |-> NULL]
    /\ headers = {}
    /\ owned = [p \in {} |-> 0]

\* Mutant of Fits: the size of the block is not compared.
FitsAny(n) == {a \in headers : is_free[a] = 1}

\* get_free_block: the blocks the list walk would accept.
Fits(n) == {a \in headers : is_free[a] = 1 /\ size[a] >= n}

\* malloc, with a block to reuse.  The list is in the order of addresses, the
\* walk ends at the lowest one.
MallocReuse(n) ==
    \E a \in Fits(n) :
        /\ \A b \in Fits(n) : a <= b
        /\ is_free' = [is_free EXCEPT ![a] = 0]
        /\ owned' = InUse(a + H, n)
        /\ UNCHANGED <<head, tail, brk, size, next, headers>>

\* malloc, with a new block at the break.
MallocGrow(n) ==
    /\ Fits(n) = {}
    /\ brk + H + n <= Limit
    /\ brk' = brk + H + n
    /\ size' = [size EXCEPT ![brk] = n]
    /\ is_free' = [is_free EXCEPT ![brk] = 0]
    /\ next' = IF tail = NULL THEN [next EXCEPT ![brk] = NULL]
                              ELSE [next EXCEPT ![brk] = NULL, ![tail] = brk]
    /\ head' = IF head = NULL THEN brk ELSE head
    /\ tail' = brk
    /\ headers' = headers \cup {brk}
    /\ owned' = InUse(brk + H, n)

\* What a caller gives back is no longer his.
Return(p) == owned' = [q \in DOMAIN owned \ {p} |-> owned[q]]

\* Mutant of FreeLast: tail keeps pointing to the block that is gone.
FreeLastTailKept(a) ==
    /\ a + H \in DOMAIN owned
    /\ End(a) = brk
    /\ head # tail
    /\ \E b \in headers :
         /\ next[b] = tail
         /\ next' = [next EXCEPT ![b] = NULL]
    /\ brk' = brk - size[a] - H
    /\ headers' = headers \ {tail}
    /\ Return(a + H)
    /\ UNCHANGED <<head, tail, size, is_free>>

\* free of the block that ends at the break, not the only one: its predecessor
\* becomes the tail, the break moves down.
FreeLast(a) ==
    /\ a + H \in DOMAIN owned
    /\ End(a) = brk
    /\ head # tail
    /\ \E b \in headers :
         /\ next[b] = tail
         /\ next' = [next EXCEPT ![b] = NULL]
         /\ tail' = b
    /\ brk' = brk - size[a] - H
    /\ headers' = headers \ {tail}
    /\ Return(a + H)
    /\ UNCHANGED <<head, size, is_free>>

\* free of the only block.
FreeOnly(a) ==
    /\ a + H \in DOMAIN owned
    /\ End(a) = brk
    /\ head = tail
    /\ head' = NULL /\ tail' = NULL
    /\ brk' = brk - size[a] - H
    /\ headers' = {}
    /\ Return(a + H)
    /\ UNCHANGED fields

\* Mutant of FreeInner: the mark is forgotten.
FreeInnerUnmarked(a) ==
    /\ a + H \in DOMAIN owned
    /\ End(a) # brk
    /\ Return(a + H)
    /\ UNCHANGED <<head, tail, brk, size, is_free, next, headers>>

\* free of any other block: marked.
FreeInner(a) ==
    /\ a + H \in DOMAIN owned
    /\ End(a) # brk
    /\ is_free' = [is_free EXCEPT ![a] = 1]
    /\ Return(a + H)
    /\ UNCHANGED <<head, tail, brk, size, next, headers>>

HeapNext ==
    \/ \E n \in Sizes : MallocReuse(n) \/ MallocGrow(n)
    \/ \E a \in Addr : FreeLast(a) \/ FreeOnly(a) \/ FreeInner(a)

HeapSpec == HeapInit /\ [][HeapNext]_heapVars
----------------------------------------------------------------------------
\* Every variable has its type.
HeapTypeOK ==
    /\ head \in Addr \cup {NULL} /\ tail \in Addr \cup {NULL}
    /\ brk \in Addr
    /\ size \in [Addr -> Length]
    /\ is_free \in [Addr -> {0, 1}]
    /\ next \in [Addr -> Addr \cup {NULL}]
    /\ headers \in SUBSET Addr
    /\ DOMAIN owned \in SUBSET Addr
    /\ \A p \in DOMAIN owned : owned[p] \in Sizes

\* The list that starts at head runs through adjoining blocks that fill the heap
\* from its start to the break, and ends at tail: get_free_block sees every
\* block, and the test of free for the last one finds it.
ListOK ==
    /\ headers = {} <=> head = NULL
    /\ headers = {} => tail = NULL /\ brk = Base
    /\ headers # {} =>
         /\ head = Base /\ head \in headers
         /\ tail \in headers /\ next[tail] = NULL /\ End(tail) = brk
    /\ \A a \in headers \ {tail} : next[a] = End(a) /\ next[a] \in headers
    /\ \A a \in headers \ {head} : \E b \in headers : next[b] = a

\* Blocks lie one behind the other, headers included, and none reaches beyond
\* the break.
BlocksApart ==
    /\ \A a, b \in headers : a < b => End(a) <= b
    /\ \A a \in headers : End(a) <= brk

\* A block is in use exactly when a caller holds its bytes, and is long enough
\* for him: nothing is handed out twice, nothing in use is free, and no free
\* block is lost.
OwnedOK ==
    /\ \A p \in DOMAIN owned : p - H \in headers /\ owned[p] <= size[p - H]
    /\ \A a \in headers : is_free[a] = 0 <=> a + H \in DOMAIN owned

\* Whatever the callers do to their own bytes, no header of the list is touched
\* and nobody's bytes lie behind the break (mem.c gives those pages back).
HeadersSafe ==
    \A p \in DOMAIN owned :
        /\ p + owned[p] <= brk
        /\ \A a \in headers : (a .. a + H - 1) \cap (p .. p + owned[p] - 1) = {}

Promise == INSTANCE Alloc

\* kalloc and kfree keep their promise: allocations in use never overlap.
ImplementsAlloc == Promise!Spec
============================================================================
