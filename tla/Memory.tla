------------------------------- MODULE Memory -------------------------------
(***************************************************************************)
(* Physical memory and address spaces, kernel/mem.c: the frames counted in *)
(* page_map, the kernel heap's pages and the break kbrk moves, the address *)
(* spaces of user tasks, the page fault handler page_int that fills both,  *)
(* and sys_exec (kernel/task.c), which builds an address space out of      *)
(* kernel memory accesses that may each fault.                             *)
(*                                                                         *)
(* todo holds the steps the running kernel code has still to take; while   *)
(* it is not empty interrupts are off and nothing else happens.  Pages and *)
(* frames are numbers, a page has P bytes.  Pages below HeapStart are      *)
(* mapped to the frames of the same number (kernel_pte_init).  User        *)
(* addresses are counted from USER_VMA_START.                              *)
(***************************************************************************)
EXTENDS Integers, Sequences, FiniteSets

CONSTANTS
    P,              \* PAGE_SIZE
    FirstFrame,     \* IDX(memory_base), behind the frame of the APIC's table
    LastFrame,      \* total_page - 1
    TablePages,     \* pages a page table covers
    HeapStart,      \* page of KERNEL_HEAP_VMA_START
    HeapPages,      \* bound: the heap stays this small
    UserPages,      \* bound: pages of an address space
    Mm,             \* bound: the user address spaces ever created
    Root,           \* root_mm
    Structs,        \* bytes sys_exec takes for headers, PCB and mm_struct
    Requests,       \* bytes other kernel code takes or gives back, with header
    Increments, Decrements,     \* arguments of sys_sbrk, by their sign
    CrossPage       \* may kfree lower the break into another page?

ASSUME MemoryAssumption ==
    /\ P \in Nat \ {0}
    /\ FirstFrame \in Nat \ {0} /\ LastFrame \in Nat /\ FirstFrame <= LastFrame
    /\ HeapStart \in Nat \ {0} /\ HeapPages \in Nat /\ UserPages \in Nat \ {0, 1}
    /\ TablePages \in Nat \ {0}
    /\ Root \notin Mm /\ IsFiniteSet(Mm)
    /\ Structs \in SUBSET (Nat \ {0}) /\ Requests \in SUBSET (Nat \ {0})
    /\ Increments \in SUBSET Nat /\ Decrements \in SUBSET Nat
    /\ CrossPage \in BOOLEAN

VARIABLES
    page_map,   \* the count of each frame
    ksbrk,
    blocks,     \* kalloc's blocks below ksbrk: their length, 0 for sys_exec's
    kmap,       \* heap page -> frame, the kernel's page tables
    pde,        \* address space -> frame of its page directory
    pte,        \* address space -> table number -> frame of that user page table
    umap,       \* address space -> user page -> frame
    sbrk,       \* address space -> end of its heap (brk is 0)
    live,       \* address spaces whose tasks run
    running,    \* the address space of the running task
    todo, child,    \* what sys_exec, kalloc or the kernel does next, and for whom
    panic

userVars == <<pde, pte, umap, sbrk>>
vars == <<page_map, ksbrk, blocks, kmap, pde, pte, umap, sbrk, live, running, todo,
          child, panic>>

NoFrame == -1
Frame == FirstFrame .. LastFrame
HeapPage == HeapStart .. HeapStart + HeapPages - 1
UserPage == 0 .. UserPages - 1
Space == Mm \cup {Root}

Page(a) == a \div P
Table(v) == v \div TablePages
Tables == 0 .. Table(UserPages - 1)
HeapEnd == (HeapStart + HeapPages) * P
----------------------------------------------------------------------------
Init ==
    /\ page_map = [f \in Frame |-> 0]
    /\ ksbrk = HeapStart * P
    /\ blocks = <<>>
    /\ kmap = [v \in HeapPage |-> NoFrame]
    /\ pde = [m \in Space |-> IF m = Root THEN 0 ELSE NoFrame]
    /\ pte = [m \in Space |-> [t \in Tables |-> NoFrame]]
    /\ umap = [m \in Space |-> [v \in UserPage |-> NoFrame]]
    /\ sbrk = [m \in Space |-> 0]
    /\ live = {}
    /\ running = Root
    /\ todo = <<>>
    /\ child = Root
    /\ panic = FALSE

Lowest(S) == CHOOSE f \in S : \A g \in S : f <= g

\* Mutant of Free: get_page looks at one index too many.
FreeOneMore ==
    {f \in FirstFrame .. LastFrame + 1 : f \notin Frame \/ page_map[f] = 0}

\* Mutant of Free: counts are not consulted for the first frame.
FreeOrFirst == {f \in Frame : page_map[f] = 0} \cup {FirstFrame}

\* What get_page chooses from, lowest first.
Free == {f \in Frame : page_map[f] = 0}

\* get_page has returned the frames of S.
Taken(S) == page_map' = [f \in Frame |-> IF f \in S THEN 1 ELSE page_map[f]]

Idle == ~panic /\ todo = <<>>
Step(op) == ~panic /\ todo # <<>> /\ Head(todo).op = op
Arg == Head(todo).page
----------------------------------------------------------------------------
\* page_int in kernel mode, for a page of the heap.
MapHeap(v) ==
    IF kmap[v] # NoFrame \/ Free = {}
      THEN /\ panic' = (kmap[v] = NoFrame)
           /\ UNCHANGED <<kmap, page_map>>
      ELSE /\ kmap' = [kmap EXCEPT ![v] = Lowest(Free)]
           /\ Taken({Lowest(Free)})
           /\ UNCHANGED panic

\* page_int for user page v of space m: the frame for a missing table, the frame
\* for the page.  When there is none for the page the table stays.
TableFrame(m, v) == IF pte[m][Table(v)] = NoFrame /\ Free # {} THEN {Lowest(Free)} ELSE {}
PageFrame(m, v) ==
    LET left == Free \ TableFrame(m, v)
    IN  IF left # {} THEN {Lowest(left)} ELSE {}

\* Mutant of MapUser: the table's frame is not counted when there is none for the
\* page.
MapUserForgets(m, v) ==
    LET table == TableFrame(m, v)
        page == PageFrame(m, v)
    IN  /\ Taken(IF page = {} THEN {} ELSE table \cup page)
        /\ pte' = IF table = {} THEN pte ELSE [pte EXCEPT ![m][Table(v)] = Lowest(table)]
        /\ umap' = IF page = {} THEN umap ELSE [umap EXCEPT ![m][v] = Lowest(page)]

MapUser(m, v) ==
    LET table == TableFrame(m, v)
        page == PageFrame(m, v)
    IN  /\ Taken(table \cup page)
        /\ pte' = IF table = {} THEN pte ELSE [pte EXCEPT ![m][Table(v)] = Lowest(table)]
        /\ umap' = IF page = {} THEN umap ELSE [umap EXCEPT ![m][v] = Lowest(page)]
----------------------------------------------------------------------------
\* The kernel touches the page at hand.
TouchHeap ==
    /\ Step("heap")
    /\ MapHeap(Arg)
    /\ todo' = Tail(todo)
    /\ UNCHANGED <<ksbrk, blocks, userVars, live, running, child>>

\* kalloc with a new block: the break moves, the header is written.  Which pages
\* of the block are used, and when, is the caller's business.
Kalloc(n) ==
    /\ Idle
    /\ ksbrk + n <= HeapEnd
    /\ ksbrk' = ksbrk + n
    /\ blocks' = Append(blocks, n)
    /\ todo' = <<[op |-> "heap", page |-> Page(ksbrk)]>>
    /\ UNCHANGED <<page_map, kmap, userVars, live, running, child, panic>>

KernelUses(v) ==
    /\ Idle
    /\ v * P < ksbrk
    /\ kmap[v] = NoFrame
    /\ todo' = <<[op |-> "heap", page |-> v]>>
    /\ UNCHANGED <<page_map, ksbrk, blocks, kmap, userVars, live, running, child, panic>>

\* The pages kbrk gives back when the break goes from old down to new.
Released(old, new) == Page(new - 1) .. Page(old - 1) - 1

FrameOf(v) == IF v < HeapStart THEN v ELSE kmap[v]

\* kbrk with a negative size, called by free for the last block: get_paddr and
\* put_page, with its assertions, for each of those pages.  (What sys_exec takes
\* is not given back: the page directory, its last block, is never freed.)
KfreeLast ==
    LET new == ksbrk - blocks[Len(blocks)]
        pages == Released(ksbrk, new)
        puts(f) == Cardinality({v \in pages : FrameOf(v) = f})
    IN  /\ Idle
        /\ blocks # <<>> /\ blocks[Len(blocks)] # 0
        /\ CrossPage \/ Page(new - 1) = Page(ksbrk - 1)
        /\ ksbrk' = new
        /\ blocks' = SubSeq(blocks, 1, Len(blocks) - 1)
        /\ IF \A v \in pages : FrameOf(v) \in Frame /\ puts(FrameOf(v)) <= page_map[FrameOf(v)]
             THEN page_map' = [f \in Frame |-> page_map[f] - puts(f)] /\ UNCHANGED panic
             ELSE panic' = TRUE /\ UNCHANGED page_map
        /\ UNCHANGED <<kmap, userVars, live, running, todo, child>>
----------------------------------------------------------------------------
\* sys_exec: three kallocs of k + 2P bytes, the headers, the PCB and the
\* mm_struct written, then the page directory on the page boundary inside the
\* last block, the code and the stack copied.
SysExec(m, k) ==
    LET dir == Page(ksbrk + k + P)
        first == Page(ksbrk)
        last == Page(ksbrk + k - 1)
    IN  /\ Idle
        /\ running = Root \/ running \in live
        /\ pde[m] = NoFrame
        /\ ksbrk + k + 2 * P <= HeapEnd
        /\ ksbrk' = ksbrk + k + 2 * P
        /\ blocks' = Append(blocks, 0)
        /\ child' = m
        /\ todo' = [i \in 1 .. last - first + 1 |-> [op |-> "heap", page |-> first + i - 1]]
                   \o << [op |-> "heap", page |-> dir], [op |-> "pde", page |-> dir],
                         [op |-> "copy", page |-> 0], [op |-> "copy", page |-> 1],
                         [op |-> "start", page |-> 0] >>
        /\ UNCHANGED <<page_map, kmap, userVars, live, running, panic>>

\* init_user_mm_struct: mm->pde = get_paddr(pde_vaddr).
SetPde ==
    /\ Step("pde")
    /\ pde' = [pde EXCEPT ![child] = kmap[Arg]]
    /\ todo' = Tail(todo)
    /\ UNCHANGED <<page_map, ksbrk, blocks, kmap, pte, umap, sbrk, live, running, child, panic>>

\* Mutant of FaultSpace: page_int ignores proxy_mm.
FaultSpaceRunning == running

\* The space page_int works on during copy_to_mm_space: proxy_mm.
FaultSpace == child

\* Mutant of CopyToMmSpace: a fault without memory is passed over.
CopyGoesOn ==
    /\ Step("copy")
    /\ sbrk' = [sbrk EXCEPT ![child] = @ + P]
    /\ MapUser(FaultSpace, Arg)
    /\ todo' = Tail(todo)
    /\ UNCHANGED <<ksbrk, blocks, kmap, pde, live, running, child, panic>>

\* sbrk of one page and copy_to_mm_space into it.
CopyToMmSpace ==
    /\ Step("copy")
    /\ sbrk' = [sbrk EXCEPT ![child] = @ + P]
    /\ IF umap[FaultSpace][Arg] = NoFrame
         THEN MapUser(FaultSpace, Arg) /\ panic' = (PageFrame(FaultSpace, Arg) = {})
         ELSE UNCHANGED <<page_map, pte, umap, panic>>
    /\ todo' = Tail(todo)
    /\ UNCHANGED <<ksbrk, blocks, kmap, pde, live, running, child>>

Start ==
    /\ Step("start")
    /\ live' = live \cup {child}
    /\ todo' = Tail(todo)
    /\ UNCHANGED <<page_map, ksbrk, blocks, kmap, userVars, running, child, panic>>
----------------------------------------------------------------------------
\* The scheduler's choice.
Switch(m) ==
    /\ Idle
    /\ m \in live \cup {Root} /\ m # running
    /\ running' = m
    /\ UNCHANGED <<page_map, ksbrk, blocks, kmap, userVars, live, todo, child, panic>>

\* task_exit: free_user_mm_struct gives nothing back.
TaskExit ==
    /\ live' = live \ {running}
    /\ running' \in live' \cup {Root}

SysExit ==
    /\ Idle
    /\ running \in live
    /\ TaskExit
    /\ UNCHANGED <<page_map, ksbrk, blocks, kmap, userVars, todo, child, panic>>

\* A user program touches address a, not mapped so far: inside its heap page_int
\* maps the page, outside, or without memory, the task ends.
UserFault(a) ==
    LET m == running
    IN  /\ Idle
        /\ m \in live
        /\ umap[m][Page(a)] = NoFrame
        /\ IF a < sbrk[m]
             THEN MapUser(m, Page(a))
             ELSE UNCHANGED <<page_map, pte, umap>>
        /\ IF a < sbrk[m] /\ PageFrame(m, Page(a)) # {}
             THEN UNCHANGED <<live, running>>
             ELSE TaskExit
        /\ UNCHANGED <<ksbrk, blocks, kmap, pde, sbrk, todo, child, panic>>

\* The kernel touches user page v in a system call (sys_read into a buffer): no
\* check of the heap's bounds, and no way out when memory is short.
SyscallFault(v) ==
    LET m == running
    IN  /\ Idle
        /\ m \in live
        /\ umap[m][v] = NoFrame
        /\ MapUser(m, v)
        /\ panic' = (PageFrame(m, v) = {})
        /\ UNCHANGED <<ksbrk, blocks, kmap, pde, sbrk, live, running, todo, child>>

\* sbrk: the range check never holds.  A negative increment asks put_page for
\* user addresses, whose assertion fails as soon as there is one.
SysSbrk(inc) ==
    LET m == running
        next_ptr == sbrk[m] + inc
        page(a) == (a \div P) + (a % P)
    IN  /\ Idle
        /\ m \in live
        /\ next_ptr \in -P .. UserPages * P
        /\ sbrk' = [sbrk EXCEPT ![m] = next_ptr]
        /\ panic' = (inc < 0 /\ page(next_ptr) # page(sbrk[m]))
        /\ UNCHANGED <<page_map, ksbrk, blocks, kmap, pde, pte, umap, live, running, todo, child>>

Next ==
    \/ KfreeLast
    \/ TouchHeap \/ SetPde \/ CopyToMmSpace \/ Start
    \/ \E n \in Requests : Kalloc(n)
    \/ \E v \in HeapPage : KernelUses(v)
    \/ \E m \in Mm : Switch(m) \/ \E k \in Structs : SysExec(m, k)
    \/ Switch(Root)
    \/ SysExit
    \/ \E a \in 0 .. UserPages * P - 1 : UserFault(a)
    \/ \E v \in UserPage : SyscallFault(v)
    \/ \E inc \in Increments \cup {-d : d \in Decrements} : SysSbrk(inc)

Spec == Init /\ [][Next]_vars
----------------------------------------------------------------------------
KernelStep ==
    [op : {"heap", "pde"}, page : HeapPage] \cup [op : {"copy"}, page : {0, 1}]
    \cup [op : {"start"}, page : {0}]

\* Every variable has its type.
TypeOK ==
    /\ page_map \in [Frame -> {0, 1}]
    /\ ksbrk \in HeapStart * P .. HeapEnd
    /\ blocks \in Seq(Requests \cup {0})
    /\ kmap \in [HeapPage -> Frame \cup {NoFrame}]
    /\ pde \in [Space -> Frame \cup {NoFrame, 0}]
    /\ pte \in [Space -> [Tables -> Frame \cup {NoFrame}]]
    /\ umap \in [Space -> [UserPage -> Frame \cup {NoFrame}]]
    /\ sbrk \in [Space -> Int]
    /\ live \in SUBSET Mm
    /\ running \in Space /\ child \in Space
    /\ todo \in Seq(KernelStep)
    /\ panic \in BOOLEAN

\* The page table entries mem.c fills: those of the kernel heap, the directory
\* entries for tables, those of user pages; and the frame in each.
Entry ==
    {<<"heap", v, 0>> : v \in HeapPage} \cup
    {<<"table", m, t>> : m \in Space, t \in Tables} \cup
    {<<"user", m, v>> : m \in Space, v \in UserPage}

Held(e) ==
    CASE e[1] = "heap"  -> kmap[e[2]]
      [] e[1] = "table" -> pte[e[2]][e[3]]
      [] e[1] = "user"  -> umap[e[2]][e[3]]

\* No frame serves two purposes: address spaces are apart, and apart from the
\* kernel heap and from the page tables.
FrameOnce == \A d, e \in Entry : Held(d) = Held(e) /\ Held(d) # NoFrame => d = e

\* page_map tells the truth, also after a fault that got only the first of its
\* two frames: what is in use is counted, what is not is free.
CountsExact == \A f \in Frame : page_map[f] = 0 <=> \A e \in Entry : Held(e) # f

\* Page v of space m is there, with the table it is reached through.
HasPage(m, v) == pte[m][Table(v)] # NoFrame /\ umap[m][v] # NoFrame

\* The page directory of m is page d of the kernel heap.
DirectoryIn(m, d) == kmap[d] # NoFrame /\ pde[m] = kmap[d] /\ d * P < ksbrk

\* A task that runs has all that sys_exec built: a page directory that lies in
\* the kernel heap, a table, its code and its stack, in its own space.
ReadyToRun ==
    \A m \in live :
        /\ \E d \in HeapPage : DirectoryIn(m, d)
        /\ HasPage(m, 0) /\ HasPage(m, 1)

\* A task's mappings change only while it runs and faults itself: the copying of
\* sys_exec, which borrows the caller's context, leaves the caller's space alone.
OwnSpaceOnly ==
    [][\A m \in live \cup {Root} :
         umap'[m] # umap[m] \/ pte'[m] # pte[m] => running = m /\ todo = <<>>]_vars

\* What sys_exec has left to do, n steps, is the end of its program.
ExecLeft(n, d) ==
    /\ n >= 1 /\ todo[n].op = "start"
    /\ n >= 2 => todo[n - 1] = [op |-> "copy", page |-> 1]
    /\ n >= 3 => todo[n - 2] = [op |-> "copy", page |-> 0]
    /\ n >= 4 => todo[n - 3] = [op |-> "pde", page |-> d]
    /\ n >= 5 => todo[n - 4].page = d
    /\ \A i \in 1 .. n - 4 : todo[i].op = "heap"

\* What it has done by then.
ExecDone(n, d) ==
    /\ n <= 3 => DirectoryIn(child, d)
    /\ ~panic => /\ n = 4 => kmap[d] # NoFrame
                 /\ n <= 2 => HasPage(child, 0)
                 /\ n <= 1 => HasPage(child, 1)

\* When sys_exec is at work, its child does not run yet.
ExecOK ==
    \/ \A i \in DOMAIN todo : todo[i].op = "heap"
    \/ /\ child \in Mm \ live
       /\ \E d \in HeapPage :
            d * P < ksbrk /\ ExecLeft(Len(todo), d) /\ ExecDone(Len(todo), d)

\* A page in a user space is reached through a table.
TablesThere == \A m \in Space, v \in UserPage : umap[m][v] # NoFrame => HasPage(m, v)

\* kalloc's blocks lie between the start of the heap and the break.
BreakOK == blocks # <<>> => ksbrk > HeapStart * P

\* The inductive invariant behind the properties above.
MemInv ==
    TypeOK /\ FrameOnce /\ CountsExact /\ TablesThere /\ BreakOK /\ ExecOK /\ ReadyToRun
============================================================================
