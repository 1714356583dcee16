---------------------------- MODULE MemoryProofs ----------------------------
(***************************************************************************)
(* No frame is used twice and page_map is exact, for every size of pages,  *)
(* memory, heap and address spaces, every number of tasks and every        *)
(* request, provided that the kernel break is not lowered across a page    *)
(* boundary (kbrk then gives back the wrong pages).                        *)
(*                                                                         *)
(* The kernel heap, whose list kalloc keeps in that memory, is correct for *)
(* every header size, every set of request sizes and every length of the   *)
(* heap.                                                                   *)
(***************************************************************************)
EXTENDS Memory, Heap, FiniteSetTheorems, SequenceTheorems, WellFoundedInduction,
        TLAPS

-----------------------------------------------------------------------------
(* Frames and pages.                                                       *)

\* What get_page finds is a free frame.
LEMMA LowestIsElement ==
    ASSUME NEW S \in SUBSET Frame, S # {}
    PROVE  Lowest(S) \in S
<1>1. S \in SUBSET Nat
  BY MemoryAssumption DEF Frame
<1> DEFINE R == OpToRel(<, Nat)
<1>2. IsWellFoundedOn(R, Nat)
  BY NatLessThanWellFounded
<1>3. \A x, y \in Nat : y < x => <<y, x>> \in R
  BY DEF OpToRel
<1> HIDE DEF R
<1>4. PICK n \in S : \A g \in S : ~ (<<g, n>> \in R)
  BY <1>1, <1>2, WFMin
<1>5. ASSUME NEW g \in S PROVE n <= g
  <2>1. g \in Nat /\ n \in Nat
    BY <1>1
  <2>2. ~(g < n)
    BY <2>1, <1>3, <1>4
  <2> QED BY <2>1, <2>2
<1> QED BY <1>4, <1>5 DEF Lowest

\* What division by the size of a page, or of a table, means.
LEMMA Division ==
    ASSUME NEW b \in Nat \ {0}, NEW a \in Nat
    PROVE  a \div b \in Nat /\ b * (a \div b) <= a /\ a < b * (a \div b) + b
  OBVIOUS

\* Between two multiples of b the quotient lies between their factors.
LEMMA QuotientIn ==
    ASSUME NEW b \in Nat \ {0}, NEW a \in Nat, NEW lo \in Nat, NEW hi \in Nat,
           lo * b <= a, a < hi * b
    PROVE  a \div b \in lo .. hi - 1
<1> DEFINE q == a \div b
<1>1. q \in Nat /\ b * q <= a /\ a < b * q + b
  BY Division
<1> HIDE DEF q
<1>2. ~(q < lo)
  <2> SUFFICES ASSUME q + 1 <= lo PROVE FALSE
    BY <1>1
  <2>1. PICK d \in Nat : lo = q + 1 + d
    BY <1>1
  <2>2. lo * b = b * q + b + d * b /\ d * b \in Nat
    BY <2>1, <1>1
  <2> QED BY <2>2, <1>1
<1>3. ~(hi <= q)
  <2> SUFFICES ASSUME hi <= q PROVE FALSE
    OBVIOUS
  <2>1. PICK d \in Nat : q = hi + d
    BY <1>1
  <2>2. b * q = hi * b + d * b /\ d * b \in Nat /\ hi * b \in Nat
    BY <2>1, <1>1
  <2> QED BY <2>2, <1>1
<1> QED BY <1>1, <1>2, <1>3 DEF q
----------------------------------------------------------------------------
\* The three kinds of entries and what they hold.
LEMMA EntryKinds ==
    /\ \A v \in HeapPage : <<"heap", v, 0>> \in Entry /\ Held(<<"heap", v, 0>>) = kmap[v]
    /\ \A m \in Space, t \in Tables :
         <<"table", m, t>> \in Entry /\ Held(<<"table", m, t>>) = pte[m][t]
    /\ \A m \in Space, v \in UserPage :
         <<"user", m, v>> \in Entry /\ Held(<<"user", m, v>>) = umap[m][v]
    /\ \A e \in Entry :
         \/ \E v \in HeapPage : e = <<"heap", v, 0>>
         \/ \E m \in Space, t \in Tables : e = <<"table", m, t>>
         \/ \E m \in Space, v \in UserPage : e = <<"user", m, v>>
  BY DEF Entry, Held

\* The same for the next state.
LEMMA EntryKindsNext ==
    /\ \A v \in HeapPage : Held(<<"heap", v, 0>>)' = kmap'[v]
    /\ \A m \in Space, t \in Tables : Held(<<"table", m, t>>)' = pte'[m][t]
    /\ \A m \in Space, v \in UserPage : Held(<<"user", m, v>>)' = umap'[m][v]
  BY DEF Held

\* When entries that were empty get frames that were free, each another, and those
\* frames are counted, no frame is used twice and the counts are exact.
LEMMA FillKeeps ==
    ASSUME FrameOnce, CountsExact,
           NEW S \in SUBSET Entry, NEW F \in SUBSET Free,
           \A e \in Entry \ S : Held(e)' = Held(e),
           \A e \in S : Held(e) = NoFrame /\ Held(e)' \in F,
           \A d, e \in S : Held(d)' = Held(e)' => d = e,
           \A f \in F : \E e \in S : Held(e)' = f,
           Taken(F)
    PROVE  FrameOnce' /\ CountsExact'
<1>1. \A f \in F : f \in Frame /\ f # NoFrame /\ \A e \in Entry : Held(e) # f
  BY MemoryAssumption DEF Free, CountsExact, Frame, NoFrame
<1>2. FrameOnce'
  <2> SUFFICES ASSUME NEW d \in Entry, NEW e \in Entry,
                      Held(d)' = Held(e)', Held(d)' # NoFrame
               PROVE  d = e
    BY DEF FrameOnce, Entry
  <2>1. CASE d \in S /\ e \in S
    BY <2>1
  <2>2. CASE d \notin S /\ e \notin S
    BY <2>2 DEF FrameOnce
  <2>3. CASE d \in S /\ e \notin S
    BY <2>3, <1>1
  <2>4. CASE d \notin S /\ e \in S
    BY <2>4, <1>1
  <2> QED BY <2>1, <2>2, <2>3, <2>4
<1>3. CountsExact'
  <2> SUFFICES ASSUME NEW f \in Frame
               PROVE  page_map'[f] = 0 <=> \A e \in Entry : Held(e)' # f
    BY DEF CountsExact, Entry, Frame
  <2>1. page_map'[f] = IF f \in F THEN 1 ELSE page_map[f]
    BY DEF Taken
  <2>2. CASE f \in F
    BY <2>1, <2>2
  <2>3. CASE f \notin F
    <3>1. f # NoFrame
      BY MemoryAssumption DEF Frame, NoFrame
    <3>2. (\A e \in Entry : Held(e)' # f) <=> (\A e \in Entry : Held(e) # f)
      BY <2>3, <3>1
    <3> QED BY <2>1, <2>3, <3>2 DEF CountsExact
  <2> QED BY <2>2, <2>3
<1> QED BY <1>2, <1>3
----------------------------------------------------------------------------
\* The parts of the state that page faults change.
Mapped == FrameOnce /\ CountsExact /\ TablesThere

MapTypes ==
    /\ page_map \in [Frame -> {0, 1}]
    /\ kmap \in [HeapPage -> Frame \cup {NoFrame}]
    /\ pte \in [Space -> [Tables -> Frame \cup {NoFrame}]]
    /\ umap \in [Space -> [UserPage -> Frame \cup {NoFrame}]]

\* Without a fault nothing of this changes.
LEMMA MappedStays ==
    ASSUME MapTypes, Mapped, UNCHANGED <<page_map, kmap, pte, umap>>
    PROVE  MapTypes' /\ Mapped'
  BY DEF MapTypes, Mapped, FrameOnce, CountsExact, TablesThere, HasPage, Entry, Held

\* Every user page has a table.
LEMMA TableOf ==
    ASSUME NEW v \in UserPage
    PROVE  Table(v) \in Tables /\ {0, 1} \in SUBSET UserPage
<1> DEFINE last == Table(UserPages - 1)
<1>1. v \in Nat /\ UserPages - 1 \in Nat /\ v <= UserPages - 1 /\ TablePages \in Nat \ {0}
  BY MemoryAssumption DEF UserPage
<1>2. last \in Nat /\ UserPages - 1 < TablePages * last + TablePages
  BY <1>1, Division DEF Table
<1> HIDE DEF last
<1>3. v < (last + 1) * TablePages
  <2>1. (last + 1) * TablePages = TablePages * last + TablePages
    BY <1>1, <1>2
  <2>2. TablePages * last \in Nat
    BY <1>1, <1>2
  <2> QED BY <1>1, <1>2, <2>1, <2>2
<1>4. Table(v) \in 0 .. last + 1 - 1
  <2>1. 0 * TablePages <= v
    BY <1>1
  <2> QED BY <1>1, <1>2, <1>3, <2>1, QuotientIn DEF Table
<1>5. Table(v) \in Tables
  BY <1>4, <1>2 DEF Tables, last
<1> QED BY <1>5, MemoryAssumption DEF UserPage

\* A kernel fault on a page of the heap.
LEMMA MapHeapKeeps ==
    ASSUME MapTypes, Mapped, panic \in BOOLEAN, NEW v \in HeapPage, MapHeap(v),
           UNCHANGED <<pte, umap>>
    PROVE  /\ MapTypes' /\ Mapped' /\ panic' \in BOOLEAN
           /\ \A w \in HeapPage : kmap[w] # NoFrame => kmap'[w] = kmap[w]
           /\ ~panic' /\ ~panic => kmap'[v] # NoFrame
<1>1. CASE kmap[v] # NoFrame \/ Free = {}
  <2>1. UNCHANGED <<kmap, page_map>> /\ panic' = (kmap[v] = NoFrame)
    BY <1>1 DEF MapHeap
  <2> QED BY <2>1, MappedStays
<1>2. CASE kmap[v] = NoFrame /\ Free # {}
  <2> DEFINE f == Lowest(Free)
             S == {<<"heap", v, 0>>}
  <2>1. f \in Free /\ f \in Frame /\ f # NoFrame
    BY <1>2, LowestIsElement, MemoryAssumption DEF Free, Frame, NoFrame
  <2>2. kmap' = [kmap EXCEPT ![v] = f] /\ Taken({f}) /\ panic' = panic
    BY <1>2 DEF MapHeap
  <2> HIDE DEF f
  <2>3. MapTypes'
    BY <2>1, <2>2 DEF MapTypes, Taken, Frame, HeapPage, Space, Tables, UserPage, Table
  <2>4. FrameOnce' /\ CountsExact'
    <3>1. \A e \in Entry \ S : Held(e)' = Held(e)
      <4> SUFFICES ASSUME NEW e \in Entry \ S PROVE Held(e)' = Held(e)
        OBVIOUS
      <4>1. CASE \E w \in HeapPage : e = <<"heap", w, 0>>
        <5>1. PICK w \in HeapPage : e = <<"heap", w, 0>>
          BY <4>1
        <5>2. w # v /\ kmap'[w] = kmap[w]
          BY <5>1, <2>2 DEF MapTypes
        <5> QED BY <5>1, <5>2, EntryKinds, EntryKindsNext
      <4>2. CASE \E m \in Space, t \in Tables : e = <<"table", m, t>>
        BY <4>2, EntryKinds, EntryKindsNext
      <4>3. CASE \E m \in Space, w \in UserPage : e = <<"user", m, w>>
        BY <4>3, EntryKinds, EntryKindsNext
      <4> QED BY <4>1, <4>2, <4>3, EntryKinds
    <3>2. S \in SUBSET Entry /\ \A e \in S : Held(e) = NoFrame /\ Held(e)' = f
      BY <1>2, <2>2, EntryKinds, EntryKindsNext DEF MapTypes
    <3>3. \A d, e \in S : d = e
      OBVIOUS
    <3> HIDE DEF S
    <3>4. {f} \in SUBSET Free
      BY <2>1
    <3>5. \E e \in S : Held(e)' = f
      BY <3>2 DEF S
    <3> QED BY <2>2, <3>1, <3>2, <3>3, <3>4, <3>5, FillKeeps DEF Mapped
  <2>5. TablesThere'
    BY DEF Mapped, TablesThere, HasPage, Space, UserPage, Table
  <2>6. \A w \in HeapPage : kmap[w] # NoFrame => kmap'[w] = kmap[w]
    BY <1>2, <2>2 DEF MapTypes
  <2>7. kmap'[v] # NoFrame
    BY <2>1, <2>2 DEF MapTypes
  <2> QED BY <2>2, <2>3, <2>4, <2>5, <2>6, <2>7 DEF Mapped
<1> QED BY <1>1, <1>2

\* A fault on a user page: the frames page_int takes, and what it leaves.
LEMMA MapUserFrames ==
    ASSUME MapTypes, NEW m \in Space, NEW v \in UserPage
    PROVE  /\ TableFrame(m, v) \in SUBSET Free /\ PageFrame(m, v) \in SUBSET Free
           /\ TableFrame(m, v) \cap PageFrame(m, v) = {}
           /\ TableFrame(m, v) # {} => TableFrame(m, v) = {Lowest(TableFrame(m, v))}
                                       /\ pte[m][Table(v)] = NoFrame
           /\ PageFrame(m, v) # {} => PageFrame(m, v) = {Lowest(PageFrame(m, v))}
           /\ PageFrame(m, v) # {} /\ pte[m][Table(v)] = NoFrame => TableFrame(m, v) # {}
<1>0. Free \in SUBSET Frame
  BY DEF Free
<1>1. \A f \in Frame : Lowest({f}) = f
  <2>1. \A f \in Frame : Lowest({f}) \in {f}
    BY LowestIsElement
  <2> QED BY <2>1
<1>2. Free # {} => Lowest(Free) \in Free
  BY <1>0, LowestIsElement
<1> DEFINE left == Free \ TableFrame(m, v)
<1>3. left # {} => Lowest(left) \in left
  BY <1>0, LowestIsElement
<1>4. TableFrame(m, v) \in SUBSET Free /\ PageFrame(m, v) \in SUBSET left
  BY <1>2, <1>3 DEF TableFrame, PageFrame
<1>5. TableFrame(m, v) # {} => \E f \in Frame : TableFrame(m, v) = {f}
  BY <1>0, <1>2 DEF TableFrame
<1>6. PageFrame(m, v) # {} => \E f \in Frame : PageFrame(m, v) = {f}
  BY <1>0, <1>3 DEF PageFrame
<1>7. TableFrame(m, v) # {} => pte[m][Table(v)] = NoFrame
  BY DEF TableFrame
<1>8. PageFrame(m, v) # {} /\ pte[m][Table(v)] = NoFrame => TableFrame(m, v) # {}
  BY DEF PageFrame, TableFrame
<1> QED BY <1>1, <1>4, <1>5, <1>6, <1>7, <1>8

LEMMA MapUserKeeps ==
    ASSUME MapTypes, Mapped, NEW m \in Space, NEW v \in UserPage,
           umap[m][v] = NoFrame, MapUser(m, v), UNCHANGED kmap
    PROVE  /\ MapTypes' /\ Mapped'
           /\ \A n \in Space, w \in UserPage : HasPage(n, w) => HasPage(n, w)'
           /\ PageFrame(m, v) # {} => HasPage(m, v)'
           /\ \A n \in Space : n # m => umap'[n] = umap[n] /\ pte'[n] = pte[n]
<1> DEFINE t == Table(v)
           TF == TableFrame(m, v)
           PF == PageFrame(m, v)
           tf == Lowest(TF)
           pf == Lowest(PF)
<1>1. t \in Tables
  BY TableOf
<1>2. /\ TF \in SUBSET Free /\ PF \in SUBSET Free /\ TF \cap PF = {}
      /\ TF # {} => TF = {tf} /\ pte[m][t] = NoFrame
      /\ PF # {} => PF = {pf}
      /\ PF # {} /\ pte[m][t] = NoFrame => TF # {}
  BY MapUserFrames
<1>3. /\ Taken(TF \cup PF)
      /\ pte' = IF TF = {} THEN pte ELSE [pte EXCEPT ![m][t] = tf]
      /\ umap' = IF PF = {} THEN umap ELSE [umap EXCEPT ![m][v] = pf]
  BY DEF MapUser
<1>4. /\ TF # {} => tf \in Frame /\ tf # NoFrame
      /\ PF # {} => pf \in Frame /\ pf # NoFrame
  BY <1>2, MemoryAssumption DEF Free, Frame, NoFrame
<1>t. \A w \in UserPage : Table(w) \in Tables
  BY TableOf
<1> HIDE DEF t, TF, PF, tf, pf
<1>5. /\ \A n \in Space, k \in Tables :
           pte'[n][k] = IF TF # {} /\ n = m /\ k = t THEN tf ELSE pte[n][k]
      /\ \A n \in Space, w \in UserPage :
           umap'[n][w] = IF PF # {} /\ n = m /\ w = v THEN pf ELSE umap[n][w]
      /\ \A n \in Space : n # m => umap'[n] = umap[n] /\ pte'[n] = pte[n]
  BY <1>1, <1>3 DEF MapTypes
<1>6. MapTypes'
  <2>1. page_map' \in [Frame -> {0, 1}]'
    BY <1>3 DEF MapTypes, Taken, Frame
  <2>2. pte' \in [Space -> [Tables -> Frame \cup {NoFrame}]]
    BY <1>1, <1>3, <1>4 DEF MapTypes
  <2>3. umap' \in [Space -> [UserPage -> Frame \cup {NoFrame}]]
    BY <1>3, <1>4 DEF MapTypes
  <2> QED BY <2>1, <2>2, <2>3 DEF MapTypes, Frame, HeapPage, Space, Tables, UserPage, Table
<1>7. FrameOnce' /\ CountsExact'
  <2> DEFINE et == <<"table", m, t>>
             eu == <<"user", m, v>>
             S == (IF TF = {} THEN {} ELSE {et}) \cup (IF PF = {} THEN {} ELSE {eu})
  <2>1. et \in Entry /\ eu \in Entry /\ et # eu
    BY <1>1, EntryKinds
  <2>2. /\ TF # {} => Held(et) = NoFrame /\ Held(et)' = tf
        /\ PF # {} => Held(eu) = NoFrame /\ Held(eu)' = pf
    BY <1>1, <1>2, <1>5, EntryKinds, EntryKindsNext
  <2>3. \A e \in Entry \ S : Held(e)' = Held(e)
    <3> SUFFICES ASSUME NEW e \in Entry \ S PROVE Held(e)' = Held(e)
      OBVIOUS
    <3>1. CASE \E w \in HeapPage : e = <<"heap", w, 0>>
      BY <3>1, EntryKinds, EntryKindsNext
    <3>2. CASE \E n \in Space, k \in Tables : e = <<"table", n, k>>
      <4>1. PICK n \in Space, k \in Tables : e = <<"table", n, k>>
        BY <3>2
      <4>2. ~(TF # {} /\ n = m /\ k = t)
        BY <4>1
      <4>3. pte'[n][k] = pte[n][k]
        BY <4>2, <1>5
      <4> QED BY <4>1, <4>3, EntryKinds, EntryKindsNext
    <3>3. CASE \E n \in Space, w \in UserPage : e = <<"user", n, w>>
      <4>1. PICK n \in Space, w \in UserPage : e = <<"user", n, w>>
        BY <3>3
      <4>2. ~(PF # {} /\ n = m /\ w = v)
        BY <4>1
      <4>3. umap'[n][w] = umap[n][w]
        BY <4>2, <1>5
      <4> QED BY <4>1, <4>3, EntryKinds, EntryKindsNext
    <3> QED BY <3>1, <3>2, <3>3, EntryKinds
  <2> HIDE DEF et, eu
  <2>4. S \in SUBSET Entry /\ TF \cup PF \in SUBSET Free
    BY <2>1, <1>2
  <2>5. \A e \in S : Held(e) = NoFrame /\ Held(e)' \in TF \cup PF
    BY <2>2, <1>2
  <2>6. \A d, e \in S : Held(d)' = Held(e)' => d = e
    BY <2>2, <1>2
  <2>7. \A f \in TF \cup PF : \E e \in S : Held(e)' = f
    BY <2>2, <1>2
  <2> HIDE DEF S
  <2> QED BY <2>3, <2>4, <2>5, <2>6, <2>7, <1>3, FillKeeps DEF Mapped
<1>8. \A n \in Space, w \in UserPage : HasPage(n, w) => HasPage(n, w)'
  BY <1>4, <1>5, <1>t DEF HasPage
<1>9. PF # {} => HasPage(m, v)'
  BY <1>1, <1>2, <1>4, <1>5 DEF HasPage, t
<1>10. TablesThere'
  BY <1>5, <1>8, <1>9 DEF Mapped, TablesThere, HasPage
<1> QED BY <1>5, <1>6, <1>7, <1>8, <1>9, <1>10 DEF Mapped, PF
----------------------------------------------------------------------------
\* Addresses of the heap lie in its pages.
LEMMA HeapAddress ==
    ASSUME NEW a \in Int, HeapStart * P <= a, a < HeapEnd
    PROVE  a \in Nat /\ Page(a) \in HeapPage /\ Page(a) * P <= a /\ a < Page(a) * P + P
<1>1. /\ P \in Nat \ {0} /\ HeapStart \in Nat \ {0} /\ HeapPages \in Nat
      /\ HeapStart * P \in Nat
  BY MemoryAssumption
<1>2. a \in Nat
  BY <1>1
<1>3. Page(a) \in HeapStart .. HeapStart + HeapPages - 1
  BY <1>1, <1>2, QuotientIn DEF HeapEnd, Page
<1>4. P * Page(a) <= a /\ a < P * Page(a) + P
  BY <1>1, <1>2, Division DEF Page
<1> QED BY <1>1, <1>2, <1>3, <1>4 DEF HeapPage

\* What the type invariant says of page faults, and of the break.
LEMMA Types ==
    ASSUME TypeOK
    PROVE  /\ MapTypes
           /\ ksbrk \in Nat /\ HeapStart * P <= ksbrk /\ ksbrk <= HeapEnd
           /\ P \in Nat \ {0} /\ HeapStart * P \in Nat /\ HeapEnd \in Nat
           /\ \A d \in HeapPage : d \in Nat \ {0} /\ d * P \in Nat
<1>1. /\ P \in Nat \ {0} /\ HeapStart * P \in Nat /\ HeapEnd \in Nat
      /\ \A d \in HeapPage : d \in Nat \ {0} /\ d * P \in Nat
  BY MemoryAssumption DEF HeapEnd, HeapPage
<1> QED BY <1>1 DEF TypeOK, MapTypes

\* The tasks that run keep what they have.
LEMMA ReadyStays ==
    ASSUME ReadyToRun,
           \A d \in HeapPage : kmap[d] # NoFrame => kmap'[d] = kmap[d],
           \A d \in HeapPage : d * P < ksbrk => d * P < ksbrk',
           live' \in SUBSET live,
           \A m \in live : /\ pde'[m] = pde[m]
                           /\ HasPage(m, 0) => HasPage(m, 0)'
                           /\ HasPage(m, 1) => HasPage(m, 1)'
    PROVE  ReadyToRun'
<1> SUFFICES ASSUME NEW m \in live'
             PROVE  /\ \E d \in HeapPage : DirectoryIn(m, d)'
                    /\ HasPage(m, 0)' /\ HasPage(m, 1)'
  BY DEF ReadyToRun, HeapPage
<1>1. PICK d \in HeapPage : DirectoryIn(m, d)
  BY DEF ReadyToRun
<1>2. DirectoryIn(m, d)'
  BY <1>1 DEF DirectoryIn
<1> QED BY <1>2 DEF ReadyToRun

\* A step of the kernel takes the head of todo.
LEMMA StepFacts ==
    ASSUME TypeOK, NEW op, Step(op), todo' = Tail(todo)
    PROVE  /\ ~panic /\ todo # <<>> /\ todo' \in Seq(KernelStep)
           /\ todo[1] \in KernelStep /\ todo[1].op = op /\ Arg = todo[1].page
           /\ Len(todo) \in Nat \ {0} /\ Len(todo') = Len(todo) - 1
           /\ \A i \in 1 .. Len(todo) - 1 : todo'[i] = todo[i + 1]
  BY DEF TypeOK, Step, Arg

\* Between operations nothing is left of sys_exec.
LEMMA IdleExec ==
    ASSUME todo = <<>>
    PROVE  ExecOK
  BY DEF ExecOK
----------------------------------------------------------------------------
LEMMA InitMem == Init => MemInv
<1> SUFFICES ASSUME Init PROVE MemInv
  OBVIOUS
<1> USE MemoryAssumption
<1>1. TypeOK
  <2>1. HeapStart * P \in Nat /\ HeapEnd \in Nat /\ HeapStart * P <= HeapEnd
    <3>1. HeapEnd = HeapStart * P + HeapPages * P /\ HeapPages * P \in Nat
      BY DEF HeapEnd
    <3> QED BY <3>1
  <2>2. pde \in [Space -> Frame \cup {NoFrame, 0}]
    BY DEF Init, Space
  <2>3. blocks \in Seq(Requests \cup {0}) /\ todo \in Seq(KernelStep)
    BY DEF Init
  <2>4. ksbrk \in HeapStart * P .. HeapEnd
    BY <2>1 DEF Init
  <2>5. /\ page_map \in [Frame -> {0, 1}]
        /\ kmap \in [HeapPage -> Frame \cup {NoFrame}]
        /\ pte \in [Space -> [Tables -> Frame \cup {NoFrame}]]
        /\ umap \in [Space -> [UserPage -> Frame \cup {NoFrame}]]
        /\ sbrk \in [Space -> Int]
    BY DEF Init
  <2>6. live \in SUBSET Mm /\ running \in Space /\ child \in Space /\ panic \in BOOLEAN
    BY DEF Init, Space
  <2> QED BY <2>2, <2>3, <2>4, <2>5, <2>6 DEF TypeOK
<1>2. \A e \in Entry : Held(e) = NoFrame
  BY EntryKinds DEF Init
<1>3. FrameOnce /\ CountsExact
  BY <1>2 DEF FrameOnce, CountsExact, Init, Frame, NoFrame
<1>4. TablesThere /\ BreakOK /\ ReadyToRun
  BY DEF Init, TablesThere, BreakOK, ReadyToRun
<1>5. ExecOK
  BY IdleExec DEF Init
<1> QED BY <1>1, <1>3, <1>4, <1>5 DEF MemInv
----------------------------------------------------------------------------
\* Actions that leave todo alone, and sys_exec is not at work: kalloc of the
\* break's side, user faults and the scheduler.  What they may do to the state.
LEMMA IdleKeeps ==
    ASSUME MemInv, todo = <<>>, todo' = <<>>, child' = child, pde' = pde,
           MapTypes' /\ Mapped', kmap' = kmap,
           \A m \in live : \A v \in {0, 1} : HasPage(m, v) => HasPage(m, v)',
           ksbrk' \in HeapStart * P .. HeapEnd, blocks' \in Seq(Requests \cup {0}),
           \A d \in HeapPage : d * P < ksbrk => d * P < ksbrk',
           BreakOK',
           sbrk' \in [Space -> Int], live' \in SUBSET live, running' \in Space,
           panic' \in BOOLEAN
    PROVE  MemInv'
<1>1. TypeOK'
  BY DEF MemInv, TypeOK, MapTypes
<1>2. ReadyToRun'
  BY ReadyStays DEF MemInv
<1>3. ExecOK'
  BY DEF ExecOK
<1> QED BY <1>1, <1>2, <1>3 DEF MemInv, Mapped

\* With the break in its page, free of the last block gives back no page.
LEMMA KfreeLastKeeps ==
    ASSUME ~CrossPage, MemInv, KfreeLast
    PROVE  MemInv'
<1> DEFINE n == blocks[Len(blocks)]
           new == ksbrk - n
<1> USE DEF MemInv
<1>1. /\ todo = <<>> /\ ~panic /\ blocks # <<>> /\ n # 0
      /\ Page(new - 1) = Page(ksbrk - 1) /\ ksbrk' = new
      /\ blocks' = SubSeq(blocks, 1, Len(blocks) - 1)
  BY DEF KfreeLast, Idle
<1>2. n \in Requests /\ blocks' \in Seq(Requests \cup {0})
  BY <1>1 DEF TypeOK
<1>3. n \in Nat \ {0}
  BY <1>2, MemoryAssumption
<1>4. ksbrk \in Nat /\ HeapStart * P < ksbrk /\ ksbrk <= HeapEnd /\ HeapStart * P \in Nat
      /\ P \in Nat \ {0} /\ HeapEnd \in Nat
  BY <1>1, Types DEF BreakOK
<1> HIDE DEF n
<1> DEFINE q == Page(ksbrk - 1)
<1>5. q \in HeapPage /\ q * P <= ksbrk - 1 /\ ksbrk - 1 < q * P + P
  BY <1>4, HeapAddress
<1>a. q \in Nat /\ HeapStart <= q /\ q * P \in Nat /\ HeapStart * P <= q * P
  <2>1. q \in Nat /\ HeapStart <= q /\ HeapStart \in Nat
    BY <1>5, MemoryAssumption DEF HeapPage
  <2>2. PICK d \in Nat : q = HeapStart + d
    BY <2>1
  <2>3. q * P = HeapStart * P + d * P /\ d * P \in Nat
    BY <2>1, <2>2, <1>4
  <2> QED BY <2>1, <2>3, <1>4
<1> HIDE DEF q
\* The new break is above the beginning of that page.
<1>6. q * P <= new - 1
  <2>1. CASE new - 1 \in Nat
    <3>1. P * Page(new - 1) <= new - 1
      BY <2>1, <1>4, Division DEF Page
    <3> QED BY <3>1, <1>1, <1>a, <1>4, <2>1 DEF q
  <2>2. CASE new - 1 < 0
    <3>1. (new - 1) \div P < 1
      BY <2>2, <1>3, <1>4
    <3>2. q < 1
      BY <3>1, <1>1 DEF Page, q
    <3> QED BY <3>2, <1>a, MemoryAssumption
  <2> QED BY <2>1, <2>2, <1>3, <1>4
<1>7. new \in HeapStart * P .. HeapEnd /\ HeapStart * P < new
  BY <1>6, <1>3, <1>4, <1>a
<1>8. \A d \in HeapPage : d * P < ksbrk => d * P < ksbrk'
  <2> SUFFICES ASSUME NEW d \in HeapPage, d * P < ksbrk, ~(d * P < ksbrk') PROVE FALSE
    OBVIOUS
  <2>1. d \in Nat /\ d * P \in Nat
    BY Types
  <2>2. q + 1 <= d \/ d <= q
    BY <2>1, <1>a
  <2>3. CASE d <= q
    <3>1. PICK c \in Nat : q = d + c
      BY <2>1, <2>3, <1>a
    <3>2. q * P = d * P + c * P /\ c * P \in Nat
      BY <2>1, <3>1, <1>4
    <3> QED BY <3>2, <1>6, <1>1, <1>a, <2>1, <1>7
  <2>4. CASE q + 1 <= d
    <3>1. PICK c \in Nat : d = q + 1 + c
      BY <2>1, <2>4, <1>a
    <3>2. d * P = q * P + P + c * P /\ c * P \in Nat
      BY <2>1, <3>1, <1>4, <1>a
    <3> QED BY <3>2, <1>5, <1>4, <1>a
  <2> QED BY <2>2, <2>3, <2>4
<1>9. Released(ksbrk, new) = {}
  <2>1. Page(new - 1) = q /\ Page(ksbrk - 1) = q
    BY <1>1 DEF q
  <2> QED BY <2>1, <1>a DEF Released
<1>10. page_map' = page_map /\ panic' = panic
  <2> DEFINE puts(f) == Cardinality({v \in Released(ksbrk, new) : FrameOf(v) = f})
  <2>1. \A f : puts(f) = 0
    <3>1. \A f : {v \in Released(ksbrk, new) : FrameOf(v) = f} = {}
      BY <1>9
    <3> QED BY <3>1, FS_EmptySet
  <2>2. panic' = panic /\ page_map' = [f \in Frame |-> page_map[f] - puts(f)]
    BY <1>9 DEF KfreeLast, n
  <2> HIDE DEF puts
  <2>3. ASSUME NEW f \in Frame PROVE page_map[f] - puts(f) = page_map[f]
    <3>1. puts(f) = 0 /\ page_map[f] \in Int
      BY <2>1 DEF TypeOK
    <3> QED BY <3>1
  <2> QED BY <2>2, <2>3 DEF TypeOK
<1>11. UNCHANGED <<kmap, pde, pte, umap, sbrk, live, running, todo, child>>
  BY DEF KfreeLast, userVars
<1>12. MapTypes' /\ Mapped'
  BY <1>10, <1>11, Types, MappedStays DEF Mapped
<1>13. BreakOK'
  BY <1>7, <1>1 DEF BreakOK
<1>14. \A m \in live : \A v \in {0, 1} : HasPage(m, v) => HasPage(m, v)'
  BY <1>11 DEF HasPage
<1>15. sbrk' \in [Space -> Int] /\ live' \in SUBSET live /\ running' \in Space
       /\ panic' \in BOOLEAN
  BY <1>10, <1>11 DEF TypeOK
<1> QED BY <1>1, <1>2, <1>7, <1>8, <1>11, <1>12, <1>13, <1>14, <1>15, IdleKeeps

\* The heap's break, when an operation leaves it alone.
LEMMA BreakStays ==
    ASSUME MemInv, UNCHANGED <<ksbrk, blocks>>
    PROVE  /\ ksbrk' \in HeapStart * P .. HeapEnd /\ blocks' \in Seq(Requests \cup {0})
           /\ \A d \in HeapPage : d * P < ksbrk => d * P < ksbrk'
           /\ BreakOK'
  BY DEF MemInv, TypeOK, BreakOK

\* Switch, SysExit and SysSbrk change nothing of the mappings.
LEMMA QuietKeeps ==
    ASSUME MemInv, Idle, UNCHANGED <<page_map, ksbrk, blocks, kmap, pde, pte, umap, todo, child>>,
           sbrk' \in [Space -> Int], live' \in SUBSET live, running' \in Space,
           panic' \in BOOLEAN
    PROVE  MemInv'
<1>1. MapTypes' /\ Mapped'
  BY Types, MappedStays DEF MemInv, Mapped
<1>2. \A m \in live : \A v \in {0, 1} : HasPage(m, v) => HasPage(m, v)'
  BY DEF HasPage
<1> QED BY <1>1, <1>2, BreakStays, IdleKeeps DEF Idle

LEMMA SwitchKeeps ==
    ASSUME MemInv, NEW m \in Mm \cup {Root}, Switch(m)
    PROVE  MemInv'
  BY QuietKeeps DEF Switch, userVars, MemInv, TypeOK, Space

LEMMA TaskExitTypes ==
    ASSUME TypeOK, TaskExit
    PROVE  live' \in SUBSET live /\ running' \in Space
  BY DEF TaskExit, TypeOK, Space

LEMMA SysExitKeeps ==
    ASSUME MemInv, SysExit
    PROVE  MemInv'
  BY QuietKeeps, TaskExitTypes DEF SysExit, userVars, MemInv, TypeOK

LEMMA SysSbrkKeeps ==
    ASSUME MemInv, NEW inc \in Int, SysSbrk(inc)
    PROVE  MemInv'
<1>1. /\ Idle /\ running \in live /\ sbrk' = [sbrk EXCEPT ![running] = sbrk[running] + inc]
      /\ UNCHANGED <<page_map, ksbrk, blocks, kmap, pde, pte, umap, live, running, todo, child>>
      /\ panic' \in BOOLEAN
  BY DEF SysSbrk
<1>2. sbrk' \in [Space -> Int]
  BY <1>1 DEF MemInv, TypeOK
<1> QED BY <1>1, <1>2, QuietKeeps DEF MemInv, TypeOK

\* A fault of a user task, or of a system call on its behalf.
LEMMA FaultKeeps ==
    ASSUME MemInv, Idle, NEW v \in UserPage, umap[running][v] = NoFrame,
           \/ MapUser(running, v)
           \/ UNCHANGED <<page_map, pte, umap>>,
           UNCHANGED <<ksbrk, blocks, kmap, pde, sbrk, todo, child>>,
           live' \in SUBSET live, running' \in Space, panic' \in BOOLEAN
    PROVE  MemInv'
<1>1. MapTypes /\ Mapped /\ running \in Space /\ sbrk' \in [Space -> Int]
      /\ \A m \in live : m \in Space
  BY Types DEF MemInv, Mapped, TypeOK, Space
<1>2. /\ MapTypes' /\ Mapped'
      /\ \A m \in Space, w \in UserPage : HasPage(m, w) => HasPage(m, w)'
  <2>1. CASE MapUser(running, v)
    BY <2>1, <1>1, MapUserKeeps
  <2>2. CASE UNCHANGED <<page_map, pte, umap>>
    BY <2>2, <1>1, MappedStays DEF HasPage
  <2> QED BY <2>1, <2>2
<1>3. \A m \in live : \A w \in {0, 1} : HasPage(m, w) => HasPage(m, w)'
  BY <1>1, <1>2, TableOf
<1> QED BY <1>1, <1>2, <1>3, BreakStays, IdleKeeps DEF Idle

LEMMA UserFaultKeeps ==
    ASSUME MemInv, NEW a \in 0 .. UserPages * P - 1, UserFault(a)
    PROVE  MemInv'
<1>1. Page(a) \in UserPage
  <2>1. a \in Nat /\ P \in Nat \ {0} /\ UserPages \in Nat /\ 0 * P <= a /\ a < UserPages * P
    BY MemoryAssumption
  <2> QED BY <2>1, QuotientIn DEF Page, UserPage
<1>2. /\ Idle /\ umap[running][Page(a)] = NoFrame
      /\ MapUser(running, Page(a)) \/ UNCHANGED <<page_map, pte, umap>>
      /\ UNCHANGED <<live, running>> \/ TaskExit
      /\ UNCHANGED <<ksbrk, blocks, kmap, pde, sbrk, todo, child, panic>>
  BY DEF UserFault
<1>3. live' \in SUBSET live /\ running' \in Space /\ panic' \in BOOLEAN
  BY <1>2, TaskExitTypes DEF MemInv, TypeOK
<1> QED BY <1>1, <1>2, <1>3, FaultKeeps

LEMMA SyscallFaultKeeps ==
    ASSUME MemInv, NEW v \in UserPage, SyscallFault(v)
    PROVE  MemInv'
<1>1. live' \in SUBSET live /\ running' \in Space /\ panic' \in BOOLEAN
  BY DEF SyscallFault, MemInv, TypeOK
<1> QED BY <1>1, FaultKeeps DEF SyscallFault
----------------------------------------------------------------------------
\* What starts with page faults only: kalloc and uses of its blocks.
LEMMA HeapWork ==
    ASSUME NEW v \in HeapPage, todo' = <<[op |-> "heap", page |-> v]>>
    PROVE  todo' \in Seq(KernelStep) /\ ExecOK'
<1>1. [op |-> "heap", page |-> v] \in KernelStep
  BY DEF KernelStep
<1>2. \A i \in DOMAIN todo' : todo'[i].op = "heap"
  OBVIOUS
<1> QED BY <1>1, <1>2 DEF ExecOK

LEMMA KallocKeeps ==
    ASSUME MemInv, NEW n \in Requests, Kalloc(n)
    PROVE  MemInv'
<1>1. /\ todo = <<>> /\ ksbrk + n <= HeapEnd /\ ksbrk' = ksbrk + n
      /\ blocks' = Append(blocks, n)
      /\ todo' = <<[op |-> "heap", page |-> Page(ksbrk)]>>
      /\ UNCHANGED <<page_map, kmap, pde, pte, umap, sbrk, live, running, child, panic>>
  BY DEF Kalloc, Idle, userVars
<1>2. /\ n \in Nat \ {0} /\ ksbrk \in Nat /\ HeapStart * P <= ksbrk /\ HeapEnd \in Nat
      /\ MapTypes /\ HeapStart * P \in Nat /\ \A d \in HeapPage : d * P \in Nat
  BY MemoryAssumption, Types DEF MemInv
<1>3. Page(ksbrk) \in HeapPage
  BY <1>1, <1>2, HeapAddress
<1>4. todo' \in Seq(KernelStep) /\ ExecOK'
  BY <1>1, <1>3, HeapWork
<1>5. MapTypes' /\ Mapped'
  BY <1>1, <1>2, MappedStays DEF MemInv, Mapped
<1>6. TypeOK'
  <2>1. ksbrk' \in HeapStart * P .. HeapEnd
    BY <1>1, <1>2
  <2>2. blocks' \in Seq(Requests \cup {0})
    BY <1>1 DEF MemInv, TypeOK
  <2> QED BY <1>1, <1>4, <1>5, <2>1, <2>2 DEF MemInv, TypeOK, MapTypes
<1>7. BreakOK'
  BY <1>1, <1>2 DEF BreakOK
<1>8. ReadyToRun'
  <2>1. \A d \in HeapPage : d * P < ksbrk => d * P < ksbrk'
    BY <1>1, <1>2
  <2>2. \A m \in live : \A v \in {0, 1} : HasPage(m, v) => HasPage(m, v)'
    BY <1>1 DEF HasPage
  <2> QED BY <1>1, <2>1, <2>2, ReadyStays DEF MemInv
<1> QED BY <1>4, <1>5, <1>6, <1>7, <1>8 DEF MemInv, Mapped

LEMMA KernelUsesKeeps ==
    ASSUME MemInv, NEW v \in HeapPage, KernelUses(v)
    PROVE  MemInv'
<1>1. /\ todo = <<>> /\ todo' = <<[op |-> "heap", page |-> v]>>
      /\ UNCHANGED <<page_map, ksbrk, blocks, kmap, pde, pte, umap, sbrk, live, running,
                     child, panic>>
  BY DEF KernelUses, Idle, userVars
<1>2. todo' \in Seq(KernelStep) /\ ExecOK'
  BY <1>1, HeapWork
<1>3. MapTypes' /\ Mapped'
  BY <1>1, Types, MappedStays DEF MemInv, Mapped
<1>4. TypeOK'
  BY <1>1, <1>2 DEF MemInv, TypeOK
<1>5. ReadyToRun'
  <2>1. \A m \in live : \A w \in {0, 1} : HasPage(m, w) => HasPage(m, w)'
    BY <1>1 DEF HasPage
  <2> QED BY <1>1, <2>1, ReadyStays DEF MemInv
<1> QED BY <1>2, <1>3, <1>4, <1>5, BreakStays, <1>1 DEF MemInv, Mapped
----------------------------------------------------------------------------
\* sys_exec: what it still has to do ends with five steps.
Program(first, w, d) ==
    [i \in 1 .. w |-> [op |-> "heap", page |-> first + i - 1]]
    \o << [op |-> "heap", page |-> d], [op |-> "pde", page |-> d],
          [op |-> "copy", page |-> 0], [op |-> "copy", page |-> 1],
          [op |-> "start", page |-> 0] >>

LEMMA ExecSteps ==
    ASSUME NEW first \in HeapPage, NEW w \in Nat, first + w - 1 \in HeapPage,
           NEW d \in HeapPage, NEW steps, steps = Program(first, w, d)
    PROVE  /\ steps \in Seq(KernelStep) /\ Len(steps) = w + 5
           /\ \A i \in 1 .. w + 1 : steps[i].op = "heap"
           /\ steps[w + 1] = [op |-> "heap", page |-> d]
           /\ steps[w + 2] = [op |-> "pde", page |-> d]
           /\ steps[w + 3] = [op |-> "copy", page |-> 0]
           /\ steps[w + 4] = [op |-> "copy", page |-> 1]
           /\ steps[w + 5] = [op |-> "start", page |-> 0]
<1> DEFINE s == [i \in 1 .. w |-> [op |-> "heap", page |-> first + i - 1]]
           t == << [op |-> "heap", page |-> d], [op |-> "pde", page |-> d],
                   [op |-> "copy", page |-> 0], [op |-> "copy", page |-> 1],
                   [op |-> "start", page |-> 0] >>
<1>1. s \in Seq(KernelStep) /\ Len(s) = w /\ \A i \in 1 .. w : s[i].op = "heap"
  <2>1. ASSUME NEW i \in 1 .. w PROVE first + i - 1 \in HeapPage
    BY MemoryAssumption DEF HeapPage
  <2>2. \A i \in 1 .. w : [op |-> "heap", page |-> first + i - 1] \in KernelStep
    BY <2>1 DEF KernelStep
  <2>3. s \in [1 .. w -> KernelStep]
    BY <2>2
  <2>4. s \in Seq(KernelStep)
    BY <2>3 DEF Seq
  <2> QED BY <2>3, <2>4, LenProperties
<1>2. t \in Seq(KernelStep) /\ Len(t) = 5
  <2>1. /\ [op |-> "heap", page |-> d] \in KernelStep
        /\ [op |-> "pde", page |-> d] \in KernelStep
        /\ [op |-> "copy", page |-> 0] \in KernelStep
        /\ [op |-> "copy", page |-> 1] \in KernelStep
        /\ [op |-> "start", page |-> 0] \in KernelStep
    BY DEF KernelStep
  <2> HIDE DEF KernelStep
  <2> QED BY <2>1
<1>3. /\ t[1] = [op |-> "heap", page |-> d] /\ t[2] = [op |-> "pde", page |-> d]
      /\ t[3] = [op |-> "copy", page |-> 0] /\ t[4] = [op |-> "copy", page |-> 1]
      /\ t[5] = [op |-> "start", page |-> 0]
  OBVIOUS
<1>4. steps = s \o t
  BY DEF Program
<1> HIDE DEF s, t
<1>5. /\ steps \in Seq(KernelStep) /\ Len(steps) = w + 5
      /\ \A i \in 1 .. w + 5 : steps[i] = IF i <= w THEN s[i] ELSE t[i - w]
  <2>1. /\ s \o t \in Seq(KernelStep) /\ Len(s \o t) = Len(s) + Len(t)
        /\ \A i \in 1 .. Len(s) + Len(t) :
             (s \o t)[i] = IF i <= Len(s) THEN s[i] ELSE t[i - Len(s)]
    BY <1>1, <1>2, ConcatProperties
  <2> QED BY <2>1, <1>1, <1>2, <1>4
<1>6. /\ steps[w + 1] = t[1] /\ steps[w + 2] = t[2] /\ steps[w + 3] = t[3]
      /\ steps[w + 4] = t[4] /\ steps[w + 5] = t[5]
  <2>1. \A j \in 1 .. 5 : w + j \in 1 .. w + 5 /\ ~(w + j <= w) /\ w + j - w = j
    OBVIOUS
  <2>2. \A j \in 1 .. 5 : steps[w + j] = t[j]
    BY <2>1, <1>5
  <2> QED BY <2>2
<1>7. ASSUME NEW i \in 1 .. w + 1 PROVE steps[i].op = "heap"
  <2>1. CASE i <= w
    BY <2>1, <1>1, <1>5
  <2>2. CASE i = w + 1
    BY <2>2, <1>3, <1>6
  <2> QED BY <2>1, <2>2
<1> QED BY <1>3, <1>5, <1>6, <1>7

LEMMA SysExecKeeps ==
    ASSUME MemInv, NEW m \in Mm, NEW k \in Structs, SysExec(m, k)
    PROVE  MemInv'
<1> DEFINE dir == Page(ksbrk + k + P)
           first == Page(ksbrk)
           last == Page(ksbrk + k - 1)
           w == last - first + 1
<1>1. /\ todo = <<>> /\ ~panic /\ pde[m] = NoFrame /\ ksbrk + k + 2 * P <= HeapEnd
      /\ ksbrk' = ksbrk + k + 2 * P
      /\ blocks' = Append(blocks, 0) /\ child' = m
      /\ todo' = Program(first, w, dir)
      /\ UNCHANGED <<page_map, kmap, pde, pte, umap, sbrk, live, running, panic>>
  BY DEF SysExec, Idle, userVars, Program
<1>2. /\ k \in Nat \ {0} /\ ksbrk \in Nat /\ HeapStart * P <= ksbrk /\ HeapEnd \in Nat
      /\ MapTypes /\ HeapStart * P \in Nat /\ \A d \in HeapPage : d * P \in Nat
      /\ P \in Nat \ {0}
  BY MemoryAssumption, Types DEF MemInv
<1>3. dir \in HeapPage /\ dir * P <= ksbrk + k + P
  BY <1>1, <1>2, HeapAddress
<1>4. first \in HeapPage /\ last \in HeapPage
  BY <1>1, <1>2, HeapAddress
<1>5. first <= last
  <2>1. first \in Nat /\ first * P <= ksbrk
    BY <1>1, <1>2, HeapAddress, MemoryAssumption DEF HeapPage
  <2>2. last \in HeapPage /\ ksbrk + k - 1 < last * P + P
    BY <1>1, <1>2, HeapAddress
  <2>3. last \in Nat /\ last * P \in Nat /\ first * P \in Nat
    BY <2>1, <2>2, <1>2, Types, <1>4 DEF MemInv
  <2> HIDE DEF first, last
  <2> SUFFICES ASSUME ~(first <= last) PROVE FALSE
    OBVIOUS
  <2>4. PICK c \in Nat : first = last + 1 + c
    BY <2>1, <2>3
  <2>5. first * P = last * P + P + c * P /\ c * P \in Nat
    BY <2>3, <2>4, <1>2
  <2> QED BY <2>1, <2>2, <2>3, <2>5, <1>2
<1>6. w \in Nat \ {0} /\ first + w - 1 \in HeapPage
  BY <1>4, <1>5, MemoryAssumption DEF HeapPage
<1> HIDE DEF dir, first, w
<1>7. /\ todo' \in Seq(KernelStep) /\ Len(todo') = w + 5
      /\ \A i \in 1 .. w + 1 : todo'[i].op = "heap"
      /\ todo'[w + 1] = [op |-> "heap", page |-> dir]
      /\ todo'[w + 2] = [op |-> "pde", page |-> dir]
      /\ todo'[w + 3] = [op |-> "copy", page |-> 0]
      /\ todo'[w + 4] = [op |-> "copy", page |-> 1]
      /\ todo'[w + 5] = [op |-> "start", page |-> 0]
  BY <1>1, <1>3, <1>4, <1>6, ExecSteps
<1>8. MapTypes' /\ Mapped'
  BY <1>1, <1>2, MappedStays DEF MemInv, Mapped
<1>9. TypeOK'
  <2>1. ksbrk' \in HeapStart * P .. HeapEnd
    BY <1>1, <1>2
  <2>2. blocks' \in Seq(Requests \cup {0})
    BY <1>1 DEF MemInv, TypeOK
  <2> QED BY <1>1, <1>7, <1>8, <2>1, <2>2 DEF MemInv, TypeOK, MapTypes, Space
<1>10. BreakOK'
  BY <1>1, <1>2 DEF BreakOK
<1>11. \A d \in HeapPage : d * P < ksbrk => d * P < ksbrk'
  BY <1>1, <1>2
<1>12. ReadyToRun'
  <2>1. \A n \in live : \A v \in {0, 1} : HasPage(n, v) => HasPage(n, v)'
    BY <1>1 DEF HasPage
  <2> QED BY <1>1, <1>11, <2>1, ReadyStays DEF MemInv
\* The new space is nobody's: a task that runs has a directory.
<1>13. m \notin live
  BY <1>1 DEF MemInv, ReadyToRun, DirectoryIn
<1>14. ExecOK'
  <2>1. PICK d \in HeapPage, n \in Nat : d = dir /\ n = w + 5
    BY <1>3, <1>6
  <2>2. d * P < ksbrk'
    BY <1>1, <1>2, <1>3, <2>1
  <2>3. /\ n >= 6 /\ n - 1 = w + 4 /\ n - 2 = w + 3 /\ n - 3 = w + 2
        /\ n - 4 = w + 1 /\ Len(todo') = n
    BY <1>6, <1>7, <2>1
  <2>4. ExecLeft(n, d)'
    BY <2>1, <2>3, <1>7 DEF ExecLeft
  <2>5. ExecDone(n, d)'
    BY <2>3 DEF ExecDone
  <2>6. child' \in Mm \ live'
    BY <1>1, <1>13
  <2>7. ExecLeft(Len(todo), d)' /\ ExecDone(Len(todo), d)'
    BY <2>3, <2>4, <2>5
  <2> QED BY <2>2, <2>6, <2>7 DEF ExecOK
<1> QED BY <1>8, <1>9, <1>10, <1>12, <1>14 DEF MemInv, Mapped
----------------------------------------------------------------------------
\* One step of sys_exec's program less.
LEMMA LeftShrinks ==
    ASSUME TypeOK, NEW op, Step(op), todo' = Tail(todo),
           NEW d, ExecLeft(Len(todo), d), Len(todo) >= 2
    PROVE  ExecLeft(Len(todo), d)'
<1>1. PICK n \in Nat : n = Len(todo)
  BY StepFacts
<1>2. Len(todo') = n - 1 /\ \A i \in 1 .. n - 1 : todo'[i] = todo[i + 1]
  BY <1>1, StepFacts
<1>3. PICK k \in Nat : k = n - 1 /\ k >= 1 /\ n = k + 1
  BY <1>1
<1>4. ExecLeft(n, d)
  BY <1>1
<1>5. todo'[k].op = "start"
  <2>1. todo'[k] = todo[n]
    BY <1>2, <1>3
  <2>2. todo[n].op = "start"
    BY <1>4 DEF ExecLeft
  <2> QED BY <2>1, <2>2
<1>6. k >= 2 => todo'[k - 1] = [op |-> "copy", page |-> 1]
  <2>1. k >= 2 => todo'[k - 1] = todo[n - 1]
    BY <1>2, <1>3
  <2> QED BY <2>1, <1>3, <1>4 DEF ExecLeft
<1>7. k >= 3 => todo'[k - 2] = [op |-> "copy", page |-> 0]
  <2>1. k >= 3 => todo'[k - 2] = todo[n - 2]
    BY <1>2, <1>3
  <2> QED BY <2>1, <1>3, <1>4 DEF ExecLeft
<1>8. k >= 4 => todo'[k - 3] = [op |-> "pde", page |-> d]
  <2>1. k >= 4 => todo'[k - 3] = todo[n - 3]
    BY <1>2, <1>3
  <2> QED BY <2>1, <1>3, <1>4 DEF ExecLeft
<1>9. k >= 5 => todo'[k - 4].page = d
  <2>1. k >= 5 => todo'[k - 4] = todo[n - 4]
    BY <1>2, <1>3
  <2> QED BY <2>1, <1>3, <1>4 DEF ExecLeft
<1>10. \A i \in 1 .. k - 4 : todo'[i].op = "heap"
  <2> SUFFICES ASSUME NEW i \in 1 .. k - 4 PROVE todo'[i].op = "heap"
    OBVIOUS
  <2>1. i \in 1 .. n - 1 /\ i + 1 \in 1 .. n - 4
    BY <1>3
  <2> QED BY <2>1, <1>2, <1>4 DEF ExecLeft
<1>11. ExecLeft(k, d)'
  BY <1>3, <1>5, <1>6, <1>7, <1>8, <1>9, <1>10 DEF ExecLeft
<1> QED BY <1>2, <1>3, <1>11

\* Which of sys_exec's own steps is next.
LEMMA ExecNow ==
    ASSUME MemInv, NEW op, Step(op), op # "heap"
    PROVE  /\ child \in Mm \ live
           /\ \E d \in HeapPage :
                /\ d * P < ksbrk /\ ExecLeft(Len(todo), d) /\ ExecDone(Len(todo), d)
                /\ \/ Len(todo) = 1 /\ op = "start"
                   \/ Len(todo) = 2 /\ op = "copy" /\ Arg = 1
                   \/ Len(todo) = 3 /\ op = "copy" /\ Arg = 0
                   \/ Len(todo) = 4 /\ op = "pde" /\ Arg = d
<1>1. todo # <<>> /\ todo[1].op = op /\ Arg = todo[1].page /\ Len(todo) \in Nat \ {0}
      /\ 1 \in DOMAIN todo
  BY DEF MemInv, TypeOK, Step, Arg
<1>2. child \in Mm \ live
      /\ \E d \in HeapPage :
           d * P < ksbrk /\ ExecLeft(Len(todo), d) /\ ExecDone(Len(todo), d)
  BY <1>1 DEF MemInv, ExecOK
<1>3. PICK d \in HeapPage :
        d * P < ksbrk /\ ExecLeft(Len(todo), d) /\ ExecDone(Len(todo), d)
  BY <1>2
<1>4. ~(Len(todo) >= 5)
  <2>1. \A i \in 1 .. Len(todo) - 4 : todo[i].op = "heap"
    BY <1>3 DEF ExecLeft
  <2>2. Len(todo) >= 5 => 1 \in 1 .. Len(todo) - 4
    BY <1>1
  <2> QED BY <2>1, <2>2, <1>1
<1>5. Len(todo) \in 1 .. 4
  <2>1. PICK n \in Nat \ {0} : n = Len(todo)
    BY <1>1
  <2>2. ~(n >= 5)
    BY <2>1, <1>4
  <2>3. n \in 1 .. 4
    BY <2>2
  <2> QED BY <2>1, <2>3
<1>6. \/ Len(todo) = 1 /\ op = "start"
      \/ Len(todo) = 2 /\ op = "copy" /\ Arg = 1
      \/ Len(todo) = 3 /\ op = "copy" /\ Arg = 0
      \/ Len(todo) = 4 /\ op = "pde" /\ Arg = d
  <2>1. /\ Len(todo) >= 2 => todo[Len(todo) - 1] = [op |-> "copy", page |-> 1]
        /\ Len(todo) >= 3 => todo[Len(todo) - 2] = [op |-> "copy", page |-> 0]
        /\ Len(todo) >= 4 => todo[Len(todo) - 3] = [op |-> "pde", page |-> d]
        /\ todo[Len(todo)].op = "start"
    BY <1>3 DEF ExecLeft
  <2>2. CASE Len(todo) = 1
    BY <2>1, <2>2, <1>1
  <2>3. CASE Len(todo) = 2
    <3>1. todo[1] = [op |-> "copy", page |-> 1]
      BY <2>1, <2>3
    <3> QED BY <3>1, <2>3, <1>1
  <2>4. CASE Len(todo) = 3
    <3>1. todo[1] = [op |-> "copy", page |-> 0]
      BY <2>1, <2>4
    <3> QED BY <3>1, <2>4, <1>1
  <2>5. CASE Len(todo) = 4
    <3>1. todo[1] = [op |-> "pde", page |-> d]
      BY <2>1, <2>5
    <3> QED BY <3>1, <2>5, <1>1
  <2> QED BY <2>2, <2>3, <2>4, <2>5, <1>5
<1> QED BY <1>2, <1>3, <1>6

LEMMA SetPdeKeeps ==
    ASSUME MemInv, SetPde
    PROVE  MemInv'
<1>1. /\ Step("pde") /\ ~panic /\ todo' = Tail(todo)
      /\ pde' = [pde EXCEPT ![child] = kmap[Arg]]
      /\ UNCHANGED <<page_map, ksbrk, blocks, kmap, pte, umap, sbrk, live, running, child, panic>>
  BY DEF SetPde, Step
<1>2. PICK d \in HeapPage :
        /\ child \in Mm \ live /\ d * P < ksbrk
        /\ ExecLeft(Len(todo), d) /\ ExecDone(Len(todo), d)
        /\ Len(todo) = 4 /\ Arg = d
  BY <1>1, ExecNow
<1>3. TypeOK
  BY DEF MemInv
<1>4. Len(todo') = 3 /\ todo' \in Seq(KernelStep) /\ ExecLeft(3, d)'
  <2>1. Len(todo') = 3 /\ todo' \in Seq(KernelStep)
    BY <1>1, <1>2, <1>3, StepFacts
  <2>2. ExecLeft(Len(todo), d)'
    BY <1>1, <1>2, <1>3, LeftShrinks
  <2> QED BY <2>1, <2>2
<1>5. kmap[d] # NoFrame /\ kmap[d] \in Frame \cup {NoFrame}
  BY <1>1, <1>2, <1>3 DEF ExecDone, TypeOK
<1>6. /\ pde' \in [Space -> Frame \cup {NoFrame, 0}] /\ pde'[child] = kmap[d]
      /\ \A m \in live : pde'[m] = pde[m]
  BY <1>1, <1>2, <1>3, <1>5 DEF TypeOK, Space
<1>7. TypeOK'
  BY <1>1, <1>3, <1>4, <1>6 DEF TypeOK
<1>8. ExecOK'
  <2>1. DirectoryIn(child, d)'
    BY <1>1, <1>2, <1>5, <1>6 DEF DirectoryIn
  <2>2. ExecDone(3, d)'
    BY <2>1 DEF ExecDone
  <2>3. (child \in Mm \ live)' /\ d * P < ksbrk'
    BY <1>1, <1>2
  <2> QED BY <1>4, <2>2, <2>3 DEF ExecOK
<1>9. ReadyToRun'
  <2>1. \A m \in live : \A w \in {0, 1} : HasPage(m, w) => HasPage(m, w)'
    BY <1>1 DEF HasPage
  <2> QED BY <1>1, <1>6, <2>1, ReadyStays DEF MemInv
<1>10. Mapped'
  BY <1>1, <1>3, Types, MappedStays DEF MemInv, Mapped
<1> QED BY <1>1, <1>7, <1>8, <1>9, <1>10, BreakStays DEF MemInv, Mapped

LEMMA CopyKeeps ==
    ASSUME MemInv, CopyToMmSpace
    PROVE  MemInv' /\ \A k \in Space : k # child => umap'[k] = umap[k] /\ pte'[k] = pte[k]
<1>1. /\ Step("copy") /\ ~panic /\ todo' = Tail(todo)
      /\ sbrk' = [sbrk EXCEPT ![child] = @ + P]
      /\ UNCHANGED <<ksbrk, blocks, kmap, pde, live, running, child>>
  BY DEF CopyToMmSpace, Step
<1>2. PICK d \in HeapPage :
        /\ child \in Mm \ live /\ d * P < ksbrk
        /\ ExecLeft(Len(todo), d) /\ ExecDone(Len(todo), d)
        /\ \/ Len(todo) = 2 /\ Arg = 1
           \/ Len(todo) = 3 /\ Arg = 0
  BY <1>1, ExecNow
<1>u. 0 \in UserPage /\ 1 \in UserPage
  BY MemoryAssumption DEF UserPage
<1>3. TypeOK /\ MapTypes /\ Mapped /\ child \in Space /\ Arg \in UserPage
  BY <1>2, <1>u, Types DEF MemInv, Mapped, TypeOK
<1>4. PICK n \in 2 .. 3 : n = Len(todo)
  BY <1>2
<1>v. PICK v \in UserPage, m \in Space : v = Arg /\ m = child
  BY <1>3
<1>5. Len(todo') = n - 1 /\ todo' \in Seq(KernelStep) /\ ExecLeft(n - 1, d)'
  <2>1. Len(todo') = n - 1 /\ todo' \in Seq(KernelStep)
    BY <1>1, <1>3, <1>4, StepFacts
  <2>2. ExecLeft(Len(todo), d)'
    BY <1>1, <1>2, <1>3, <1>4, LeftShrinks
  <2> QED BY <2>1, <2>2
\* The copy fills the child's page or panics.
<1>6. /\ MapTypes' /\ Mapped' /\ panic' \in BOOLEAN
      /\ \A k \in Space, w \in UserPage : HasPage(k, w) => HasPage(k, w)'
      /\ ~panic' => HasPage(m, v)'
      /\ \A k \in Space : k # m => umap'[k] = umap[k] /\ pte'[k] = pte[k]
  <2>1. CASE umap[m][v] = NoFrame
    <3>1. MapUser(m, v) /\ panic' = (PageFrame(m, v) = {})
      BY <2>1, <1>v DEF CopyToMmSpace, FaultSpace
    <3> QED BY <1>1, <1>3, <2>1, <3>1, MapUserKeeps
  <2>2. CASE umap[m][v] # NoFrame
    <3>1. UNCHANGED <<page_map, pte, umap, panic>>
      BY <2>2, <1>v DEF CopyToMmSpace, FaultSpace
    <3>2. HasPage(m, v)
      BY <2>2, <1>3 DEF Mapped, TablesThere
    <3>3. \A k \in Space, w \in UserPage : HasPage(k, w) => HasPage(k, w)'
      BY <3>1 DEF HasPage
    <3>4. MapTypes' /\ Mapped'
      BY <1>1, <1>3, <3>1, MappedStays
    <3> QED BY <3>1, <3>2, <3>3, <3>4, <1>3 DEF TypeOK
  <2> QED BY <2>1, <2>2
<1>7. TypeOK'
  <2>1. sbrk' \in [Space -> Int]
    BY <1>1, <1>3, MemoryAssumption DEF TypeOK
  <2> QED BY <1>1, <1>3, <1>5, <1>6, <2>1 DEF TypeOK, MapTypes
<1>8. ExecOK'
  <2>1. DirectoryIn(child, d)'
    BY <1>1, <1>2, <1>4 DEF ExecDone, DirectoryIn
  <2>2. \A w \in UserPage : HasPage(m, w)' => HasPage(child, w)'
    BY <1>1, <1>v DEF HasPage
  <2>3. ~panic' /\ n = 3 => HasPage(child, 0)'
    BY <1>2, <1>4, <1>v, <1>6, <2>2, <1>u
  <2>4. ~panic' /\ n = 2 => HasPage(child, 1)'
    BY <1>2, <1>4, <1>v, <1>6, <2>2, <1>u
  <2>5. n = 2 => HasPage(child, 0)'
    <3>1. n = 2 => HasPage(child, 0)
      BY <1>1, <1>2, <1>4 DEF ExecDone
    <3>2. n = 2 => HasPage(m, 0)
      BY <3>1, <1>v
    <3> QED BY <3>2, <1>6, <2>2, <1>u
  <2>6. ExecDone(n - 1, d)'
    BY <2>1, <2>3, <2>4, <2>5 DEF ExecDone
  <2>7. child' \in Mm \ live' /\ d * P < ksbrk'
    BY <1>1, <1>2
  <2>8. ExecLeft(Len(todo), d)' /\ ExecDone(Len(todo), d)'
    BY <1>5, <2>6
  <2> QED BY <2>7, <2>8 DEF ExecOK
<1>9. ReadyToRun'
  <2>1. \A k \in live : \A w \in {0, 1} : HasPage(k, w) => HasPage(k, w)'
    BY <1>3, <1>6, <1>u DEF TypeOK, Space
  <2> QED BY <1>1, <2>1, ReadyStays DEF MemInv
<1>10. MemInv'
  BY <1>1, <1>6, <1>7, <1>8, <1>9, BreakStays DEF MemInv, Mapped
<1> QED BY <1>6, <1>10, <1>v

LEMMA TouchHeapKeeps ==
    ASSUME MemInv, TouchHeap
    PROVE  MemInv'
<1>1. /\ Step("heap") /\ ~panic /\ todo' = Tail(todo) /\ MapHeap(Arg)
      /\ UNCHANGED <<ksbrk, blocks, pde, pte, umap, sbrk, live, running, child>>
  BY DEF TouchHeap, Step, userVars
<1>2. TypeOK /\ MapTypes /\ Mapped /\ panic \in BOOLEAN
  BY Types DEF MemInv, Mapped, TypeOK
<1>3. PICK n \in Nat \ {0} :
        /\ n = Len(todo) /\ Len(todo') = n - 1 /\ todo' \in Seq(KernelStep)
        /\ \A i \in 1 .. n - 1 : todo'[i] = todo[i + 1]
  BY <1>1, <1>2, StepFacts
<1>4. PICK v \in HeapPage : v = Arg /\ v = todo[1].page
  <2>1. todo[1] \in KernelStep /\ todo[1].op = "heap" /\ Arg = todo[1].page
    BY <1>1, <1>2, StepFacts
  <2> QED BY <2>1 DEF KernelStep
<1>5. /\ MapTypes' /\ Mapped' /\ panic' \in BOOLEAN
      /\ \A w \in HeapPage : kmap[w] # NoFrame => kmap'[w] = kmap[w]
      /\ ~panic' => kmap'[v] # NoFrame
  BY <1>1, <1>2, <1>4, MapHeapKeeps
<1>6. TypeOK'
  BY <1>1, <1>2, <1>3, <1>5 DEF TypeOK, MapTypes
<1>7. ExecOK'
  <2>1. CASE \A i \in DOMAIN todo : todo[i].op = "heap"
    <3>1. DOMAIN todo = 1 .. n /\ DOMAIN todo' = 1 .. n - 1
      BY <1>2, <1>3 DEF TypeOK
    <3>2. ASSUME NEW i \in 1 .. n - 1 PROVE todo'[i].op = "heap"
      <4>1. i + 1 \in 1 .. n
        OBVIOUS
      <4> QED BY <4>1, <3>1, <2>1, <1>3
    <3> QED BY <3>1, <3>2 DEF ExecOK
  <2>2. CASE ~ \A i \in DOMAIN todo : todo[i].op = "heap"
    <3>1. child \in Mm \ live
          /\ \E d \in HeapPage :
               d * P < ksbrk /\ ExecLeft(Len(todo), d) /\ ExecDone(Len(todo), d)
      BY <2>2 DEF MemInv, ExecOK
    <3>2. PICK d \in HeapPage : d * P < ksbrk /\ ExecLeft(n, d) /\ ExecDone(n, d)
      BY <3>1, <1>3
    <3>3. todo[1].op = "heap"
      BY <1>1, <1>2, StepFacts
    <3>4. n >= 5
      <4>1. n = 1 => todo[1].op = "start"
        BY <3>2 DEF ExecLeft
      <4>2. n = 2 => todo[1] = [op |-> "copy", page |-> 1]
        BY <3>2 DEF ExecLeft
      <4>3. n = 3 => todo[1] = [op |-> "copy", page |-> 0]
        BY <3>2 DEF ExecLeft
      <4>4. n = 4 => todo[1] = [op |-> "pde", page |-> d]
        BY <3>2 DEF ExecLeft
      <4> QED BY <3>3, <4>1, <4>2, <4>3, <4>4
    <3>5. ExecLeft(n - 1, d)'
      <4>1. ExecLeft(Len(todo), d)'
        BY <1>1, <1>2, <1>3, <3>2, <3>4, LeftShrinks
      <4> QED BY <4>1, <1>3
    <3>6. ~panic' /\ n - 1 = 4 => kmap'[d] # NoFrame
      <4>1. n = 5 => todo[1].page = d
        BY <3>2 DEF ExecLeft
      <4> QED BY <4>1, <1>4, <1>5
    <3>7. ExecDone(n - 1, d)'
      BY <3>4, <3>6 DEF ExecDone
    <3>8. ExecLeft(Len(todo), d)' /\ ExecDone(Len(todo), d)'
      BY <3>5, <3>7, <1>3
    <3>9. child' \in Mm \ live' /\ d * P < ksbrk'
      BY <1>1, <3>1, <3>2
    <3> QED BY <3>8, <3>9 DEF ExecOK
  <2> QED BY <2>1, <2>2
<1>8. ReadyToRun'
  <2>1. \A k \in live : \A w \in {0, 1} : HasPage(k, w) => HasPage(k, w)'
    BY <1>1 DEF HasPage
  <2> QED BY <1>1, <1>5, <2>1, ReadyStays DEF MemInv
<1> QED BY <1>1, <1>5, <1>6, <1>7, <1>8, BreakStays DEF MemInv, Mapped

LEMMA StartKeeps ==
    ASSUME MemInv, Start
    PROVE  MemInv'
<1>1. /\ Step("start") /\ ~panic /\ todo' = Tail(todo) /\ live' = live \cup {child}
      /\ UNCHANGED <<page_map, ksbrk, blocks, kmap, pde, pte, umap, sbrk, running, child, panic>>
  BY DEF Start, Step, userVars
<1>2. PICK d \in HeapPage :
        /\ child \in Mm \ live /\ d * P < ksbrk
        /\ ExecDone(Len(todo), d) /\ Len(todo) = 1
  BY <1>1, ExecNow
<1>3. TypeOK
  BY DEF MemInv
<1>4. todo' = <<>> /\ todo' \in Seq(KernelStep)
  <2>1. Len(todo') = 0 /\ todo' \in Seq(KernelStep)
    BY <1>1, <1>2, <1>3, StepFacts
  <2> QED BY <2>1
<1>5. TypeOK'
  BY <1>1, <1>2, <1>3, <1>4 DEF TypeOK
<1>6. ReadyToRun'
  <2>1. DirectoryIn(child, d) /\ HasPage(child, 0) /\ HasPage(child, 1)
    BY <1>1, <1>2 DEF ExecDone
  <2>2. \A k \in live' : \A c \in HeapPage : DirectoryIn(k, c) => DirectoryIn(k, c)'
    BY <1>1 DEF DirectoryIn
  <2>3. \A k \in live' : \A w \in {0, 1} : HasPage(k, w) => HasPage(k, w)'
    BY <1>1 DEF HasPage
  <2> SUFFICES ASSUME NEW k \in live'
               PROVE  /\ \E c \in HeapPage : DirectoryIn(k, c)'
                      /\ HasPage(k, 0)' /\ HasPage(k, 1)'
    BY DEF ReadyToRun, HeapPage
  <2>4. (\E c \in HeapPage : DirectoryIn(k, c)) /\ HasPage(k, 0) /\ HasPage(k, 1)
    BY <1>1, <2>1 DEF MemInv, ReadyToRun
  <2> QED BY <2>2, <2>3, <2>4
<1>7. ExecOK'
  BY <1>4 DEF ExecOK
<1>8. Mapped'
  BY <1>1, <1>3, Types, MappedStays DEF MemInv, Mapped
<1> QED BY <1>1, <1>5, <1>6, <1>7, <1>8, BreakStays DEF MemInv, Mapped
----------------------------------------------------------------------------
\* Every step keeps the invariant.
LEMMA NextMem ==
    ASSUME ~CrossPage, MemInv, [Next]_vars
    PROVE  MemInv'
<1>1. CASE KfreeLast
  BY <1>1, KfreeLastKeeps
<1>2. CASE TouchHeap
  BY <1>2, TouchHeapKeeps
<1>3. CASE SetPde
  BY <1>3, SetPdeKeeps
<1>4. CASE CopyToMmSpace
  BY <1>4, CopyKeeps
<1>5. CASE Start
  BY <1>5, StartKeeps
<1>6. CASE \E n \in Requests : Kalloc(n)
  BY <1>6, KallocKeeps
<1>7. CASE \E v \in HeapPage : KernelUses(v)
  BY <1>7, KernelUsesKeeps
<1>8. CASE Switch(Root) \/ \E m \in Mm : Switch(m)
  BY <1>8, SwitchKeeps
<1>9. CASE \E m \in Mm : \E k \in Structs : SysExec(m, k)
  BY <1>9, SysExecKeeps
<1>10. CASE SysExit
  BY <1>10, SysExitKeeps
<1>11. CASE \E a \in 0 .. UserPages * P - 1 : UserFault(a)
  BY <1>11, UserFaultKeeps
<1>12. CASE \E v \in UserPage : SyscallFault(v)
  BY <1>12, SyscallFaultKeeps
<1>13. CASE \E inc \in Increments \cup {-d : d \in Decrements} : SysSbrk(inc)
  <2>1. ASSUME NEW inc \in Increments \cup {-d : d \in Decrements} PROVE inc \in Int
    <3>1. CASE inc \in Increments
      BY <3>1, MemoryAssumption
    <3>2. CASE \E d \in Decrements : inc = -d
      <4>1. \A d \in Decrements : d \in Nat
        BY MemoryAssumption
      <4> QED BY <3>2, <4>1
    <3> QED BY <3>1, <3>2
  <2> QED BY <1>13, <2>1, SysSbrkKeeps
<1>14. CASE UNCHANGED vars
  <2>1. UNCHANGED <<page_map, ksbrk, blocks, kmap, pde, pte, umap, sbrk, live, running,
                    todo, child, panic>>
    BY <1>14 DEF vars
  <2>2. TypeOK' /\ BreakOK' /\ ReadyToRun'
    BY <2>1 DEF MemInv, TypeOK, BreakOK, ReadyToRun, DirectoryIn, HasPage
  <2>3. ExecOK'
    BY <2>1 DEF MemInv, ExecOK, ExecLeft, ExecDone, DirectoryIn, HasPage
  <2>4. Mapped'
    BY <2>1, Types, MappedStays DEF MemInv, Mapped
  <2> QED BY <2>2, <2>3, <2>4 DEF MemInv, Mapped
<1> QED BY <1>1, <1>2, <1>3, <1>4, <1>5, <1>6, <1>7, <1>8, <1>9, <1>10, <1>11, <1>12,
           <1>13, <1>14 DEF Next

\* As long as free does not lower the break into another page, every state
\* satisfies the inductive invariant.
THEOREM MemInvariant ==
    ASSUME ~CrossPage
    PROVE  Spec => []MemInv
<1>1. MemInv /\ [Next]_vars => MemInv'
  BY NextMem
<1> QED BY InitMem, <1>1, PTL DEF Spec

\* Every variable of the memory manager keeps its type.
THEOREM MemType ==
    ASSUME ~CrossPage
    PROVE  Spec => []TypeOK
<1>1. MemInv => TypeOK
  BY DEF MemInv
<1> QED BY <1>1, MemInvariant, PTL

\* No frame get_page hands out ever serves two page table entries.
THEOREM MemFrames ==
    ASSUME ~CrossPage
    PROVE  Spec => []FrameOnce
<1>1. MemInv => FrameOnce
  BY DEF MemInv
<1> QED BY <1>1, MemInvariant, PTL

\* page_map counts exactly the frames in use, faults that fail half way included.
THEOREM MemCounts ==
    ASSUME ~CrossPage
    PROVE  Spec => []CountsExact
<1>1. MemInv => CountsExact
  BY DEF MemInv
<1> QED BY <1>1, MemInvariant, PTL

\* Whatever faults sys_exec meets, a task it starts has its directory, a page
\* table, its code and its stack.
THEOREM MemReady ==
    ASSUME ~CrossPage
    PROVE  Spec => []ReadyToRun
<1>1. MemInv => ReadyToRun
  BY DEF MemInv
<1> QED BY <1>1, MemInvariant, PTL

\* page_int on behalf of the running task or of its system call fills that task's
\* space only.
LEMMA FaultOwn ==
    ASSUME MemInv, NEW v \in UserPage, Idle, umap[running][v] = NoFrame,
           MapUser(running, v) \/ UNCHANGED <<page_map, pte, umap>>, UNCHANGED kmap,
           NEW m \in Space, umap'[m] # umap[m] \/ pte'[m] # pte[m]
    PROVE  running = m /\ todo = <<>>
<1>1. MapTypes /\ Mapped /\ running \in Space
  BY Types DEF MemInv, Mapped, TypeOK
<1>2. CASE MapUser(running, v)
  <2>1. \A k \in Space : k # running => umap'[k] = umap[k] /\ pte'[k] = pte[k]
    BY <1>1, <1>2, MapUserKeeps
  <2> QED BY <2>1 DEF Idle
<1>3. CASE UNCHANGED <<page_map, pte, umap>>
  BY <1>3
<1> QED BY <1>2, <1>3

\* A step that changes the mappings of the kernel's space or of a task's is a fault
\* of that very task.
LEMMA OwnStep ==
    ASSUME MemInv, [Next]_vars, NEW m \in live \cup {Root},
           umap'[m] # umap[m] \/ pte'[m] # pte[m]
    PROVE  running = m /\ todo = <<>>
<1>1. m \in Space
  BY DEF MemInv, TypeOK, Space
<1>2. CASE \E a \in 0 .. UserPages * P - 1 : UserFault(a)
  <2>1. PICK a \in 0 .. UserPages * P - 1 : UserFault(a)
    BY <1>2
  <2>2. Page(a) \in UserPage
    <3>1. a \in Nat /\ P \in Nat \ {0} /\ UserPages \in Nat /\ 0 * P <= a /\ a < UserPages * P
      BY MemoryAssumption
    <3> QED BY <3>1, QuotientIn DEF Page, UserPage
  <2>3. /\ Idle /\ umap[running][Page(a)] = NoFrame /\ UNCHANGED kmap
        /\ MapUser(running, Page(a)) \/ UNCHANGED <<page_map, pte, umap>>
    BY <2>1 DEF UserFault
  <2> QED BY <1>1, <2>2, <2>3, FaultOwn
<1>3. CASE \E v \in UserPage : SyscallFault(v)
  BY <1>1, <1>3, FaultOwn DEF SyscallFault
\* sys_exec fills the space of its child, which no task has yet.
<1>4. CASE CopyToMmSpace
  <2>1. child \in Mm \ live
    <3>1. Step("copy")
      BY <1>4 DEF CopyToMmSpace
    <3> QED BY <3>1, ExecNow
  <2>2. m # child
    BY <2>1, MemoryAssumption
  <2> QED BY <1>1, <1>4, <2>2, CopyKeeps
<1>5. CASE UNCHANGED <<umap, pte>>
  BY <1>5
<1>6. ASSUME Next
      PROVE  \/ \E a \in 0 .. UserPages * P - 1 : UserFault(a)
             \/ \E v \in UserPage : SyscallFault(v)
             \/ CopyToMmSpace \/ UNCHANGED <<umap, pte>>
  BY <1>6 DEF Next, KfreeLast, TouchHeap, SetPde, Start, Kalloc, KernelUses, Switch,
     SysExec, SysExit, SysSbrk, userVars
<1> QED BY <1>2, <1>3, <1>4, <1>5, <1>6 DEF vars

\* A task's mappings change only while it runs and faults itself.
THEOREM MemOwnSpace ==
    ASSUME ~CrossPage
    PROVE  Spec => OwnSpaceOnly
<1>1. MemInv /\ [Next]_vars =>
        [\A m \in live \cup {Root} :
           umap'[m] # umap[m] \/ pte'[m] # pte[m] => running = m /\ todo = <<>>]_vars
  BY OwnStep
<1> QED BY <1>1, MemInvariant, PTL DEF Spec, OwnSpaceOnly
-----------------------------------------------------------------------------
(* The list of kalloc and kfree.                                           *)
(*                                                                         *)
(* HeapInv is inductive: the list fills the heap without gaps (ListOK), so *)
(* the block that ends at the break is the last one (BlockFacts); blocks   *)
(* do not overlap, and the ones in use are those the callers hold.         *)

HeapInv == HeapTypeOK /\ ListOK /\ BlocksApart /\ OwnedOK

\* Every block lies inside the heap, and only the last one ends at the break.
LEMMA BlockFacts ==
    ASSUME HeapInv
    PROVE  /\ H \in Nat \ {0} /\ brk \in Nat /\ brk <= Limit /\ Limit \in Nat
           /\ Base \in Nat \ {0} /\ Base <= brk
           /\ \A a \in headers :
                /\ a \in Nat /\ size[a] \in Nat /\ Base <= a
                /\ End(a) = a + H + size[a]
                /\ a \in Addr /\ a + H \in Addr
                /\ a <= tail /\ End(a) <= brk
                /\ End(a) = brk => a = tail
           /\ headers # {} => tail \in headers /\ End(tail) = brk
<1> USE HeapAssumption
<1>1. /\ H \in Nat \ {0} /\ brk \in Nat /\ brk <= Limit /\ Limit \in Nat
      /\ Base \in Nat \ {0} /\ Base <= brk
  BY DEF HeapInv, HeapTypeOK, Addr
<1>2. ASSUME NEW a \in headers
      PROVE  /\ a \in Nat /\ size[a] \in Nat /\ Base <= a /\ a \in Addr
             /\ End(a) = a + H + size[a]
  BY DEF HeapInv, HeapTypeOK, Addr, Length, End
<1>3. headers # {} => tail \in headers /\ End(tail) = brk
  BY DEF HeapInv, ListOK
<1>4. ASSUME NEW a \in headers
      PROVE  /\ End(a) <= brk /\ a + H \in Addr
             /\ a <= tail
             /\ End(a) = brk => a = tail
  <2>1. End(a) <= brk
    BY DEF HeapInv, BlocksApart
  <2>2. a + H \in Addr
    BY <2>1, <1>1, <1>2 DEF Addr
  <2>3. tail \in headers /\ End(tail) = brk
    BY <1>3
  <2>4. ~(tail < a)
    <3>1. tail < a => End(tail) <= a
      BY <2>3 DEF HeapInv, BlocksApart
    <3> QED BY <3>1, <2>1, <2>3, <1>1, <1>2
  <2>5. a < tail => End(a) <= tail
    BY <2>3 DEF HeapInv, BlocksApart
  <2> QED BY <2>1, <2>2, <2>3, <2>4, <2>5, <1>1, <1>2
<1> QED BY <1>1, <1>2, <1>3, <1>4

\* The callers' bytes begin behind a header of the list.
LEMMA OwnedFacts ==
    ASSUME HeapInv
    PROVE  \A p \in DOMAIN owned :
             /\ p \in Nat /\ p \in Addr /\ p - H \in headers /\ is_free[p - H] = 0
             /\ owned[p] \in Nat \ {0} /\ owned[p] <= size[p - H]
             /\ owned[p] \in Sizes
<1> SUFFICES ASSUME NEW p \in DOMAIN owned
             PROVE  /\ p \in Nat /\ p \in Addr /\ p - H \in headers /\ is_free[p - H] = 0
                    /\ owned[p] \in Nat \ {0} /\ owned[p] <= size[p - H]
                    /\ owned[p] \in Sizes
  OBVIOUS
<1>1. p \in Nat /\ p \in Addr /\ owned[p] \in Nat \ {0} /\ owned[p] \in Sizes
  <2>1. p \in Addr /\ owned[p] \in Sizes
    BY DEF HeapInv, HeapTypeOK
  <2>2. p \in Nat
    BY <2>1, HeapAssumption DEF Addr
  <2>3. owned[p] \in Nat \ {0}
    BY <2>1, HeapAssumption
  <2> QED BY <2>1, <2>2, <2>3
<1>2. p - H \in headers /\ owned[p] <= size[p - H]
  BY DEF HeapInv, OwnedOK
<1>3. (p - H) + H = p
  BY <1>1, HeapAssumption
<1>4. is_free[p - H] = 0
  BY <1>2, <1>3 DEF HeapInv, OwnedOK
<1> QED BY <1>1, <1>2, <1>4
----------------------------------------------------------------------------
LEMMA HeapInitially == HeapInit => HeapInv
  BY HeapAssumption
  DEF HeapInit, HeapInv, HeapTypeOK, ListOK, BlocksApart, OwnedOK, Addr, Length, NULL

LEMMA MallocReuseKeeps ==
    ASSUME HeapInv, NEW n \in Sizes, MallocReuse(n)
    PROVE  HeapInv'
<1> USE BlockFacts, HeapAssumption
<1>1. PICK a \in Fits(n) :
        /\ is_free' = [is_free EXCEPT ![a] = 0]
        /\ owned' = InUse(a + H, n)
        /\ UNCHANGED <<head, tail, brk, size, next, headers>>
  BY DEF MallocReuse
<1>2. a \in headers /\ is_free[a] = 1 /\ size[a] >= n /\ a + H \in Addr
  BY <1>1 DEF Fits
<1>3. HeapTypeOK'
  BY <1>1, <1>2 DEF HeapInv, HeapTypeOK, InUse, Addr
<1>4. ListOK' /\ BlocksApart'
  BY <1>1 DEF HeapInv, ListOK, BlocksApart, End
<1>5. OwnedOK'
  <2>1. ASSUME NEW p \in DOMAIN owned'
        PROVE  p - H \in headers' /\ owned'[p] <= size'[p - H]
    BY <1>1, <1>2 DEF HeapInv, OwnedOK, InUse
  <2>2. ASSUME NEW b \in headers'
        PROVE  is_free'[b] = 0 <=> b + H \in DOMAIN owned'
    <3>1. DOMAIN owned' = DOMAIN owned \cup {a + H}
      BY <1>1 DEF InUse
    <3>2. CASE b = a
      BY <3>1, <3>2, <1>1, <1>2 DEF HeapInv, HeapTypeOK
    <3>3. CASE b # a
      <4>1. b + H # a + H
        BY <3>3, <1>1, <1>2
      <4>2. is_free'[b] = is_free[b]
        BY <1>1, <3>3 DEF HeapInv, HeapTypeOK
      <4> QED BY <4>1, <4>2, <3>1, <1>1 DEF HeapInv, OwnedOK
    <3> QED BY <3>2, <3>3
  <2> QED BY <2>1, <2>2 DEF OwnedOK
<1> QED BY <1>3, <1>4, <1>5 DEF HeapInv

LEMMA MallocGrowKeeps ==
    ASSUME HeapInv, NEW n \in Sizes, MallocGrow(n)
    PROVE  HeapInv'
<1> USE BlockFacts, HeapAssumption
<1>1. /\ n \in Nat \ {0} /\ brk \in Addr /\ brk + H \in Addr /\ brk + H + n \in Addr
      /\ n \in Length /\ brk # NULL
  BY DEF MallocGrow, Addr, Length, NULL
<1>2. /\ brk' = brk + H + n
      /\ size' = [size EXCEPT ![brk] = n]
      /\ is_free' = [is_free EXCEPT ![brk] = 0]
      /\ tail' = brk
      /\ headers' = headers \cup {brk}
      /\ owned' = InUse(brk + H, n)
  BY DEF MallocGrow
<1>3. /\ brk \notin headers
      /\ \A a \in headers : a < brk /\ size'[a] = size[a] /\ is_free'[a] = is_free[a]
      /\ size'[brk] = n /\ is_free'[brk] = 0
  <2>1. \A a \in headers : a < brk
    OBVIOUS
  <2> QED BY <2>1, <1>1, <1>2 DEF HeapInv, HeapTypeOK
<1>4. /\ next'[brk] = NULL
      /\ \A a \in headers : a # tail => next'[a] = next[a]
      /\ tail # NULL => next'[tail] = brk
      /\ next' \in [Addr -> Addr \cup {NULL}]
  <2>1. CASE tail = NULL
    <3>1. next' = [next EXCEPT ![brk] = NULL]
      BY <2>1 DEF MallocGrow
    <3> QED BY <3>1, <2>1, <1>1, <1>3 DEF HeapInv, HeapTypeOK
  <2>2. CASE tail # NULL
    <3>1. next' = [next EXCEPT ![brk] = NULL, ![tail] = brk]
      BY <2>2 DEF MallocGrow
    <3>2. tail \in Addr /\ tail # brk
      BY <2>2, <1>3 DEF HeapInv, HeapTypeOK, ListOK
    <3> QED BY <3>1, <3>2, <1>1, <1>3 DEF HeapInv, HeapTypeOK
  <2> QED BY <2>1, <2>2
<1>5. head' = IF head = NULL THEN brk ELSE head
  BY DEF MallocGrow
<1>6. HeapTypeOK'
  BY <1>1, <1>2, <1>4, <1>5 DEF HeapInv, HeapTypeOK, InUse
<1>7. ListOK'
  <2>1. head' = Base /\ Base \in headers'
    <3>1. CASE head = NULL
      BY <3>1, <1>1, <1>2, <1>5 DEF HeapInv, ListOK
    <3>2. CASE head # NULL
      BY <3>2, <1>2, <1>5 DEF HeapInv, ListOK
    <3> QED BY <3>1, <3>2
  <2>2. tail' \in headers' /\ next'[tail'] = NULL /\ End(tail)' = brk'
    BY <1>1, <1>2, <1>3, <1>4 DEF End
  <2>3. ASSUME NEW a \in headers' \ {tail'}
        PROVE  next'[a] = End(a)' /\ next'[a] \in headers'
    <3>1. a \in headers /\ tail \in headers /\ End(tail) = brk /\ End(a)' = End(a)
      BY <1>2, <1>3 DEF End
    <3>2. CASE a = tail
      BY <3>1, <3>2, <1>2, <1>4 DEF NULL
    <3>3. CASE a # tail
      BY <3>1, <3>3, <1>2, <1>4 DEF HeapInv, ListOK
    <3> QED BY <3>2, <3>3
  <2>4. ASSUME NEW a \in headers' \ {head'}
        PROVE  \E b \in headers' : next'[b] = a
    <3>1. CASE a = brk
      <4>1. headers # {}
        BY <3>1, <2>1 DEF HeapInv, ListOK
      <4>2. tail \in headers /\ tail # NULL
        BY <4>1 DEF NULL
      <4> QED BY <4>2, <3>1, <1>2, <1>4
    <3>2. CASE a # brk
      <4>1. a \in headers /\ head # NULL /\ a # head
        BY <3>2, <1>2, <1>5, <2>1 DEF HeapInv, ListOK
      <4>2. PICK b \in headers : next[b] = a
        BY <4>1 DEF HeapInv, ListOK
      <4>3. b # tail
        BY <4>1, <4>2 DEF HeapInv, ListOK, NULL
      <4> QED BY <4>2, <4>3, <1>2, <1>4
    <3> QED BY <3>1, <3>2
  <2>5. headers' # {} /\ head' # NULL
    BY <2>1, <1>2 DEF NULL
  <2> QED BY <2>1, <2>2, <2>3, <2>4, <2>5 DEF ListOK
<1>8. BlocksApart'
  <2>1. \A a \in headers : End(a)' = End(a) /\ End(a) <= brk
    BY <1>3 DEF End
  <2>2. \A a, b \in headers : a < b => End(a) <= b
    BY DEF HeapInv, BlocksApart
  <2>3. (brk + H + size'[brk]) = brk' /\ brk < brk'
    BY <1>1, <1>2, <1>3
  <2>4. \A a, b \in headers' : a < b => End(a)' <= b
    BY <2>1, <2>2, <1>2, <1>3
  <2>5. \A a \in headers' : End(a)' <= brk'
    BY <2>1, <2>3, <1>1, <1>2, <1>3 DEF End
  <2> QED BY <2>4, <2>5 DEF BlocksApart, End
<1>9. OwnedOK'
  <2>1. DOMAIN owned' = DOMAIN owned \cup {brk + H}
    BY <1>2 DEF InUse
  <2>2. ASSUME NEW p \in DOMAIN owned'
        PROVE  p - H \in headers' /\ owned'[p] <= size'[p - H]
    <3>1. CASE p = brk + H
      BY <3>1, <1>1, <1>2, <1>3 DEF InUse
    <3>2. CASE p # brk + H
      BY <3>2, <2>1, <1>2, <1>3 DEF HeapInv, OwnedOK, InUse
    <3> QED BY <3>1, <3>2
  <2>3. ASSUME NEW b \in headers'
        PROVE  is_free'[b] = 0 <=> b + H \in DOMAIN owned'
    <3>1. CASE b = brk
      BY <3>1, <2>1, <1>3
    <3>2. CASE b # brk
      BY <3>2, <2>1, <1>1, <1>2, <1>3 DEF HeapInv, OwnedOK
    <3> QED BY <3>1, <3>2
  <2> QED BY <2>2, <2>3 DEF OwnedOK
<1> QED BY <1>6, <1>7, <1>8, <1>9 DEF HeapInv

\* What a free of a + H leaves to the callers.
LEMMA ReturnKeeps ==
    ASSUME HeapInv, NEW a, a + H \in DOMAIN owned, Return(a + H)
    PROVE  /\ DOMAIN owned' = DOMAIN owned \ {a + H}
           /\ \A p \in DOMAIN owned' : owned'[p] = owned[p]
           /\ DOMAIN owned' \in SUBSET Addr
           /\ \A p \in DOMAIN owned' : owned'[p] \in Sizes
<1>1. /\ DOMAIN owned' = DOMAIN owned \ {a + H}
      /\ \A p \in DOMAIN owned' : owned'[p] = owned[p]
  BY DEF Return
<1> QED BY <1>1 DEF HeapInv, HeapTypeOK

LEMMA FreeInnerKeeps ==
    ASSUME HeapInv, NEW a \in Addr, FreeInner(a)
    PROVE  HeapInv'
<1> USE BlockFacts, HeapAssumption
<1>1. /\ a + H \in DOMAIN owned
      /\ is_free' = [is_free EXCEPT ![a] = 1]
      /\ Return(a + H)
      /\ UNCHANGED <<head, tail, brk, size, next, headers>>
  BY DEF FreeInner
<1>2. /\ DOMAIN owned' = DOMAIN owned \ {a + H}
      /\ \A p \in DOMAIN owned' : owned'[p] = owned[p]
      /\ DOMAIN owned' \in SUBSET Addr
      /\ \A p \in DOMAIN owned' : owned'[p] \in Sizes
  BY <1>1, ReturnKeeps
<1>3. HeapTypeOK'
  BY <1>1, <1>2 DEF HeapInv, HeapTypeOK
<1>4. ListOK' /\ BlocksApart'
  BY <1>1 DEF HeapInv, ListOK, BlocksApart, End
<1>5. OwnedOK'
  <2>1. ASSUME NEW p \in DOMAIN owned'
        PROVE  p - H \in headers' /\ owned'[p] <= size'[p - H]
    BY <1>1, <1>2 DEF HeapInv, OwnedOK
  <2>2. ASSUME NEW b \in headers'
        PROVE  is_free'[b] = 0 <=> b + H \in DOMAIN owned'
    <3>1. CASE b = a
      BY <3>1, <1>1, <1>2 DEF HeapInv, HeapTypeOK
    <3>2. CASE b # a
      <4>1. b + H # a + H
        BY <3>2, <1>1 DEF Addr
      <4>2. is_free'[b] = is_free[b]
        BY <3>2, <1>1 DEF HeapInv, HeapTypeOK
      <4> QED BY <4>1, <4>2, <1>1, <1>2 DEF HeapInv, OwnedOK
    <3> QED BY <3>1, <3>2
  <2> QED BY <2>1, <2>2 DEF OwnedOK
<1> QED BY <1>3, <1>4, <1>5 DEF HeapInv

LEMMA FreeOnlyKeeps ==
    ASSUME HeapInv, NEW a \in Addr, FreeOnly(a)
    PROVE  HeapInv'
<1> USE BlockFacts, HeapAssumption
<1>1. /\ a + H \in DOMAIN owned
      /\ End(a) = brk /\ head = tail
      /\ head' = NULL /\ tail' = NULL
      /\ brk' = brk - size[a] - H
      /\ headers' = {}
      /\ Return(a + H)
      /\ UNCHANGED <<size, is_free, next>>
  BY DEF FreeOnly, fields
<1>2. /\ DOMAIN owned' = DOMAIN owned \ {a + H}
      /\ \A p \in DOMAIN owned' : owned'[p] = owned[p]
      /\ DOMAIN owned' \in SUBSET Addr
      /\ \A p \in DOMAIN owned' : owned'[p] \in Sizes
  BY <1>1, ReturnKeeps
<1>3. a \in headers
  <2>1. (a + H) - H = a
    BY DEF Addr
  <2> QED BY <2>1, <1>1, OwnedFacts
<1>4. a = tail /\ a = Base /\ brk' = Base
  BY <1>1, <1>3 DEF HeapInv, ListOK
<1>5. headers = {a}
  <2>1. ASSUME NEW c \in headers
        PROVE  c = a
    <3>1. c \in Nat /\ a \in Nat /\ a <= c /\ c <= a
      BY <1>4, <2>1
    <3> QED BY <3>1
  <2> QED BY <2>1, <1>3
<1>6. DOMAIN owned' = {}
  <2>1. ASSUME NEW p \in DOMAIN owned'
        PROVE  FALSE
    BY <1>2, <1>5, OwnedFacts
  <2> QED BY <2>1
<1>7. HeapTypeOK'
  BY <1>1, <1>2, <1>4 DEF HeapInv, HeapTypeOK, Addr
<1>8. ListOK' /\ BlocksApart' /\ OwnedOK'
  BY <1>1, <1>4, <1>6 DEF ListOK, BlocksApart, OwnedOK
<1> QED BY <1>7, <1>8 DEF HeapInv

LEMMA FreeLastKeeps ==
    ASSUME HeapInv, NEW a \in Addr, FreeLast(a)
    PROVE  HeapInv'
<1> USE BlockFacts, HeapAssumption
<1>1. /\ a + H \in DOMAIN owned
      /\ End(a) = brk /\ head # tail
      /\ brk' = brk - size[a] - H
      /\ headers' = headers \ {tail}
      /\ Return(a + H)
      /\ UNCHANGED <<head, size, is_free>>
  BY DEF FreeLast
<1>2. PICK b \in headers : next[b] = tail /\ next' = [next EXCEPT ![b] = NULL] /\ tail' = b
  BY DEF FreeLast
<1>3. /\ DOMAIN owned' = DOMAIN owned \ {a + H}
      /\ \A p \in DOMAIN owned' : owned'[p] = owned[p]
      /\ DOMAIN owned' \in SUBSET Addr
      /\ \A p \in DOMAIN owned' : owned'[p] \in Sizes
  BY <1>1, ReturnKeeps
<1>4. a \in headers /\ a = tail
  <2>1. (a + H) - H = a
    BY DEF Addr
  <2> QED BY <2>1, <1>1, OwnedFacts
<1>5. brk' = tail /\ tail \in Addr
  BY <1>1, <1>4
<1>6. b # tail /\ End(b) = tail /\ b < tail
  <2>1. b # tail
    BY <1>2, <1>4 DEF HeapInv, ListOK, NULL
  <2> QED BY <2>1, <1>2 DEF HeapInv, ListOK
<1>7. /\ next'[b] = NULL
      /\ \A c \in headers : c # b => next'[c] = next[c]
      /\ \A c \in headers : End(c)' = End(c)
  BY <1>1, <1>2 DEF HeapInv, HeapTypeOK, End
<1>8. HeapTypeOK'
  BY <1>1, <1>2, <1>3, <1>5, <1>6 DEF HeapInv, HeapTypeOK
<1>9. ListOK'
  <2>1. head = Base /\ head \in headers' /\ head' = head
    BY <1>1, <1>4 DEF HeapInv, ListOK
  <2>2. tail' \in headers' /\ next'[tail'] = NULL /\ End(tail)' = brk'
    BY <1>1, <1>2, <1>5, <1>6, <1>7 DEF End
  <2>3. ASSUME NEW c \in headers' \ {tail'}
        PROVE  next'[c] = End(c)' /\ next'[c] \in headers'
    <3>1. c \in headers /\ c # tail /\ c # b
      BY <1>1, <1>2
    <3>2. next[c] = End(c) /\ next[c] \in headers /\ next'[c] = next[c] /\ End(c)' = End(c)
      BY <3>1, <1>7 DEF HeapInv, ListOK
    <3>3. End(c) # tail
      <4>1. c < b => End(c) <= b
        BY <3>1 DEF HeapInv, BlocksApart
      <4>2. b < c => End(b) <= c
        BY <3>1 DEF HeapInv, BlocksApart
      <4> QED BY <4>1, <4>2, <3>1, <1>6
    <3> QED BY <3>2, <3>3, <1>1
  <2>4. ASSUME NEW c \in headers' \ {head'}
        PROVE  \E d \in headers' : next'[d] = c
    <3>1. c \in headers /\ c # head /\ c # tail
      BY <1>1
    <3>2. PICK d \in headers : next[d] = c
      BY <3>1 DEF HeapInv, ListOK
    <3>3. d # b /\ d # tail
      BY <3>1, <3>2, <1>2, <1>4 DEF HeapInv, ListOK, NULL
    <3> QED BY <3>2, <3>3, <1>1, <1>7
  <2>5. headers' # {} /\ head' # NULL
    BY <2>1 DEF NULL
  <2> QED BY <2>1, <2>2, <2>3, <2>4, <2>5 DEF ListOK
<1>10. BlocksApart'
  <2>1. ASSUME NEW c \in headers', NEW d \in headers', c < d
        PROVE  End(c)' <= d
    BY <2>1, <1>1, <1>7 DEF HeapInv, BlocksApart
  <2>2. ASSUME NEW c \in headers'
        PROVE  End(c)' <= brk'
    <3>1. c \in headers /\ c < tail
      BY <1>1, <1>4
    <3>2. End(c) <= tail
      BY <3>1, <1>4 DEF HeapInv, BlocksApart
    <3> QED BY <3>1, <3>2, <1>5, <1>7
  <2> QED BY <2>1, <2>2 DEF BlocksApart, End
<1>11. OwnedOK'
  <2>1. ASSUME NEW p \in DOMAIN owned'
        PROVE  p - H \in headers' /\ owned'[p] <= size'[p - H]
    <3>1. p \in DOMAIN owned /\ p # a + H /\ owned'[p] = owned[p]
      BY <1>3
    <3>2. p \in Nat /\ p - H \in headers /\ owned[p] <= size[p - H]
      BY <3>1, OwnedFacts
    <3>3. p - H # tail
      BY <3>1, <3>2, <1>4
    <3> QED BY <3>1, <3>2, <3>3, <1>1
  <2>2. ASSUME NEW c \in headers'
        PROVE  is_free'[c] = 0 <=> c + H \in DOMAIN owned'
    <3>1. c \in headers /\ c # a
      BY <1>1, <1>4
    <3>2. c + H # a + H
      BY <3>1, <1>4
    <3> QED BY <3>1, <3>2, <1>1, <1>3 DEF HeapInv, OwnedOK
  <2> QED BY <2>1, <2>2 DEF OwnedOK
<1> QED BY <1>8, <1>9, <1>10, <1>11 DEF HeapInv
----------------------------------------------------------------------------
\* The heap is well formed in every reachable state.
THEOREM HeapInvariant == HeapSpec => []HeapInv
<1>1. HeapInv /\ [HeapNext]_heapVars => HeapInv'
  <2> SUFFICES ASSUME HeapInv, [HeapNext]_heapVars PROVE HeapInv'
    OBVIOUS
  <2>1. CASE UNCHANGED heapVars
    BY <2>1 DEF HeapInv, HeapTypeOK, ListOK, BlocksApart, OwnedOK, End, heapVars
  <2>2. CASE HeapNext
    BY <2>2, MallocReuseKeeps, MallocGrowKeeps, FreeLastKeeps, FreeOnlyKeeps,
       FreeInnerKeeps DEF HeapNext
  <2> QED BY <2>1, <2>2
<1> QED BY HeapInitially, <1>1, PTL DEF HeapSpec

\* Type correctness; the break never goes below the start of the heap.
THEOREM HeapTypeCorrect == HeapSpec => []HeapTypeOK
  BY HeapInvariant, PTL DEF HeapInv

\* The list links adjoining blocks that fill the heap up to the break.
THEOREM ListCorrect == HeapSpec => []ListOK
  BY HeapInvariant, PTL DEF HeapInv

\* Blocks never overlap.
THEOREM BlocksCorrect == HeapSpec => []BlocksApart
  BY HeapInvariant, PTL DEF HeapInv

\* A block is marked in use exactly while a caller holds it.
THEOREM OwnedCorrect == HeapSpec => []OwnedOK
  BY HeapInvariant, PTL DEF HeapInv
----------------------------------------------------------------------------
\* The bytes of two blocks' callers have nothing in common, nor with a header.
LEMMA BytesApart ==
    ASSUME HeapInv, NEW a \in headers, NEW b \in headers, a # b,
           NEW m \in Nat, m <= size[a], NEW n \in Nat, n <= size[b]
    PROVE  (a + H .. a + H + m - 1) \cap (b + H .. b + H + n - 1) = {}
<1>1. a < b => End(a) <= b
  BY DEF HeapInv, BlocksApart
<1>2. b < a => End(b) <= a
  BY DEF HeapInv, BlocksApart
<1> QED BY <1>1, <1>2, BlockFacts

\* Writing to allocated bytes never damages the list, and stays below the break.
THEOREM HeadersCorrect == HeapSpec => []HeadersSafe
<1>1. HeapInv => HeadersSafe
  <2> SUFFICES ASSUME HeapInv, NEW p \in DOMAIN owned
               PROVE  /\ p + owned[p] <= brk
                      /\ \A a \in headers : (a .. a + H - 1) \cap (p .. p + owned[p] - 1) = {}
    BY DEF HeadersSafe
  <2> DEFINE h == p - H
  <2>1. h \in headers /\ p = h + H /\ owned[p] \in Nat /\ owned[p] <= size[h]
    BY OwnedFacts, BlockFacts
  <2> HIDE DEF h
  <2>2. p + owned[p] <= End(h) /\ End(h) <= brk
    BY <2>1, BlockFacts
  <2>3. ASSUME NEW a \in headers
        PROVE  (a .. a + H - 1) \cap (p .. p + owned[p] - 1) = {}
    <3>1. a < h => End(a) <= h
      BY <2>1 DEF HeapInv, BlocksApart
    <3>2. h < a => End(h) <= a
      BY <2>1 DEF HeapInv, BlocksApart
    <3> QED BY <3>1, <3>2, <2>1, <2>2, BlockFacts
  <2> QED BY <2>1, <2>2, <2>3, BlockFacts
<1> QED BY <1>1, HeapInvariant, PTL

\* kalloc hands out memory nobody holds.
LEMMA AllocationIsNew ==
    ASSUME HeapInv, NEW a \in headers, a + H \notin DOMAIN owned,
           NEW n \in Sizes, n <= size[a], owned' = InUse(a + H, n)
    PROVE  Promise!Next
<1>1. a + H \in Addr /\ n \in Nat
  BY BlockFacts, HeapAssumption
<1>2. ASSUME NEW q \in DOMAIN owned
      PROVE  Promise!Bytes(q, owned[q]) \cap Promise!Bytes(a + H, n) = {}
  <2> DEFINE b == q - H
  <2>1. b \in headers /\ q = b + H /\ owned[q] \in Nat /\ owned[q] <= size[b]
    BY <1>2, OwnedFacts, BlockFacts
  <2> HIDE DEF b
  <2>2. b # a
    BY <2>1, <1>2
  <2> QED BY <2>1, <2>2, <1>1, BytesApart DEF Promise!Bytes
<1>3. Promise!Allocate(a + H, n)
  BY <1>2 DEF Promise!Allocate, InUse
<1> QED BY <1>1, <1>3 DEF Promise!Next

\* The heap keeps the promise of an allocator.
THEOREM HeapImplementsAlloc == HeapSpec => ImplementsAlloc
<1>1. HeapInit => Promise!Init
  BY DEF HeapInit, Promise!Init
<1>2. HeapInv /\ [HeapNext]_heapVars => [Promise!Next]_owned
  <2> SUFFICES ASSUME HeapInv, [HeapNext]_heapVars PROVE Promise!Next \/ UNCHANGED owned
    OBVIOUS
  <2>1. ASSUME NEW n \in Sizes, MallocReuse(n) PROVE Promise!Next
    <3>1. PICK a \in Fits(n) : owned' = InUse(a + H, n)
      BY <2>1 DEF MallocReuse
    <3>2. a \in headers /\ n <= size[a] /\ a + H \notin DOMAIN owned
      BY <3>1, BlockFacts, HeapAssumption DEF Fits, HeapInv, OwnedOK
    <3> QED BY <3>1, <3>2, AllocationIsNew
  <2>2. ASSUME NEW n \in Sizes, MallocGrow(n) PROVE Promise!Next
    <3>1. /\ brk + H + n <= Limit /\ owned' = InUse(brk + H, n)
          /\ n \in Nat \ {0}
      BY <2>2, HeapAssumption DEF MallocGrow
    <3>2. brk + H \in Addr
      BY <3>1, BlockFacts DEF Addr
    <3>3. ASSUME NEW q \in DOMAIN owned
          PROVE  /\ q # brk + H
                 /\ Promise!Bytes(q, owned[q]) \cap Promise!Bytes(brk + H, n) = {}
      <4> DEFINE b == q - H
      <4>1. b \in headers /\ q = b + H /\ owned[q] \in Nat /\ owned[q] <= size[b]
        BY <3>3, OwnedFacts, BlockFacts
      <4> HIDE DEF b
      <4> QED BY <4>1, <3>1, BlockFacts DEF Promise!Bytes
    <3>4. Promise!Allocate(brk + H, n)
      BY <3>1, <3>3 DEF Promise!Allocate, InUse
    <3> QED BY <3>2, <3>4 DEF Promise!Next
  <2>3. ASSUME NEW a \in Addr, FreeLast(a) \/ FreeOnly(a) \/ FreeInner(a)
        PROVE  Promise!Next
    BY <2>3 DEF FreeLast, FreeOnly, FreeInner, Return, Promise!Next, Promise!Release
  <2>4. CASE UNCHANGED heapVars
    BY <2>4 DEF heapVars
  <2> QED BY <2>1, <2>2, <2>3, <2>4 DEF HeapNext
<1> QED BY <1>1, <1>2, HeapInvariant, PTL DEF HeapSpec, ImplementsAlloc, Promise!Spec
============================================================================
