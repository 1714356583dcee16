---------------------------- MODULE SchedProofs ----------------------------
(***************************************************************************)
(* Proofs about Sched, for every number of PCBs and tasks.                 *)
(***************************************************************************)
EXTENDS Sched, FiniteSetTheorems, TLAPS

(***************************************************************************)
(* Rings.                                                                  *)
(***************************************************************************)

\* add_pcb_to_queue: a new element linked in after one of the ring leaves one
\* cycle.
LEMMA CycleInsert ==
    ASSUME NEW D, NEW A \in SUBSET D, NEW f \in [D -> D], Cycle(A, f),
           NEW r \in A, NEW s \in D \ A
    PROVE  Cycle(A \cup {s}, [f EXCEPT ![s] = f[r], ![r] = s])
<1> DEFINE B == A \cup {s}
           g == [f EXCEPT ![s] = f[r], ![r] = s]
<1>1. g[s] = f[r] /\ g[r] = s /\ \A p \in A \ {r} : g[p] = f[p]
  OBVIOUS
<1>2. \A p \in B : g[p] \in B
  BY <1>1 DEF Cycle
<1>3. \A p, q \in B : g[p] = g[q] => p = q
  BY <1>1 DEF Cycle
<1>4. ASSUME NEW S \in SUBSET B, S # {}, \A p \in S : g[p] \in S
      PROVE  S = B
  <2> DEFINE T == S \ {s}
  <2>1. T # {}
    BY <1>1, <1>4 DEF Cycle
  <2>2. \A p \in T : f[p] \in T
    BY <1>1, <1>4 DEF Cycle
  <2>3. T = A
    BY <2>1, <2>2 DEF Cycle
  <2>4. s \in S
    BY <2>3, <1>1, <1>4
  <2> QED
    BY <2>3, <2>4
<1> HIDE DEF B, g
<1>5. Cycle(B, g)
  BY <1>2, <1>3, <1>4 DEF Cycle
<1> QED
  BY <1>5 DEF B, g

\* task_exit: with the predecessor linked to the successor, what is left is one
\* cycle.
LEMMA CycleRemove ==
    ASSUME NEW D, NEW A \in SUBSET D, NEW f \in [D -> D], Cycle(A, f),
           NEW r \in A, NEW b \in A, f[b] = r, b # r
    PROVE  Cycle(A \ {r}, [f EXCEPT ![b] = f[r]])
<1> DEFINE B == A \ {r}
           g == [f EXCEPT ![b] = f[r]]
<1>1. g[b] = f[r] /\ \A p \in A \ {b} : g[p] = f[p]
  OBVIOUS
<1>2. \A p \in A \ {b} : f[p] # r
  BY DEF Cycle
<1>3. f[r] \in B
  BY <1>2 DEF Cycle
<1>4. \A p \in B : g[p] \in B
  BY <1>1, <1>2, <1>3 DEF Cycle
<1>5. \A p, q \in B : g[p] = g[q] => p = q
  BY <1>1 DEF Cycle
<1>6. ASSUME NEW S \in SUBSET B, S # {}, \A p \in S : g[p] \in S
      PROVE  S = B
  <2>1. CASE b \in S
    <3>1. \A p \in S \cup {r} : f[p] \in S \cup {r}
      BY <2>1, <1>1, <1>6
    <3>2. S \cup {r} \in SUBSET A /\ S \cup {r} # {}
      BY <1>6
    <3>3. S \cup {r} = A
      BY <3>1, <3>2 DEF Cycle
    <3> QED
      BY <3>3
  <2>2. CASE b \notin S
    <3>1. \A p \in S : f[p] \in S
      BY <2>2, <1>1, <1>6
    <3>2. S = A
      BY <3>1, <1>6 DEF Cycle
    <3> QED
      BY <3>2, <2>2
  <2> QED
    BY <2>1, <2>2
<1> HIDE DEF B, g
<1>7. Cycle(B, g)
  BY <1>4, <1>5, <1>6 DEF Cycle
<1> QED
  BY <1>7 DEF B, g

\* An element that is its own successor is alone in the ring.
LEMMA CycleSelf ==
    ASSUME NEW A, NEW f, Cycle(A, f), NEW r \in A, f[r] = r
    PROVE  A = {r}
<1>1. {r} \in SUBSET A /\ \A p \in {r} : f[p] \in {r}
  OBVIOUS
<1> QED
  BY <1>1 DEF Cycle

(***************************************************************************)
(* The scheduler.                                                          *)
(***************************************************************************)

LEMMA InitInv == Init => SchedInv
<1> SUFFICES ASSUME Init PROVE SchedInv
  OBVIOUS
<1> USE SchedAssumption DEF Init
<1>1. TypeOK
  BY DEF TypeOK, Thread, Label, Own, InExit
<1>2. Cycle(alloc, next)
  BY DEF Cycle
<1>3. RingOK
  BY <1>2, FS_Singleton DEF RingOK
<1>4. FrameOK
  BY DEF FrameOK, Thread, Own, Lost
<1>5. CpuOK
  BY DEF CpuOK, Own, InExit
<1> QED
  BY <1>1, <1>3, <1>4, <1>5 DEF SchedInv

\* schedule() finds a task in use, and task 0 only if it is alone.
LEMMA PickLive ==
    ASSUME SchedInv, cpu \in Thread
    PROVE  next[running] \in alloc /\ Pick(running) \in alloc /\ ~SkipsRoot(Pick(running))
<1> USE DEF SchedInv, TypeOK
<1>1. next[running] \in alloc
  BY DEF CpuOK, RingOK, Cycle, Label, InExit
<1>2. CASE ~SkipsRoot(next[running])
  BY <1>1, <1>2 DEF Pick
<1>3. CASE SkipsRoot(next[running])
  <2>1. next[running] = Root
    BY <1>1, <1>3 DEF SkipsRoot, RingOK
  <2>2. Pick(running) = next[Root] /\ next[Root] \in alloc
    BY <1>1, <1>3, <2>1 DEF Pick, RingOK, Cycle
  <2>3. next[Root] # Root
    <3>1. SUFFICES ASSUME next[Root] = Root PROVE FALSE
      OBVIOUS
    <3>2. alloc = {Root}
      BY <3>1, CycleSelf DEF RingOK
    <3>3. process_num = 1
      BY <3>2, FS_Singleton DEF RingOK
    <3> QED
      BY <3>3, <1>3 DEF SkipsRoot
  <2>4. pid[next[Root]] # 0
    BY <2>2, <2>3 DEF RingOK
  <2> QED
    BY <1>1, <2>1, <2>2, <2>4 DEF SkipsRoot
<1> QED
  BY <1>1, <1>2, <1>3

\* context_switch out of a task that runs, or is interrupted in task_exit.
LEMMA SwitchInv ==
    ASSUME SchedInv, cpu \in Thread, NEW nxt \in alloc, running # nxt,
           ~SkipsRoot(nxt), SwitchTo(running, nxt),
           UNCHANGED <<pcbVars, localVars>>
    PROVE  SchedInv'
<1> USE DEF SchedInv, pcbVars, localVars
<1>1. /\ running' = nxt /\ cpu' = esp[nxt] /\ cr3' = mm[nxt]
      /\ esp0' = IF Dpl(nxt) # 0 THEN mm[nxt] ELSE esp0
      /\ esp' = [[esp EXCEPT ![running] = cpu] EXCEPT ![nxt] = Lost]
  BY DEF SwitchTo, ContextSwitch, TypeOK
<1>2. /\ esp'[nxt] = Lost
      /\ esp'[running] = cpu
      /\ \A p \in alloc : p # nxt /\ p # running => esp'[p] = esp[p]
  BY <1>1 DEF TypeOK
<1>3. TypeOK'
  BY <1>1 DEF TypeOK, Dpl
<1>4. RingOK'
  BY DEF RingOK
<1>5. FrameOK'
  <2>1. ASSUME cpu' \in Thread
        PROVE  /\ cpu' <= pid_total'
               /\ \A p \in alloc : esp'[p] # cpu' /\ esp'[p] <= pid_total'
               /\ \A p, q \in alloc : esp'[p] = esp'[q] => p = q \/ esp'[p] = Lost
    <3>1. cpu' = esp[nxt] /\ esp[nxt] # Lost
      BY <2>1, <1>1 DEF Lost, Thread
    <3>2. cpu <= pid_total /\ esp[nxt] <= pid_total /\ esp[nxt] # cpu
      BY DEF FrameOK
    <3>3. \A p, q \in alloc : esp'[p] = esp'[q] => p = q \/ esp'[p] = Lost
      BY <1>2, <3>1 DEF FrameOK
    <3>4. \A p \in alloc : esp'[p] # cpu'
      BY <1>2, <3>1, <3>2 DEF FrameOK
    <3>5. \A p \in alloc : esp'[p] <= pid_total
      <4>1. Lost <= pid_total
        BY SchedAssumption DEF TypeOK, Lost, Thread
      <4> QED
        BY <1>2, <3>2, <4>1 DEF FrameOK
    <3> QED
      BY <3>1, <3>2, <3>3, <3>4, <3>5
  <2>2. ASSUME NEW p \in alloc
        PROVE  \/ esp'[p] \in {Lost, pid[p]}
               \/ pc[esp'[p]] = "next" /\ back_task[esp'[p]] # p
    <3>1. CASE p = running
      BY <3>1, <1>2 DEF CpuOK, TypeOK, Label, InExit
    <3>2. CASE p # running
      BY <3>2, <1>2 DEF FrameOK
    <3> QED
      BY <3>1, <3>2
  <2> QED
    BY <2>1, <2>2 DEF FrameOK
<1>6. CpuOK'
  <2> SUFFICES ASSUME cpu' \in Thread PROVE CpuOK!2'
    BY DEF CpuOK
  <2>1. \/ cpu' = pid[nxt]
        \/ pc[cpu'] = "next" /\ back_task[cpu'] # nxt
    BY <1>1 DEF FrameOK, Thread, Lost
  <2>2. pc[pid[nxt]] \in Own /\ mm[nxt] \in {0, pid[nxt]}
    BY DEF FrameOK
  <2>3. CASE cpu' = pid[nxt]
    BY <2>2, <2>3, <1>1 DEF Own, Dpl
  <2>4. CASE pc[cpu'] = "next" /\ back_task[cpu'] # nxt
    BY <2>4, <1>1, <1>2 DEF SkipsRoot, Own
  <2> QED
    BY <2>1, <2>3, <2>4
<1> QED
  BY <1>3, <1>4, <1>5, <1>6

LEMMA ScheduleInv ==
    ASSUME SchedInv, cpu \in Thread, Schedule, UNCHANGED <<pcbVars, localVars>>
    PROVE  SchedInv'
<1>1. CASE Pick(running) = running
  BY <1>1 DEF Schedule, cpuVars, pcbVars, localVars, SchedInv, TypeOK, RingOK,
              FrameOK, CpuOK, SkipsRoot
<1>2. CASE Pick(running) # running
  BY <1>2, PickLive, SwitchInv DEF Schedule
<1> QED
  BY <1>1, <1>2

(***************************************************************************)
(* Creation.                                                               *)
(***************************************************************************)

LEMMA AddTaskRing ==
    ASSUME SchedInv, running \in alloc, NEW s \in Slot, NEW space, AddTask(s, space)
    PROVE  RingOK'
<1> USE SchedAssumption DEF SchedInv, TypeOK
<1>1. s \notin alloc /\ alloc' = alloc \cup {s} /\ pid_total' = pid_total + 1
  BY DEF AddTask
<1>2. Cycle(alloc', next')
  <2>1. next' = [next EXCEPT ![s] = next[running], ![running] = s]
    BY DEF AddTask
  <2>2. Cycle(alloc, next) /\ alloc \in SUBSET Slot /\ next \in [Slot -> Slot] /\ s \in Slot \ alloc
    BY <1>1 DEF RingOK
  <2>3. Cycle(alloc \cup {s}, [next EXCEPT ![s] = next[running], ![running] = s])
    BY <2>2, CycleInsert
  <2> QED
    BY <1>1, <2>1, <2>3
<1>3. process_num' = Cardinality(alloc')
  <2>1. IsFiniteSet(alloc)
    BY FS_Subset
  <2>2. Cardinality(alloc \cup {s}) = Cardinality(alloc) + 1
    BY <2>1, <1>1, FS_AddElement
  <2> QED
    BY <2>2, <1>1 DEF AddTask, RingOK
<1>4. pid'[s] = pid_total + 1 /\ \A p \in alloc : pid'[p] = pid[p]
  BY <1>1 DEF AddTask
<1>5. \A p \in alloc : pid[p] # pid_total + 1
  <2>1. ASSUME NEW p \in alloc PROVE pid[p] # pid_total + 1
    <3>1. pid[p] \in Int /\ pid_total \in Int /\ pid[p] <= pid_total
      BY DEF Thread, FrameOK
    <3> QED
      BY <3>1
  <2> QED
    BY <2>1
<1>6. \A p, q \in alloc' : pid'[p] = pid'[q] => p = q
  BY <1>1, <1>4, <1>5 DEF RingOK
<1> QED
  BY <1>1, <1>2, <1>3, <1>4, <1>6 DEF RingOK

\* The pid of a new task is a pid no one has.
LEMMA NewPid ==
    ASSUME NEW k \in 0 .. MaxPid, k < MaxPid
    PROVE  /\ k + 1 \in Thread /\ k + 1 # 0
           /\ \A n \in Thread : n <= k => n # k + 1 /\ n <= k + 1
  BY SchedAssumption DEF Thread

\* The two creators: the caller's next place is at, the new task starts at start.
LEMMA AddTaskInv ==
    ASSUME SchedInv, cpu \in Thread, pc[cpu] \in Own,
           NEW s \in Slot, NEW space \in {0, pid_total + 1}, AddTask(s, space),
           NEW at \in Own \ {"user"}, cpu = 0 => at \in {"init", "ret"},
           NEW start \in {"kernel", "user"}, start = "user" => space = pid_total + 1,
           pc' = [pc EXCEPT ![cpu] = at, ![pid_total'] = start],
           UNCHANGED <<running, esp0, cr3, cpu, back_task>>
    PROVE  SchedInv'
<1> USE SchedAssumption DEF SchedInv
<1> DEFINE new == pid_total + 1
<1>1. running \in alloc /\ pid[running] = cpu /\ cr3 = mm[running] /\ (mm[running] # 0 => esp0 = cpu)
  BY DEF CpuOK
<1>2. RingOK'
  BY <1>1, AddTaskRing
<1>3. /\ pid_total' = new /\ new \in Thread /\ new # 0
      /\ \A n \in Thread : n <= pid_total => n # new /\ n <= new
  <2>1. pid_total \in 0 .. MaxPid /\ pid_total < MaxPid /\ pid_total' = new
    BY DEF AddTask, TypeOK, Thread
  <2> QED
    BY <2>1, NewPid
<1>4. /\ s \notin alloc /\ alloc' = alloc \cup {s}
      /\ pid'[s] = new /\ mm'[s] = space /\ esp'[s] = new
      /\ \A p \in alloc : pid'[p] = pid[p] /\ mm'[p] = mm[p] /\ esp'[p] = esp[p]
  BY <1>3 DEF AddTask, TypeOK
<1>5. process_num' \in Nat
  BY DEF AddTask, TypeOK
<1>6. TypeOK'
  <2>1. pid' \in [Slot -> Thread] /\ mm' \in [Slot -> Thread] /\ esp' \in [Slot -> Thread \cup {Lost}]
    <3>1. space \in Thread
      <4>1. 0 \in Thread
        BY DEF Thread
      <4> QED
        BY <4>1, <1>3
    <3>2. /\ pid' = [pid EXCEPT ![s] = new]
          /\ mm' = [mm EXCEPT ![s] = space]
          /\ esp' = [esp EXCEPT ![s] = new]
      BY <1>3 DEF AddTask
    <3> QED
      BY <3>1, <3>2, <1>3 DEF TypeOK
  <2>2. next' \in [Slot -> Slot] /\ alloc' \in SUBSET Slot
    BY DEF AddTask, TypeOK
  <2>3. pc' \in [Thread -> Label]
    BY <1>3 DEF TypeOK, Label, Own
  <2> QED
    BY <2>1, <2>2, <2>3, <1>3, <1>5 DEF TypeOK
<1>7. cpu <= pid_total /\ cpu # new
  BY <1>3 DEF FrameOK
<1>8. /\ pc'[cpu] = at /\ pc'[new] = start
      /\ \A n \in Thread : n # cpu /\ n # new => pc'[n] = pc[n]
  BY <1>3, <1>7 DEF TypeOK
<1>9. FrameOK'
  <2>1. mm'[Root] = 0 /\ pc'[0] \in {"init", "ret", "idle", "create"}
    <3>1. 0 \in Thread
      BY DEF Thread
    <3>2. mm'[Root] = 0
      BY <1>4 DEF FrameOK, RingOK
    <3>3. CASE cpu = 0
      BY <3>2, <3>3, <1>8
    <3>4. CASE cpu # 0
      BY <3>1, <3>2, <3>4, <1>3, <1>8 DEF FrameOK
    <3> QED
      BY <3>3, <3>4
  <2>2. ASSUME NEW p \in alloc'
        PROVE  /\ pid'[p] <= new
               /\ mm'[p] \in {0, pid'[p]}
               /\ pc'[pid'[p]] \in Own
               /\ pc'[pid'[p]] = "user" => mm'[p] = pid'[p]
    <3>1. CASE p = s
      <4>1. new <= new
        BY <1>3 DEF Thread
      <4> QED
        BY <4>1, <3>1, <1>4, <1>8 DEF Own
    <3>2. CASE p \in alloc
      <4>1. pid[p] \in Thread /\ pid[p] <= pid_total /\ mm[p] \in {0, pid[p]}
            /\ pc[pid[p]] \in Own /\ (pc[pid[p]] = "user" => mm[p] = pid[p])
        BY <3>2 DEF FrameOK, TypeOK
      <4>2. pid'[p] = pid[p] /\ mm'[p] = mm[p]
        BY <3>2, <1>4
      <4>3. pid[p] <= new /\ pid[p] # new
        BY <4>1, <1>3
      <4>4. CASE pid[p] = cpu
        <5>1. pc'[pid[p]] = at
          BY <4>4, <1>8
        <5> QED
          BY <4>1, <4>2, <4>3, <5>1
      <4>5. CASE pid[p] # cpu
        <5>1. pc'[pid[p]] = pc[pid[p]]
          BY <4>1, <4>3, <4>5, <1>8
        <5> QED
          BY <4>1, <4>2, <4>3, <5>1
      <4> QED
        BY <4>4, <4>5
    <3> QED
      BY <3>1, <3>2, <1>4
  <2>3. cpu <= new
    BY <1>3, <1>7
  <2>4. ASSUME NEW p \in alloc'
        PROVE  /\ esp'[p] # cpu /\ esp'[p] <= new
               /\ \/ esp'[p] \in {Lost, pid'[p]}
                  \/ pc'[esp'[p]] = "next" /\ back_task[esp'[p]] # p
    <3>1. CASE p = s
      BY <3>1, <1>3, <1>4, <1>7 DEF Thread
    <3>2. CASE p \in alloc
      <4>1. /\ esp[p] # cpu /\ esp[p] <= pid_total
            /\ \/ esp[p] \in {Lost, pid[p]}
               \/ pc[esp[p]] = "next" /\ back_task[esp[p]] # p
        BY <3>2 DEF FrameOK
      <4>2. esp[p] \in Thread \cup {Lost}
        BY <3>2 DEF TypeOK
      <4>3. esp[p] <= new
        <5>1. Lost <= new
          BY <1>3 DEF Thread, Lost
        <5> QED
          BY <5>1, <4>1, <4>2, <1>3
      <4>4. CASE esp[p] = Lost
        BY <4>4, <4>1, <4>3, <3>2, <1>4
      <4>5. CASE esp[p] \in Thread
        BY <4>5, <4>1, <4>3, <3>2, <1>3, <1>4, <1>8
      <4> QED
        BY <4>2, <4>4, <4>5
    <3> QED
      BY <3>1, <3>2, <1>4
  <2>5. \A p \in alloc : esp[p] # new
    BY <1>3 DEF FrameOK, TypeOK, Lost, Thread
  <2>6. \A p, q \in alloc' : esp'[p] = esp'[q] => p = q \/ esp'[p] = Lost
    BY <2>5, <1>4 DEF FrameOK
  <2> QED
    BY <2>1, <2>2, <2>3, <2>4, <2>6, <1>3 DEF FrameOK
<1>10. CpuOK'
  BY <1>1, <1>4, <1>8 DEF CpuOK, Own
<1> QED
  BY <1>2, <1>6, <1>9, <1>10

LEMMA SysExecInv ==
    ASSUME SchedInv, NEW t \in Thread, NEW s \in Slot, SysExec(t, s)
    PROVE  SchedInv'
<1>1. /\ cpu = t /\ t \in Thread /\ pc[t] \in Own
      /\ AddTask(s, pid_total + 1) /\ pid_total' = pid_total + 1
      /\ pc' = [pc EXCEPT ![cpu] = "ret", ![pid_total'] = "user"]
      /\ UNCHANGED <<running, esp0, cr3, cpu, back_task>>
  BY DEF SysExec, Executing, Own, AddTask
<1>2. "ret" \in Own \ {"user"}
  BY DEF Own
<1> QED
  BY <1>1, <1>2, AddTaskInv

LEMMA TaskCreateInv ==
    ASSUME SchedInv, NEW t \in Thread, NEW s \in Slot, TaskCreate(t, s)
    PROVE  SchedInv'
<1> DEFINE at == IF t = 0 THEN "init" ELSE "kernel"
<1>1. /\ cpu = t /\ pc[t] \in Own
      /\ AddTask(s, 0)
      /\ pc' = [pc EXCEPT ![cpu] = at, ![pid_total'] = "kernel"]
      /\ UNCHANGED <<running, esp0, cr3, cpu, back_task>>
  BY DEF TaskCreate, Executing, Own
<1>2. at \in Own \ {"user"} /\ (cpu = 0 => at \in {"init", "ret"})
  BY <1>1 DEF Own
<1> HIDE DEF at
<1> QED
  BY <1>1, <1>2, AddTaskInv

\* Steps of a task that change only where it is, among its own places.
LEMMA OwnStepInv ==
    ASSUME SchedInv, cpu \in Thread, pc[cpu] \in Own, NEW at \in Own,
           cpu = 0 => at \in {"init", "ret", "idle", "create"},
           at = "user" => mm[running] # 0,
           pc' = [pc EXCEPT ![cpu] = at],
           UNCHANGED <<pcbVars, cpuVars, back_task>>
    PROVE  SchedInv'
<1> USE DEF SchedInv, pcbVars, cpuVars
<1>1. /\ pc'[cpu] = at
      /\ \A n \in Thread : n # cpu => pc'[n] = pc[n]
  BY DEF TypeOK
<1>2. running \in alloc /\ pid[running] = cpu /\ cr3 = mm[running] /\ (mm[running] # 0 => esp0 = cpu)
  BY DEF CpuOK
<1>3. TypeOK'
  BY DEF TypeOK, Label
<1>4. RingOK'
  BY DEF RingOK
<1>5. FrameOK'
  <2>1. pc'[0] \in {"init", "ret", "idle", "create"}
    <3>1. 0 \in Thread
      BY SchedAssumption DEF Thread
    <3> QED
      BY <3>1, <1>1 DEF FrameOK
  <2>2. ASSUME NEW p \in alloc
        PROVE  pc'[pid[p]] \in Own /\ (pc'[pid[p]] = "user" => mm[p] = pid[p])
    <3>1. CASE p = running
      BY <3>1, <1>1, <1>2 DEF FrameOK
    <3>2. CASE p # running
      <4>1. pid[p] # cpu /\ pid[p] \in Thread
        BY <3>2, <1>2 DEF RingOK, TypeOK
      <4> QED
        BY <4>1, <1>1 DEF FrameOK
    <3> QED
      BY <3>1, <3>2
  <2>3. ASSUME NEW p \in alloc
        PROVE  \/ esp[p] \in {Lost, pid[p]}
               \/ pc'[esp[p]] = "next" /\ back_task[esp[p]] # p
    BY <1>1 DEF FrameOK, TypeOK
  <2> QED
    BY <2>1, <2>2, <2>3 DEF FrameOK
<1>6. CpuOK'
  BY <1>1, <1>2 DEF CpuOK, Own
<1> QED
  BY <1>3, <1>4, <1>5, <1>6

LEMMA SysExecReturnInv ==
    ASSUME SchedInv, NEW t \in Thread, SysExecReturn(t)
    PROVE  SchedInv'
<1> DEFINE at == IF t = 0 THEN "idle" ELSE IF Dpl(running) = 0 THEN "kernel" ELSE "user"
<1>1. /\ cpu = t /\ pc[t] \in Own
      /\ pc' = [pc EXCEPT ![cpu] = at]
      /\ UNCHANGED <<pcbVars, cpuVars, back_task>>
  BY DEF SysExecReturn, Executing, Own
<1>2. at \in Own /\ (cpu = 0 => at = "idle") /\ (at = "user" => mm[running] # 0)
  BY <1>1 DEF Own, Dpl
<1> HIDE DEF at
<1> QED
  BY <1>1, <1>2, OwnStepInv

LEMMA TaskCreateCheckInv ==
    ASSUME SchedInv, NEW t \in Thread, TaskCreateCheck(t)
    PROVE  SchedInv'
<1>1. CASE process_num > MAX_TASK_NUM
  <2>1. cpu' = Halted /\ UNCHANGED <<pcbVars, running, esp, esp0, cr3, localVars>>
    BY <1>1 DEF TaskCreateCheck, localVars
  <2>2. Halted \notin Thread
    BY DEF Halted, Thread
  <2> QED
    BY <2>1, <2>2 DEF SchedInv, TypeOK, RingOK, FrameOK, CpuOK, pcbVars, localVars
<1>2. CASE ~(process_num > MAX_TASK_NUM)
  <2>1. /\ cpu = t /\ pc[t] \in Own
        /\ pc' = [pc EXCEPT ![cpu] = "create"]
        /\ UNCHANGED <<pcbVars, cpuVars, back_task>>
    BY <1>2 DEF TaskCreateCheck, Executing, Own, cpuVars
  <2>2. "create" \in Own
    BY DEF Own
  <2> QED
    BY <2>1, <2>2, OwnStepInv
<1> QED
  BY <1>1, <1>2

(***************************************************************************)
(* Exit.                                                                   *)
(***************************************************************************)

LEMMA TaskExitInv ==
    ASSUME SchedInv, NEW t \in Thread, TaskExit(t)
    PROVE  SchedInv'
<1> USE DEF SchedInv, cpuVars
<1>1. /\ cpu = t /\ cpu' = t /\ running' = running /\ esp' = esp
      /\ pc[t] \in {"kernel", "user"}
      /\ pid' = [pid EXCEPT ![running] = 0]
      /\ alloc' = alloc \ {running}
      /\ process_num' = process_num - 1
      /\ pc' = [pc EXCEPT ![t] = "sched"]
      /\ UNCHANGED <<mm, pid_total, esp0, cr3, back_task>>
  BY DEF TaskExit, Executing
<1>2. PICK b \in alloc : next[b] = running /\ next' = [next EXCEPT ![b] = next[running]]
  BY DEF TaskExit
<1>3. running \in alloc /\ pid[running] = t
  BY <1>1 DEF CpuOK, Own
<1>4. t # 0 /\ 0 \in Thread
  BY <1>1, SchedAssumption DEF FrameOK, Thread
<1>5. running # Root
  BY <1>3, <1>4 DEF RingOK
<1>6. b # running
  <2>1. SUFFICES ASSUME next[running] = running PROVE FALSE
    BY <1>2
  <2>2. alloc = {running}
    BY <2>1, <1>3, CycleSelf DEF RingOK
  <2> QED
    BY <2>2, <1>5 DEF RingOK
<1>7. Cycle(alloc', next')
  <2>1. Cycle(alloc, next) /\ alloc \in SUBSET Slot /\ next \in [Slot -> Slot]
    BY DEF RingOK, TypeOK
  <2>2. Cycle(alloc \ {running}, [next EXCEPT ![b] = next[running]])
    BY <2>1, <1>2, <1>3, <1>6, CycleRemove
  <2> QED
    BY <2>2, <1>1, <1>2
<1>8. process_num' = Cardinality(alloc') /\ process_num' \in Nat
  <2>1. IsFiniteSet(alloc)
    BY SchedAssumption, FS_Subset DEF TypeOK
  <2>2. /\ IsFiniteSet(alloc \ {running})
        /\ Cardinality(alloc \ {running}) = Cardinality(alloc) - 1
    BY <2>1, <1>3, FS_RemoveElement
  <2>3. Cardinality(alloc \ {running}) \in Nat
    BY <2>2, FS_CardinalityType
  <2> QED
    BY <2>2, <2>3, <1>1 DEF RingOK
<1>9. \A p \in alloc' : p \in alloc /\ p # running /\ pid'[p] = pid[p] /\ pid[p] # t
  BY <1>1, <1>3 DEF RingOK, TypeOK
<1>10. RingOK'
  BY <1>1, <1>5, <1>7, <1>8, <1>9 DEF RingOK
<1>11. TypeOK'
  <2>1. pid' \in [Slot -> Thread] /\ alloc' \in SUBSET Slot /\ pc' \in [Thread -> Label]
    BY <1>1, <1>4 DEF TypeOK, Label, InExit
  <2>2. next' \in [Slot -> Slot]
    BY <1>2 DEF TypeOK
  <2> QED
    BY <2>1, <2>2, <1>1, <1>8 DEF TypeOK
<1>12. pc'[t] = "sched" /\ \A n \in Thread : n # t => pc'[n] = pc[n]
  BY <1>1 DEF TypeOK
<1>13. FrameOK'
  <2>1. mm'[Root] = 0 /\ pc'[0] \in {"init", "ret", "idle", "create"}
    BY <1>1, <1>4, <1>12 DEF FrameOK
  <2>2. ASSUME NEW p \in alloc'
        PROVE  /\ pid'[p] <= pid_total'
               /\ mm'[p] \in {0, pid'[p]}
               /\ pc'[pid'[p]] \in Own
               /\ pc'[pid'[p]] = "user" => mm'[p] = pid'[p]
    <3>1. pid[p] \in Thread
      BY <1>9 DEF TypeOK
    <3> QED
      BY <3>1, <1>1, <1>9, <1>12 DEF FrameOK
  <2>3. ASSUME NEW p \in alloc'
        PROVE  /\ esp'[p] # cpu' /\ esp'[p] <= pid_total'
               /\ \/ esp'[p] \in {Lost, pid'[p]}
                  \/ pc'[esp'[p]] = "next" /\ back_task'[esp'[p]] # p
    <3>1. p \in alloc /\ esp[p] \in Thread \cup {Lost}
      BY <1>9 DEF TypeOK
    <3> QED
      BY <3>1, <1>1, <1>9, <1>12 DEF FrameOK
  <2> QED
    BY <2>1, <2>2, <2>3, <1>1, <1>9 DEF FrameOK
<1>14. CpuOK'
  <2>1. next[running] \in alloc /\ next[running] # running
    BY <1>2, <1>3, <1>6 DEF RingOK, Cycle
  <2>2. next'[running] = next[running]
    BY <1>2, <1>6 DEF TypeOK
  <2> QED
    BY <2>1, <2>2, <1>1, <1>12 DEF CpuOK, Own
<1> QED
  BY <1>10, <1>11, <1>13, <1>14

\* The steps of schedule() in task_exit that stay inside it.
LEMMA ExitStayInv ==
    ASSUME SchedInv, NEW t \in Thread, ExitAdvance(t) \/ ExitSkipRoot(t)
    PROVE  SchedInv'
<1> USE DEF SchedInv, pcbVars, localVars
<1>1. cpu = t /\ cpu' = t /\ running' = next[running] /\ pc[t] \in InExit
      /\ UNCHANGED <<pcbVars, esp, esp0, cr3>>
  BY DEF ExitAdvance, ExitSkipRoot, Executing, InExit
<1>2. next[running] \in alloc
  BY <1>1, PickLive
<1>3. pc'[t] = "next" /\ \A n \in Thread : n # t => pc'[n] = pc[n] /\ back_task'[n] = back_task[n]
  BY DEF ExitAdvance, ExitSkipRoot, Executing, TypeOK
<1>4. t # 0 /\ 0 \in Thread
  BY <1>1, SchedAssumption DEF FrameOK, Thread, InExit
<1>5. TypeOK'
  <2>1. running' \in Slot
    BY <1>1, <1>2 DEF TypeOK
  <2>2. pc' \in [Thread -> Label] /\ back_task' \in [Thread -> Slot]
    BY DEF TypeOK, ExitAdvance, ExitSkipRoot, Label, InExit
  <2> QED
    BY <2>1, <2>2, <1>1 DEF TypeOK
<1>6. RingOK'
  BY <1>1 DEF RingOK
<1>7. FrameOK'
  <2>1. ASSUME NEW p \in alloc
        PROVE  pc'[pid[p]] \in Own /\ (pc'[pid[p]] = "user" => mm[p] = pid[p])
    <3>1. pid[p] \in Thread /\ pid[p] # t
      BY <1>1 DEF TypeOK, FrameOK, Own, InExit
    <3> QED
      BY <3>1, <1>3 DEF FrameOK
  <2>2. ASSUME NEW p \in alloc
        PROVE  \/ esp[p] \in {Lost, pid[p]}
               \/ pc'[esp[p]] = "next" /\ back_task'[esp[p]] # p
    <3>1. esp[p] \in Thread \cup {Lost} /\ esp[p] # t
      BY <1>1 DEF TypeOK, FrameOK
    <3>2. \/ esp[p] \in {Lost, pid[p]}
          \/ pc[esp[p]] = "next" /\ back_task[esp[p]] # p
      BY <1>1 DEF FrameOK
    <3>3. CASE esp[p] = Lost
      BY <3>3
    <3>4. CASE esp[p] \in Thread
      BY <3>1, <3>2, <3>4, <1>3
    <3> QED
      BY <3>1, <3>3, <3>4
  <2>3. pc'[0] \in {"init", "ret", "idle", "create"}
    BY <1>3, <1>4 DEF FrameOK
  <2> QED
    BY <2>1, <2>2, <2>3, <1>1 DEF FrameOK
<1>8. CpuOK'
  <2>1. back_task'[t] \notin alloc
    <3>1. CASE ExitAdvance(t)
      BY <3>1 DEF ExitAdvance, Executing, CpuOK, TypeOK
    <3>2. CASE ExitSkipRoot(t)
      BY <3>2 DEF ExitSkipRoot, Executing, CpuOK
    <3> QED
      BY <3>1, <3>2
  <2> QED
    BY <2>1, <1>1, <1>2, <1>3 DEF CpuOK, Own
<1> QED
  BY <1>5, <1>6, <1>7, <1>8

LEMMA ExitSwitchInv ==
    ASSUME SchedInv, NEW t \in Thread, ExitSwitch(t)
    PROVE  SchedInv'
<1> USE DEF SchedInv, pcbVars
<1>1. cpu = t /\ pc[t] = "next" /\ ~SkipsRoot(running)
      /\ UNCHANGED <<pcbVars, back_task>>
  BY DEF ExitSwitch, Executing
<1>2. /\ running \in alloc /\ back_task[t] # running /\ back_task[t] \in Slot
      /\ back_task[t] \notin alloc \/ esp[running] = Lost
  BY <1>1 DEF CpuOK, TypeOK
<1>3. /\ pc' = [pc EXCEPT ![t] = "gone"]
      /\ running' = running /\ cpu' = esp[running] /\ cr3' = mm[running]
      /\ esp0' = IF Dpl(running) # 0 THEN mm[running] ELSE esp0
      /\ esp' = [[esp EXCEPT ![back_task[t]] = t] EXCEPT ![running] = Lost]
  BY <1>1, <1>2 DEF ExitSwitch, SwitchTo, ContextSwitch, TypeOK
<1>4. pc'[t] = "gone" /\ \A n \in Thread : n # t => pc'[n] = pc[n]
  BY <1>3 DEF TypeOK
<1>5. TypeOK'
  BY <1>1, <1>2, <1>3 DEF TypeOK, Label, Dpl
<1>6. RingOK'
  BY <1>1 DEF RingOK
<1>7. \A p \in alloc : pid[p] \in Thread /\ pid[p] # t
  BY <1>1 DEF TypeOK, FrameOK, Own
<1>8. 0 \in Thread /\ t # 0
  BY <1>1, SchedAssumption DEF FrameOK, Thread
<1>9. CASE cpu' \notin Thread
  <2>1. FrameOK'
    BY <1>1, <1>4, <1>7, <1>8, <1>9 DEF FrameOK
  <2>2. CpuOK'
    BY <1>9 DEF CpuOK
  <2> QED
    BY <2>1, <2>2, <1>5, <1>6
<1>10. CASE cpu' \in Thread
  <2>1. esp[running] # Lost /\ back_task[t] \notin alloc
    BY <1>2, <1>3, <1>10 DEF Thread, Lost
  <2>2. /\ esp'[running] = Lost
        /\ \A p \in alloc : p # running => esp'[p] = esp[p]
    BY <2>1, <1>2, <1>3 DEF TypeOK
  <2>3. FrameOK'
    <3>1. ASSUME NEW p \in alloc
          PROVE  pc'[pid[p]] \in Own /\ (pc'[pid[p]] = "user" => mm[p] = pid[p])
      BY <1>4, <1>7 DEF FrameOK
    <3>2. ASSUME NEW p \in alloc
          PROVE  \/ esp'[p] \in {Lost, pid[p]}
                 \/ pc'[esp'[p]] = "next" /\ back_task[esp'[p]] # p
      <4>1. esp'[p] = Lost \/ (esp'[p] = esp[p] /\ esp[p] \in Thread /\ esp[p] # t)
        BY <2>2, <1>1 DEF FrameOK, TypeOK
      <4>2. \/ esp[p] \in {Lost, pid[p]}
            \/ pc[esp[p]] = "next" /\ back_task[esp[p]] # p
        BY <1>1 DEF FrameOK
      <4> QED
        BY <4>1, <4>2, <1>4
    <3>3. ASSUME NEW p \in alloc
          PROVE  esp'[p] # cpu' /\ esp'[p] <= pid_total
      <4>1. Lost <= pid_total
        BY SchedAssumption DEF TypeOK, Lost, Thread
      <4>2. CASE p = running
        BY <4>1, <4>2, <2>1, <2>2, <1>3
      <4>3. CASE p # running
        <5>1. esp'[p] = esp[p] /\ esp[p] <= pid_total /\ esp[p] # esp[running]
          BY <4>3, <2>1, <2>2, <1>1, <1>2 DEF FrameOK
        <5> QED
          BY <5>1, <1>3
      <4> QED
        BY <4>2, <4>3
    <3>4. \A p, q \in alloc : esp'[p] = esp'[q] => p = q \/ esp'[p] = Lost
      BY <2>2, <1>1 DEF FrameOK
    <3>5. cpu' <= pid_total
      BY <1>1, <1>2, <1>3 DEF FrameOK
    <3>6. pc'[0] \in {"init", "ret", "idle", "create"}
      BY <1>4, <1>8 DEF FrameOK
    <3> QED
      BY <3>1, <3>2, <3>3, <3>4, <3>5, <3>6, <1>1 DEF FrameOK
  <2>4. CpuOK'
    <3>1. cpu' # t
      BY <1>1, <1>2, <1>3 DEF FrameOK
    <3>2. pc'[cpu'] = pc[cpu']
      BY <3>1, <1>4, <1>10
    <3>3. \/ cpu' = pid[running] /\ pc[cpu'] \in Own /\ mm[running] \in {0, cpu'}
          \/ pc[cpu'] = "next" /\ back_task[cpu'] # running
      BY <1>1, <1>2, <1>3, <2>1 DEF FrameOK
    <3> QED
      BY <3>2, <3>3, <1>1, <1>2, <1>3, <2>2 DEF CpuOK, SkipsRoot, Own, Dpl
  <2> QED
    BY <2>3, <2>4, <1>5, <1>6
<1> QED
  BY <1>9, <1>10

(***************************************************************************)
(* The theorems.                                                           *)
(***************************************************************************)

LEMMA NextInv == SchedInv /\ [Next]_vars => SchedInv'
<1> SUFFICES ASSUME SchedInv, [Next]_vars PROVE SchedInv'
  OBVIOUS
<1>1. CASE Tick
  BY <1>1, ScheduleInv DEF Tick
<1>2. ASSUME NEW t \in Thread, SysYield(t) PROVE SchedInv'
  BY <1>2, ScheduleInv DEF SysYield, Executing
<1>3. ASSUME NEW t \in Thread, SysExecReturn(t) PROVE SchedInv'
  BY <1>3, SysExecReturnInv
<1>4. ASSUME NEW t \in Thread, TaskCreateCheck(t) PROVE SchedInv'
  BY <1>4, TaskCreateCheckInv
<1>5. ASSUME NEW t \in Thread, TaskExit(t) PROVE SchedInv'
  BY <1>5, TaskExitInv
<1>6. ASSUME NEW t \in Thread, Exiting(t) PROVE SchedInv'
  BY <1>6, ExitStayInv, ExitSwitchInv DEF Exiting
<1>7. ASSUME NEW t \in Thread, NEW s \in Slot, SysExec(t, s) PROVE SchedInv'
  BY <1>7, SysExecInv
<1>8. ASSUME NEW t \in Thread, NEW s \in Slot, TaskCreate(t, s) PROVE SchedInv'
  BY <1>8, TaskCreateInv
<1>9. CASE UNCHANGED vars
  BY <1>9 DEF vars, pcbVars, cpuVars, localVars, SchedInv, TypeOK, RingOK,
              FrameOK, CpuOK, SkipsRoot
<1> QED
  BY <1>1, <1>2, <1>3, <1>4, <1>5, <1>6, <1>7, <1>8, <1>9 DEF Next

\* The inductive invariant: types, the ring, the saved contexts and what the
\* executing task relies on, with the clock anywhere it can fire.
THEOREM SchedInvariant == Spec => []SchedInv
BY InitInv, NextInv, PTL DEF Spec

\* Every variable keeps its type; process_num, decremented by task_exit, stays
\* a natural number.
THEOREM TypeCorrect == Spec => []TypeOK
<1>1. SchedInv => TypeOK
  BY DEF SchedInv
<1> QED
  BY <1>1, SchedInvariant, PTL

\* The tasks in use are one cycle through task 0 that process_num counts,
\* whatever sys_exec, task_create and task_exit do and wherever the clock fires.
THEOREM RingCorrect == Spec => []RingOK
<1>1. SchedInv => RingOK
  BY DEF SchedInv
<1> QED
  BY <1>1, SchedInvariant, PTL

\* Code of a live task runs with its own PCB, page directory and kernel stack.
THEOREM ContextCorrect == Spec => []ContextIsOwn
<1>1. SchedInv => ContextIsOwn
  <2> SUFFICES ASSUME SchedInv, cpu \in Thread, pc[cpu] \in Own PROVE ContextIsOwn!2
    BY DEF ContextIsOwn
  <2>1. running \in alloc /\ pid[running] = cpu /\ cr3 = mm[running] /\ (mm[running] # 0 => esp0 = cpu)
    BY DEF SchedInv, CpuOK
  <2>2. pc[cpu] = "user" => mm[running] = cpu /\ cpu # 0
    BY <2>1 DEF SchedInv, FrameOK
  <2> QED
    BY <2>1, <2>2
<1> QED
  BY <1>1, SchedInvariant, PTL

\* The link schedule() reads from a freed PCB leads back into the ring.
THEOREM StaleNextCorrect == Spec => []StaleNextLive
<1>1. SchedInv => StaleNextLive
  BY DEF SchedInv, CpuOK, StaleNextLive, InExit
<1> QED
  BY <1>1, SchedInvariant, PTL

\* schedule() never returns to a program that has exited.
THEOREM ExitCorrect == Spec => []ExitNeverReturns
<1>1. SchedInv => ExitNeverReturns
  BY DEF SchedInv, CpuOK, ExitNeverReturns
<1> QED
  BY <1>1, SchedInvariant, PTL

(***************************************************************************)
(* The idle task.                                                          *)
(***************************************************************************)

\* Only task 0's PCB holds task 0's context.
LEMMA RootFrame ==
    ASSUME SchedInv, cpu \in Thread, NEW p \in alloc, esp[p] = 0
    PROVE  p = Root
<1>1. esp[p] \in {Lost, pid[p]} \/ pc[0] = "next"
  BY DEF SchedInv, FrameOK
<1>2. pc[0] # "next"
  BY DEF SchedInv, FrameOK
<1>3. pid[p] = 0
  BY <1>1, <1>2 DEF Lost
<1> QED
  BY <1>3 DEF SchedInv, RingOK

LEMMA SwitchToIdle ==
    ASSUME SchedInv, cpu \in Thread, NEW this \in Slot, NEW nxt \in alloc,
           this # nxt, ~SkipsRoot(nxt), SwitchTo(this, nxt), cpu' = 0
    PROVE  process_num = 1
<1>1. esp[nxt] = 0
  BY DEF SwitchTo, ContextSwitch, SchedInv, TypeOK
<1>2. nxt = Root
  BY <1>1, RootFrame
<1>3. ~(process_num > 1)
  BY <1>2 DEF SkipsRoot, SchedInv, RingOK
<1>4. process_num # 0
  <2>1. IsFiniteSet(alloc)
    BY SchedAssumption, FS_Subset DEF SchedInv, TypeOK
  <2> QED
    BY <2>1, FS_EmptySet DEF SchedInv, RingOK
<1> QED
  BY <1>3, <1>4 DEF SchedInv, TypeOK

LEMMA ScheduleToIdle ==
    ASSUME SchedInv, cpu \in Thread, Schedule, cpu # 0, cpu' = 0
    PROVE  process_num = 1
<1>1. Pick(running) # running
  BY DEF Schedule, cpuVars
<1>2. running \in Slot
  BY DEF SchedInv, TypeOK
<1> QED
  BY <1>1, <1>2, PickLive, SwitchToIdle DEF Schedule

\* The idle task is given the processor only when no other task is left,
\* wherever the clock fires.
THEOREM IdleIsLast == Spec => IdleLast
<1>1. SchedInv /\ [Next]_vars => [cpu # 0 /\ cpu' = 0 => process_num = 1]_vars
  <2> SUFFICES ASSUME SchedInv, Next, cpu # 0, cpu' = 0 PROVE process_num = 1
    BY DEF vars
  <2>1. CASE Tick
    BY <2>1, ScheduleToIdle DEF Tick
  <2>2. ASSUME NEW t \in Thread, SysYield(t) PROVE process_num = 1
    BY <2>2, ScheduleToIdle DEF SysYield, Executing
  <2>3. ASSUME NEW t \in Thread, ExitSwitch(t) PROVE process_num = 1
    <3>1. cpu = t /\ running \in alloc /\ back_task[t] # running /\ back_task[t] \in Slot
          /\ ~SkipsRoot(running) /\ SwitchTo(back_task[t], running)
      BY <2>3 DEF ExitSwitch, Executing, SchedInv, CpuOK, TypeOK
    <3> QED
      BY <3>1, SwitchToIdle
  <2>4. ASSUME NEW t \in Thread,
               \/ SysExecReturn(t) \/ TaskCreateCheck(t) \/ TaskExit(t)
               \/ ExitAdvance(t) \/ ExitSkipRoot(t)
               \/ \E s \in Slot : SysExec(t, s) \/ TaskCreate(t, s)
        PROVE  cpu' \in {cpu, Halted}
    BY <2>4 DEF SysExecReturn, TaskCreateCheck, TaskExit, ExitAdvance, ExitSkipRoot,
                SysExec, TaskCreate, cpuVars
  <2> QED
    BY <2>1, <2>2, <2>3, <2>4 DEF Next, Exiting, Halted
<1> QED
  BY <1>1, SchedInvariant, PTL DEF Spec, IdleLast

(***************************************************************************)
(* Saved contexts, with the clock kept out of task_exit.                   *)
(***************************************************************************)

LEMMA QuietSwitch ==
    ASSUME SchedInv, QuietInv, cpu \in Thread, NEW this \in Slot, NEW nxt \in alloc,
           this # nxt, SwitchTo(this, nxt), alloc' = alloc, pid' = pid,
           nxt # running \/ pid[nxt] # cpu,
           this = running \/ this \notin alloc,
           \A p \in alloc : p = running => p = nxt \/ (this = p /\ pid[p] = cpu)
    PROVE  QuietInv'
<1>1. /\ running' = nxt /\ cpu' = esp[nxt]
      /\ esp' = [[esp EXCEPT ![this] = cpu] EXCEPT ![nxt] = Lost]
  BY DEF SwitchTo, ContextSwitch, SchedInv, TypeOK
<1>2. esp[nxt] = pid[nxt] /\ pid[nxt] \in Thread
  BY DEF QuietInv, SchedInv, TypeOK, RingOK, Halted, Thread
<1>3. ASSUME NEW p \in alloc, p # nxt PROVE esp'[p] = pid[p]
  <2>1. CASE p = this
    BY <2>1, <1>1, <1>3 DEF SchedInv, TypeOK
  <2>2. CASE p # this
    BY <2>2, <1>1, <1>3 DEF QuietInv, SchedInv, TypeOK
  <2> QED
    BY <2>1, <2>2
<1> QED
  BY <1>1, <1>2, <1>3 DEF QuietInv

LEMMA QuietSchedule ==
    ASSUME SchedInv, QuietInv, cpu \in Thread, pc[cpu] \in Own, Schedule,
           UNCHANGED <<pcbVars, localVars>>
    PROVE  QuietInv'
<1>1. running \in alloc /\ running \in Slot /\ pid[running] = cpu
  BY DEF SchedInv, CpuOK, TypeOK
<1>2. CASE Pick(running) = running
  BY <1>2 DEF Schedule, cpuVars, pcbVars, QuietInv
<1>3. CASE Pick(running) # running
  BY <1>1, <1>3, PickLive, QuietSwitch DEF Schedule, pcbVars
<1> QED
  BY <1>2, <1>3

LEMMA QuietAdd ==
    ASSUME SchedInv, QuietInv, NEW s \in Slot, NEW space, AddTask(s, space),
           UNCHANGED <<running, cpu>>
    PROVE  QuietInv'
<1>1. /\ s \notin alloc /\ alloc' = alloc \cup {s}
      /\ pid'[s] = esp'[s]
      /\ \A p \in alloc : pid'[p] = pid[p] /\ esp'[p] = esp[p]
  BY DEF AddTask, SchedInv, TypeOK
<1> QED
  BY <1>1 DEF QuietInv

LEMMA QuietExit ==
    ASSUME SchedInv, QuietInv, NEW t \in Thread, Exiting(t)
    PROVE  QuietInv'
<1>1. cpu = t /\ pc[t] \in InExit
  BY DEF Exiting, ExitAdvance, ExitSkipRoot, ExitSwitch, Executing, InExit
<1>2. \A p \in alloc : pid[p] # cpu /\ pid[p] \in Thread
  BY <1>1 DEF SchedInv, FrameOK, TypeOK, Own, InExit
<1>3. \A p \in alloc : esp[p] = pid[p]
  BY <1>1, <1>2 DEF QuietInv, Halted, Thread
<1>4. CASE ExitAdvance(t) \/ ExitSkipRoot(t)
  BY <1>3, <1>4 DEF ExitAdvance, ExitSkipRoot, pcbVars, QuietInv
<1>5. CASE ExitSwitch(t)
  <2>1. /\ running \in alloc /\ back_task[t] # running /\ back_task[t] \in Slot
        /\ back_task[t] \notin alloc \/ esp[running] = Lost
    BY <1>5 DEF ExitSwitch, Executing, SchedInv, CpuOK, TypeOK
  <2>2. back_task[t] \notin alloc
    BY <2>1, <1>2, <1>3 DEF Lost, Thread
  <2>3. SwitchTo(back_task[t], running) /\ alloc' = alloc /\ pid' = pid
    BY <1>5, <2>1 DEF ExitSwitch, pcbVars
  <2> QED
    BY <1>1, <1>2, <2>1, <2>2, <2>3, QuietSwitch
<1> QED
  BY <1>4, <1>5 DEF Exiting

LEMMA QuietNext ==
    ASSUME SchedInv, QuietInv, ~ExitTick, [Next]_vars
    PROVE  QuietInv'
<1>1. CASE Tick
  <2>1. cpu \in Thread /\ pc[cpu] \in Own
    BY <1>1 DEF Tick
  <2> QED
    BY <1>1, <2>1, QuietSchedule DEF Tick
<1>2. ASSUME NEW t \in Thread, SysYield(t) PROVE QuietInv'
  BY <1>2, QuietSchedule DEF SysYield, Executing, Own
<1>3. ASSUME NEW t \in Thread, SysExecReturn(t) PROVE QuietInv'
  BY <1>3 DEF SysExecReturn, pcbVars, cpuVars, QuietInv
<1>4. ASSUME NEW t \in Thread, TaskCreateCheck(t) PROVE QuietInv'
  <2>1. cpu = t /\ pc[t] \in Own
    BY <1>4 DEF TaskCreateCheck, Executing, Own
  <2>2. cpu' \in {cpu, Halted} /\ UNCHANGED <<running, alloc, pid, esp>>
    BY <1>4 DEF TaskCreateCheck, pcbVars
  <2> QED
    BY <2>1, <2>2 DEF QuietInv, Halted, Thread
<1>5. ASSUME NEW t \in Thread, TaskExit(t) PROVE QuietInv'
  <2>1. /\ cpu' = cpu /\ running' = running /\ esp' = esp
        /\ alloc' = alloc \ {running}
        /\ pid' = [pid EXCEPT ![running] = 0]
    BY <1>5 DEF TaskExit, cpuVars
  <2>2. \A p \in alloc' : p \in alloc /\ p # running /\ pid'[p] = pid[p]
    BY <2>1 DEF SchedInv, TypeOK
  <2> QED
    BY <2>1, <2>2 DEF QuietInv
<1>6. ASSUME NEW t \in Thread, Exiting(t) PROVE QuietInv'
  BY <1>6, QuietExit
<1>7. ASSUME NEW t \in Thread, NEW s \in Slot, SysExec(t, s) \/ TaskCreate(t, s)
      PROVE  QuietInv'
  BY <1>7, QuietAdd DEF SysExec, TaskCreate
<1>8. CASE UNCHANGED vars
  BY <1>8 DEF vars, pcbVars, cpuVars, QuietInv
<1> QED
  BY <1>1, <1>2, <1>3, <1>4, <1>5, <1>6, <1>7, <1>8 DEF Next

\* If the clock does not fire inside task_exit's schedule(), every saved context
\* is there: the inductive invariant behind the next two theorems.
THEOREM QuietInvariant == ASSUME ~ExitTick PROVE Spec => []QuietInv
<1>1. Init => QuietInv
  BY SchedAssumption DEF Init, QuietInv, Thread
<1>2. SchedInv /\ QuietInv /\ [Next]_vars => QuietInv'
  BY QuietNext
<1> QED
  BY <1>1, <1>2, SchedInvariant, PTL DEF Spec

\* ... so a task that is not running has its own context in its PCB,
THEOREM FramesCorrect == ASSUME ~ExitTick PROVE Spec => []FramesOwn
<1>1. QuietInv => FramesOwn
  BY DEF QuietInv, FramesOwn
<1> QED
  BY <1>1, QuietInvariant, PTL

\* ... and context_switch never takes up a context that was already resumed.
THEOREM NothingLost == ASSUME ~ExitTick PROVE Spec => []NeverLost
<1>1. QuietInv => NeverLost
  BY DEF QuietInv, NeverLost, Lost, Halted, Thread
<1> QED
  BY <1>1, QuietInvariant, PTL

(***************************************************************************)
(* The abstract task manager.                                              *)
(***************************************************************************)

\* As many pids as PCBs; with one PCB the only task is the idle one.
LEMMA LiveCount ==
    ASSUME SchedInv
    PROVE  /\ process_num <= Cardinality(LiveTasks)
           /\ process_num = 1 => LiveTasks = {0}
<1>1. /\ LiveTasks \in SUBSET Thread /\ IsFiniteSet(LiveTasks)
      /\ IsFiniteSet(alloc) /\ process_num = Cardinality(alloc)
  <2>1. alloc \in SUBSET Slot /\ process_num = Cardinality(alloc) /\ \A p \in alloc : pid[p] \in Thread
    BY DEF SchedInv, TypeOK, RingOK
  <2>3. LiveTasks \in SUBSET (0 .. MaxPid)
    BY <2>1 DEF LiveTasks, Thread
  <2>2. IsFiniteSet(0 .. MaxPid)
    BY SchedAssumption, FS_Interval
  <2> QED
    BY <2>1, <2>2, <2>3, SchedAssumption, FS_Subset DEF Thread
<1>2. Cardinality(alloc) <= Cardinality(LiveTasks)
  <2> DEFINE f == [p \in alloc |-> pid[p]]
  <2>1. f \in [alloc -> LiveTasks] /\ \A p, q \in alloc : f[p] = f[q] => p = q
    BY DEF LiveTasks, SchedInv, RingOK
  <2> HIDE DEF f
  <2>2. f \in Injection(alloc, LiveTasks)
    BY <2>1 DEF Injection, IsInjective
  <2> QED
    BY <2>2, <1>1, FS_Injection
<1>3. ASSUME process_num = 1 PROVE LiveTasks = {0}
  <2>1. PICK x : alloc = {x}
    BY <1>1, <1>3, FS_Singleton
  <2>2. alloc = {Root} /\ pid[Root] = 0
    BY <2>1 DEF SchedInv, RingOK
  <2> QED
    BY <2>2 DEF LiveTasks
<1> QED
  BY <1>1, <1>2, <1>3

\* The task that executes and is not past its exit is a live one.
LEMMA CurrentLive ==
    ASSUME SchedInv, cpu \in Thread, pc[cpu] \in Own
    PROVE  CurrentTask = cpu /\ cpu \in LiveTasks
<1>1. running \in alloc /\ pid[running] = cpu
  BY DEF SchedInv, CpuOK
<1>2. CurrentTask = cpu
  BY DEF CurrentTask, Halted, Thread
<1> QED
  BY <1>1, <1>2 DEF LiveTasks

\* A context switch dispatches the task whose context the PCB holds.
LEMMA SwitchDispatches ==
    ASSUME SchedInv, cpu \in Thread, NEW this \in Slot, NEW nxt \in alloc, this # nxt,
           ~SkipsRoot(nxt), SwitchTo(this, nxt), UNCHANGED <<alloc, pid>>,
           esp[nxt] = pid[nxt], pc'[pid[nxt]] = pc[pid[nxt]]
    PROVE  Abstract!TNext
<1>1. cpu' = pid[nxt] /\ pid[nxt] \in Thread /\ pid[nxt] \in LiveTasks
  BY DEF SwitchTo, ContextSwitch, SchedInv, TypeOK, LiveTasks
<1>2. pc[pid[nxt]] \in Own
  BY DEF SchedInv, FrameOK
<1>3. CurrentTask' = pid[nxt]
  BY <1>1, <1>2 DEF CurrentTask, Halted, Thread
<1>4. pid[nxt] = 0 => LiveTasks = {0}
  BY <1>1, SwitchToIdle, LiveCount
<1>5. LiveTasks' = LiveTasks
  BY DEF LiveTasks
<1>6. Abstract!Dispatch(pid[nxt])
  BY <1>1, <1>3, <1>4, <1>5 DEF Abstract!Dispatch
<1> QED
  BY <1>1, <1>6 DEF Abstract!TNext

LEMMA ScheduleDispatches ==
    ASSUME SchedInv, QuietInv, cpu \in Thread, pc[cpu] \in Own, Schedule,
           UNCHANGED <<pcbVars, localVars>>
    PROVE  Abstract!TNext \/ UNCHANGED <<LiveTasks, CurrentTask>>
<1>1. CASE Pick(running) = running
  BY <1>1 DEF Schedule, cpuVars, pcbVars, localVars, LiveTasks, CurrentTask
<1>2. CASE Pick(running) # running
  <2>1. Pick(running) \in alloc /\ ~SkipsRoot(Pick(running)) /\ running \in Slot
        /\ SwitchTo(running, Pick(running))
    BY <1>2, PickLive DEF Schedule, SchedInv, TypeOK
  <2>2. esp[Pick(running)] = pid[Pick(running)]
    BY <1>2, <2>1 DEF QuietInv
  <2> QED
    BY <1>2, <2>1, <2>2, SwitchDispatches DEF pcbVars, localVars
<1> QED
  BY <1>1, <1>2

\* sys_exec and task_create make one task, which is nobody's pid.
LEMMA AddTaskCreates ==
    ASSUME SchedInv, SchedInv', cpu \in Thread, pc[cpu] \in Own, NEW s \in Slot, NEW space,
           AddTask(s, space), cpu' = cpu, pc'[cpu] \in Own
    PROVE  Abstract!TNext
<1> DEFINE new == pid_total + 1
<1>1. new \in Thread /\ \A n \in Thread : n <= pid_total => n # new
  BY NewPid DEF AddTask, SchedInv, TypeOK, Thread
<1>2. /\ alloc' = alloc \cup {s} /\ s \notin alloc /\ pid'[s] = new
      /\ \A p \in alloc : pid'[p] = pid[p]
  BY DEF AddTask, SchedInv, TypeOK
<1>3. new \notin LiveTasks
  BY <1>1 DEF LiveTasks, SchedInv, FrameOK, TypeOK
<1>4. LiveTasks' = LiveTasks \cup {new}
  BY <1>2 DEF LiveTasks
<1>5. CurrentTask = cpu /\ cpu \in LiveTasks /\ CurrentTask' = cpu
  BY CurrentLive DEF CurrentTask, Halted, Thread
<1>6. Abstract!Create(new)
  BY <1>1, <1>3, <1>4, <1>5 DEF Abstract!Create
<1> QED
  BY <1>1, <1>6 DEF Abstract!TNext

\* A task leaves the set of live ones with its PCB.
LEMMA ExitDies ==
    ASSUME SchedInv, NEW t \in Thread, TaskExit(t)
    PROVE  Abstract!TNext
<1>1. /\ cpu = t /\ pc[t] \in {"kernel", "user"} /\ running \in alloc /\ pid[running] = t
  BY DEF TaskExit, Executing, SchedInv, CpuOK, Own
<1>2. t # 0
  BY <1>1 DEF SchedInv, FrameOK
<1>3. /\ alloc' = alloc \ {running} /\ cpu' = t /\ pc'[t] = "sched"
      /\ \A p \in alloc' : pid'[p] = pid[p] /\ p \in alloc /\ p # running
  BY <1>1 DEF TaskExit, cpuVars, SchedInv, TypeOK
<1>4. LiveTasks' = LiveTasks \ {t}
  <2>1. \A p \in alloc : pid[p] = t <=> p = running
    BY <1>1 DEF SchedInv, RingOK
  <2> QED
    BY <1>3, <2>1 DEF LiveTasks
<1>5. CurrentTask = t /\ t \in LiveTasks
  BY <1>1, CurrentLive DEF Own
<1>6. CurrentTask' = -1
  BY <1>3 DEF CurrentTask, Own, Halted, Thread
<1> QED
  BY <1>2, <1>4, <1>5, <1>6 DEF Abstract!TNext, Abstract!Die, Abstract!NoTask

\* Past its exit a task only walks on, until another one is dispatched.
LEMMA ExitingDispatches ==
    ASSUME SchedInv, QuietInv, NEW t \in Thread, Exiting(t)
    PROVE  Abstract!TNext \/ UNCHANGED <<LiveTasks, CurrentTask>>
<1>1. cpu = t /\ pc[t] \in InExit
  BY DEF Exiting, ExitAdvance, ExitSkipRoot, ExitSwitch, Executing, InExit
<1>2. CASE ExitAdvance(t) \/ ExitSkipRoot(t)
  <2>1. cpu' = t /\ pc'[t] \in InExit /\ UNCHANGED <<alloc, pid>>
    BY <1>1, <1>2 DEF ExitAdvance, ExitSkipRoot, pcbVars, localVars, InExit, SchedInv, TypeOK
  <2> QED
    BY <1>1, <2>1 DEF LiveTasks, CurrentTask, Own, InExit, Halted, Thread
<1>3. CASE ExitSwitch(t)
  <2>1. /\ running \in alloc /\ back_task[t] # running /\ back_task[t] \in Slot
        /\ ~SkipsRoot(running) /\ SwitchTo(back_task[t], running)
        /\ pc' = [pc EXCEPT ![t] = "gone"] /\ UNCHANGED <<alloc, pid>>
    BY <1>3 DEF ExitSwitch, Executing, SchedInv, CpuOK, TypeOK, pcbVars
  <2>2. pid[running] # t /\ pid[running] \in Thread
    BY <1>1, <2>1 DEF SchedInv, FrameOK, TypeOK, Own, InExit
  <2>3. esp[running] = pid[running]
    BY <1>1, <2>1, <2>2 DEF QuietInv, Halted, Thread
  <2>4. pc'[pid[running]] = pc[pid[running]]
    BY <2>1, <2>2 DEF SchedInv, TypeOK
  <2> QED
    BY <1>1, <2>1, <2>3, <2>4, SwitchDispatches
<1> QED
  BY <1>2, <1>3 DEF Exiting

\* It gives up only with more tasks than the limit.
LEMMA CheckGivesUp ==
    ASSUME SchedInv, NEW t \in Thread, TaskCreateCheck(t)
    PROVE  Abstract!TNext \/ UNCHANGED <<LiveTasks, CurrentTask>>
<1>1. cpu = t /\ pc[t] \in Own /\ UNCHANGED <<alloc, pid>>
  BY DEF TaskCreateCheck, Executing, Own, pcbVars
<1>2. CurrentTask = t /\ t \in LiveTasks /\ LiveTasks' = LiveTasks
  BY <1>1, CurrentLive DEF LiveTasks
<1>3. CASE process_num > MAX_TASK_NUM
  <2>1. CurrentTask' = -2
    BY <1>3 DEF TaskCreateCheck, CurrentTask, Halted, Thread
  <2>2. Cardinality(LiveTasks) > MAX_TASK_NUM
    <3>1. Cardinality(LiveTasks) \in Nat
      <4>1. LiveTasks \in SUBSET (0 .. MaxPid) /\ IsFiniteSet(0 .. MaxPid)
        BY SchedAssumption, FS_Interval DEF LiveTasks, SchedInv, TypeOK, Thread
      <4> QED
        BY <4>1, FS_Subset, FS_CardinalityType
    <3> QED
      BY <1>3, <3>1, LiveCount, SchedAssumption DEF SchedInv, TypeOK
  <2> QED
    <3>0. Abstract!Cardinality(LiveTasks) = Cardinality(LiveTasks)
      BY DEF Cardinality, Abstract!Cardinality
    <3>1. Abstract!GiveUp
      BY <1>2, <2>1, <2>2, <3>0 DEF Abstract!GiveUp, Abstract!Stopped
    <3> QED
      BY <3>1 DEF Abstract!TNext
<1>4. CASE ~(process_num > MAX_TASK_NUM)
  <2>1. cpu' = t /\ pc'[t] \in Own
    BY <1>1, <1>4 DEF TaskCreateCheck, SchedInv, TypeOK, Own
  <2>2. CurrentTask' = t
    BY <2>1 DEF CurrentTask, Halted, Thread
  <2> QED
    BY <1>2, <2>2
<1> QED
  BY <1>3, <1>4

LEMMA StepImplements ==
    ASSUME SchedInv, QuietInv, ~ExitTick, [Next]_vars
    PROVE  Abstract!TNext \/ UNCHANGED <<LiveTasks, CurrentTask>>
<1>0. SchedInv'
  BY NextInv
<1>1. CASE Tick
  <2>1. cpu \in Thread /\ pc[cpu] \in Own
    BY <1>1 DEF Tick
  <2> QED
    BY <1>1, <2>1, ScheduleDispatches DEF Tick
<1>2. ASSUME NEW t \in Thread, SysYield(t)
      PROVE  Abstract!TNext \/ UNCHANGED <<LiveTasks, CurrentTask>>
  BY <1>2, ScheduleDispatches DEF SysYield, Executing, Own
<1>3. ASSUME NEW t \in Thread, SysExecReturn(t)
      PROVE  UNCHANGED <<LiveTasks, CurrentTask>>
  <2>1. /\ cpu = t /\ pc[t] \in Own /\ cpu' = t /\ pc'[t] \in Own
        /\ UNCHANGED <<alloc, pid>>
    BY <1>3 DEF SysExecReturn, Executing, Own, pcbVars, cpuVars, SchedInv, TypeOK
  <2> QED
    BY <2>1 DEF LiveTasks, CurrentTask, Halted, Thread
<1>4. ASSUME NEW t \in Thread, NEW s \in Slot, SysExec(t, s) \/ TaskCreate(t, s)
      PROVE  Abstract!TNext
  <2>1. cpu = t /\ pc[t] \in Own /\ cpu' = cpu /\ \E space : AddTask(s, space)
    BY <1>4 DEF SysExec, TaskCreate, Executing, Own
  <2>2. pc'[cpu] \in Own
    BY <1>4, <2>1, <1>0 DEF SysExec, TaskCreate, SchedInv, TypeOK, CpuOK, Own
  <2> QED
    BY <1>0, <2>1, <2>2, AddTaskCreates
<1>5. CASE UNCHANGED vars
  BY <1>5 DEF vars, pcbVars, cpuVars, localVars, LiveTasks, CurrentTask
<1> QED
  BY <1>1, <1>2, <1>3, <1>4, <1>5, CheckGivesUp, ExitDies, ExitingDispatches DEF Next

\* If the clock does not fire inside task_exit's schedule(), the ring, the PCBs
\* and the saved contexts of task.c implement the abstract task manager: tasks
\* are made by tasks, die by themselves, and the idle one runs only alone.
THEOREM SchedImplementsTasks == ASSUME ~ExitTick PROVE Spec => ImplementsTasks
<1>1. Init => Abstract!TInit
  BY SchedAssumption DEF Init, Abstract!TInit, LiveTasks, CurrentTask, Own, Halted, Thread
<1>2. SchedInv /\ QuietInv /\ [Next]_vars => [Abstract!TNext]_<<LiveTasks, CurrentTask>>
  BY StepImplements
<1> QED
  BY <1>1, <1>2, SchedInvariant, QuietInvariant, PTL DEF Spec, ImplementsTasks, Abstract!TSpec
============================================================================
