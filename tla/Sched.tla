------------------------------- MODULE Sched -------------------------------
(***************************************************************************)
(* The task manager of NarOS: kernel/task.c, kernel/schedule.S and the     *)
(* part of kernel/main.c that runs as task 0.                              *)
(*                                                                         *)
(* One processor executes tasks.  A task is known by the pid it is given   *)
(* when it is created (task 0 is the kernel's own thread); its context,    *)
(* once saved, is represented by that number.  A process control block is  *)
(* a heap block, an element of Slot, which is freed and reused.            *)
(*                                                                         *)
(* Interrupt gates clear IF, so a handler or a system call is one step     *)
(* unless it sets IF again: sys_exec and task_exit do (before they read    *)
(* new_task->pid, and before they call schedule), and the clock may then   *)
(* interrupt them.  The constant ExitTick says whether it may do so in     *)
(* task_exit's call of schedule().                                         *)
(***************************************************************************)
EXTENDS Integers, FiniteSets

CONSTANTS
    Slot,           \* heap blocks that may hold a pcb_t; bounds live tasks
    Root,           \* root_task_pcb, the statically allocated PCB of task 0
    MaxPid,         \* bound: how many tasks are ever created
    MAX_TASK_NUM,   \* task.h
    KernelTasks,    \* does kernel code call task_create?
    ExitTick        \* may the clock fire while task_exit runs schedule()?

ASSUME SchedAssumption ==
    /\ IsFiniteSet(Slot) /\ Root \in Slot
    /\ MaxPid \in Nat
    /\ MAX_TASK_NUM \in Nat
    /\ KernelTasks \in BOOLEAN
    /\ ExitTick \in BOOLEAN

VARIABLES
    running,        \* task_t *running
    next,           \* pcb_t.next
    pid,            \* pcb_t.pid
    mm,             \* pcb_t.mm: the task owning the address space; 0 = root_mm
    esp,            \* pcb_t.esp: the context saved there, if it is a fresh one
    process_num,
    pid_total,
    alloc,          \* the PCBs that are not free
    esp0,           \* tss.esp0: whose kernel stack an interrupt will use
    cr3,            \* whose page directory is loaded
    cpu,            \* the task the processor is executing
    pc,             \* where each task is
    back_task       \* the local of schedule() in a task that is exiting

pcbVars == <<next, pid, mm, alloc, process_num, pid_total>>
cpuVars == <<running, esp, esp0, cr3, cpu>>
localVars == <<pc, back_task>>
vars == <<pcbVars, cpuVars, localVars>>

Thread == 0 .. MaxPid

\* A context that was resumed since it was saved (its stack has moved on), or
\* the processor after it jumped to one: nothing is known of what follows.
Lost == -1
\* The processor after panic(): interrupts off, hlt.
Halted == -2

\* "sched" and "next" are the two places of schedule() in task_exit where the
\* clock may interrupt: before and after running = running->next.
InExit == {"sched", "next"}
Own == {"init", "ret", "idle", "create", "kernel", "user"}
Label == Own \cup InExit \cup {"gone"}

\* pcb_t.dpl: kernel tasks share root_mm, user tasks have an mm of their own.
Dpl(p) == IF mm[p] = 0 THEN 0 ELSE 3

Executing(t, labels) == cpu = t /\ pc[t] \in labels
----------------------------------------------------------------------------
Init ==
    /\ running = Root
    /\ next = [s \in Slot |-> Root]
    /\ pid = [s \in Slot |-> 0]
    /\ mm = [s \in Slot |-> 0]
    /\ esp = [s \in Slot |-> Lost]
    /\ process_num = 1
    /\ pid_total = 0
    /\ alloc = {Root}
    /\ esp0 = 0
    /\ cr3 = 0
    /\ cpu = 0
    /\ pc = [t \in Thread |-> IF t = 0 THEN "init" ELSE "gone"]
    /\ back_task = [t \in Thread |-> Root]

\* Mutant of SkipsRoot: task 0 takes its turn like any other.
SkipsRootNever(p) == FALSE

\* The loop at next_task: task 0 is passed over while there are others.
SkipsRoot(p) == process_num > 1 /\ pid[p] = 0
\* Mutant of Pick: the search starts at task 0 every time.
PickFromRoot(p) == IF next[Root] = Root THEN Root ELSE next[Root]


Pick(p) == IF SkipsRoot(next[p]) THEN next[next[p]] ELSE next[p]

\* context_switch(this, nxt): the stack in use is stored in this, the one
\* stored in nxt is taken up and from then on the stored one is out of date.
ContextSwitch(this, nxt) ==
    LET saved == [esp EXCEPT ![this] = cpu] IN
    /\ cpu' = saved[nxt]
    /\ esp' = [saved EXCEPT ![nxt] = Lost]

\* Mutant of SwitchTo: tss.esp0 is left alone.
SwitchToSameEsp0(this, nxt) ==
    /\ running' = nxt
    /\ esp0' = esp0
    /\ cr3' = mm[nxt]
    /\ ContextSwitch(this, nxt)

\* The rest of schedule(), once the next task is found.
SwitchTo(this, nxt) ==
    /\ running' = nxt
    /\ esp0' = IF Dpl(nxt) # 0 THEN mm[nxt] ELSE esp0
    /\ cr3' = mm[nxt]
    /\ ContextSwitch(this, nxt)

\* schedule() called with interrupts off.
Schedule ==
    IF Pick(running) = running
      THEN UNCHANGED cpuVars
      ELSE SwitchTo(running, Pick(running))
----------------------------------------------------------------------------
\* clock_int: the interrupt saves the context on the current task's stack.
Tick ==
    /\ cpu \in Thread
    /\ pc[cpu] \in Own \cup (IF ExitTick THEN InExit ELSE {})
    /\ Schedule
    /\ UNCHANGED <<pcbVars, localVars>>

SysYield(t) ==
    /\ Executing(t, {"user"})
    /\ Schedule
    /\ UNCHANGED <<pcbVars, localVars>>

\* Mutant of AddTask: the new PCB's stack pointer is not set up.
AddTaskNoStack(s, space) ==
    /\ pid_total < MaxPid
    /\ s \notin alloc
    /\ alloc' = alloc \cup {s}
    /\ pid_total' = pid_total + 1
    /\ pid' = [pid EXCEPT ![s] = pid_total']
    /\ mm' = [mm EXCEPT ![s] = space]
    /\ next' = [next EXCEPT ![s] = next[running], ![running] = s]
    /\ process_num' = process_num + 1
    /\ UNCHANGED esp

\* setup_pcb and add_pcb_to_queue: the new PCB goes right after running, with
\* the stack on which setup_rop_stack has prepared its first context.
AddTask(s, space) ==
    /\ pid_total < MaxPid
    /\ s \notin alloc
    /\ alloc' = alloc \cup {s}
    /\ pid_total' = pid_total + 1
    /\ pid' = [pid EXCEPT ![s] = pid_total']
    /\ mm' = [mm EXCEPT ![s] = space]
    /\ next' = [next EXCEPT ![s] = next[running], ![running] = s]
    /\ process_num' = process_num + 1
    /\ esp' = [esp EXCEPT ![s] = pid_total']

\* sys_exec up to set_interrupt_state(1).
SysExec(t, s) ==
    /\ Executing(t, {"init", "kernel", "user"})
    /\ AddTask(s, pid_total + 1)
    /\ pc' = [pc EXCEPT ![t] = "ret", ![pid_total'] = "user"]
    /\ UNCHANGED <<running, esp0, cr3, cpu, back_task>>

\* The return of sys_exec.  The pid it reads from the PCB of its child with
\* interrupts on is only printed; task 0 becomes the idle task.
SysExecReturn(t) ==
    /\ Executing(t, {"ret"})
    /\ pc' = [pc EXCEPT ![t] = IF t = 0 THEN "idle"
                               ELSE IF Dpl(running) = 0 THEN "kernel" ELSE "user"]
    /\ UNCHANGED <<pcbVars, cpuVars, back_task>>

\* task_create: the limit is tested before interrupts are turned off.
TaskCreateCheck(t) ==
    /\ KernelTasks
    /\ Executing(t, {"init", "kernel"})
    /\ IF process_num > MAX_TASK_NUM
         THEN cpu' = Halted /\ UNCHANGED pc
         ELSE pc' = [pc EXCEPT ![t] = "create"] /\ UNCHANGED cpu
    /\ UNCHANGED <<pcbVars, running, esp, esp0, cr3, back_task>>

TaskCreate(t, s) ==
    /\ Executing(t, {"create"})
    /\ AddTask(s, 0)
    /\ pc' = [pc EXCEPT ![t] = IF t = 0 THEN "init" ELSE "kernel",
                        ![pid_total'] = "kernel"]
    /\ UNCHANGED <<running, esp0, cr3, cpu, back_task>>

\* Mutant of TaskExit: the PCB is freed but stays in the ring.
TaskExitLinked(t) ==
    /\ Executing(t, {"kernel", "user"})
    /\ pid' = [pid EXCEPT ![running] = 0]
    /\ process_num' = process_num - 1
    /\ alloc' = alloc \ {running}
    /\ pc' = [pc EXCEPT ![t] = "sched"]
    /\ UNCHANGED <<next, mm, pid_total, cpuVars, back_task>>

\* Mutant of TaskExit: the PCB's own link is cleared as well.
TaskExitCleared(t) ==
    /\ Executing(t, {"kernel", "user"})
    /\ \E back \in alloc :
         /\ next[back] = running
         /\ next' = [next EXCEPT ![back] = next[running], ![running] = running]
    /\ pid' = [pid EXCEPT ![running] = 0]
    /\ process_num' = process_num - 1
    /\ alloc' = alloc \ {running}
    /\ pc' = [pc EXCEPT ![t] = "sched"]
    /\ UNCHANGED <<mm, pid_total, cpuVars, back_task>>

\* task_exit up to set_interrupt_state(1): the PCB leaves the ring and is
\* freed; what it holds stays readable until the block is used again.
TaskExit(t) ==
    /\ Executing(t, {"kernel", "user"})
    /\ \E back \in alloc :
         /\ next[back] = running
         /\ next' = [next EXCEPT ![back] = next[running]]
    /\ pid' = [pid EXCEPT ![running] = 0]
    /\ process_num' = process_num - 1
    /\ alloc' = alloc \ {running}
    /\ pc' = [pc EXCEPT ![t] = "sched"]
    /\ UNCHANGED <<mm, pid_total, cpuVars, back_task>>

\* Mutant of ExitAdvance: back_task is read after running has moved on.
ExitAdvanceLate(t) ==
    /\ Executing(t, {"sched"})
    /\ running' = next[running]
    /\ back_task' = [back_task EXCEPT ![t] = running']
    /\ pc' = [pc EXCEPT ![t] = "next"]
    /\ UNCHANGED <<pcbVars, esp, esp0, cr3, cpu>>

\* The call of schedule() in task_exit, interrupts on: running = running->next.
ExitAdvance(t) ==
    /\ Executing(t, {"sched"})
    /\ back_task' = [back_task EXCEPT ![t] = running]
    /\ running' = next[running]
    /\ pc' = [pc EXCEPT ![t] = "next"]
    /\ UNCHANGED <<pcbVars, esp, esp0, cr3, cpu>>

ExitSkipRoot(t) ==
    /\ Executing(t, {"next"})
    /\ SkipsRoot(running)
    /\ running' = next[running]
    /\ UNCHANGED <<pcbVars, esp, esp0, cr3, cpu, localVars>>

\* Finding itself again, schedule() would return to the program that exited.
ExitSwitch(t) ==
    /\ Executing(t, {"next"})
    /\ ~SkipsRoot(running)
    /\ IF back_task[t] = running
         THEN pc' = [pc EXCEPT ![t] = "user"] /\ UNCHANGED cpuVars
         ELSE pc' = [pc EXCEPT ![t] = "gone"] /\ SwitchTo(back_task[t], running)
    /\ UNCHANGED <<pcbVars, back_task>>
----------------------------------------------------------------------------
Exiting(t) == ExitAdvance(t) \/ ExitSkipRoot(t) \/ ExitSwitch(t)

Next ==
    \/ Tick
    \/ \E t \in Thread :
         \/ SysYield(t)
         \/ SysExecReturn(t)
         \/ TaskCreateCheck(t)
         \/ TaskExit(t)
         \/ Exiting(t)
         \/ \E s \in Slot : SysExec(t, s) \/ TaskCreate(t, s)

Spec == Init /\ [][Next]_vars

\* The PIT keeps interrupting and the processor keeps executing; no program is
\* obliged to make a system call.
FairSpec ==
    /\ Spec
    /\ WF_vars(Tick)
    /\ \A t \in Thread : WF_vars(Exiting(t))
----------------------------------------------------------------------------
\* Every variable has its type.
TypeOK ==
    /\ running \in Slot
    /\ next \in [Slot -> Slot]
    /\ pid \in [Slot -> Thread]
    /\ mm \in [Slot -> Thread]
    /\ esp \in [Slot -> Thread \cup {Lost}]
    /\ process_num \in Nat
    /\ pid_total \in Thread
    /\ alloc \in SUBSET Slot
    /\ esp0 \in Thread
    /\ cr3 \in Thread
    /\ cpu \in Thread \cup {Lost, Halted}
    /\ pc \in [Thread -> Label]
    /\ back_task \in [Thread -> Slot]

\* f runs through A in one cycle: A is closed, and no proper part of it is.
Cycle(A, f) ==
    /\ \A p \in A : f[p] \in A
    /\ \A p, q \in A : f[p] = f[q] => p = q
    /\ \A S \in SUBSET A : S # {} /\ (\A p \in S : f[p] \in S) => S = A

\* The next pointers are one cycle through task 0 and exactly the PCBs in use,
\* process_num counts them, and their pids tell them apart, 0 being task 0's
\* (task_exit unlinks what sys_exec and task_create link, whatever ran in
\* between).
RingOK ==
    /\ Root \in alloc
    /\ process_num = Cardinality(alloc)
    /\ Cycle(alloc, next)
    /\ pid[Root] = 0
    /\ \A p, q \in alloc : pid[p] = pid[q] => p = q

\* Whatever code of a living task runs, the kernel's idea of it is right:
\* running is its PCB, its page directory is loaded, and an interrupt out of
\* user mode will use its own kernel stack.
ContextIsOwn ==
    cpu \in Thread /\ pc[cpu] \in Own =>
        /\ running \in alloc
        /\ pid[running] = cpu
        /\ cr3 = mm[running]
        /\ pc[cpu] = "user" => esp0 = cpu /\ cr3 = cpu

\* schedule() in task_exit reads the freed PCB's next: it still is a PCB in
\* use, so the walk gets back into the ring.
StaleNextLive ==
    cpu \in Thread /\ pc[cpu] \in InExit =>
        running \in alloc \/ next[running] \in alloc

\* schedule() never returns into a task that has exited.
ExitNeverReturns ==
    cpu \in Thread /\ pc[cpu] = "next" /\ ~SkipsRoot(running)
        => back_task[cpu] # running

\* The idle task gets the processor only when no other task is left
\* (task.c next_task loop; main.c "the initialiser becomes the idle program").
IdleLast == [][cpu # 0 /\ cpu' = 0 => process_num = 1]_vars

\* A task in use that is not running has its own context, still good, in its
\* PCB (schedule.S: "the current task's task_t", "save the current stack").
FramesOwn == \A p \in alloc \ {running} : esp[p] = pid[p]

\* The processor never takes up a context that was already resumed.
NeverLost == cpu # Lost

\* What the PCBs in use hold.  A saved context is its task's own, or the one
\* of a task that was interrupted inside task_exit's schedule().
FrameOK ==
    /\ mm[Root] = 0
    /\ pc[0] \in {"init", "ret", "idle", "create"}
    /\ \A p \in alloc :
         /\ pid[p] <= pid_total
         /\ mm[p] \in {0, pid[p]}
         /\ pc[pid[p]] \in Own
         /\ pc[pid[p]] = "user" => mm[p] = pid[p]
    /\ cpu \in Thread =>
         /\ cpu <= pid_total
         /\ \A p \in alloc :
              /\ esp[p] # cpu
              /\ esp[p] <= pid_total
              /\ \/ esp[p] \in {Lost, pid[p]}
                 \/ pc[esp[p]] = "next" /\ back_task[esp[p]] # p
         /\ \A p, q \in alloc : esp[p] = esp[q] => p = q \/ esp[p] = Lost

\* What the executing task may rely on, outside task_exit and inside it.
CpuOK ==
    cpu \in Thread =>
        /\ pc[cpu] # "gone"
        /\ pc[cpu] \in Own =>
             /\ running \in alloc
             /\ pid[running] = cpu
             /\ cr3 = mm[running]
             /\ mm[running] # 0 => esp0 = cpu
        /\ pc[cpu] = "sched" => running \notin alloc /\ next[running] \in alloc
        /\ pc[cpu] = "next" =>
             /\ running \in alloc
             /\ back_task[cpu] # running
             /\ \/ back_task[cpu] \notin alloc
                \/ ~SkipsRoot(running) /\ esp[running] = Lost

\* The inductive invariant behind the properties above.
SchedInv == TypeOK /\ RingOK /\ FrameOK /\ CpuOK

\* With the clock kept out of task_exit: the saved contexts are complete.
QuietInv ==
    /\ cpu \in Thread \cup {Halted}
    /\ \A p \in alloc :
         \/ p = running /\ cpu \in {pid[p], Halted}
         \/ esp[p] = pid[p]

\* The live tasks and the current one, as the abstract task manager sees them.
LiveTasks == {pid[p] : p \in alloc}
CurrentTask ==
    CASE cpu = Halted -> -2
      [] cpu \in Thread /\ pc[cpu] \in Own -> cpu
      [] OTHER -> -1
Abstract == INSTANCE Tasks WITH
    Task <- Thread, Limit <- MAX_TASK_NUM,
    live <- LiveTasks, current <- CurrentTask

\* With the clock kept out of task_exit's schedule(), the ring of PCBs and
\* saved contexts implements the abstract task manager.
ImplementsTasks == Abstract!TSpec

\* Round robin: as long as tasks are created only finitely often (MaxPid), a
\* task in the ring other than the idle task runs, or is gone, eventually,
\* unless the kernel has panicked.
RoundRobin ==
    \A p \in Slot \ {Root} :
        p \in alloc ~> \/ p \notin alloc \/ cpu = Halted
                       \/ running = p /\ cpu = pid[p]
============================================================================
