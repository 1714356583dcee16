------------------------------ MODULE Console ------------------------------
(***************************************************************************)
(* Who may be in a device driver: printk (kernel/printk.c) with its static *)
(* buffer, the busy flag of device_write (kernel/dev.c), the boot sequence *)
(* of task 0 (kernel/main.c) and of the other processors (kernel/head.S,   *)
(* ap_initialize in kernel/cpu.c), all printing on the one TTY.            *)
(*                                                                         *)
(* Scheduling is what Sched implements: user tasks take turns, task 0 runs *)
(* only when there is none.  System calls run with interrupts off, so a    *)
(* user task leaves device_write's loop only through schedule(); task 0    *)
(* has interrupts on, so the clock may take the processor from it anywhere *)
(* in printk.  The other processors never lose theirs.                     *)
(*                                                                         *)
(* A text is known by its author.  The TTY reads it at the step "write".   *)
(***************************************************************************)
EXTENDS Integers, Sequences, FiniteSets, SequencesExt

CONSTANTS
    MaxUser,    \* bound: how many user tasks are ever created
    Ap,         \* the other processors
    Logging     \* do user tasks cause a printk (sys_log, a page fault's LOG)?

ASSUME ConsoleAssumption ==
    /\ MaxUser \in Nat
    /\ IsFiniteSet(Ap)
    /\ Ap \cap Int = {}
    /\ Logging \in BOOLEAN

VARIABLES
    ring,       \* the user tasks in the ring of PCBs, in its order from task 0 on
    created,    \* how many there ever were
    current,    \* the task on the boot processor
    pc,
    phase,      \* which of its messages task 0 is at: before or after sys_exec
    using,      \* device_t.using of the TTY
    buf,        \* whose text is in printk's static buf
    shown,      \* whose text the TTY showed when it was last called by each
    ap_locker,  \* head.S: 1 when the processors' start-up stack is free
    stray       \* an AP executed schedule() with user tasks in the ring

vars == <<ring, created, current, pc, phase, using, buf, shown, ap_locker, stray>>

User == 1 .. MaxUser
Actor == {0} \cup User \cup Ap
None == -1

\* The steps of printk: vsprintf, the test of using, setting it, the driver,
\* clearing it.
Printing == {"format", "test", "enter", "write", "clear"}
Label == Printing \cup {"start", "exec", "idle", "off", "lock", "release", "done",
                        "user", "spinwrite", "spinlog"}
Spinning == {"spinwrite", "spinlog"}

InDriver(x) == pc[x] \in {"write", "clear"}
----------------------------------------------------------------------------
Init ==
    /\ ring = <<>>
    /\ created = 0
    /\ current = 0
    /\ pc = [x \in Actor |-> IF x = 0 THEN "format" ELSE "off"]
    /\ phase = 1
    /\ using = 0
    /\ buf = None
    /\ shown = [x \in Actor |-> None]
    /\ ap_locker = 1
    /\ stray = FALSE

\* The place of t in the ring, task 0 being before all others.
Place(t) == IF t = 0 THEN 0 ELSE CHOOSE i \in DOMAIN ring : ring[i] = t

\* Mutant of After: task 0 has its turn between the user tasks.
AfterWithRoot(t) == IF Place(t) = Len(ring) THEN 0 ELSE ring[Place(t) + 1]

\* Where schedule() goes from task t: the next user task, task 0 if there is none.
After(t) == IF ring = <<>> THEN 0 ELSE ring[(Place(t) % Len(ring)) + 1]

\* add_pcb_to_queue: right behind the task that calls sys_exec.
AddBehind(t, new) == ring' = InsertAt(ring, Place(t) + 1, new)

Schedule == current' = After(current)

\* The boot processor can execute x now; an AP always can.
CanRun(x) == ~stray /\ (x \in Ap \/ current = x)

\* clock_int, with interrupts on.
Tick ==
    /\ ~stray
    /\ current = 0 \/ pc[current] = "user"
    /\ Schedule
    /\ UNCHANGED <<ring, created, pc, phase, using, buf, shown, ap_locker, stray>>
----------------------------------------------------------------------------
\* printk, by task 0 or an AP.
Format(x) ==
    /\ CanRun(x) /\ pc[x] = "format"
    /\ buf' = x
    /\ pc' = [pc EXCEPT ![x] = "test"]
    /\ UNCHANGED <<ring, created, current, phase, using, shown, ap_locker, stray>>

\* while(device->using)
TestFree(x) ==
    /\ CanRun(x) /\ pc[x] = "test"
    /\ using = 0
    /\ pc' = [pc EXCEPT ![x] = "enter"]
    /\ UNCHANGED <<ring, created, current, phase, using, buf, shown, ap_locker, stray>>

\*     schedule();
\* An AP shares running with the boot processor: with user tasks in the ring it
\* would load the context of one, and nothing is known of what follows.
TestBusy(x) ==
    /\ CanRun(x) /\ pc[x] = "test"
    /\ using = 1
    /\ IF x \in Ap
         THEN stray' = (ring # <<>>) /\ UNCHANGED current
         ELSE Schedule /\ UNCHANGED stray
    /\ UNCHANGED <<ring, created, pc, phase, using, buf, shown, ap_locker>>

\* Mutant of Enter: the device is not marked.
EnterUnmarked(x) ==
    /\ CanRun(x) /\ pc[x] = "enter"
    /\ pc' = [pc EXCEPT ![x] = "write"]
    /\ UNCHANGED <<ring, created, current, phase, using, buf, shown, ap_locker, stray>>

Enter(x) ==
    /\ CanRun(x) /\ pc[x] = "enter"
    /\ using' = 1
    /\ pc' = [pc EXCEPT ![x] = "write"]
    /\ UNCHANGED <<ring, created, current, phase, buf, shown, ap_locker, stray>>

Write(x) ==
    /\ CanRun(x) /\ pc[x] = "write"
    /\ shown' = [shown EXCEPT ![x] = buf]
    /\ pc' = [pc EXCEPT ![x] = "clear"]
    /\ UNCHANGED <<ring, created, current, phase, using, buf, ap_locker, stray>>

\* Mutant of Clear: the driver's caller returns without freeing the device.
ClearForgotten(x) ==
    /\ CanRun(x) /\ pc[x] = "clear"
    /\ pc' = [pc EXCEPT ![x] = IF x \in Ap THEN "release"
                              ELSE IF phase = 1 THEN "start" ELSE "idle"]
    /\ UNCHANGED <<ring, created, current, phase, using, buf, shown, ap_locker, stray>>

Clear(x) ==
    /\ CanRun(x) /\ pc[x] = "clear"
    /\ using' = 0
    /\ pc' = [pc EXCEPT ![x] = IF x \in Ap THEN "release"
                              ELSE IF phase = 1 THEN "start" ELSE "idle"]
    /\ UNCHANGED <<ring, created, current, phase, buf, shown, ap_locker, stray>>

Printk(x) == Format(x) \/ TestFree(x) \/ TestBusy(x) \/ Enter(x) \/ Write(x) \/ Clear(x)
----------------------------------------------------------------------------
\* ap_init: the interprocessor interrupts that start the APs.
StartAps ==
    /\ CanRun(0) /\ pc[0] = "start"
    /\ pc' = [x \in Actor |-> IF x \in Ap THEN "lock" ELSE IF x = 0 THEN "exec" ELSE pc[x]]
    /\ UNCHANGED <<ring, created, current, phase, using, buf, shown, ap_locker, stray>>

\* sys_exec by task 0, then the printk of main.c.
BootExec ==
    /\ CanRun(0) /\ pc[0] = "exec"
    /\ created < MaxUser
    /\ created' = created + 1
    /\ AddBehind(0, created')
    /\ pc' = [pc EXCEPT ![0] = "format", ![created'] = "user"]
    /\ phase' = 2
    /\ UNCHANGED <<current, using, buf, shown, ap_locker, stray>>

\* Mutant of GetLocker: the exchange's result is not tested.
GetLockerAlways(a) ==
    /\ ~stray /\ pc[a] = "lock"
    /\ ap_locker' = 0
    /\ pc' = [pc EXCEPT ![a] = "format"]
    /\ UNCHANGED <<ring, created, current, phase, using, buf, shown, stray>>

\* get_locker: xchg until it yields 1; then the common stack is this AP's.
GetLocker(a) ==
    /\ ~stray /\ pc[a] = "lock"
    /\ ap_locker = 1
    /\ ap_locker' = 0
    /\ pc' = [pc EXCEPT ![a] = "format"]
    /\ UNCHANGED <<ring, created, current, phase, using, buf, shown, stray>>

ReleaseLocker(a) ==
    /\ ~stray /\ pc[a] = "release"
    /\ ap_locker' = 1
    /\ pc' = [pc EXCEPT ![a] = "done"]
    /\ UNCHANGED <<ring, created, current, phase, using, buf, shown, stray>>
----------------------------------------------------------------------------
\* A user task's system calls; interrupts are off from here to the return.

UserExec(u) ==
    /\ CanRun(u) /\ pc[u] = "user"
    /\ created < MaxUser
    /\ created' = created + 1
    /\ AddBehind(u, created')
    /\ pc' = [pc EXCEPT ![created'] = "user"]
    /\ UNCHANGED <<current, phase, using, buf, shown, ap_locker, stray>>

\* The text of sys_write is the caller's own; device_write, when it finds the
\* device free, is not interrupted before it is free again.
UserWrite(u) ==
    /\ CanRun(u) /\ pc[u] = "user"
    /\ IF using = 0
         THEN shown' = [shown EXCEPT ![u] = u] /\ UNCHANGED pc
         ELSE pc' = [pc EXCEPT ![u] = "spinwrite"] /\ UNCHANGED shown
    /\ UNCHANGED <<ring, created, current, phase, using, buf, ap_locker, stray>>

\* sys_log, and the LOG in page_int: printk on the user task's behalf.
UserLog(u) ==
    /\ Logging
    /\ CanRun(u) /\ pc[u] = "user"
    /\ buf' = u
    /\ IF using = 0
         THEN shown' = [shown EXCEPT ![u] = u] /\ UNCHANGED pc
         ELSE pc' = [pc EXCEPT ![u] = "spinlog"] /\ UNCHANGED shown
    /\ UNCHANGED <<ring, created, current, phase, using, ap_locker, stray>>

SpinBusy(u) ==
    /\ CanRun(u) /\ pc[u] \in Spinning
    /\ using = 1
    /\ Schedule
    /\ UNCHANGED <<ring, created, pc, phase, using, buf, shown, ap_locker, stray>>

SpinFree(u) ==
    /\ CanRun(u) /\ pc[u] \in Spinning
    /\ using = 0
    /\ shown' = [shown EXCEPT ![u] = IF pc[u] = "spinlog" THEN buf ELSE u]
    /\ pc' = [pc EXCEPT ![u] = "user"]
    /\ UNCHANGED <<ring, created, current, phase, using, buf, ap_locker, stray>>

UserExit(u) ==
    /\ CanRun(u) /\ pc[u] = "user"
    /\ ring' = RemoveAt(ring, Place(u))
    /\ current' = IF After(u) = u THEN 0 ELSE After(u)
    /\ pc' = [pc EXCEPT ![u] = "done"]
    /\ UNCHANGED <<created, phase, using, buf, shown, ap_locker, stray>>
----------------------------------------------------------------------------
Next ==
    \/ Tick
    \/ StartAps \/ BootExec
    \/ \E x \in {0} \cup Ap : Printk(x)
    \/ \E a \in Ap : GetLocker(a) \/ ReleaseLocker(a)
    \/ \E u \in User :
         \/ UserExec(u) \/ UserWrite(u) \/ UserLog(u) \/ UserExit(u)
         \/ SpinBusy(u) \/ SpinFree(u)

Spec == Init /\ [][Next]_vars

\* The clock ticks, every processor executes the code it is in.  User programs
\* are not obliged to do anything.
FairSpec ==
    /\ Spec
    /\ WF_vars(Tick)
    /\ WF_vars(StartAps) /\ WF_vars(BootExec)
    /\ \A x \in {0} \cup Ap : WF_vars(Printk(x))
    /\ \A a \in Ap : WF_vars(GetLocker(a)) /\ WF_vars(ReleaseLocker(a))
    /\ \A u \in User : WF_vars(SpinBusy(u) \/ SpinFree(u))
----------------------------------------------------------------------------
\* Every variable has its type.
TypeOK ==
    /\ ring \in Seq(User) /\ IsInjective(ring)
    /\ created \in 0 .. MaxUser
    /\ current \in {0} \cup User
    /\ pc \in [Actor -> Label]
    /\ phase \in {1, 2}
    /\ using \in {0, 1}
    /\ buf \in Actor \cup {None}
    /\ shown \in [Actor -> Actor \cup {None}]
    /\ ap_locker \in {0, 1}
    /\ stray \in BOOLEAN

\* using says exactly whether somebody is in the driver (dev.h: "the device is
\* occupied"), and there is never more than one.
DeviceExclusive ==
    /\ Cardinality({x \in Actor : InDriver(x)}) <= 1
    /\ using = 1 <=> \E x \in Actor : InDriver(x)

\* As long as user tasks run, task 0 makes no progress in the driver: a waiting
\* user task's schedule() never hands the processor to the holder.
HolderNeverHelped ==
    [][(\E u \in User : pc[u] \in Spinning) => pc'[0] = pc[0] /\ using' = using]_vars

\* Once all user tasks have exited, task 0 completes its message.
RootCompletes == (phase = 2 /\ []<>(ring = <<>>)) ~> pc[0] = "idle"

\* The processors that start share one stack (head.S: "the stack is shared"):
\* only one is between get_locker and release_locker.
StackExclusive ==
    /\ Cardinality({a \in Ap : pc[a] \in Printing \cup {"release"}}) <= 1
    /\ (\E a \in Ap : pc[a] \in Printing \cup {"release"}) => ap_locker = 0

\* What a user task has shown is its own text, although printk's buffer is
\* shared: nobody formats another text while it is on its way to the driver.
\* (Not so for task 0, whose text may be overwritten before it enters.)
UserTextOwn == \A u \in User : shown[u] \in {None, u}
============================================================================
