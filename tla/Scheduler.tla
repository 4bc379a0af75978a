----------------------------- MODULE Scheduler ------------------------------
(***************************************************************************)
(* The scheduler of the kernel: scheduler.c (the round-robin task queue    *)
(* and scheduler()), time.c (sleep(), the delta queue of sleeping tasks    *)
(* and the work of the PIT interrupt) and the two interrupt wrappers of    *)
(* time.s that switch tasks.                                               *)
(*                                                                         *)
(* One CPU runs the code of `current`.  Code between disable_interrupts()  *)
(* and enable_interrupts() is one step where nothing can come between; a   *)
(* PIT interrupt may come before any step while IF is set.  In particular  *)
(* it may come between enable_interrupts() in sleep() (time.c:89) and the  *)
(* software interrupt 0x80 that gives up the CPU (time.c:92).              *)
(*                                                                         *)
(* `due` is a history variable: the PIT ticks left until the wake-up time  *)
(* of a task's last sleep().  No action reads it.                          *)
(***************************************************************************)
EXTENDS Integers, Sequences, InterruptControl

CONSTANTS
    Main,            \* the task kernel_main() runs as
    Idle,            \* the idle task, never on the task queue
    Workers,         \* the tasks that task_create() makes later
    MaxSleep,        \* bound: the longest sleep() asked for, in ticks
    MaxNesting,      \* bound: the deepest nesting of disable_interrupts()
    LeakedDisables   \* disable_interrupts() calls that boot code left open

ASSUME TaskAssumption == Main \notin Workers /\ Idle \notin Workers /\ Main # Idle
ASSUME BoundAssumption == MaxSleep \in Nat /\ MaxNesting \in Nat /\ LeakedDisables \subseteq Nat

TIME_SLICE_IN_TICKS == 2

Tasks    == Workers \cup {Main}
AllTasks == Tasks \cup {Idle}

VARIABLES
    taskQueue,      \* g_task_queue, the tasks in order
    onTaskQueue,    \* TASK_STATE.on_task_queue
    isBlocking,     \* TASK_STATE.is_blocking
    deltaQueue,     \* g_delta_queue: records [task, ticks]
    current,        \* g_current_task_state
    schedulerTime,  \* g_scheduler_time
    running,        \* g_scheduler_running
    intr,           \* IF and g_interrupt_disable_counter
    savedIF,        \* IF in the EFLAGS saved on the stack of each task
    pc,             \* where each task resumes, see Locations
    depth,          \* critical sections each task's code is inside of
    due             \* history: ticks until each task's wake-up time

queueVars == <<taskQueue, onTaskQueue, isBlocking, deltaQueue>>
cpuVars   == <<current, schedulerTime, intr, savedIF>>
vars      == <<queueVars, cpuVars, running, pc, depth, due>>

\* "absent": not created.  "run": outside sleep().  "gap": in sleep(),
\* after enable_interrupts() and before the software interrupt.
Locations == {"absent", "run", "gap"}

DeltaElements == [task : Tasks, ticks : Nat]

TypeOK ==
    /\ taskQueue \in Seq(Tasks)
    /\ onTaskQueue \in [AllTasks -> BOOLEAN]
    /\ isBlocking \in [AllTasks -> BOOLEAN]
    /\ deltaQueue \in Seq(DeltaElements)
    /\ current \in AllTasks
    /\ schedulerTime \in 0 .. TIME_SLICE_IN_TICKS
    /\ running \in BOOLEAN
    /\ intr \in InterruptState
    /\ savedIF \in [AllTasks -> BOOLEAN]
    /\ pc \in [AllTasks -> Locations]
    /\ depth \in [AllTasks -> Nat]
    /\ due \in [AllTasks -> Nat]

-----------------------------------------------------------------------------
(* The state kernel_main() is in when scheduler_init() returns.  Creating a  *)
(* task writes EFLAGS 0x202 on its stack, so it starts with IF set.          *)

Init ==
    /\ taskQueue = <<Main>>
    /\ onTaskQueue = [t \in AllTasks |-> t = Main]
    /\ isBlocking = [t \in AllTasks |-> FALSE]
    /\ deltaQueue = <<>>
    /\ current = Main
    /\ schedulerTime \in 0 .. TIME_SLICE_IN_TICKS
    /\ running = FALSE
    /\ \E n \in LeakedDisables : intr = [counter |-> n, enabled |-> n = 0]
    /\ savedIF = [t \in AllTasks |-> TRUE]
    /\ pc = [t \in AllTasks |-> IF t \in Workers THEN "absent" ELSE "run"]
    /\ depth = [t \in AllTasks |-> 0]
    /\ due = [t \in AllTasks |-> 0]

-----------------------------------------------------------------------------
(* scheduler(): first the selection of the next task.                        *)

\* Mutant: is_blocking is not looked at.
ReadyPositionsMutant == DOMAIN taskQueue

\* The position of the first task that is not blocking, if there is one.
ReadyPositions == {i \in DOMAIN taskQueue : ~isBlocking[taskQueue[i]]}
FirstReady == CHOOSE i \in ReadyPositions : \A j \in ReadyPositions : i <= j

\* Blocking tasks in front of it are popped and dropped; it is popped and
\* pushed back.  With every task blocking the queue empties and Idle is next.
NextTask ==
    IF ReadyPositions = {} THEN Idle ELSE taskQueue[FirstReady]

\* Mutant: the selected task stays at the head.
SelectedQueueMutant ==
    IF ReadyPositions = {} THEN <<>> ELSE SubSeq(taskQueue, FirstReady, Len(taskQueue))
SelectedQueue ==
    IF ReadyPositions = {} THEN <<>>
    ELSE Append(SubSeq(taskQueue, FirstReady + 1, Len(taskQueue)), NextTask)

\* Mutant: pop_task_queue() leaves the flag of a dropped task set.
SelectedFlagsMutant ==
    [t \in AllTasks |-> IF t = NextTask THEN ReadyPositions # {} ELSE onTaskQueue[t]]

\* pop_task_queue() clears the flag and push_task_queue() sets it.
SelectedFlags ==
    LET popped == IF ReadyPositions = {} THEN DOMAIN taskQueue ELSE 1 .. FirstReady
    IN  [t \in AllTasks |->
            IF t = NextTask THEN ReadyPositions # {}
            ELSE onTaskQueue[t] /\ \A i \in popped : taskQueue[i] # t]

(* Then the elements at the head of the delta queue whose ticks are 0 leave  *)
(* it, and their tasks are pushed unless the flag says they are queued.      *)

\* Deliberately after the selection: a task woken here is not the next task.
Expired(dq) == {i \in DOMAIN dq : \A j \in 1 .. i : dq[j].ticks = 0}
NumExpired(dq) == CHOOSE n \in 0 .. Len(dq) : Expired(dq) = 1 .. n
Woken(dq) == {dq[i].task : i \in Expired(dq)}

\* The queue after each element of dq was handled.
Handled(dq) ==
    LET handled[i \in 0 .. Len(dq)] ==
            IF i = 0 THEN SelectedQueue
            ELSE IF \/ SelectedFlags[dq[i].task]
                    \/ \E j \in 1 .. i - 1 : dq[j].task = dq[i].task
                 THEN handled[i - 1]
                 ELSE Append(handled[i - 1], dq[i].task)
    IN  handled

\* Mutant: the flag is not tested before the push.
PushWokenMutant(dq) ==
    SelectedQueue \o [i \in 1 .. NumExpired(dq) |-> dq[i].task]
PushWoken(dq) == Handled(dq)[NumExpired(dq)]

\* The switch of both wrappers: IF of the interrupted task stays on its stack.
SwitchTask(savedFlag) ==
    /\ current' = NextTask
    /\ savedIF' = [savedIF EXCEPT ![current] = savedFlag]
    /\ intr' = ReturnFromInterrupt(savedIF'[NextTask])

\* scheduler() and the task switch after it; dq is the delta queue it finds.
RunScheduler(dq, savedFlag) ==
    /\ taskQueue' = PushWoken(dq)
    /\ onTaskQueue' = [t \in AllTasks |-> SelectedFlags[t] \/ t \in Woken(dq)]
    /\ isBlocking' = [t \in AllTasks |-> isBlocking[t] /\ t \notin Woken(dq)]
    /\ deltaQueue' = SubSeq(dq, NumExpired(dq) + 1, Len(dq))
    /\ SwitchTask(savedFlag)

-----------------------------------------------------------------------------
(* sleep(n).                                                                 *)

\* What is left of n after the elements up to i were walked over.
Remaining(n) ==
    LET left[i \in 0 .. Len(deltaQueue)] ==
            IF i = 0 THEN n ELSE left[i - 1] - deltaQueue[i].ticks
    IN  left

\* The walk passes an element when the rest of n is not below its ticks.
WalkPasses(left, i) == left[i - 1] >= deltaQueue[i].ticks

\* How many elements the walk passes before the new one is linked in.
WalkEnd(left) ==
    CHOOSE p \in 0 .. Len(deltaQueue) :
        /\ \A i \in 1 .. p : WalkPasses(left, i)
        /\ p < Len(deltaQueue) => ~WalkPasses(left, p + 1)

\* Mutant: the element after the new one keeps its ticks.
InsertedMutant(t, n) ==
    LET left == Remaining(n)
        p    == WalkEnd(left)
    IN  SubSeq(deltaQueue, 1, p) \o <<[task |-> t, ticks |-> left[p]]>>
            \o SubSeq(deltaQueue, p + 1, Len(deltaQueue))

\* The element after the new one gives up the ticks the new one waits.
Inserted(t, n) ==
    LET left == Remaining(n)
        p    == WalkEnd(left)
    IN  [i \in 1 .. Len(deltaQueue) + 1 |->
            IF i <= p THEN deltaQueue[i]
            ELSE IF i = p + 1 THEN [task |-> t, ticks |-> left[p]]
            ELSE IF i = p + 2
                 THEN [deltaQueue[i - 1] EXCEPT !.ticks = @ - left[p]]
            ELSE deltaQueue[i - 1]]

\* The task runs its own code: not in sleep(), not in a critical section.
InTaskCode(t) == current = t /\ t \in Tasks /\ pc[t] = "run" /\ depth[t] = 0

\* time.c:40-89, with interrupts off throughout.  Nothing sleeps before
\* kernel_main() has called scheduler_start().
Sleep(t, n) ==
    /\ InTaskCode(t)
    /\ running
    /\ isBlocking' = [isBlocking EXCEPT ![t] = TRUE]
    /\ deltaQueue' = Inserted(t, n)
    /\ due' = [due EXCEPT ![t] = n]
    /\ intr' = ProtectedSection(intr)
    /\ pc' = [pc EXCEPT ![t] = "gap"]
    /\ UNCHANGED <<taskQueue, onTaskQueue, current, schedulerTime, savedIF, running, depth>>

\* time.c:92 and interrupt_wrapper_software_blocking.  The task that runs
\* again later returns from sleep().  The time slice is not reset.
RaiseInterrupt0x80(t) ==
    /\ current = t
    /\ pc[t] = "gap"
    /\ RunScheduler(deltaQueue, intr.enabled)
    /\ pc' = [pc EXCEPT ![t] = "run"]
    /\ UNCHANGED <<schedulerTime, running, depth, due>>

-----------------------------------------------------------------------------
(* The PIT interrupt: interrupt_wrapper_PIT and interrupt_function_PIT().    *)

\* Mutant: every element loses one.
TickedDeltaMutant ==
    [i \in DOMAIN deltaQueue |->
        IF deltaQueue[i].ticks # 0 THEN [deltaQueue[i] EXCEPT !.ticks = @ - 1] ELSE deltaQueue[i]]

\* The first element whose ticks are not 0 loses one.
TickedDelta ==
    [i \in DOMAIN deltaQueue |->
        IF deltaQueue[i].ticks # 0 /\ \A j \in 1 .. i - 1 : deltaQueue[j].ticks = 0
        THEN [deltaQueue[i] EXCEPT !.ticks = @ - 1]
        ELSE deltaQueue[i]]

TickedTime == IF schedulerTime > 0 THEN schedulerTime - 1 ELSE 0

PassTick ==
    due' = [t \in AllTasks |-> IF due[t] > 0 THEN due[t] - 1 ELSE 0]

\* The slice has not run out, or scheduler_start() has not run.
TickWithoutSwitch ==
    /\ intr.enabled
    /\ TickedTime # 0 \/ ~running
    /\ schedulerTime' = TickedTime
    /\ deltaQueue' = TickedDelta
    /\ intr' = ReturnFromInterrupt(TRUE)
    /\ PassTick
    /\ UNCHANGED <<taskQueue, onTaskQueue, isBlocking, current, savedIF, running, pc, depth>>

TickWithSwitch ==
    /\ intr.enabled
    /\ TickedTime = 0 /\ running
    /\ RunScheduler(TickedDelta, TRUE)
    /\ schedulerTime' = TIME_SLICE_IN_TICKS
    /\ PassTick
    /\ UNCHANGED <<running, pc, depth>>

Tick == TickWithoutSwitch \/ TickWithSwitch

-----------------------------------------------------------------------------
(* The code of the tasks.                                                    *)

\* Any pair of disable_interrupts() and enable_interrupts() around kernel
\* code, possibly nested: kalloc() inside a section of its caller.
EnterCritical(t) ==
    /\ current = t /\ t \in Tasks /\ pc[t] = "run"
    /\ depth[t] < MaxNesting
    /\ intr' = DisableInterrupts(intr)
    /\ depth' = [depth EXCEPT ![t] = @ + 1]
    /\ UNCHANGED <<queueVars, current, schedulerTime, savedIF, running, pc, due>>

LeaveCritical(t) ==
    /\ current = t /\ depth[t] > 0
    /\ intr' = EnableInterrupts(intr)
    /\ depth' = [depth EXCEPT ![t] = @ - 1]
    /\ UNCHANGED <<queueVars, current, schedulerTime, savedIF, running, pc, due>>

\* scheduler_start().
SchedulerStart ==
    /\ InTaskCode(Main)
    /\ ~running
    /\ running' = TRUE
    /\ UNCHANGED <<queueVars, cpuVars, pc, depth, due>>

\* task_create() and task_create_param(): the new task is seen by others only
\* when the last critical section has pushed it.
TaskCreate(t) ==
    /\ InTaskCode(Main)
    /\ running
    /\ pc[t] = "absent"
    /\ taskQueue' = Append(taskQueue, t)
    /\ onTaskQueue' = [onTaskQueue EXCEPT ![t] = TRUE]
    /\ intr' = ProtectedSection(intr)
    /\ pc' = [pc EXCEPT ![t] = "run"]
    /\ UNCHANGED <<isBlocking, deltaQueue, current, schedulerTime, savedIF, running, depth, due>>

-----------------------------------------------------------------------------
Next ==
    \/ Tick
    \/ SchedulerStart
    \/ \E t \in Tasks :
        \/ \E n \in 0 .. MaxSleep : Sleep(t, n)
        \/ RaiseInterrupt0x80(t)
        \/ EnterCritical(t)
        \/ LeaveCritical(t)
    \/ \E t \in Workers : TaskCreate(t)

Spec == Init /\ [][Next]_vars

(***************************************************************************)
(* Fairness.  The PIC keeps an interrupt request pending while IF is       *)
(* clear, so a PIT interrupt is taken if IF is set again and again: strong *)
(* fairness of Tick.  The CPU executes many instructions between two       *)
(* ticks, so a task that runs in the gap again and again reaches the       *)
(* software interrupt, and one inside a critical section leaves it.        *)
(* kernel_main() calls scheduler_start().  Nothing makes a task sleep,     *)
(* enter a section or be created.                                          *)
(***************************************************************************)
Fairness ==
    /\ SF_vars(Tick)
    /\ WF_vars(SchedulerStart)
    /\ \A t \in Tasks : SF_vars(RaiseInterrupt0x80(t)) /\ WF_vars(LeaveCritical(t))

FairSpec == Spec /\ Fairness

-----------------------------------------------------------------------------
(* Properties.                                                               *)

Created == {t \in Tasks : pc[t] # "absent"}
Queued  == {taskQueue[i] : i \in DOMAIN taskQueue}

\* on_task_queue says who is on the task queue, nobody is on it twice, and
\* only created tasks are: pop and push keep flag and list together although
\* dropped sleepers come back through the delta queue.
QueueConsistent ==
    /\ \A t \in AllTasks : onTaskQueue[t] <=> t \in Queued
    /\ \A i, j \in DOMAIN taskQueue : taskQueue[i] = taskQueue[j] => i = j
    /\ Queued \subseteq Created

\* A task that is created and not blocking is on the queue.
ReadyTasksQueued == \A t \in Created : ~isBlocking[t] => t \in Queued

\* A blocking task is in the delta queue exactly once, and nobody else is.
TimedBy(dq) ==
    /\ \A t \in AllTasks :
           isBlocking[t] <=> \E i \in DOMAIN dq : dq[i].task = t
    /\ \A i, j \in DOMAIN dq : dq[i].task = dq[j].task => i = j

SleepersTimed == TimedBy(deltaQueue)

\* No task is lost: whoever can run is on the task queue, and whoever
\* scheduler() drops from it will be woken, once.
NoTaskLost == ReadyTasksQueued /\ SleepersTimed

\* The differences kept in the delta queue are exact: the ticks up to an
\* element add up to what is left of that task's sleep.
ExactFor(dq, d) ==
    \A i \in DOMAIN dq :
        dq[i].ticks = d[dq[i].task] - (IF i = 1 THEN 0 ELSE d[dq[i - 1].task])

DeltaExact == ExactFor(deltaQueue, due)

\* A task that is past its sleep() has slept the ticks it asked for, whatever
\* ran in the gap, and one that is still blocking runs only the gap.
NoEarlyReturn ==
    /\ \A t \in AllTasks : ~isBlocking[t] => due[t] = 0
    /\ pc[current] = "run" => ~isBlocking[current]

\* The counter is one global for all tasks and both wrappers clear it; still
\* interrupts are on only with the counter at 0 and nobody inside a critical
\* section, and a task switch never happens inside one.
CriticalSectionsAtomic ==
    /\ intr.enabled => intr.counter = 0 /\ \A t \in AllTasks : depth[t] = 0
    /\ \A t \in AllTasks : depth[t] > 0 => t = current

\* What else the proofs need: where tasks can be, and that the counter covers
\* the sections the running task is inside of.
PlacesOK ==
    /\ pc[Idle] = "run" /\ pc[Main] # "absent"
    /\ current \in Created \cup {Idle}
    /\ \A t \in AllTasks : isBlocking[t] => t \in Created
    /\ \A t \in AllTasks : pc[t] # "run" => depth[t] = 0
    /\ depth[Idle] = 0
    /\ depth[current] <= intr.counter

\* The inductive invariant.
IInv ==
    /\ TypeOK
    /\ PlacesOK
    /\ QueueConsistent
    /\ ReadyTasksQueued
    /\ SleepersTimed
    /\ DeltaExact
    /\ NoEarlyReturn
    /\ CriticalSectionsAtomic

\* The scheduler implements TaskService: queues, time slices and the gap of
\* sleep() never show in who sleeps, for how long and who gets the CPU.
Service == INSTANCE TaskService WITH
    alive  <- Created,
    asleep <- {t \in Tasks : isBlocking[t]},
    left   <- [t \in Tasks |-> due[t]],
    onCPU  <- current

ServiceSpec == Service!Spec

\* sleep() returns: a task in the gap reaches the end of sleep().  This is
\* about start-ups that leave interrupts on: with a disable left open nothing
\* but Main need ever run until Main sleeps.
SleepReturns ==
    intr.enabled => \A t \in Tasks : pc[t] = "gap" ~> (current = t /\ pc[t] = "run")
=============================================================================
