---------------------------- MODULE TaskService -----------------------------
(***************************************************************************)
(* What the scheduler promises the tasks, without its queues: a task that  *)
(* asks to sleep n ticks is asleep until n ticks have passed; the CPU is   *)
(* given only to a task that is awake; the idle task gets it only if there *)
(* is none; and every task whose time has passed wakes at the next switch. *)
(* A task asleep may still hold the CPU until the next switch.             *)
(***************************************************************************)
EXTENDS Naturals

CONSTANTS Main, Idle, Workers, MaxSleep

Tasks == Workers \cup {Main}

VARIABLES
    alive,     \* the tasks that exist
    asleep,    \* those that asked to sleep and were not woken
    left,      \* the ticks each task has yet to sleep
    onCPU      \* the task that holds the CPU

vars == <<alive, asleep, left, onCPU>>

Init ==
    /\ alive = {Main}
    /\ asleep = {}
    /\ left = [t \in Tasks |-> 0]
    /\ onCPU = Main

Start(t) ==
    /\ onCPU = Main
    /\ t \in Tasks \ alive
    /\ alive' = alive \cup {t}
    /\ UNCHANGED <<asleep, left, onCPU>>

FallAsleep(n) ==
    /\ onCPU \in alive \ asleep
    /\ asleep' = asleep \cup {onCPU}
    /\ left' = [left EXCEPT ![onCPU] = n]
    /\ UNCHANGED <<alive, onCPU>>

PassTime == left' = [t \in Tasks |-> IF left[t] > 0 THEN left[t] - 1 ELSE 0]

\* The next task is chosen among those awake, and only then are others woken.
Switch ==
    /\ onCPU' \in (IF alive \ asleep = {} THEN {Idle} ELSE alive \ asleep)
    /\ asleep' = {t \in asleep : left'[t] > 0}
    /\ UNCHANGED alive

TickOnly   == PassTime /\ UNCHANGED <<alive, asleep, onCPU>>
TickSwitch == PassTime /\ Switch
Yield      == onCPU \in asleep /\ left' = left /\ Switch
\* A task that was switched out before it could yield does so when it is back.
LateYield  == onCPU \in alive \ asleep /\ left' = left /\ Switch

Next ==
    \/ \E t \in Tasks : Start(t)
    \/ \E n \in 0 .. MaxSleep : FallAsleep(n)
    \/ TickOnly
    \/ TickSwitch
    \/ Yield
    \/ LateYield

Spec == Init /\ [][Next]_vars
=============================================================================
