-------------------------- MODULE SchedulerLatency --------------------------
(***************************************************************************)
(* How long a task waits for the CPU: Scheduler with a history variable    *)
(* that counts, for every task that could run but does not, the PIT ticks  *)
(* since its sleep ran out or it lost the CPU.                             *)
(***************************************************************************)
EXTENDS Scheduler, FiniteSets

\* A task is a page of memory, so there are finitely many.
ASSUME WorkersAssumption == IsFiniteSet(Workers)

\* One time slice for each task that exists.
MaxWait == TIME_SLICE_IN_TICKS * Cardinality(Tasks)

VARIABLE waited

latencyVars == <<vars, waited>>

CouldRun(t) == pc[t] # "absent" /\ due[t] = 0

LatencyInit == Init /\ waited = [t \in Tasks |-> 0]

\* A tick is counted for a task that could run before it and does not after.
LatencyNext ==
    /\ Next
    /\ waited' =
          [t \in Tasks |->
              IF current' = t \/ ~CouldRun(t) THEN 0
              ELSE IF Tick /\ waited[t] <= MaxWait THEN waited[t] + 1
              ELSE waited[t]]

LatencySpec == LatencyInit /\ [][LatencyNext]_latencyVars

FairLatencySpec == LatencySpec /\ Fairness

\* No task that could run is kept from the CPU longer than MaxWait ticks: the
\* task woken after the selection waits a slice more, and then its turn.
BoundedWait == \A t \in Tasks : waited[t] <= MaxWait
=============================================================================
