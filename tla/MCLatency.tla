----------------------------- MODULE MCLatency ------------------------------
(* An instance of SchedulerLatency for TLC.                                 *)
EXTENDS SchedulerLatency

CONSTANTS w1, w2

MCWorkers == {w1, w2}

\* serial_init() leaves one disable_interrupts() open when no UART answers.
SerialMayFail == {0, 1}
=============================================================================
