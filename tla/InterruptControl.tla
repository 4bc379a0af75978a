-------------------------- MODULE InterruptControl --------------------------
(***************************************************************************)
(* The interrupt state of the one CPU: the flag IF of EFLAGS and the       *)
(* global g_interrupt_disable_counter that disable_interrupts() and        *)
(* enable_interrupts() nest with (interrupt.c).  The state is a record;    *)
(* the modules that run kernel code keep one in a variable.                *)
(***************************************************************************)
EXTENDS Naturals

InterruptState == [counter : Nat, enabled : BOOLEAN]

\* disable_interrupts(): CLI, then count.
DisableInterrupts(s) == [counter |-> s.counter + 1, enabled |-> FALSE]

\* Mutant: STI whatever the counter is.
EnableInterruptsMutant(s) ==
    [counter |-> IF s.counter > 0 THEN s.counter - 1 ELSE 0, enabled |-> TRUE]

\* enable_interrupts(): the counter stops at 0, and STI runs whenever it is
\* 0 afterwards, so an unbalanced call switches interrupts on.
EnableInterrupts(s) ==
    LET left == IF s.counter > 0 THEN s.counter - 1 ELSE 0
    IN  [counter |-> left, enabled |-> IF left = 0 THEN TRUE ELSE s.enabled]

\* A balanced section, as the kernel wraps around kalloc and list updates.
ProtectedSection(s) == EnableInterrupts(DisableInterrupts(s))

\* Mutant: IRET leaves the interrupts off.
ReturnFromInterruptMutant(savedFlag) == [counter |-> 0, enabled |-> FALSE]

\* Mutant: the disable_interrupts() at the head of the wrapper stays counted.
ReturnFromInterruptCountedMutant(savedFlag) == [counter |-> 1, enabled |-> savedFlag]

\* The tail of both interrupt wrappers: the counter is cleared whatever it
\* was, and IRET restores the flag the resumed task was interrupted with.
ReturnFromInterrupt(savedFlag) == [counter |-> 0, enabled |-> savedFlag]
=============================================================================
