----------------------------- MODULE ThletIntr ------------------------------
(***************************************************************************)
(* The interrupt statistics driver of interrupt_overhead/kernel_mode       *)
(* (thlet_intr.c) as test.c uses it: the ioctls that send an IPI to        *)
(* RECV_CORE and that start and copy the statistics of the calling CPU,    *)
(* and the handler of the IPI.  The receiver is bound to RECV_CORE, so the *)
(* per-CPU data are those of that CPU.                                     *)
(*                                                                         *)
(* Of the statistics only the state is kept: the time stamps are written   *)
(* by the patched kernel and copied unchanged, and decide only what test.c *)
(* prints.                                                                 *)
(***************************************************************************)
EXTENDS Integers

VARIABLES
  state,      \* cpu_thlet_stats.state: 0 off, 1 armed, 2 handler has run
  ts_state,   \* info->ts.state, in the page shared with the program
  ipi         \* "none", or "sent": a call of handler is on its way to RECV_CORE

drivervars == <<state, ts_state, ipi>>

\* The pages are zeroed by threadlet_mmap.
DriverInit == state = 0 /\ ts_state = 0 /\ ipi = "none"

\* smp_call_function_single with wait = 1: the caller goes on when ipi is
\* "none" again.
IOCTL_SENDIPI == ipi' = "sent" /\ UNCHANGED <<state, ts_state>>

\* The handler on RECV_CORE.  It spins for 1000 cycles.
handler == ipi = "sent" /\ ipi' = "none" /\ state' = 2 /\ UNCHANGED ts_state

IOCTL_STAT_START == state' = 1 /\ UNCHANGED <<ts_state, ipi>>

\* The state is the first field copied.
IOCTL_GET_STATS == ts_state' = state /\ UNCHANGED <<state, ipi>>
=============================================================================
