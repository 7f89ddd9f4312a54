--------------------------- MODULE MCLeaseRegistry ---------------------------
(***************************************************************************)
(* Constants for model checking LeaseRegistry.  One tick stands for five   *)
(* seconds, so the timers keep the ratios of src/config-paths.ts (Linux):  *)
(* TTL 30s, sweep 5s, grace 10s.                                           *)
(***************************************************************************)
EXTENDS LeaseRegistry

TtlTicks == 6
GcTicks == 1
GraceTicks == 2

\* The strengthened invariant of LeaseRegistryProofs, as TLC sees it.
IInv == TypeOK /\ AckedLeaseHeld /\ ClockInv
=============================================================================
