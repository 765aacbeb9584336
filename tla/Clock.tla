-------------------------------- MODULE Clock --------------------------------
(***************************************************************************)
(* The monotonic clock (tokio::time::Instant) the components share.  Time  *)
(* is counted in ticks; every duration of the code is a constant number of *)
(* ticks.                                                                  *)
(***************************************************************************)
EXTENDS Naturals

VARIABLE now

ClockInit == now = 0
Advance == now' = now + 1
=============================================================================
