--------------------------- MODULE MCTimingWheel ---------------------------
(***************************************************************************)
(* Instances of TimingWheel for TLC.  A minute has 3 seconds, an hour 2    *)
(* minutes, a day 2 hours, and the day wheel 2 slots, so that every wheel  *)
(* turns several times within MaxNow.                                      *)
(***************************************************************************)
EXTENDS TimingWheel

\* Every delay up to the first one that is refused.
AllDelays == 0 .. (kDays + 1) * kTimingDay
=============================================================================
