------------------------------ MODULE OneWriter ------------------------------
(***************************************************************************)
(* What the claim on a chain directory promises (infra/lock.av): of the    *)
(* runs that would write there, one does at a time, and it may end in the  *)
(* middle of anything.                                                     *)
(***************************************************************************)
CONSTANTS
  Run,    \* the runs that would write
  Nobody  \* no run

VARIABLE writer  \* the run that writes, or Nobody

Free == writer = Nobody
Begin(r) == writer = Nobody /\ writer' = r
End(r) == writer = r /\ writer' = Nobody

OneInit == Free
OneNext == \E r \in Run : Begin(r) \/ End(r)
OneSpec == OneInit /\ [][OneNext]_writer
==============================================================================
