-------------------------------- MODULE MCLog -------------------------------
(* Log for TLC.  A call writes one block and reserves two, so that two     *)
(* calls overlap while the log has room for both, and a third one that     *)
(* arrives before the commit waits.  No symmetry: liveness is checked.     *)
EXTENDS Log, TLC
=============================================================================
