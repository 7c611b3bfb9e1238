------------------------- MODULE MCSignalExecution -------------------------
(***************************************************************************)
(* SignalExecution for TLC.  Requests are interchangeable, and so are      *)
(* fingerprints.                                                           *)
(***************************************************************************)
EXTENDS SignalExecution, TLC

Symmetric == Permutations(Requests) \cup Permutations(Fingerprints)

=============================================================================
