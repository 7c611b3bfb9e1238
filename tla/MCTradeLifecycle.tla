-------------------------- MODULE MCTradeLifecycle --------------------------
(***************************************************************************)
(* Instances of TradeLifecycle for TLC.  The state space grows fastest     *)
(* with what the exchange may report, so each run lets one part of the     *)
(* orders report everything and the others what the run needs.             *)
(***************************************************************************)
EXTENDS TradeRefinement

(* Entries fill in parts, fill, or are cancelled; closes fill or fail. *)
EntryReports ==
    [entry |-> {"PartiallyFilled", "Filled", "Cancelled"},
     stop  |-> {"Filled"}, tp |-> {"Filled"}, close |-> {"Filled", "Cancelled"}]

(* Closes fill in parts and fill: their failures are in EntryReports. *)
ExitReports ==
    [entry |-> {"Filled"}, stop |-> {"Filled"}, tp |-> {},
     close |-> {"PartiallyFilled", "Filled"}]

(* Entries may fill in parts; closes fill or fail; no take-profit fills. *)
LeanReports ==
    [entry |-> {"PartiallyFilled", "Filled"}, stop |-> {"Filled"}, tp |-> {},
     close |-> {"Filled", "Cancelled"}]

(* Everything that is placed may fill. *)
FillsOnly ==
    [entry |-> {"Filled"}, stop |-> {"Filled"}, tp |-> {}, close |-> {"Filled"}]

=============================================================================
