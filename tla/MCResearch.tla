----------------------------- MODULE MCResearch -----------------------------
(***************************************************************************)
(* Instance for TLC of everything a strategy goes through before it is     *)
(* traded: its signals, the simulated execution of one, the replay of a    *)
(* history, the gates, the stage scripts and the research on grids.  These *)
(* share no state at run time: each is a script or a function of its input.*)
(* The instance is their sum.  It explores one part at a time while the    *)
(* inputs of the others stay at a fixed value.                             *)
(***************************************************************************)
EXTENDS Simulation, Replay, StageChecks, GridResearch, Strategies

VARIABLE part  \* the part of the sum that is explored

rest == <<sim, trial, manifest, stage, grid, window, part>>

vars == <<rest, replayVars>>

(* Values of the inputs that a part leaves alone. *)
NoSim == [one_bar_execution_delay |-> FALSE, spot |-> FALSE,
          signal |-> CHOOSE s \in SimSignal : TRUE, future |-> <<>>,
          entry_maker |-> FALSE, exit_maker |-> FALSE]

NoManifest == [suites |-> [s \in SuiteNames |-> {}],
               active_strategy_suites |-> [s \in Strategies |-> None],
               default |-> None, suite |-> None, active_strategy |-> None,
               outcome |-> [s \in Scenarios |-> "fail"]]

NoStage == [script |-> "c", pnls |-> <<>>, failed |-> {}]

NoGrid == [about |-> "sweep",
           results |-> [k \in 1..(TopConfigs + 1) |->
                           [yield |-> 0, solid |-> FALSE, profitable |-> 0]]]

NoWindow == [candles |-> <<>>, today |-> 0, volume_confirms |-> FALSE, calm |-> FALSE]

NoReplay == request = [start |-> Candles, end |-> Candles] /\ ReplayInit

Init ==
    /\ part \in {"simulation", "replay", "gate", "manifest", "stage", "grid", "signals"}
    /\ IF part = "simulation" THEN SimInit ELSE sim = NoSim
    /\ IF part = "replay" THEN ReplayInit ELSE NoReplay
    /\ IF part = "gate" THEN TrialInit ELSE trial = None
    /\ IF part = "manifest" THEN ManifestInit ELSE manifest = NoManifest
    /\ IF part = "stage" THEN StageInit ELSE stage = NoStage
    /\ IF part = "grid" THEN GridResearchInit ELSE grid = NoGrid
    /\ IF part = "signals" THEN StrategyInit ELSE window = NoWindow

Next ==
    /\ part = "replay"
    /\ ReplayNext
    /\ UNCHANGED rest

Spec == Init /\ [][Next]_vars

(* Values that a configuration file cannot write. *)
MCGross         == {-1, 2}
MCStagePnls     == {-1, 3}
MCMinStep       == <<1, 2>>
MCSweepYields   == {-1, 5, 10, 12}
MCMinRRR        == <<3, 2>>
MCStopMultiple  == <<6, 5>>
MCTargetMultiple == <<9, 5>>
MCReversionStop == <<1, 2>>
MCMinDeviation  == <<1, 20>>
MCCostFraction  == <<1, 100>>
MCVwapTolerance == <<1, 200>>
MCOffset        == <<1, 100>>

=============================================================================
