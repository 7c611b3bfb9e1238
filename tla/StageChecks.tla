----------------------------- MODULE StageChecks -----------------------------
(***************************************************************************)
(* The three acceptance scripts (scripts/validate_stage_a.py, _b.py and    *)
(* _c.py).  Each one runs backtests and the repository's checks, prints    *)
(* PASS or FAIL, and ends with an exit code; the verdict and the list of   *)
(* failures that decides the exit code are computed by separate code.      *)
(*                                                                         *)
(* A ratio is <<numerator, denominator>>; <<1, 0>> is infinity.            *)
(***************************************************************************)
EXTENDS Gate

CONSTANTS
    FlatFees, RealFees,  \* bound: fees of a trade, without and with a spread
    SignalSteps,         \* bound: steps at which the strategy signals
    StagePnls,           \* bound: net results of a trade
    MaxStageTrades,      \* bound: trades of a backtest of stage B or C
    V2Attempts           \* bound: parameter sets tried for v2

ASSUME StageAssumption ==
    /\ FlatFees \cup RealFees \subseteq Nat
    /\ IsFiniteSet(SignalSteps) /\ StagePnls \subseteq Int
    /\ MaxStageTrades \in Nat /\ V2Attempts \in Nat \ {0}

VARIABLE stage  \* what the backtests and the commands of a script return

RepoChecks      == {"pytest", "ruff", "mypy"}
PortfolioChecks == {"max_open_positions", "cooldown", "max_trades_per_day", "circuit_breaker"}
B1Checks        == {"factory", "strategy", "pytest_bad_rrr"}

AtLeast(r, t) == r[1] * t[2] >= t[1] * r[2]
Less(r, t)    == r[1] * t[2] < t[1] * r[2]

SumOver(f) == FoldFunction(LAMBDA x, y : x + y, 0, f)

PnlSequences == UNION {[1..n -> StagePnls] : n \in 0..MaxStageTrades}

(* Both backtests of stage A see the same signals.  The old one executes   *)
(* all of them, the new one those that its portfolio allows; a function    *)
(* gives the fee of each executed step.  A backtest may raise.             *)
StageAInit ==
    \E signals \in SUBSET SignalSteps : \E executed \in SUBSET signals :
       stage \in [script : {"a"}, old : [signals -> FlatFees], new : [executed -> RealFees],
                  raised : SUBSET {"old", "new"},
                  failed : {f \in SUBSET (RepoChecks \cup PortfolioChecks) : Cardinality(f) < 2}]

(* weak: an executed signal's reward to risk ratio is below the minimum.   *)
StageBInit ==
    stage \in [script : {"b"}, v1 : 0..(MaxStageTrades + 1),
               attempts : [1..V2Attempts -> [pnls : PnlSequences, weak : BOOLEAN]],
               failed : {f \in SUBSET (RepoChecks \cup B1Checks) : Cardinality(f) < 2}]

StageCInit ==
    stage \in [script : {"c"}, pnls : PnlSequences, failed : SUBSET RepoChecks]

StageInit == StageAInit \/ StageBInit \/ StageCInit

-----------------------------------------------------------------------------
(* Stage A *)

(* The fallback for a backtest that raised is empty. *)
SummaryA(name, fees) == IF name \in stage.raised THEN <<>> ELSE fees

AverageFees(fees) ==
    IF DOMAIN fees = {} THEN <<0, 1>> ELSE <<SumOver(fees), Cardinality(DOMAIN fees)>>

(* The old fees of the trades that the new backtest executed, too. *)
_align_old_summary_to_new_executions(old, new) ==
    IF DOMAIN new = {} THEN AverageFees(old)
    ELSE AverageFees(Restrict(old, DOMAIN new \cap DOMAIN old))

OldTrades == Cardinality(DOMAIN SummaryA("old", stage.old))
NewTrades == Cardinality(DOMAIN SummaryA("new", stage.new))

NewFees == AverageFees(SummaryA("new", stage.new))
OldFees ==
    IF stage.raised = {}
    THEN _align_old_summary_to_new_executions(stage.old, stage.new)
    ELSE AverageFees(SummaryA("old", stage.old))

_print_validation_block_a ==
    NewTrades < OldTrades /\ AtLeast(NewFees, OldFees) /\ stage.failed = {}

(* Mutant: as many trades as before are no failure. *)
AsManyIsFine ==
    stage.raised \cup {c \in {"M < N"} : NewTrades > OldTrades}
       \cup {c \in {"fees"} : Less(NewFees, OldFees)} \cup stage.failed

_collect_failures_a ==
    stage.raised \cup {c \in {"M < N"} : NewTrades >= OldTrades}
       \cup {c \in {"fees"} : Less(NewFees, OldFees)} \cup stage.failed

(* main: a backtest that raised ends the script before the failures are    *)
(* collected.                                                              *)
exits_with_error_a == stage.raised # {} \/ _collect_failures_a # {}

-----------------------------------------------------------------------------
(* Stages B and C *)

win_rate(m) == IF m.closed = 0 THEN <<0, 1>> ELSE <<m.wins, m.closed>>

profit_factor(m) ==
    IF m.gains > 0 /\ m.losses = 0 THEN <<1, 0>>
    ELSE IF m.losses > 0 THEN <<m.gains, m.losses>> ELSE <<0, 1>>

PROFIT_FACTOR_THRESHOLD == <<105, 100>>
WIN_RATE_THRESHOLD_B    == <<50, 100>>
WIN_RATE_THRESHOLD_C    == <<48, 100>>

Factor(attempt) == profit_factor(MetricsOf(attempt.pnls))

Good == {k \in 1..V2Attempts : AtLeast(Factor(stage.attempts[k]), PROFIT_FACTOR_THRESHOLD)}

(* Parameters are tried until the profit factor suffices. *)
_run_v2_attempts ==
    stage.attempts[IF Good = {} THEN V2Attempts ELSE Min(Good)]

V2 == MetricsOf(_run_v2_attempts.pnls)

_print_validation_block_b ==
    /\ stage.failed = {}
    /\ V2.closed < stage.v1
    /\ AtLeast(win_rate(V2), WIN_RATE_THRESHOLD_B)
    /\ AtLeast(profit_factor(V2), PROFIT_FACTOR_THRESHOLD)
    /\ ~_run_v2_attempts.weak

(* Mutant: only the profit factor of the attempts is looked at. *)
ForgetsWinRate ==
    stage.failed \cup {c \in {"M < N"} : V2.closed >= stage.v1}
       \cup {c \in {"profit_factor"} : Less(profit_factor(V2), PROFIT_FACTOR_THRESHOLD)}
       \cup {c \in {"rrr"} : _run_v2_attempts.weak}

_collect_failures_b ==
    stage.failed \cup {c \in {"M < N"} : V2.closed >= stage.v1}
       \cup {c \in {"win_rate"} : Less(win_rate(V2), WIN_RATE_THRESHOLD_B)}
       \cup {c \in {"profit_factor"} : Less(profit_factor(V2), PROFIT_FACTOR_THRESHOLD)}
       \cup {c \in {"rrr"} : _run_v2_attempts.weak}

EMAPullback == MetricsOf(stage.pnls)

_print_validation_block_c ==
    /\ AtLeast(win_rate(EMAPullback), WIN_RATE_THRESHOLD_C)
    /\ AtLeast(profit_factor(EMAPullback), PROFIT_FACTOR_THRESHOLD)
    /\ stage.failed = {}

exits_with_error_c ==
    \/ Less(win_rate(EMAPullback), WIN_RATE_THRESHOLD_C)
    \/ Less(profit_factor(EMAPullback), PROFIT_FACTOR_THRESHOLD)
    \/ stage.failed # {}

-----------------------------------------------------------------------------
Passed ==
    CASE stage.script = "a" -> _print_validation_block_a
      [] stage.script = "b" -> _print_validation_block_b
      [] OTHER -> _print_validation_block_c

ExitsWithError ==
    CASE stage.script = "a" -> exits_with_error_a
      [] stage.script = "b" -> _collect_failures_b # {}
      [] OTHER -> exits_with_error_c

(* The skipped executions of a spot market (all short signals) cost        *)
(* nothing.  Stage A compares average fees: with nothing but skipped       *)
(* trades its fee gate is open, whatever the new backtest did.             *)
OnlySkipped == stage.script = "a" /\ SumOver(stage.old) = 0

(* The script that prints PASS is the one that exits with 0, also when a   *)
(* backtest raised and an empty summary stands in for its results, as long *)
(* as some trade of the old backtest was executed.  And what passed is not *)
(* empty: in stage A the portfolio refused a signal but not all of them,   *)
(* and its trades paid at least the flat fees of the same trades; in       *)
(* stages B and C the trades earned money.                                 *)
VerdictsAgree ==
    /\ ~ExitsWithError => Passed
    /\ Passed => ~ExitsWithError \/ OnlySkipped
    /\ Passed /\ stage.script = "a" /\ stage.raised = {} =>
          /\ DOMAIN stage.new # DOMAIN stage.old
          /\ DOMAIN stage.new # {} \/ OnlySkipped
          /\ SumOver(stage.new) >= SumOver(Restrict(stage.old, DOMAIN stage.new))
    /\ Passed /\ stage.script = "b" => V2.net > 0
    /\ Passed /\ stage.script = "c" => EMAPullback.net > 0

=============================================================================
