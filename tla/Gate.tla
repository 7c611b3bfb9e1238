-------------------------------- MODULE Gate --------------------------------
(***************************************************************************)
(* The backtest gate: the metrics of a replayed scenario and the profile   *)
(* it has to meet (backtest/gate.py), and the run of a manifest's suite,   *)
(* whose exit code lets a strategy into production                         *)
(* (scripts/backtest_gate.py).                                             *)
(*                                                                         *)
(* Amounts are small integers.  A ratio is compared with a threshold       *)
(* <<numerator, denominator>> without dividing.                            *)
(***************************************************************************)
EXTENDS Integers, Sequences, SequencesExt, FiniteSets, FiniteSetsExt

CONSTANTS
    None,           \* an absent value
    Gross, Fees,    \* bound: the amounts of an execution
    Months,         \* bound: months in which trades close
    MaxExecutions,  \* bound: executions of a scenario
    SuiteNames, Strategies,
    CandleScenarios, GridScenarios,
    UnknownName     \* a name no scenario has

ASSUME GateAssumption ==
    /\ Gross \subseteq Int /\ Fees \subseteq Nat
    /\ Months # {} /\ Months \subseteq Nat /\ IsFiniteSet(Months) /\ MaxExecutions \in Nat
    /\ None \notin SuiteNames \cup Strategies
    /\ UnknownName \notin CandleScenarios \cup GridScenarios

VARIABLES
    trial,    \* the executions of a scenario and its profile, or None
    manifest  \* the manifest, what the caller asked for, what scenarios do

-----------------------------------------------------------------------------
(* A scenario (evaluate_scenario). *)

Execution ==
    [status : {"closed"}, gross : Gross, fees : Fees, month : Months]
       \cup [status : {"skipped"}, gross : {0}, fees : {0}, month : {Min(Months)}]

(* The thresholds; the drawdown is a share of the starting equity. *)
Profile ==
    [min_closed_trades : {0, 2}, min_win_rate : {<<0, 1>>, <<1, 2>>},
     min_profit_factor : {<<1, 1>>, <<3, 2>>},
     require_positive_expectancy : BOOLEAN, max_drawdown : {1, 3}]

TrialInit ==
    \E n \in 0..MaxExecutions :
       trial \in [executions : [1..n -> Execution], profile : Profile]

(* The elements of a list that are in a set, in their order. *)
Only(s, kept) == FoldLeft(LAMBDA t, x : IF x \in kept THEN Append(t, x) ELSE t, <<>>, s)

Executed(executions) == Only(executions, {e \in Execution : e.status # "skipped"})

Net(e) == e.gross - e.fees

Positive(n) == IF n > 0 THEN n ELSE 0

Total(s) == FoldLeft(LAMBDA x, y : x + y, 0, s)

(* Mutant: the peak is never raised. *)
DrawdownFromStart(pnls) ==
    FoldLeft(LAMBDA c, pnl : [equity |-> c.equity + pnl,
                              worst |-> Max({c.worst, -(c.equity + pnl)})],
             [equity |-> 0, worst |-> 0], pnls).worst

calculate_max_drawdown(pnls) ==
    FoldLeft(LAMBDA c, pnl :
                LET equity == c.equity + pnl
                    peak   == Max({c.peak, equity})
                IN  [equity |-> equity, peak |-> peak,
                     worst |-> Max({c.worst, peak - equity})],
             [equity |-> 0, peak |-> 0, worst |-> 0], pnls).worst

(* The sums and counts from which win rate, expectancy and profit factor   *)
(* are divided.                                                            *)
MetricsOf(pnls) ==
    [closed |-> Len(pnls),
     wins   |-> Cardinality({i \in DOMAIN pnls : pnls[i] > 0}),
     gains  |-> Total([i \in DOMAIN pnls |-> Positive(pnls[i])]),
     losses |-> Total([i \in DOMAIN pnls |-> Positive(-pnls[i])]),
     net    |-> Total(pnls),
     drawdown |-> calculate_max_drawdown(pnls)]

(* Mutant: a skipped signal counts as a trade. *)
CountsSkipped(executions) ==
    MetricsOf([i \in DOMAIN executions |-> Net(executions[i])])

_calculate_metrics(executions) ==
    LET xs == Executed(executions)
    IN  MetricsOf([i \in DOMAIN xs |-> Net(xs[i])])

_build_monthly_pnl(executions) ==
    [m \in Months |-> _calculate_metrics(Only(executions, {e \in Execution : e.month = m}))]

(* The report of the replay itself knows no fees (_build_report). *)
_build_report(executions) ==
    LET xs == Executed(executions)
    IN  MetricsOf([i \in DOMAIN xs |-> xs[i].gross])

ratio_at_least(numerator, denominator, threshold) ==
    numerator * threshold[2] >= threshold[1] * denominator

(* Without trades there is no win rate and no expectancy, without gains    *)
(* and losses no profit factor: what is missing fails.                     *)
_evaluate_profile(m, profile) ==
    /\ m.closed >= profile.min_closed_trades
    /\ m.closed > 0 /\ ratio_at_least(m.wins, m.closed, profile.min_win_rate)
    /\ \/ m.losses = 0 /\ m.gains > 0
       \/ m.losses > 0 /\ ratio_at_least(m.gains, m.losses, profile.min_profit_factor)
    /\ profile.require_positive_expectancy => m.net > 0
    /\ m.drawdown <= profile.max_drawdown

evaluate_scenario(executions, profile) ==
    _evaluate_profile(_calculate_metrics(executions), profile)

-----------------------------------------------------------------------------
(* A manifest (run_manifest_gate). *)

Scenarios == CandleScenarios \cup GridScenarios

(* An empty suite and one that is not there are the same error. *)
ManifestInit ==
    manifest \in [suites : [SuiteNames -> SUBSET (Scenarios \cup {UnknownName})],
                  active_strategy_suites : [Strategies -> SuiteNames \cup {None}],
                  default : SuiteNames \cup {None},
                  suite : SuiteNames \cup {None},
                  active_strategy : Strategies \cup {None},
                  outcome : [Scenarios -> {"pass", "fail", "raise"}]]

(* Mutant: the strategy that is active decides. *)
ActiveStrategyFirst(r) ==
    IF r.active_strategy # None THEN r.active_strategy_suites[r.active_strategy]
    ELSE IF r.suite # None THEN r.suite ELSE r.default

_resolve_suite_selection(r) ==
    IF r.suite # None THEN r.suite
    ELSE IF r.active_strategy # None THEN r.active_strategy_suites[r.active_strategy]
    ELSE r.default

(* The suite that was asked for, by its name or by its strategy. *)
Unresolved(r) ==
    /\ r.suite = None /\ r.active_strategy # None
    /\ _resolve_suite_selection(r) = None

Selected(r) ==
    LET suite == _resolve_suite_selection(r)
    IN  IF suite = None THEN Scenarios ELSE r.suites[suite]

(* Mutant: a name that no scenario has is passed over. *)
AnyName(r) == TRUE

_validate_selected_names(r) == Selected(r) \subseteq Scenarios

(* The report is written only after the last scenario was evaluated. *)
run_manifest_gate(r) ==
    LET results == Selected(r) \cap Scenarios
    IN  CASE \/ Unresolved(r) \/ Selected(r) = {}
             \/ \E s \in results : r.outcome[s] = "raise"
             \/ ~_validate_selected_names(r) -> "error"
          [] OTHER -> IF \A s \in results : r.outcome[s] = "pass" THEN "ok" ELSE "failed"

-----------------------------------------------------------------------------
(* Properties *)

Losers == {e \in Execution : e.status = "closed" /\ Net(e) < 0}

(* The profile without its number of closed trades. *)
Uncounted(profile) == [profile EXCEPT !.min_closed_trades = 0]

(* A loss helps a history in one way only, wherever in it the loss         *)
(* happens: it is one more closed trade.  A history that fails and passes  *)
(* with the loss lacked just that one trade and met everything else.  A    *)
(* signal that was not executed makes no difference.  The metrics agree    *)
(* with each other and with their definition: months add up, fees only     *)
(* ever take away, and the drawdown is the deepest fall between two        *)
(* moments.                                                                *)
LossHelpsOnlyTheCount == trial # None =>
    LET xs == trial.executions
        m  == _calculate_metrics(xs)
        monthly == _build_monthly_pnl(xs)
        gross == _build_report(xs)
        pnls == [i \in DOMAIN Executed(xs) |-> Net(Executed(xs)[i])]
        Run(i) == Total(SubSeq(pnls, 1, i))
    IN  /\ \A at \in 1..(Len(xs) + 1) :
              /\ \A e \in Losers :
                    evaluate_scenario(InsertAt(xs, at, e), trial.profile) =>
                       \/ evaluate_scenario(xs, trial.profile)
                       \/ /\ m.closed + 1 = trial.profile.min_closed_trades
                          /\ evaluate_scenario(xs, Uncounted(trial.profile))
              /\ \A e \in Execution :
                    e.status = "skipped" => _calculate_metrics(InsertAt(xs, at, e)) = m
        /\ MapThenSumSet(LAMBDA mo : monthly[mo].net, Months) = m.net
        /\ gross.wins >= m.wins /\ gross.drawdown <= m.drawdown
        /\ m.net = m.gains - m.losses
        /\ m.drawdown = Max({Run(p[1]) - Run(p[2]) : p \in
                                {q \in (0..Len(pnls)) \X (0..Len(pnls)) : q[1] <= q[2]}})

(* The gate opens only for the suite that the caller meant: an explicit    *)
(* suite, else the one of the active strategy, else the default, else      *)
(* everything; every name in it is a scenario and every scenario passed.   *)
GateCoversSuite ==
    LET r == manifest
        AllPass(names) == \A s \in names : s \in Scenarios /\ r.outcome[s] = "pass"
    IN  run_manifest_gate(r) = "ok" =>
           /\ r.suite # None => r.suites[r.suite] # {} /\ AllPass(r.suites[r.suite])
           /\ r.suite = None /\ r.active_strategy # None =>
                 LET suite == r.active_strategy_suites[r.active_strategy]
                 IN  suite # None /\ r.suites[suite] # {} /\ AllPass(r.suites[suite])
           /\ r.suite = None /\ r.active_strategy = None =>
                 AllPass(IF r.default = None THEN Scenarios ELSE r.suites[r.default])

=============================================================================
