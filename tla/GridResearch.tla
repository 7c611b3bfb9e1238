---------------------------- MODULE GridResearch ----------------------------
(***************************************************************************)
(* The backtest of a grid (grid_engine/grid_backtester.py, grid_metrics.py *)
(* and grid_config.py), the grid scenarios of the backtest gate, the grid  *)
(* that the advisor suggests (grid_advisor.py) and the parameter sweep     *)
(* (scripts/grid_parameter_sweep.py).                                      *)
(*                                                                         *)
(* Prices and amounts are integers; fees are in parts of FeeScale, a level *)
(* is one tick wide and the grid reaches HalfLevels levels to either side  *)
(* of the price it is built around.                                        *)
(***************************************************************************)
EXTENDS Integers, Sequences, SequencesExt, FiniteSets, FiniteSetsExt

CONSTANTS
    GridPrices,         \* bound: prices of candles
    HalfLevels,
    capital_per_level, LotSizes,
    GridFee, GridFeeScale,
    WindowCandles,      \* bound: candles of a walk-forward window
    GridWindows,        \* bound: windows, and the length of the history
    min_completed_cycles, min_annualized_yield_pct,
    min_step_pct,       \* <<numerator, denominator>>
    target_n_levels, atr_period, atr_multiplier,
    AdvicePrices,       \* bound: prices of the candles an advice looks at
    TopConfigs,         \* bound: configurations of a sweep that walk forward
    SweepYields         \* bound: yields of a configuration

ASSUME GridAssumption ==
    /\ GridPrices \subseteq Nat \ {0}
    /\ {HalfLevels, capital_per_level, GridFeeScale, WindowCandles, GridWindows,
        TopConfigs} \subseteq Nat \ {0}
    /\ LotSizes \subseteq Nat /\ GridFee \in Nat
    /\ AdvicePrices \subseteq Nat \ {0} /\ atr_period \in Nat \ {0}
    /\ {target_n_levels, atr_multiplier} \subseteq Nat
    /\ min_step_pct \in Nat \X (Nat \ {0}) /\ SweepYields \subseteq Int

VARIABLE grid  \* what is backtested, advised about or swept

LevelCount == 2 * HalfLevels

Capital == LevelCount * capital_per_level

GridCandle == {c \in [open : GridPrices, high : GridPrices, low : GridPrices, close : GridPrices] :
                  /\ c.low <= c.open /\ c.open <= c.high
                  /\ c.low <= c.close /\ c.close <= c.high}

(* Only the opening price of a first candle matters.  The candles beyond   *)
(* max_candles are not backtested, but are part of the windows: later.     *)
BacktestInit ==
    \E start \in GridPrices, n \in 1..(GridWindows * WindowCandles) :
    \E m \in 0..(GridWindows * WindowCandles - n) :
       grid \in [about : {"backtest"}, lot : LotSizes,
                 windows : 0..GridWindows, min_window_rate : {<<>>, <<1, 2>>},
                 candles : {cs \in [1..n -> {c \in GridCandle : c.open \in {start, c.close}}] :
                              /\ cs[1].open = start
                              /\ \A i \in 1..n : cs[i].close > HalfLevels
                              /\ \A i \in 2..n : cs[i].open = cs[i].close},
                 later : [1..m -> {c \in GridCandle : c.close > HalfLevels /\ c.open = c.close}]]

-----------------------------------------------------------------------------
(* The backtest: a slot buys at its level and sells one level higher.      *)

buy_prices(start) == [l \in 1..LevelCount |-> start - HalfLevels + l - 1]

sell_price(buy) == buy + 1

(* Whole lots only, or no lots at all (0). *)
_units_for_level(buy) ==
    LET raw_units == capital_per_level \div buy
    IN  IF grid.lot = 0 THEN raw_units ELSE (raw_units \div grid.lot) * grid.lot

Sum(f) == FoldFunctionOnSet(LAMBDA x, y : x + y, 0, f, DOMAIN f)

(* Mutant: what is held from the start was bought for nothing. *)
StartsForFree(start, open) ==
    LET buys == buy_prices(start)
    IN  [buys |-> buys, held |-> [l \in DOMAIN buys |-> buys[l] >= open],
         cycles |-> [l \in DOMAIN buys |-> 0], gross |-> 0, worst |-> 0, fees |-> 0]

(* Levels above the market begin with their coins already bought. *)
_initialize_state(start, open) ==
    LET buys == buy_prices(start)
        held == [l \in DOMAIN buys |-> buys[l] >= open]
    IN  [buys |-> buys, held |-> held, cycles |-> [l \in DOMAIN buys |-> 0],
         gross |-> 0, worst |-> 0,
         fees |-> GridFee * Sum([l \in DOMAIN buys |->
                       IF held[l] THEN buys[l] * _units_for_level(buys[l]) ELSE 0])]

_process_buy_fills(s, c) ==
    LET filled == {l \in DOMAIN s.buys : ~s.held[l] /\ c.low <= s.buys[l]}
    IN  [s EXCEPT !.held = [l \in DOMAIN @ |-> @[l] \/ l \in filled],
                  !.fees = @ + GridFee * Sum([l \in filled |->
                                  s.buys[l] * _units_for_level(s.buys[l])])]

(* Mutant: only buying costs a fee. *)
SellsForFree(s, c) ==
    LET filled == {l \in DOMAIN s.buys : s.held[l] /\ c.high >= sell_price(s.buys[l])}
    IN  [s EXCEPT !.held = [l \in DOMAIN @ |-> @[l] /\ l \notin filled],
                  !.cycles = [l \in DOMAIN @ |-> @[l] + IF l \in filled THEN 1 ELSE 0],
                  !.gross = @ + Sum([l \in filled |-> _units_for_level(s.buys[l])])]

_process_sell_fills(s, c) ==
    LET filled == {l \in DOMAIN s.buys : s.held[l] /\ c.high >= sell_price(s.buys[l])}
    IN  [s EXCEPT !.held = [l \in DOMAIN @ |-> @[l] /\ l \notin filled],
                  !.cycles = [l \in DOMAIN @ |-> @[l] + IF l \in filled THEN 1 ELSE 0],
                  !.gross = @ + Sum([l \in filled |-> _units_for_level(s.buys[l])]),
                  !.fees = @ + GridFee * Sum([l \in filled |->
                                  sell_price(s.buys[l]) * _units_for_level(s.buys[l])])]

(* What the coins cost and what they are worth at the close. *)
_record_snapshot(s, c) ==
    LET loss == Sum([l \in {k \in DOMAIN s.buys : s.held[k]} |->
                       (s.buys[l] - c.close) * _units_for_level(s.buys[l])])
    IN  [s EXCEPT !.worst = Max({@, loss})]

(* The grid is built around the close of the first candle. *)
run_grid_backtest(candles) ==
    FoldLeft(LAMBDA s, c : _record_snapshot(_process_sell_fills(_process_buy_fills(s, c), c), c),
             _initialize_state(candles[1].close, candles[1].open), candles)

-----------------------------------------------------------------------------
(* The metrics; net_pnl is scaled like the fees. *)

net_pnl(s) == GridFeeScale * s.gross - s.fees

completed_cycles(s) == Sum(s.cycles)

fee_coverage_at_least_2(s) ==
    IF s.fees = 0 THEN s.gross > 0 ELSE GridFeeScale * s.gross >= 2 * s.fees

(* Half a day is rounded to an even number of days. *)
_backtest_days(candles) ==
    LET minutes == Len(candles) * 15
        days    == minutes \div 1440
        over    == 2 * (minutes % 1440)
    IN  Max({1, IF over > 1440 \/ (over = 1440 /\ days % 2 = 1) THEN days + 1 ELSE days})

annualized_yield_at_least(s, days, pct) ==
    net_pnl(s) * 365 * 100 >= pct * Capital * days * GridFeeScale

drawdown_at_most(s, pct) == s.worst * 100 <= pct * Capital

_regression_passes(s, days) ==
    /\ net_pnl(s) > 0
    /\ fee_coverage_at_least_2(s)
    /\ annualized_yield_at_least(s, days, min_annualized_yield_pct)
    /\ drawdown_at_most(s, 55)
    /\ completed_cycles(s) >= min_completed_cycles

-----------------------------------------------------------------------------
(* A grid scenario of the gate.  The windows walk the whole history. *)

History == grid.candles \o grid.later

Window(k) == SubSeq(History, (k - 1) * WindowCandles + 1, k * WindowCandles)

(* Without windows there is no rate, and a rate that is asked for and not  *)
(* there fails.  A history that is too short for its windows is an error. *)
WindowsAreFull == grid.windows * WindowCandles <= Len(History)

ProfitableWindows ==
    {k \in 1..grid.windows : net_pnl(run_grid_backtest(Window(k))) > 0}

_evaluate_grid_profile(s, days) ==
    /\ completed_cycles(s) >= min_completed_cycles
    /\ net_pnl(s) >= 0
    /\ fee_coverage_at_least_2(s)
    /\ annualized_yield_at_least(s, days, min_annualized_yield_pct)
    /\ drawdown_at_most(s, 55)
    /\ grid.min_window_rate # <<>> =>
          /\ grid.windows > 0
          /\ Cardinality(ProfitableWindows) * grid.min_window_rate[2]
                >= grid.min_window_rate[1] * grid.windows

_evaluate_grid_scenario ==
    /\ WindowsAreFull
    /\ _evaluate_grid_profile(run_grid_backtest(grid.candles), _backtest_days(grid.candles))

-----------------------------------------------------------------------------
(* The advisor: a grid of twice the average true range to either side,     *)
(* with as many levels as keep a step worth its fees, but four at least.   *)

AdviceInit ==
    \E first \in AdvicePrices :
       grid \in [about : {"advice"}, first_close : {first},
                 candles : [1..atr_period ->
                              {c \in [high : AdvicePrices, low : AdvicePrices, close : AdvicePrices] :
                                 c.low <= c.close /\ c.close <= c.high}]]

Price == Last(grid.candles).close

Gap(a, b) == IF a < b THEN b - a ELSE a - b

TrueRange(i) ==
    LET c == grid.candles[i]
        previous == IF i = 1 THEN grid.first_close ELSE grid.candles[i - 1].close
    IN  Max({c.high - c.low, Gap(c.high, previous), Gap(c.low, previous)})

(* Half ranges are ratios. *)
HalfRange == <<atr_multiplier * Sum([i \in 1..atr_period |-> TrueRange(i)]), atr_period>>

WideEnough(half, n) ==
    2 * half[1] * min_step_pct[2] >= min_step_pct[1] * n * (Price * half[2] - half[1])

_minimum_half_range(n) ==
    <<min_step_pct[1] * n * Price, 2 * min_step_pct[2] + min_step_pct[1] * n>>

(* Mutant: the range is kept, however narrow its four levels are. *)
KeepsNarrow ==
    [n_levels |-> Max({n \in 4..Max({4, target_n_levels}) : n = 4 \/ WideEnough(HalfRange, n)}),
     half_range |-> HalfRange]

suggest_grid ==
    LET n == Max({k \in 4..Max({4, target_n_levels}) : k = 4 \/ WideEnough(HalfRange, k)})
    IN  [n_levels |-> n,
         half_range |-> IF WideEnough(HalfRange, n) THEN HalfRange ELSE _minimum_half_range(n)]

(* A lower bound that is not positive is an error. *)
AdviceIsGiven == HalfRange[1] < Price * HalfRange[2]

-----------------------------------------------------------------------------
(* The sweep: of one symbol, what the configurations did over the whole    *)
(* history, and in how many of the windows they are profitable.            *)

SweepInit ==
    grid \in [about : {"sweep"},
              results : [1..(TopConfigs + 1) ->
                           [yield : SweepYields, solid : BOOLEAN, profitable : 0..GridWindows]]]

(* Configurations that earned something, best yield first; the sort is     *)
(* stable.                                                                 *)
Earning == {k \in DOMAIN grid.results : grid.results[k].yield > 0}

Ahead(j, k) ==
    \/ grid.results[j].yield > grid.results[k].yield
    \/ grid.results[j].yield = grid.results[k].yield /\ j < k

_top_positive ==
    {k \in Earning : Cardinality({j \in Earning : Ahead(j, k)}) < TopConfigs}

(* Mutant: the configuration with the best yield is taken. *)
BestYield == CHOOSE k \in _top_positive : \A j \in _top_positive \ {k} : Ahead(k, j)

(* Of those the one with most profitable windows, the first of a tie. *)
_run_walk_forward ==
    CHOOSE k \in _top_positive :
       \A j \in _top_positive \ {k} :
          \/ grid.results[j].profitable < grid.results[k].profitable
          \/ grid.results[j].profitable = grid.results[k].profitable /\ Ahead(k, j)

_print_walk_forward_gate ==
    /\ _top_positive # {}
    /\ 2 * grid.results[_run_walk_forward].profitable >= GridWindows
    /\ grid.results[_run_walk_forward].yield >= min_annualized_yield_pct
    /\ grid.results[_run_walk_forward].solid

-----------------------------------------------------------------------------
GridResearchInit == BacktestInit \/ AdviceInit \/ SweepInit

(* The books of a grid backtest balance: the fees are those of every coin  *)
(* bought and sold, the profit is one level for every cycle, a cycle needs *)
(* a candle that reached its price, and neither the money in the grid nor  *)
(* the loss on it exceeds the capital.                                     *)
BooksBalance ==
    LET s == run_grid_backtest(grid.candles)
        Units(l) == _units_for_level(s.buys[l])
        Bought(l) == s.cycles[l] + IF s.held[l] THEN 1 ELSE 0
        Touched(P(_)) == Cardinality({i \in DOMAIN grid.candles : P(grid.candles[i])})
    IN  /\ s.gross = Sum([l \in DOMAIN s.buys |-> Units(l) * s.cycles[l]])
        /\ s.fees = GridFee * Sum([l \in DOMAIN s.buys |->
                       Units(l) * (s.buys[l] * Bought(l) + (s.buys[l] + 1) * s.cycles[l])])
        /\ \A l \in DOMAIN s.buys :
              /\ s.cycles[l] <= Touched(LAMBDA c : c.high > s.buys[l])
              /\ Bought(l) <= Touched(LAMBDA c : c.low <= s.buys[l])
                                 + IF s.buys[l] >= grid.candles[1].open THEN 1 ELSE 0
        /\ Sum([l \in {k \in DOMAIN s.buys : s.held[k]} |-> s.buys[l] * Units(l)]) <= Capital
        /\ s.worst <= Capital
        (* A scenario that passes did not lose money in all its windows.   *)
        /\ _evaluate_grid_scenario /\ grid.min_window_rate # <<>> => ProfitableWindows # {}
        /\ _regression_passes(s, _backtest_days(grid.candles))
              => s.gross * GridFeeScale > s.fees /\ \E l \in DOMAIN s.buys : s.cycles[l] > 0

(* A suggested grid lies above zero, its steps are worth their fees, and   *)
(* no grid of more levels would do.                                        *)
AdviceIsSound ==
    LET g == suggest_grid
    IN  AdviceIsGiven =>
           /\ g.half_range[1] < Price * g.half_range[2]
           /\ WideEnough(g.half_range, g.n_levels)
           /\ \A n \in (g.n_levels + 1)..target_n_levels :
                 ~WideEnough(HalfRange, n)

(* A sweep that passes found a configuration that earned enough and was    *)
(* profitable in half of its windows, and one that was profitable in more  *)
(* windows is left aside only if as many others as are tried yield as much.*)
SweepIsSound ==
    LET r == grid.results
        k == _run_walk_forward
    IN  _print_walk_forward_gate =>
           /\ r[k].yield > 0 /\ 2 * r[k].profitable >= GridWindows
           /\ \A j \in DOMAIN r :
                 r[j].profitable > r[k].profitable /\ r[j].yield > 0 =>
                    Cardinality({i \in DOMAIN r \ {j} : r[i].yield >= r[j].yield}) >= TopConfigs

(* Research on grids does not flatter them. *)
GridResearchAddsUp ==
    /\ grid.about = "backtest" => BooksBalance
    /\ grid.about = "advice" => AdviceIsSound
    /\ grid.about = "sweep" => SweepIsSound

=============================================================================
