----------------------------- MODULE Simulation -----------------------------
(***************************************************************************)
(* How the backtest executes one signal (SimulationExecutionService): the  *)
(* entry at the open of the next candle, then candle after candle until    *)
(* the stop or the target is touched or the time is up.                    *)
(*                                                                         *)
(* Prices are small integers.  The spread and the slippage, fractions of a *)
(* price in the code, move a price by a fixed number of ticks; a fee rate  *)
(* is the fee on a price of FeeScale.  Amounts are for one unit: the risk  *)
(* amount buys RiskAmount / risk units.  The legacy fee shortcut is the    *)
(* choice of equal rates, no spread, no slippage and no delay.             *)
(***************************************************************************)
EXTENDS Integers, Sequences

CONSTANTS
    Prices,         \* bound: prices of candles and signals
    MaxFuture,      \* bound: candles after the signal
    max_hold_candles,
    HalfSpread, Slippage,      \* in ticks
    MakerRate, TakerRate, FeeScale,
    RiskAmount, MinNotional, Equity

ASSUME SimulationAssumption ==
    /\ Prices \subseteq Nat \ {0}
    /\ {max_hold_candles, FeeScale, RiskAmount} \subseteq Nat \ {0}
    /\ {MaxFuture, HalfSpread, Slippage, MakerRate, TakerRate, MinNotional, Equity}
          \subseteq Nat

VARIABLE sim  \* the settings, the signal, the candles after it, its luck

SimCandle == {c \in [open : Prices, high : Prices, low : Prices, close : Prices] :
                 /\ c.low <= c.open /\ c.open <= c.high
                 /\ c.low <= c.close /\ c.close <= c.high}

(* Strategies put the entry between the stop and the target. *)
SimSignal == {s \in [direction : {"long", "short"}, entry : Prices,
                     stop : Prices, target : Prices] :
                 IF s.direction = "long"
                 THEN s.stop < s.entry /\ s.entry < s.target
                 ELSE s.target < s.entry /\ s.entry < s.stop}

SimInit ==
    \E n \in 0..MaxFuture :
       sim \in [one_bar_execution_delay : BOOLEAN, spot : BOOLEAN,
                signal : SimSignal, future : [1..n -> SimCandle],
                entry_maker : BOOLEAN, exit_maker : BOOLEAN]

-----------------------------------------------------------------------------
Sgn(direction) == IF direction = "long" THEN 1 ELSE -1

Distance(a, b) == IF a < b THEN b - a ELSE a - b

(* Buying costs the spread, selling gives it away; a maker pays none. *)
_apply_spread(price, side, maker) ==
    price + (IF maker THEN 0 ELSE IF side = "buy" THEN HalfSpread ELSE -HalfSpread)

_entry_side(direction) == IF direction = "long" THEN "buy" ELSE "sell"
_exit_side(direction)  == IF direction = "long" THEN "sell" ELSE "buy"

_apply_slippage(price, direction) == price - Sgn(direction) * Slippage

Rate(maker) == IF maker THEN MakerRate ELSE TakerRate

(* Mutant: the entry is priced with what only the end of the candle tells. *)
EntersAtClose ==
    IF sim.one_bar_execution_delay THEN sim.future[1].close ELSE sim.signal.entry

_resolve_entry_price ==
    IF sim.one_bar_execution_delay THEN sim.future[1].open ELSE sim.signal.entry

EntryPrice ==
    _apply_spread(_resolve_entry_price, _entry_side(sim.signal.direction), sim.entry_maker)

Risk == Distance(EntryPrice, sim.signal.stop)

-----------------------------------------------------------------------------
(* Results.  Amounts are scaled by FeeScale. *)

NoTrade(reason, status) ==
    [reason |-> reason, status |-> status, hold |-> 0, raw |-> 0, gain |-> 0,
     fees |-> 0, ambiguous |-> FALSE]

_build_result(reason, hold, raw, exit, exit_rate, ambiguous) ==
    [reason |-> reason, status |-> "closed", hold |-> hold, raw |-> raw,
     gain |-> FeeScale * Sgn(sim.signal.direction) * (exit - EntryPrice),
     fees |-> EntryPrice * Rate(sim.entry_maker) + exit * exit_rate,
     ambiguous |-> ambiguous]

stop_hit(c) == IF sim.signal.direction = "long" THEN c.low <= sim.signal.stop
                                                ELSE c.high >= sim.signal.stop

target_hit(c) == IF sim.signal.direction = "long" THEN c.high >= sim.signal.target
                                                  ELSE c.low <= sim.signal.target

(* Mutant: the stop is always filled at its price. *)
FillsAtStop(c) == sim.signal.stop

(* A candle that opens beyond the stop fills it at the open. *)
_resolve_stop_exit_price(c) ==
    IF Sgn(sim.signal.direction) * (c.open - sim.signal.stop) < 0
    THEN c.open ELSE sim.signal.stop

_build_stop_result(i) ==
    LET c == sim.future[i]
        raw == _resolve_stop_exit_price(c)
    IN  _build_result("sl_hit", i, raw, _apply_slippage(raw, sim.signal.direction),
                      TakerRate, target_hit(c))

_build_target_result(i) ==
    _build_result("tp_hit", i, sim.signal.target,
                  _apply_spread(sim.signal.target, _exit_side(sim.signal.direction),
                                sim.exit_maker),
                  Rate(sim.exit_maker), FALSE)

_build_timeout_result ==
    LET n == IF max_hold_candles < Len(sim.future) THEN max_hold_candles
                                                   ELSE Len(sim.future)
        raw == sim.future[n].close
    IN  _build_result("timeout", n, raw, _apply_slippage(raw, sim.signal.direction),
                      TakerRate, FALSE)

Held == {i \in 1..Len(sim.future) : i <= max_hold_candles}

Touched == {i \in Held : stop_hit(sim.future[i]) \/ target_hit(sim.future[i])}

FirstTouch == CHOOSE i \in Touched : \A j \in Touched : i <= j

(* Mutant: a candle that touches both is a win. *)
TargetFirst(i) == IF target_hit(sim.future[i]) THEN _build_target_result(i)
                                               ELSE _build_stop_result(i)

_evaluate_candle_exit(i) == IF stop_hit(sim.future[i]) THEN _build_stop_result(i)
                                                       ELSE _build_target_result(i)

(* The notional of RiskAmount / Risk units, compared without dividing. *)
BelowMinNotional == EntryPrice * RiskAmount < MinNotional * Risk
AboveEquity      == EntryPrice * RiskAmount > Equity * Risk

execute_replay_signal ==
    IF sim.spot /\ sim.signal.direction = "short"
    THEN NoTrade("rejected_short_signal", "skipped")
    ELSE IF sim.future = <<>> \/ Risk = 0 THEN NoTrade("timeout", "closed")
    ELSE IF sim.spot /\ BelowMinNotional THEN NoTrade("min_notional", "skipped")
    ELSE IF sim.spot /\ AboveEquity THEN NoTrade("insufficient_capital", "skipped")
    ELSE IF Touched # {} THEN _evaluate_candle_exit(FirstTouch)
    ELSE _build_timeout_result

-----------------------------------------------------------------------------
(* Properties *)

SimTypeOK ==
    LET r == execute_replay_signal
    IN  /\ r.reason \in {"sl_hit", "tp_hit", "timeout", "rejected_short_signal",
                         "min_notional", "insufficient_capital"}
        /\ r.status \in {"closed", "skipped"}
        /\ r.hold \in 0..max_hold_candles
        /\ r.status = "skipped" => r.gain = 0 /\ r.fees = 0
        /\ sim.spot /\ sim.signal.direction = "short" => r.status = "skipped"

(* A backtest may be too pessimistic, never too optimistic: a trade is not *)
(* closed at a price better than the best of its last candle, and no       *)
(* earlier candle would have closed it.                                    *)
ExitsArePossible ==
    LET r == execute_replay_signal
        c == sim.future[r.hold]
    IN  r.hold > 0 =>
           /\ IF sim.signal.direction = "long" THEN r.raw <= c.high ELSE r.raw >= c.low
           /\ \A i \in 1..(r.hold - 1) :
                 ~stop_hit(sim.future[i]) /\ ~target_hit(sim.future[i])

(* A stop costs what the position was sized for and the slippage, unless   *)
(* its candle opened beyond the stop; a candle that touches stop and       *)
(* target never counts as a profit.                                        *)
LossIsBounded ==
    LET r == execute_replay_signal
        c == sim.future[r.hold]
    IN  /\ r.reason = "sl_hit" /\ Sgn(sim.signal.direction) * (c.open - sim.signal.stop) >= 0
              => -r.gain <= FeeScale * (Risk + Slippage)
        /\ r.hold > 0 /\ stop_hit(c) => r.gain <= 0

(* A target that was reached paid at least its distance less the spread,   *)
(* unless the delayed entry was already beyond the target.                 *)
TargetPays ==
    LET r == execute_replay_signal
    IN  r.reason = "tp_hit" =>
           \/ /\ sim.one_bar_execution_delay
              /\ Sgn(sim.signal.direction) * (sim.future[1].open - sim.signal.target) >= 0
           \/ r.gain >= FeeScale * (1 - 2 * HalfSpread)

(* What the backtest reports for a signal could have happened, and would   *)
(* not have been better.                                                   *)
BacktestIsNotOptimistic == ExitsArePossible /\ LossIsBounded /\ TargetPays

=============================================================================
