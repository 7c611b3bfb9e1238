------------------------------- MODULE Replay -------------------------------
(***************************************************************************)
(* The replay of a history (HistoricalReplayRunner): one step for each     *)
(* candle.  A step closes the trades that are due, asks the strategy for a *)
(* signal, applies the limits of a portfolio, and executes the signal.     *)
(* The simulated execution looks ahead and says at once when the trade     *)
(* will be closed and what it will have earned; the portfolio learns it    *)
(* from a scheduled closure, at the step where it would have been known.   *)
(*                                                                         *)
(* A net result is -1, 0 or 1.                                             *)
(***************************************************************************)
EXTENDS Integers, Sequences, SequencesExt, FiniteSets

CONSTANTS
    ReplaySymbols,
    max_open_positions, max_trades_per_day, cooldown_candles,
    hard_pause_consecutive_losses,
    required_candle_count,  \* of the strategy
    Candles,                \* bound: candles of the history
    MaxHold,                \* bound: candles a trade is held
    MaxDays                 \* bound: days of the history

ASSUME ReplayAssumption ==
    /\ {max_open_positions, max_trades_per_day, hard_pause_consecutive_losses,
        required_candle_count, MaxDays} \subseteq Nat \ {0}
    /\ {cooldown_candles, Candles, MaxHold} \subseteq Nat
    /\ IsFiniteSet(ReplaySymbols)

VARIABLES
    request,    \* start_step and end_step, -1 for none
    step,       \* the step that comes next
    day,        \* the date of its candle
    dawn,       \* history: the first step of that date
    portfolio,  \* ReplayPortfolioState
    closures,   \* scheduled_closures: what closes at a step, as it was scheduled
    log         \* history: the executed trades

replayVars == <<request, step, day, dawn, portfolio, closures, log>>

CloseSteps == 0..(Candles + MaxHold)

(* The steps of a request; none when the request is refused. *)
minimum_step == required_candle_count - 1

start_step(q) == IF q.start = -1 THEN minimum_step ELSE q.start
end_step(q) == IF q.end = -1 THEN Candles ELSE q.end

AcceptedRequest(q) ==
    /\ Candles >= required_candle_count
    /\ start_step(q) >= minimum_step
    /\ start_step(q) <= end_step(q) /\ end_step(q) <= Candles

ReplayInit ==
    /\ request \in {q \in [start : -1..Candles, end : -1..Candles] : AcceptedRequest(q)}
    /\ step = start_step(request)
    /\ day = 1 /\ dawn = step
    /\ portfolio = [open |-> {}, cooldown_until |-> [s \in ReplaySymbols |-> -1],
                    daily_trades |-> [d \in 1..MaxDays |-> 0],
                    consecutive_losses |-> 0, halted |-> FALSE, date |-> 0]
    /\ closures = [t \in CloseSteps |-> <<>>]
    /\ log = <<>>

-----------------------------------------------------------------------------
_reset_daily_circuit_breaker(p) ==
    IF p.date = day THEN p
    ELSE [p EXCEPT !.date = day, !.consecutive_losses = 0, !.halted = FALSE]

(* Mutant: the loss after the limit halts. *)
HaltsLate(p, net) ==
    IF net > 0 THEN [p EXCEPT !.consecutive_losses = 0]
    ELSE IF net < 0
         THEN [p EXCEPT !.consecutive_losses = @ + 1,
                        !.halted = @ \/ p.consecutive_losses
                                           >= hard_pause_consecutive_losses]
    ELSE p

(* A result of zero neither extends nor ends a streak. *)
WithResult(p, net) ==
    IF net > 0 THEN [p EXCEPT !.consecutive_losses = 0]
    ELSE IF net < 0
         THEN [p EXCEPT !.consecutive_losses = @ + 1,
                        !.halted = @ \/ p.consecutive_losses + 1
                                           >= hard_pause_consecutive_losses]
    ELSE p

(* Mutant: the cooldown counts from the entry. *)
CoolsFromEntry(p, c) ==
    WithResult([p EXCEPT !.open = @ \ {c.symbol},
                         !.cooldown_until[c.symbol] = c.entry_step + cooldown_candles,
                         !.daily_trades[c.entry_day] = @ + 1],
               c.net)

_record_closed_trade(p, c) ==
    WithResult([p EXCEPT !.open = @ \ {c.symbol},
                         !.cooldown_until[c.symbol] = c.close_step + cooldown_candles,
                         !.daily_trades[c.entry_day] = @ + 1],
               c.net)

_apply_scheduled_closures(p) == FoldLeft(_record_closed_trade, p, closures[step])

(* The portfolio that the signal of this step meets. *)
Current == _apply_scheduled_closures(_reset_daily_circuit_breaker(portfolio))

(* The closures of this step are taken off the schedule. *)
NotDue == [closures EXCEPT ![step] = <<>>]

(* Mutant: the last trade of the day is one too many. *)
AllowsOneMore(p, s) ==
    /\ ~p.halted
    /\ s \notin p.open
    /\ Cardinality(p.open) < max_open_positions
    /\ step > p.cooldown_until[s]
    /\ p.daily_trades[day] <= max_trades_per_day

_can_execute_signal(p, s) ==
    /\ ~p.halted
    /\ s \notin p.open
    /\ Cardinality(p.open) < max_open_positions
    /\ step > p.cooldown_until[s]
    /\ p.daily_trades[day] < max_trades_per_day

-----------------------------------------------------------------------------
(* A step of the replay.  The next candle may be of a new day. *)

(* Mutant: one step too many. *)
NextCandleInclusive ==
    /\ step <= end_step(request)
    /\ step' = step + 1
    /\ day' \in {day, day + 1} /\ day' <= MaxDays
    /\ dawn' = IF day' = day THEN dawn ELSE step'
    /\ UNCHANGED request

NextCandle ==
    /\ step < end_step(request)
    /\ step' = step + 1
    /\ day' \in {day, day + 1} /\ day' <= MaxDays
    /\ dawn' = IF day' = day THEN dawn ELSE step'
    /\ UNCHANGED request

(* No signal, one that the portfolio refuses, or a skipped execution. *)
NoTradeStep ==
    /\ NextCandle
    /\ portfolio' = Current
    /\ closures' = NotDue
    /\ UNCHANGED log

(* Mutant: a trade that ends at once is scheduled like any other. *)
AlwaysSchedules(c) ==
    /\ portfolio' = [Current EXCEPT !.open = @ \cup {c.symbol}]
    /\ closures' = [NotDue EXCEPT ![c.close_step] = Append(@, c)]

_track_execution(c) ==
    IF c.close_step <= step
    THEN /\ portfolio' = _record_closed_trade(Current, c)
         /\ closures' = NotDue
    ELSE /\ portfolio' = [Current EXCEPT !.open = @ \cup {c.symbol}]
         /\ closures' = [NotDue EXCEPT ![c.close_step] = Append(@, c)]

ExecuteStep(s, hold, net) ==
    LET c == [symbol |-> s, entry_step |-> step, close_step |-> step + hold,
              entry_day |-> day, dawn |-> dawn, net |-> net]
    IN  /\ NextCandle
        /\ _can_execute_signal(Current, s)
        /\ _track_execution(c)
        /\ log' = Append(log, c)

ReplayNext ==
    \/ NoTradeStep
    \/ \E s \in ReplaySymbols, hold \in 0..MaxHold, net \in {-1, 0, 1} :
          (hold = 0 => net = 0) /\ ExecuteStep(s, hold, net)

ReplaySpec == ReplayInit /\ [][ReplayNext]_replayVars

-----------------------------------------------------------------------------
(* Properties *)

Trades == 1..Len(log)

ReplayTypeOK ==
    /\ step \in 0..Candles /\ day \in 1..MaxDays
    /\ portfolio.open \subseteq ReplaySymbols
    /\ portfolio.halted \in BOOLEAN
    /\ portfolio.consecutive_losses <= Len(log)

(* Two trades of a symbol are a cooldown apart, and no more trades overlap *)
(* than there are positions, though trades are closed by their schedule.   *)
TradesKeepTheirDistance ==
    /\ \A i, j \in Trades :
          i < j /\ log[i].symbol = log[j].symbol
             => log[j].entry_step > log[i].close_step + cooldown_candles
    /\ \A t \in 0..Candles :
          Cardinality({i \in Trades : log[i].entry_step <= t /\ t < log[i].close_step})
             <= max_open_positions

(* The trades of a day are counted when they close, under their day of     *)
(* entry: a day exceeds its limit by the trades that are open at most.     *)
DayLimitIsClose ==
    \A d \in 1..MaxDays :
       Cardinality({i \in Trades : log[i].entry_day = d})
          <= max_trades_per_day + max_open_positions - 1

(* No trade of an open symbol is forgotten: its closure is still to come.  *)
OpenTradesWillClose ==
    /\ \A t \in CloseSteps : t < step => closures[t] = <<>>
    /\ \A s \in portfolio.open : \E t \in CloseSteps : \E k \in 1..Len(closures[t]) :
          closures[t][k].symbol = s

(* Between the beginning of a day and an entry, the trades that closed do  *)
(* not hold as many losses in a row as halt the session, whatever the      *)
(* order in which overlapping trades were entered and closed.              *)
NoEntryAfterStreak ==
    \A j \in Trades :
       LET closed == {i \in 1..(j - 1) : /\ log[i].net # 0
                                        /\ log[i].close_step \in log[j].dawn..log[j].entry_step}
           before(a, b) == \/ log[a].close_step < log[b].close_step
                           \/ log[a].close_step = log[b].close_step /\ a < b
       IN  \A streak \in SUBSET closed :
              /\ \A i \in streak : log[i].net < 0
              /\ \A i \in closed \ streak : \A a, b \in streak : ~(before(a, i) /\ before(i, b))
              => Cardinality(streak) < hard_pause_consecutive_losses

(* Although a closure is known in advance and told later, the limits of a  *)
(* portfolio hold for the trades as they overlap in time.                  *)
PortfolioLimitsHold ==
    TradesKeepTheirDistance /\ DayLimitIsClose /\ OpenTradesWillClose /\ NoEntryAfterStreak

=============================================================================
