----------------------------- MODULE Strategies -----------------------------
(***************************************************************************)
(* The strategies (strategy_engine/): from a window of candles to a signal *)
(* or none.  Averages, ranges and oscillators are computed exactly, as     *)
(* ratios <<numerator, denominator>>; a set holds the signal, if any.      *)
(*                                                                         *)
(* The periods and multiples, of which every strategy has its own in the   *)
(* code, are scaled down and shared.  Realised volatility and the volume   *)
(* against its median are inputs: calm and volume_confirms.  All candles   *)
(* have the same volume.  A window is as long as the indicators need; a    *)
(* shorter one is an error in the code.                                    *)
(***************************************************************************)
EXTENDS Integers, Sequences, SequencesExt, FiniteSets, FiniteSetsExt

CONSTANTS
    StrategyCloses, Wicks,          \* bound: closes, and shadows around them
    SwingCloses,                    \* bound: closes of the long windows
    WindowLength, LongWindowLength, \* bound
    FastPeriod, SlowPeriod, AtrPeriod, RsiPeriod,
    LookbackPeriod, TrendCandles,
    BandPeriod, SqueezeLookback,
    SwingWing, SwingLookback,
    MinRRR, StopMultiple, TargetMultiple, ReversionStop,  \* ratios
    MinDeviation, CostFraction, VwapTolerance, Offset,  \* ratios
    MinDayCandles, AdxPeriod, AdxThreshold, RsiLong, RsiShort

ASSUME StrategyAssumption ==
    /\ StrategyCloses \cup SwingCloses \subseteq Nat \ {0} /\ Wicks \subseteq Nat
    /\ {WindowLength, LongWindowLength, FastPeriod, SlowPeriod, AtrPeriod, RsiPeriod,
        BandPeriod, AdxPeriod, SwingWing, LookbackPeriod, TrendCandles, MinDayCandles}
          \subseteq Nat \ {0}
    /\ WindowLength # LongWindowLength
    /\ {SqueezeLookback, SwingLookback} \subseteq Nat
    /\ \A n \in {SlowPeriod, AtrPeriod, RsiPeriod, AdxPeriod} : n < WindowLength
    /\ BandPeriod + SqueezeLookback + 1 <= WindowLength
    /\ RsiPeriod + SwingLookback + 2 * SwingWing <= LongWindowLength
    /\ {MinRRR, StopMultiple, TargetMultiple, ReversionStop} \subseteq (Nat \ {0}) \X (Nat \ {0})
    /\ {MinDeviation, CostFraction, VwapTolerance, Offset} \subseteq Nat \X (Nat \ {0})

VARIABLE window

Candle(close, wick) == [close |-> close, high |-> close + wick, low |-> close - wick]

Windows(n, closes, wicks) ==
    [candles : [1..n -> {Candle(p, w) : p \in closes, w \in wicks}],
     today : {MinDayCandles - 1, n}, volume_confirms : BOOLEAN, calm : BOOLEAN]

(* At most one of the filters refuses. *)
StrategyInit ==
    \/ window \in {w \in Windows(WindowLength, StrategyCloses, Wicks) :
                      \/ w.today = WindowLength /\ (w.volume_confirms \/ w.calm)
                      \/ w.volume_confirms /\ w.calm}
    \/ window \in {w \in Windows(LongWindowLength, SwingCloses, {0}) :
                      w.today = LongWindowLength /\ w.volume_confirms /\ w.calm}

-----------------------------------------------------------------------------
(* Ratios *)

Whole(n)   == <<n, 1>>
RAdd(a, b) == <<a[1] * b[2] + b[1] * a[2], a[2] * b[2]>>
RSub(a, b) == <<a[1] * b[2] - b[1] * a[2], a[2] * b[2]>>
RMul(a, b) == <<a[1] * b[1], a[2] * b[2]>>
RDist(a, b) == LET d == RSub(a, b) IN <<IF d[1] < 0 THEN -d[1] ELSE d[1], d[2]>>
RLess(a, b) == a[1] * b[2] < b[1] * a[2]
RLeq(a, b)  == a[1] * b[2] <= b[1] * a[2]
RMin(a, b)  == IF RLess(b, a) THEN b ELSE a
RMax(a, b)  == IF RLess(a, b) THEN b ELSE a

Abs(n) == IF n < 0 THEN -n ELSE n

SumSeq(s) == FoldLeft(LAMBDA x, y : x + y, 0, s)

LastOf(s, n) == SubSeq(s, Max({1, Len(s) - n + 1}), Len(s))

-----------------------------------------------------------------------------
(* Indicators; of a list of values each gives the last one. *)

Closes(cs) == [i \in DOMAIN cs |-> cs[i].close]

_calculate_ema(values, period) ==
    FoldLeft(LAMBDA e, v : <<2 * v * e[2] + (period - 1) * e[1], (period + 1) * e[2]>>,
             Whole(values[1]), Tail(values))

true_ranges(cs) ==
    [i \in 1..(Len(cs) - 1) |->
        Max({cs[i + 1].high - cs[i + 1].low, Abs(cs[i + 1].high - cs[i].close),
             Abs(cs[i + 1].low - cs[i].close)})]

(* Wilder's smoothing, seeded with a plain average. *)
Smoothed(values, period) ==
    FoldLeft(LAMBDA a, v : <<(period - 1) * a[1] + v * a[2], period * a[2]>>,
             <<SumSeq(SubSeq(values, 1, period)), period>>,
             SubSeq(values, period + 1, Len(values)))

_calculate_atr(cs) == Smoothed(true_ranges(cs), AtrPeriod)

(* In per cent; 100 when nothing was lost. *)
_calculate_rsi(closes) ==
    LET delta(i) == closes[i + 1] - closes[i]
        gain == Smoothed([i \in 1..(Len(closes) - 1) |-> Max({delta(i), 0})], RsiPeriod)
        loss == Smoothed([i \in 1..(Len(closes) - 1) |-> Max({-delta(i), 0})], RsiPeriod)
    IN  IF loss[1] = 0 THEN Whole(100) ELSE <<100 * gain[1], gain[1] + loss[1]>>

(* Deviations of period values, times period; their square sum likewise. *)
BandOf(closes, i) ==
    LET w == SubSeq(closes, i - BandPeriod + 1, i)
    IN  [sum |-> SumSeq(w),
         spread |-> BandPeriod * SumSeq([k \in DOMAIN w |-> w[k] * w[k]]) - SumSeq(w) * SumSeq(w)]

(* A band of one standard deviation; its width relative to its middle,     *)
(* squared.                                                                *)
WidthOf(closes, i) ==
    LET b == BandOf(closes, i) IN <<b.spread, b.sum * b.sum>>

(* How far a close lies beyond the band on the side of the sign. *)
BeyondBand(closes, sign) ==
    LET b == BandOf(closes, Len(closes))
        d == sign * (BandPeriod * Last(closes) - b.sum)
    IN  d > 0 /\ d * d > b.spread

_calculate_dx(plus, minus, range) ==
    IF range[1] = 0 \/ plus[1] + minus[1] = 0 THEN Whole(0)
    ELSE <<100 * Abs(plus[1] - minus[1]), plus[1] + minus[1]>>

(* The directional movement over the first k moves. *)
DirectionalIndex(cs, k) ==
    LET up(i)   == cs[i + 1].high - cs[i].high
        down(i) == cs[i].low - cs[i + 1].low
        plus  == [i \in 1..k |-> IF up(i) > down(i) /\ up(i) > 0 THEN up(i) ELSE 0]
        minus == [i \in 1..k |-> IF down(i) > up(i) /\ down(i) > 0 THEN down(i) ELSE 0]
    IN  _calculate_dx(Smoothed(plus, AdxPeriod), Smoothed(minus, AdxPeriod),
                      Smoothed(SubSeq(true_ranges(cs), 1, k), AdxPeriod))

_calculate_adx(cs) ==
    LET dx   == [j \in 1..(Len(cs) - AdxPeriod) |-> DirectionalIndex(cs, AdxPeriod + j - 1)]
        seed == Min({AdxPeriod, Len(dx)})
        sum  == FoldLeft(RAdd, Whole(0), SubSeq(dx, 1, seed))
    IN  FoldLeft(LAMBDA a, d : RMul(<<1, AdxPeriod>>, RAdd(RMul(Whole(AdxPeriod - 1), a), d)),
                 <<sum[1], sum[2] * seed>>, SubSeq(dx, seed + 1, Len(dx)))

_adx_value == _calculate_adx(window.candles)

_calculate_intraday_vwap ==
    LET day == LastOf(window.candles, window.today)
    IN  <<SumSeq([i \in DOMAIN day |-> day[i].high + day[i].low + day[i].close]), 3 * Len(day)>>

-----------------------------------------------------------------------------
(* Signals *)

Signal(direction, entry, stop, target) ==
    [direction |-> direction, entry |-> entry, stop |-> stop, target |-> target]

(* Mutant: any reward will do. *)
AnyReward(direction, entry, stop, target) ==
    IF RDist(entry, stop)[1] = 0 THEN {} ELSE {Signal(direction, entry, stop, target)}

_build_signal(direction, entry, stop, target) ==
    LET risk == RDist(entry, stop)
    IN  IF risk[1] = 0 \/ RLess(RDist(target, entry), RMul(MinRRR, risk)) THEN {}
        ELSE {Signal(direction, entry, stop, target)}

(* A sign of 1 is a long signal, of -1 a short one. *)
Direction(sign) == IF sign = 1 THEN "long" ELSE "short"

Away(entry, sign, distance) == RAdd(entry, RMul(Whole(sign), distance))

Above(a, b, sign) == IF sign = 1 THEN RLess(b, a) ELSE RLess(a, b)

Extreme(c, sign) == IF sign = 1 THEN c.low ELSE c.high

Entry == Whole(Last(window.candles).close)

(* Mutant: a stop on the wrong side is not refused. *)
StopAnywhere(sign) ==
    LET closes == Closes(window.candles)
        fast == _calculate_ema(closes, FastPeriod)
        slow == _calculate_ema(closes, SlowPeriod)
        stop == Whole(Extreme(Last(window.candles), -sign))
    IN  IF /\ ~Above(_calculate_ema(Front(closes), FastPeriod),
                     _calculate_ema(Front(closes), SlowPeriod), sign)
           /\ Above(fast, slow, sign) /\ Above(Entry, fast, sign)
        THEN _build_signal(Direction(sign), Entry, stop,
                           Away(Entry, sign, RMul(Whole(2), RDist(Entry, stop))))
        ELSE {}

ema_crossover(sign) ==
    LET closes == Closes(window.candles)
        fast == _calculate_ema(closes, FastPeriod)
        slow == _calculate_ema(closes, SlowPeriod)
        stop == Whole(Extreme(Last(window.candles), sign))
    IN  IF /\ ~Above(_calculate_ema(Front(closes), FastPeriod),
                     _calculate_ema(Front(closes), SlowPeriod), sign)
           /\ Above(fast, slow, sign) /\ Above(Entry, fast, sign)
           /\ Above(Entry, stop, sign)
        THEN _build_signal(Direction(sign), Entry, stop,
                           Away(Entry, sign, RMul(Whole(2), RDist(Entry, stop))))
        ELSE {}

(* The range of the candles before the last one. *)
breakout(sign) ==
    LET before == LastOf(Front(window.candles), LookbackPeriod)
        limit  == IF sign = 1 THEN Max({before[i].high : i \in DOMAIN before})
                              ELSE Min({before[i].low : i \in DOMAIN before})
        stop   == Away(Entry, -sign, _calculate_atr(window.candles))
    IN  IF /\ window.calm /\ window.volume_confirms
           /\ Above(Entry, Whole(limit), sign)
           /\ Above(Entry, _calculate_ema(Closes(window.candles), SlowPeriod), sign)
        THEN _build_signal(Direction(sign), Entry, stop,
                           Away(Entry, sign, RMul(MinRRR, RDist(Entry, stop))))
        ELSE {}

(* A stop that is not beyond the entry is an error. *)
bb_squeeze(sign) ==
    LET closes == Closes(window.candles)
        n == Len(closes)
        past == Max({BandPeriod, n - SqueezeLookback - 1})..(n - 2)
        stop == Away(Entry, -sign, RMul(Whole(2), _calculate_atr(window.candles)))
    IN  IF /\ past # {}
           /\ \A i \in past : RLeq(WidthOf(closes, n - 1), WidthOf(closes, i))
           /\ BeyondBand(closes, sign)
           /\ sign * (closes[n] - closes[n - 1]) > 0
        THEN IF ~Above(Entry, stop, sign) THEN {Signal("ValueError", Entry, stop, Entry)}
             ELSE {Signal(Direction(sign), Entry, stop,
                          Away(Entry, sign, RMul(MinRRR, RDist(Entry, stop))))}
        ELSE {}

ema_pullback(sign) ==
    LET cs == window.candles
        closes == Closes(cs)
        early == SubSeq(closes, 1, Len(closes) - TrendCandles + 1)
        fast == _calculate_ema(closes, FastPeriod)
        atr == _calculate_atr(cs)
        rsi == _calculate_rsi(closes)
        Near(c) == RLeq(RDist(Whole(Extreme(c, sign)), fast), RMul(<<4, 5>>, atr))
        recent == LastOf(cs, 5)
        swing == IF sign = 1 THEN Min({recent[i].low : i \in DOMAIN recent})
                             ELSE Max({recent[i].high : i \in DOMAIN recent})
        swing_stop == Away(Whole(swing), -sign, RMul(Offset, Entry))
        atr_stop == Away(Entry, -sign, RMul(StopMultiple, atr))
        stop == IF sign = 1 THEN RMax(swing_stop, atr_stop) ELSE RMin(swing_stop, atr_stop)
    IN  IF /\ Above(fast, _calculate_ema(closes, SlowPeriod), sign)
           /\ Above(_calculate_ema(early, FastPeriod), _calculate_ema(early, SlowPeriod), sign)
           /\ \E i \in DOMAIN LastOf(cs, 3) : Near(LastOf(cs, 3)[i])
           /\ Above(Entry, fast, sign)
           /\ IF sign = 1 THEN RLeq(Whole(40), rsi) /\ RLeq(rsi, Whole(70))
                          ELSE RLeq(Whole(30), rsi) /\ RLeq(rsi, Whole(60))
           /\ window.volume_confirms
           /\ Above(Entry, stop, sign)
        THEN _build_signal(Direction(sign), Entry, stop,
                           Away(Entry, sign, RMul(TargetMultiple, RDist(Entry, stop))))
        ELSE {}

(* Closes that are the extreme of their neighbourhood. *)
_find_swings(values, sign) ==
    {i \in (SwingWing + 1)..(Len(values) - SwingWing) :
        \A k \in 1..SwingWing : /\ sign * values[i] < sign * values[i - k]
                                /\ sign * values[i] < sign * values[i + k]}

(* The price makes a new extreme that the oscillator does not confirm; the *)
(* second swing has to be recent.                                          *)
_check_divergence(sign) ==
    LET closes == Closes(window.candles)
        size   == SwingLookback + 2 * SwingWing
        first  == Len(closes) - size
        search == LastOf(closes, size)
        swings == _find_swings(search, sign)
        i2 == Max(swings)
        i1 == Max(swings \ {i2})
        Rsi(i) == _calculate_rsi(SubSeq(closes, 1, first + i))
        stop == Away(Whole(Extreme(window.candles[first + i2], sign)), -sign,
                     RMul(Offset, Whole(Extreme(window.candles[first + i2], sign))))
    IN  IF /\ Cardinality(swings) >= 2
           /\ i2 - 1 >= size - 2 * SwingWing - 3
           /\ sign * search[i2] < sign * search[i1]
           /\ Above(Rsi(i2), Rsi(i1), sign)
           /\ Above(Entry, stop, sign)
        THEN _build_signal(Direction(sign), Entry, stop,
                           Away(Entry, sign, RMul(TargetMultiple, RDist(Entry, stop))))
        ELSE {}

(* Both divergences may hold at once: the bullish one is looked for first. *)
rsi_divergence ==
    IF _check_divergence(1) # {} THEN _check_divergence(1) ELSE _check_divergence(-1)

regime_allows(closes) ==
    LET fast == _calculate_ema(closes, FastPeriod)
        slow == _calculate_ema(closes, SlowPeriod)
    IN  /\ RLess(fast, Whole(Last(closes))) /\ RLess(slow, fast)
        /\ RLess(_calculate_ema(Front(closes), FastPeriod), fast)
        /\ RLess(_calculate_ema(Front(closes), SlowPeriod), slow)

(* Without a score there is no signal; its sign is of no importance here.  *)
ts_momentum ==
    LET atr  == _calculate_atr(window.candles)
        stop == Away(Entry, -1, RMul(StopMultiple, atr))
    IN  IF /\ regime_allows(Closes(window.candles)) /\ window.calm
           /\ atr[1] > 0 /\ window.volume_confirms
        THEN {Signal("long", Entry, stop, Away(Entry, 1, RMul(MinRRR, RDist(Entry, stop))))}
        ELSE {}

(* The sign is that of the trade: the price is beyond the average on the   *)
(* other side and has turned.                                              *)
Reverts(sign, deviation, low, high) ==
    LET cs == window.candles
        vwap == _calculate_intraday_vwap
        rsi == _calculate_rsi(Closes(cs))
    IN  /\ window.today >= MinDayCandles
        /\ Above(vwap, Entry, sign) /\ ~RLess(RDist(Entry, vwap), RMul(deviation, vwap))
        /\ sign * (Last(cs).close - cs[Len(cs) - 1].close) > 0
        /\ IF sign = 1 THEN RLess(rsi, Whole(low)) ELSE RLess(Whole(high), rsi)

vwap_reversion(sign) ==
    LET stop == Away(Entry, -sign, RMul(ReversionStop, _calculate_atr(window.candles)))
    IN  IF /\ Reverts(sign, MinDeviation, 35, 65)
           /\ RLess(RMul(MinDeviation, _calculate_intraday_vwap),
                    RDist(Entry, _calculate_intraday_vwap))
        THEN _build_signal(Direction(sign), Entry, stop, _calculate_intraday_vwap)
        ELSE {}

(* The target pays the costs of both sides, and has to lie short of the    *)
(* average or just beyond it.                                              *)
vwap_reversion_v2(sign) ==
    LET stop == Away(Entry, -sign, RMul(ReversionStop, _calculate_atr(window.candles)))
        target == Away(Entry, sign, RAdd(RMul(MinRRR, RDist(Entry, stop)),
                                         RMul(CostFraction, Entry)))
        vwap == _calculate_intraday_vwap
    IN  IF /\ Reverts(sign, MinDeviation, RsiLong, RsiShort)
           /\ window.calm /\ window.volume_confirms
           /\ RLess(_adx_value, Whole(AdxThreshold))
           /\ ~Above(target, Away(vwap, sign, RMul(VwapTolerance, vwap)), sign)
        THEN _build_signal(Direction(sign), Entry, stop, target)
        ELSE {}

(* Both directions of every strategy: of most, the order in which the code *)
(* looks for them is of no importance (SignalsAreTradable).                *)
Signals ==
    IF Len(window.candles) = WindowLength
    THEN ts_momentum \cup
         UNION {ema_crossover(s) \cup breakout(s) \cup bb_squeeze(s) \cup ema_pullback(s)
                   \cup vwap_reversion(s) \cup vwap_reversion_v2(s) : s \in {1, -1}}
    ELSE IF Len(window.candles) = LongWindowLength
    THEN rsi_divergence
    ELSE {}

-----------------------------------------------------------------------------
(* A signal of any strategy can be traded: its entry is the last close,    *)
(* the stop and the target lie on their sides of it, and the reward is     *)
(* worth the risk.  No window makes the squeeze strategy raise.  The six   *)
(* strategies that look for a long signal first hide no short one by it,   *)
(* as there are never both.  The seventh, rsi_divergence, may find both,   *)
(* and then hides the short one; it does so in no other case.              *)
SignalsAreTradable ==
    /\ \A s \in Signals :
          /\ s.direction # "ValueError"
          /\ s.entry = Entry
          /\ IF s.direction = "long" THEN RLess(s.stop, s.entry) /\ RLess(s.entry, s.target)
                                     ELSE RLess(s.target, s.entry) /\ RLess(s.entry, s.stop)
          /\ RLeq(RMul(MinRRR, RDist(s.entry, s.stop)), RDist(s.target, s.entry))
    /\ Len(window.candles) = WindowLength =>
          /\ ema_crossover(1) = {} \/ ema_crossover(-1) = {}
          /\ breakout(1) = {} \/ breakout(-1) = {}
          /\ bb_squeeze(1) = {} \/ bb_squeeze(-1) = {}
          /\ ema_pullback(1) = {} \/ ema_pullback(-1) = {}
          /\ vwap_reversion(1) = {} \/ vwap_reversion(-1) = {}
          /\ vwap_reversion_v2(1) = {} \/ vwap_reversion_v2(-1) = {}
    /\ Len(window.candles) = LongWindowLength =>
          \A s \in _check_divergence(-1) : s \in Signals \/ _check_divergence(1) # {}

=============================================================================
