--------------------------- MODULE ResearchProofs ---------------------------
(***************************************************************************)
(* What the research side reports, for all prices, costs, schedules of     *)
(* closures, results, manifests, suites and strategies: the simulated      *)
(* execution of a signal could have happened, the replay keeps its limits  *)
(* on the trades, the gate opens only for the suite the caller meant, the  *)
(* stage scripts exit with the verdict they print, what the research on    *)
(* grids reports adds up, signals are tradable, and a lost trade never     *)
(* helps a history past the gate.                                          *)
(***************************************************************************)
EXTENDS Simulation, Replay, StageChecks, GridResearch, Strategies, Folds,
        WellFoundedInduction, FiniteSetTheorems, TLAPS

(* A set of numbers has a least one.                                        *)
LEMMA LeastNumber ==
    ASSUME NEW S, S \subseteq Nat, S # {}
    PROVE  \E n \in S : \A m \in S : n <= m
  <1>1. \E R : IsWellFoundedOn(R, Nat) /\ \A m, n \in Nat : m < n => <<m, n>> \in R
    <2> DEFINE R == {p \in Nat \X Nat : p[1] < p[2]}
    <2>1. R = OpToRel(<, Nat)
      BY DEF OpToRel
    <2>2. IsWellFoundedOn(R, Nat)
      BY <2>1, NatLessThanWellFounded, Zenon
    <2>3. \A m, n \in Nat : m < n => <<m, n>> \in R
      OBVIOUS
    <2> HIDE DEF R
    <2> QED BY <2>2, <2>3
  <1>2. PICK R : IsWellFoundedOn(R, Nat) /\ \A m, n \in Nat : m < n => <<m, n>> \in R
    BY <1>1
  <1>3. PICK n \in S : \A m \in S : ~(<<m, n>> \in R)
    BY ZenonT(30), <1>2, WFMin
  <1>4. ASSUME NEW m \in S PROVE n <= m
    <2>1. m \in Nat /\ n \in Nat
      OBVIOUS
    <2>2. ~(m < n)
      BY <1>2, <1>3, <2>1
    <2> QED BY <2>1, <2>2
  <1> QED BY <1>4

(* A function over the subsets of a set is made from the one without the    *)
(* element that is picked.                                                  *)
Picks(pick, S) == \A s \in SUBSET S : s # {} => pick[s] \in s

Recurs(it, S, V, base, act, pick) ==
    /\ it \in [SUBSET S -> V]
    /\ it[{}] = base
    /\ \A s \in SUBSET S : s # {} => it[s] = act[<<pick[s], it[s \ {pick[s]}]>>]

(* There is such a function over the subsets of a finite set.               *)
LEMMA SetRecursion ==
    ASSUME NEW S, IsFiniteSet(S), NEW V, NEW base \in V, NEW act \in [S \X V -> V],
           NEW pick, Picks(pick, S)
    PROVE  \E it : Recurs(it, S, V, base, act, pick)
  <1> DEFINE Small(n) == {s \in SUBSET S : Cardinality(s) <= n}
             Def(it, D) == it = [s \in D |-> IF s = {} THEN base
                                             ELSE act[<<pick[s], it[s \ {pick[s]}]>>]]
             Able(n) == \E it : Def(it, Small(n)) /\ it \in [Small(n) -> V]
  <1>1. \A s \in SUBSET S : IsFiniteSet(s) /\ Cardinality(s) \in Nat
    BY FS_Subset, FS_CardinalityType
  <1>2. Able(0)
    <2>1. \A s \in Small(0) : s = {}
      BY <1>1, FS_EmptySet
    <2> DEFINE it == [s \in Small(0) |-> base]
    <2>2. Def(it, Small(0))
      BY <2>1
    <2>3. it \in [Small(0) -> V]
      OBVIOUS
    <2> HIDE DEF it, Def, Small
    <2> QED BY <2>2, <2>3
  <1>3. ASSUME NEW n \in Nat, Able(n) PROVE Able(n + 1)
    <2>1. PICK it : Def(it, Small(n)) /\ it \in [Small(n) -> V]
      BY <1>3
    <2> DEFINE val(s) == IF s = {} THEN base ELSE act[<<pick[s], it[s \ {pick[s]}]>>]
               more == [s \in Small(n + 1) |-> val(s)]
    <2>2. \A s \in Small(n) : s \in Small(n + 1) /\ it[s] = val(s)
      <3>1. \A s \in Small(n) : it[s] = val(s)
        BY <2>1
      <3>2. \A s \in Small(n) : s \in Small(n + 1)
        BY <1>1
      <3> QED BY <3>1, <3>2
    <2>3. \A s \in Small(n + 1) : s # {} => pick[s] \in S /\ s \ {pick[s]} \in Small(n)
      <3> SUFFICES ASSUME NEW s \in Small(n + 1), s # {}
                   PROVE  pick[s] \in S /\ s \ {pick[s]} \in Small(n)
        OBVIOUS
      <3>1. pick[s] \in s
        BY DEF Picks
      <3>2. Cardinality(s \ {pick[s]}) = Cardinality(s) - 1
        BY <1>1, <3>1, FS_RemoveElement
      <3> QED BY <1>1, <3>1, <3>2
    <2>4. \A s \in Small(n + 1) : val(s) \in V
      BY <2>1, <2>3
    <2>5. \A s \in Small(n + 1) : s # {} => more[s \ {pick[s]}] = it[s \ {pick[s]}]
      <3> HIDE DEF val, Small
      <3> QED BY <2>2, <2>3
    <2>6. Def(more, Small(n + 1))
      <3>1. \A s \in Small(n + 1) : val(s) = IF s = {} THEN base
                                             ELSE act[<<pick[s], more[s \ {pick[s]}]>>]
        <4> HIDE DEF more, Small
        <4> QED BY <2>5
      <3> HIDE DEF val, Small
      <3> QED BY <3>1, Zenon
    <2>7. more \in [Small(n + 1) -> V]
      <3> HIDE DEF val, Small
      <3> QED BY <2>4
    <2> HIDE DEF more, Def, Small
    <2> QED BY <2>6, <2>7
  <1>4. \A n \in Nat : Able(n)
    <2> HIDE DEF Able
    <2> SUFFICES ASSUME NEW k \in Nat, ~Able(k) PROVE FALSE
      OBVIOUS
    <2> DEFINE Bad == {n \in Nat : ~Able(n)}
    <2>1. PICK n \in Bad : \A m \in Bad : n <= m
      BY LeastNumber
    <2>2. n # 0
      BY <1>2
    <2>3. n - 1 \in Nat /\ ~(n <= n - 1) /\ n - 1 + 1 = n
      BY <2>2
    <2>4. Able(n - 1)
      BY <2>1, <2>3
    <2> QED BY <1>3, <2>3, <2>4
  <1>5. Small(Cardinality(S)) = SUBSET S
    BY FS_Subset, FS_CardinalityType
  <1>6. PICK it : Def(it, SUBSET S) /\ it \in [SUBSET S -> V]
    <2>1. Able(Cardinality(S))
      <3> HIDE DEF Able
      <3> QED BY <1>1, <1>4
    <2> QED BY <1>5, <2>1
  <1>7. \A s \in SUBSET S : it[s] = IF s = {} THEN base ELSE act[<<pick[s], it[s \ {pick[s]}]>>]
    BY <1>6, Zenon
  <1> QED BY <1>6, <1>7 DEF Recurs

(* A set of the first numbers has a last one.                               *)
LEMMA LastNumber ==
    ASSUME NEW n \in Nat, NEW s, s \subseteq 1..n, s # {}
    PROVE  Max(s) \in s /\ \A i \in s : Max(s) >= i
  <1> DEFINE back == {n - i : i \in s}
  <1>1. back \subseteq Nat /\ back # {}
    <2>1. \A i \in s : n - i \in Nat
      OBVIOUS
    <2> QED BY <2>1
  <1>2. PICK m \in back : \A k \in back : m <= k
    BY <1>1, LeastNumber
  <1>3. PICK j \in s : m = n - j
    BY <1>2
  <1>4. \A i \in s : j >= i
    BY <1>2, <1>3
  <1>5. \E x \in s : \A y \in s : x >= y
    BY <1>4
  <1> QED BY <1>5 DEF Max

(* The larger of two numbers.                                               *)
LEMMA LargerOfTwo ==
    ASSUME NEW a \in Int, NEW b \in Int
    PROVE  /\ Max({a, b}) \in {a, b}
           /\ Max({a, b}) >= a
           /\ Max({a, b}) >= b
  <1>1. \E x \in {a, b} : \A y \in {a, b} : x >= y
    <2>1. CASE a >= b
      BY <2>1
    <2>2. CASE b >= a
      BY <2>2
    <2> QED BY <2>1, <2>2
  <1>2. Max({a, b}) \in {a, b} /\ \A y \in {a, b} : Max({a, b}) >= y
    BY <1>1 DEF Max
  <1> QED BY <1>2

-----------------------------------------------------------------------------
(* Folds over a sequence. *)

(* What a fold makes of a set of positions, last one last.                  *)
Unfolds(it, n, V, base, act) ==
    /\ it[{}] = base
    /\ \A t \in SUBSET (1..n) :
          t # {} /\ it[t \ {Max(t)}] \in V => it[t] = act[<<Max(t), it[t \ {Max(t)}]>>]

Steps(h, n, V, base, act) ==
    /\ h \in [0..n -> V]
    /\ h[0] = base
    /\ \A k \in 1..n : h[k] = act[<<k, h[k - 1]>>]

(* There is a function to fold with.                                        *)
FoldsTo(it, n, V, base, act) ==
    /\ it \in [SUBSET (1..n) -> V]
    /\ it[{}] = base
    /\ \A t \in SUBSET (1..n) : t # {} => it[t] = act[<<Max(t), it[t \ {Max(t)}]>>]

LEMMA FoldExists ==
    ASSUME NEW n \in Nat, NEW V, NEW base \in V, NEW act \in [(1..n) \X V -> V]
    PROVE  \E it : FoldsTo(it, n, V, base, act)
  <1> DEFINE S == 1..n
             pick == [t \in SUBSET S |-> Max(t)]
  <1>1. IsFiniteSet(S)
    BY FS_Interval
  <1>2. \A t \in SUBSET S : t # {} => Max(t) \in t
    BY LastNumber
  <1>3. Picks(pick, S)
    BY <1>2 DEF Picks
  <1>4. PICK it : Recurs(it, S, V, base, act, pick)
    <2> HIDE DEF S, pick
    <2> QED BY <1>1, <1>3, SetRecursion DEF S
  <1>5. \A t \in SUBSET S : pick[t] = Max(t)
    OBVIOUS
  <1> HIDE DEF pick
  <1> QED BY <1>4, <1>5 DEF Recurs, FoldsTo

Reaches(it, n, V, base, act) ==
    \E h : Steps(h, n, V, base, act) /\ h[n] = it[1..n]

(* It goes from one position to the next.                                   *)
LEMMA FoldSteps ==
    ASSUME NEW n \in Nat, NEW V, NEW base \in V, NEW act \in [(1..n) \X V -> V],
           NEW it, Unfolds(it, n, V, base, act)
    PROVE  Reaches(it, n, V, base, act)
  <1> DEFINE h == [k \in 0..n |-> it[1..k]]
  <1>1. \A k \in 1..n : it[1..(k - 1)] \in V => it[1..k] = act[<<k, it[1..(k - 1)]>>]
    <2> SUFFICES ASSUME NEW k \in 1..n, it[1..(k - 1)] \in V
                 PROVE  it[1..k] = act[<<k, it[1..(k - 1)]>>]
      OBVIOUS
    <2>1. /\ 1..k \in SUBSET (1..n)
          /\ k \in 1..k
          /\ (1..k) \ {k} = 1..(k - 1)
      OBVIOUS
    <2>2. Max(1..k) = k
      <3>1. Max(1..k) \in 1..k /\ Max(1..k) >= k
        BY <2>1, LastNumber
      <3> QED BY <3>1
    <2> QED BY <2>1, <2>2 DEF Unfolds
  <1>2. h[0] = base
    <2>1. 1..0 = {} /\ 0 \in 0..n
      OBVIOUS
    <2> QED BY <2>1 DEF Unfolds
  <1>3. \A k \in 1..n : h[k] = it[1..k] /\ h[k - 1] = it[1..(k - 1)]
    OBVIOUS
  <1>4. \A k \in 0..n : h[k] \in V
    <2> DEFINE Bad == {k \in 0..n : h[k] \notin V}
    <2> HIDE DEF h
    <2> SUFFICES ASSUME Bad # {} PROVE FALSE
      OBVIOUS
    <2>1. Bad \subseteq Nat
      OBVIOUS
    <2>2. PICK k \in Bad : \A j \in Bad : k <= j
      BY <2>1, LeastNumber
    <2>3. k \in 1..n /\ k - 1 \in 0..n /\ ~(k <= k - 1)
      BY <1>2, <2>2
    <2>4. h[k - 1] \in V
      BY <2>2, <2>3
    <2>5. h[k] = act[<<k, h[k - 1]>>]
      BY <1>1, <1>3, <2>3, <2>4
    <2> QED BY <2>2, <2>3, <2>4, <2>5
  <1>5. \A k \in 1..n : h[k] = act[<<k, h[k - 1]>>]
    <2> HIDE DEF h
    <2>1. \A k \in 1..n : k - 1 \in 0..n
      OBVIOUS
    <2> QED BY <1>1, <1>3, <1>4, <2>1
  <1>6. h = [k \in 0..n |-> h[k]] /\ h[n] = it[1..n]
    OBVIOUS
  <1> HIDE DEF h
  <1>7. h \in [0..n -> V]
    BY <1>4, <1>6
  <1> QED BY <1>2, <1>5, <1>6, <1>7 DEF Steps, Reaches

-----------------------------------------------------------------------------
(* The simulated execution of a signal. *)

(* A candle of the future and the signal, and the settings they meet.       *)
LEMMA SimTypes ==
    ASSUME SimInit
    PROVE  /\ sim.signal \in SimSignal
           /\ Len(sim.future) \in Nat /\ DOMAIN sim.future = 1..Len(sim.future)
           /\ \A i \in 1..Len(sim.future) : sim.future[i] \in SimCandle
           /\ sim.one_bar_execution_delay \in BOOLEAN /\ sim.spot \in BOOLEAN
           /\ sim.entry_maker \in BOOLEAN /\ sim.exit_maker \in BOOLEAN
  <1>1. PICK n \in 0..MaxFuture :
           sim \in [one_bar_execution_delay : BOOLEAN, spot : BOOLEAN,
                    signal : SimSignal, future : [1..n -> SimCandle],
                    entry_maker : BOOLEAN, exit_maker : BOOLEAN]
    BY DEF SimInit
  <1>2. sim.future \in [1..n -> SimCandle] /\ n \in Nat
    BY <1>1, SimulationAssumption
  <1>3. Len(sim.future) = n /\ DOMAIN sim.future = 1..n
    BY <1>2
  <1> QED BY <1>1, <1>2, <1>3

(* Prices are positive integers, the candle spans them, and the signal lies *)
(* between stop and target.                                                 *)
LEMMA SimNumbers ==
    /\ Prices \subseteq Nat \ {0}
    /\ \A c \in SimCandle :
          /\ c.open \in Nat /\ c.high \in Nat /\ c.low \in Nat /\ c.close \in Nat
          /\ c.low <= c.open /\ c.open <= c.high /\ c.low <= c.close /\ c.close <= c.high
    /\ \A s \in SimSignal :
          /\ s.entry \in Nat /\ s.stop \in Nat /\ s.target \in Nat
          /\ s.direction \in {"long", "short"}
          /\ s.direction = "long" => s.stop < s.entry /\ s.entry < s.target
          /\ s.direction = "short" => s.target < s.entry /\ s.entry < s.stop
    /\ HalfSpread \in Nat /\ Slippage \in Nat /\ FeeScale \in Nat \ {0}
    /\ max_hold_candles \in Nat \ {0}
  <1>1. Prices \subseteq Nat \ {0}
    BY SimulationAssumption
  <1>2. ASSUME NEW c \in SimCandle
        PROVE  /\ c.open \in Nat /\ c.high \in Nat /\ c.low \in Nat /\ c.close \in Nat
               /\ c.low <= c.open /\ c.open <= c.high /\ c.low <= c.close /\ c.close <= c.high
    BY <1>1 DEF SimCandle
  <1>3. ASSUME NEW s \in SimSignal
        PROVE  /\ s.entry \in Nat /\ s.stop \in Nat /\ s.target \in Nat
               /\ s.direction \in {"long", "short"}
               /\ s.direction = "long" => s.stop < s.entry /\ s.entry < s.target
               /\ s.direction = "short" => s.target < s.entry /\ s.entry < s.stop
    BY <1>1 DEF SimSignal
  <1> QED BY <1>1, <1>2, <1>3, SimulationAssumption

(* The candle that ends a trade, if one does, is the first that touches     *)
(* stop or target.                                                          *)
LEMMA FirstTouchIsFirst ==
    ASSUME Touched # {}, Len(sim.future) \in Nat
    PROVE  /\ FirstTouch \in Touched
           /\ \A i \in Held : i < FirstTouch => i \notin Touched
  <1>1. Touched \in SUBSET Nat
    BY DEF Touched, Held
  <1>2. \E i \in Touched : \A j \in Touched : i <= j
    BY <1>1, LeastNumber
  <1>3. FirstTouch \in Touched /\ \A j \in Touched : FirstTouch <= j
    BY <1>2 DEF FirstTouch
  <1>4. ASSUME NEW i \in Held, i < FirstTouch PROVE i \notin Touched
    <2>1. FirstTouch \in Nat /\ (i \in Touched => FirstTouch <= i /\ i \in Nat)
      BY <1>1, <1>3
    <2> QED BY <1>4, <2>1
  <1> QED BY <1>3, <1>4

(* Which exits a trade that was held can have.                              *)
LEMMA ExitCases ==
    ASSUME SimInit, execute_replay_signal.hold > 0
    PROVE  /\ sim.future # <<>>
           /\ \/ /\ Touched # {} /\ stop_hit(sim.future[FirstTouch])
                 /\ execute_replay_signal = _build_stop_result(FirstTouch)
              \/ /\ Touched # {} /\ ~stop_hit(sim.future[FirstTouch])
                 /\ target_hit(sim.future[FirstTouch])
                 /\ execute_replay_signal = _build_target_result(FirstTouch)
              \/ Touched = {} /\ execute_replay_signal = _build_timeout_result
  <1>1. \A reason, status : NoTrade(reason, status).hold = 0
    BY DEF NoTrade
  <1>2. /\ sim.future # <<>>
        /\ execute_replay_signal = IF Touched # {} THEN _evaluate_candle_exit(FirstTouch)
                                   ELSE _build_timeout_result
    BY <1>1 DEF execute_replay_signal
  <1>3. CASE Touched = {}
    BY <1>2, <1>3
  <1>4. CASE Touched # {}
    <2>1. FirstTouch \in Touched
      BY <1>4, SimTypes, FirstTouchIsFirst
    <2>2. stop_hit(sim.future[FirstTouch]) \/ target_hit(sim.future[FirstTouch])
      BY <2>1 DEF Touched
    <2> QED BY <1>2, <1>4, <2>2 DEF _evaluate_candle_exit
  <1> QED BY <1>3, <1>4

(* What the three kinds of exit report.                                     *)
LEMMA ExitResults ==
    ASSUME NEW i
    PROVE  /\ _build_stop_result(i).hold = i /\ _build_stop_result(i).reason = "sl_hit"
           /\ _build_stop_result(i).raw = _resolve_stop_exit_price(sim.future[i])
           /\ _build_stop_result(i).gain =
                 FeeScale * Sgn(sim.signal.direction)
                    * (_apply_slippage(_resolve_stop_exit_price(sim.future[i]),
                                       sim.signal.direction) - EntryPrice)
           /\ _build_target_result(i).hold = i /\ _build_target_result(i).reason = "tp_hit"
           /\ _build_target_result(i).raw = sim.signal.target
           /\ _build_target_result(i).gain =
                 FeeScale * Sgn(sim.signal.direction)
                    * (_apply_spread(sim.signal.target, _exit_side(sim.signal.direction),
                                     sim.exit_maker) - EntryPrice)
           /\ _build_timeout_result.reason = "timeout"
           /\ _build_timeout_result.hold = IF max_hold_candles < Len(sim.future)
                                           THEN max_hold_candles ELSE Len(sim.future)
           /\ _build_timeout_result.raw = sim.future[_build_timeout_result.hold].close
  BY DEF _build_stop_result, _build_target_result, _build_timeout_result, _build_result

(* What a candle that is held looks like to the signal.                     *)
LEMMA HeldCandle ==
    ASSUME SimInit, NEW i \in Held
    PROVE  /\ sim.future[i] \in SimCandle /\ i \in Nat /\ i > 0
           /\ i <= Len(sim.future) /\ i <= max_hold_candles
  BY SimTypes, SimNumbers DEF Held

(* The last candle of a trade is one that was held.                         *)
LEMMA ExitIsHeld ==
    ASSUME SimInit, execute_replay_signal.hold > 0
    PROVE  execute_replay_signal.hold \in Held
  <1>1. Len(sim.future) \in Nat /\ max_hold_candles \in Nat \ {0} /\ Touched \subseteq Held
    BY SimTypes, SimNumbers DEF Touched
  <1>2. CASE Touched # {}
    <2>1. FirstTouch \in Held
      BY <1>1, <1>2, FirstTouchIsFirst
    <2> QED BY <1>2, <2>1, ExitCases, ExitResults
  <1>3. CASE Touched = {}
    <2>1. execute_replay_signal = _build_timeout_result
      BY <1>3, ExitCases
    <2>2. execute_replay_signal.hold = IF max_hold_candles < Len(sim.future)
                                       THEN max_hold_candles ELSE Len(sim.future)
      BY <2>1, ExitResults
    <2> QED BY <1>1, <2>2 DEF Held
  <1> QED BY <1>2, <1>3

(* No candle before the exit would have closed the trade.                   *)
LEMMA NothingBefore ==
    ASSUME SimInit, execute_replay_signal.hold > 0,
           NEW i \in 1..(execute_replay_signal.hold - 1)
    PROVE  ~stop_hit(sim.future[i]) /\ ~target_hit(sim.future[i])
  <1>1. execute_replay_signal.hold \in Held /\ Len(sim.future) \in Nat
    BY ExitIsHeld, SimTypes
  <1>2. max_hold_candles \in Nat /\ execute_replay_signal.hold \in Nat
    BY <1>1, SimNumbers DEF Held
  <1>3. i \in Held /\ i < execute_replay_signal.hold
    BY <1>1, <1>2 DEF Held
  <1>4. i \notin Touched
    <2>1. CASE Touched = {}
      BY <2>1
    <2>2. CASE Touched # {}
      <3>1. execute_replay_signal.hold = FirstTouch
        BY <2>2, ExitCases, ExitResults
      <3> QED BY <1>1, <1>3, <2>2, <3>1, FirstTouchIsFirst
    <2> QED BY <2>1, <2>2
  <1> QED BY <1>3, <1>4 DEF Touched

(* Scaling an amount keeps its order.                                       *)
LEMMA Scaled ==
    /\ \A a, b \in Int : a <= b => FeeScale * a <= FeeScale * b
    /\ \A a \in Int : FeeScale * a \in Int /\ (a <= 0 => FeeScale * a <= 0)
  <1>1. FeeScale \in Nat
    BY SimNumbers
  <1>2. ASSUME NEW f \in Nat, NEW a \in Int, NEW b \in Int, a <= b
        PROVE  f * a <= f * b
    BY <1>2
  <1>3. ASSUME NEW f \in Nat, NEW a \in Int, a <= 0
        PROVE  f * a <= 0
    BY <1>3
  <1> QED BY <1>1, <1>2, <1>3

(* What a trade that is entered at e and left at x earns.                   *)
Gain(x) == IF sim.signal.direction = "long" THEN FeeScale * (x - EntryPrice)
                                            ELSE FeeScale * (EntryPrice - x)

LEMMA GainOfExit ==
    ASSUME SimInit, NEW x \in Int, EntryPrice \in Int
    PROVE  FeeScale * Sgn(sim.signal.direction) * (x - EntryPrice) = Gain(x)
  <1>1. FeeScale \in Nat /\ sim.signal.direction \in {"long", "short"}
    BY SimTypes, SimNumbers
  <1>2. ASSUME NEW f \in Nat, NEW a \in Int, NEW b \in Int
        PROVE  f * 1 * (a - b) = f * (a - b) /\ f * (-1) * (a - b) = f * (b - a)
    BY <1>2
  <1> QED BY <1>1, <1>2 DEF Gain, Sgn

(* The entry costs the spread at most, and never gains it.                  *)
LEMMA EntryCosts ==
    ASSUME SimInit, sim.future # <<>>
    PROVE  LET base == IF sim.one_bar_execution_delay THEN sim.future[1].open
                                                      ELSE sim.signal.entry
           IN  /\ base \in Nat /\ EntryPrice \in Int
               /\ sim.signal.direction = "long" =>
                     base <= EntryPrice /\ EntryPrice <= base + HalfSpread
               /\ sim.signal.direction = "short" =>
                     base - HalfSpread <= EntryPrice /\ EntryPrice <= base
  <1> DEFINE base == IF sim.one_bar_execution_delay THEN sim.future[1].open
                                                    ELSE sim.signal.entry
  <1>1. base \in Nat
    <2>1. Len(sim.future) \in Nat \ {0}
      <3>1. PICK n \in 0..MaxFuture : sim.future \in [1..n -> SimCandle]
        BY DEF SimInit
      <3>2. n \in Nat /\ n # 0
        BY <3>1, SimulationAssumption
      <3> QED BY <3>1, <3>2
    <2> QED BY <2>1, SimTypes, SimNumbers
  <1>2. HalfSpread \in Nat /\ sim.signal.direction \in {"long", "short"}
    BY SimTypes, SimNumbers
  <1>3. _resolve_entry_price = base
    BY DEF _resolve_entry_price
  <1> HIDE DEF base
  <1>4. EntryPrice = base + (IF sim.entry_maker THEN 0
                             ELSE IF sim.signal.direction = "long" THEN HalfSpread
                                                                   ELSE -HalfSpread)
    BY <1>2, <1>3 DEF EntryPrice, _apply_spread, _entry_side
  <1>5. /\ EntryPrice \in Int
        /\ sim.signal.direction = "long" =>
              base <= EntryPrice /\ EntryPrice <= base + HalfSpread
        /\ sim.signal.direction = "short" =>
              base - HalfSpread <= EntryPrice /\ EntryPrice <= base
    BY <1>1, <1>2, <1>4
  <1> QED BY <1>1, <1>5 DEF base

(* A stop is filled at its price, or worse at the open of its candle, and   *)
(* within the candle.                                                       *)
LEMMA StopFill ==
    ASSUME SimInit, NEW i \in Held, stop_hit(sim.future[i])
    PROVE  LET c == sim.future[i]
               stop == sim.signal.stop
               fill == _resolve_stop_exit_price(c)
           IN  /\ fill \in Nat
               /\ sim.signal.direction = "long" =>
                     /\ fill <= stop /\ fill <= c.open /\ fill <= c.high
                     /\ c.open - stop >= 0 => fill = stop
               /\ sim.signal.direction = "short" =>
                     /\ fill >= stop /\ fill >= c.open /\ fill >= c.low
                     /\ stop - c.open >= 0 => fill = stop
  <1> DEFINE c == sim.future[i]
             stop == sim.signal.stop
             fill == _resolve_stop_exit_price(c)
  <1>1. /\ c.open \in Nat /\ c.high \in Nat /\ c.low \in Nat /\ stop \in Nat
        /\ c.low <= c.open /\ c.open <= c.high
        /\ sim.signal.direction \in {"long", "short"}
    BY HeldCandle, SimTypes, SimNumbers
  <1>2. CASE sim.signal.direction = "long"
    <2>1. c.low <= stop
      BY <1>2 DEF stop_hit
    <2>2. fill = IF c.open - stop < 0 THEN c.open ELSE stop
      BY <1>1, <1>2 DEF _resolve_stop_exit_price, Sgn
    <2> HIDE DEF fill, c, stop
    <2> QED BY <1>1, <1>2, <2>1, <2>2 DEF fill, c, stop
  <1>3. CASE sim.signal.direction = "short"
    <2>1. c.high >= stop
      BY <1>3 DEF stop_hit
    <2>2. fill = IF stop - c.open < 0 THEN c.open ELSE stop
      BY <1>1, <1>3 DEF _resolve_stop_exit_price, Sgn
    <2> HIDE DEF fill, c, stop
    <2> QED BY <1>1, <1>3, <2>1, <2>2 DEF fill, c, stop
  <1> QED BY <1>1, <1>2, <1>3

(* A stop does not pay: the entry, at once or at the next open, is on its   *)
(* far side or was itself beyond it.                                        *)
LEMMA StopIsNoProfit ==
    ASSUME SimInit, execute_replay_signal.hold > 0, NEW i \in Held,
           i = execute_replay_signal.hold, stop_hit(sim.future[i])
    PROVE  LET fill == _resolve_stop_exit_price(sim.future[i])
           IN  /\ sim.signal.direction = "long" => fill <= EntryPrice
               /\ sim.signal.direction = "short" => fill >= EntryPrice
  <1> DEFINE fill == _resolve_stop_exit_price(sim.future[i])
             first == sim.future[1]
             stop == sim.signal.stop
             base == IF sim.one_bar_execution_delay THEN first.open ELSE sim.signal.entry
  <1>1. sim.future # <<>> /\ i \in Nat /\ i > 0 /\ 1 \in Held
    <2>1. sim.future # <<>>
      BY ExitCases
    <2>2. i \in Nat /\ i > 0 /\ i <= Len(sim.future) /\ i <= max_hold_candles
      BY HeldCandle
    <2>3. Len(sim.future) \in Nat /\ max_hold_candles \in Nat
      BY SimTypes, SimNumbers
    <2> QED BY <2>1, <2>2, <2>3 DEF Held
  <1>2. /\ base \in Nat /\ EntryPrice \in Int
        /\ sim.signal.direction = "long" => base <= EntryPrice
        /\ sim.signal.direction = "short" => EntryPrice <= base
    BY <1>1, EntryCosts
  <1>3. /\ fill \in Nat
        /\ sim.signal.direction = "long" => fill <= stop /\ fill <= sim.future[i].open
        /\ sim.signal.direction = "short" => fill >= stop /\ fill >= sim.future[i].open
    BY StopFill
  <1>4. /\ first.open \in Nat /\ first.low \in Nat /\ first.high \in Nat
        /\ first.low <= first.open /\ first.open <= first.high
        /\ stop \in Nat /\ sim.signal.entry \in Nat
        /\ sim.signal.direction = "long" => stop < sim.signal.entry
        /\ sim.signal.direction = "short" => sim.signal.entry < stop
    BY <1>1, HeldCandle, SimTypes, SimNumbers
  <1>5. /\ sim.signal.direction = "long" => fill <= base
        /\ sim.signal.direction = "short" => fill >= base
    <2>1. CASE ~sim.one_bar_execution_delay
      BY <1>3, <1>4, <2>1
    <2>2. CASE sim.one_bar_execution_delay /\ i = 1
      BY <1>3, <2>2
    <2>3. CASE sim.one_bar_execution_delay /\ i # 1
      <3>1. 1 \in 1..(execute_replay_signal.hold - 1)
        BY <1>1, <2>3
      <3>2. ~stop_hit(first)
        BY <3>1, NothingBefore
      <3>3. /\ sim.signal.direction = "long" => first.low > stop
            /\ sim.signal.direction = "short" => first.high < stop
        BY <1>4, <3>2 DEF stop_hit
      <3> QED BY <1>3, <1>4, <2>3, <3>3
    <2> QED BY <2>1, <2>2, <2>3
  <1> HIDE DEF base, fill
  <1> QED BY <1>2, <1>3, <1>5 DEF fill

LEMMA ExitsPossible ==
    ASSUME SimInit, execute_replay_signal.hold > 0
    PROVE  LET r == execute_replay_signal
               c == sim.future[r.hold]
           IN  IF sim.signal.direction = "long" THEN r.raw <= c.high ELSE r.raw >= c.low
  <1> DEFINE r == execute_replay_signal
             c == sim.future[r.hold]
  <1>1. PICK i \in Held : i = r.hold
    BY ExitIsHeld
  <1>2. sim.future[i] \in SimCandle /\ sim.signal.direction \in {"long", "short"}
    BY HeldCandle, SimTypes, SimNumbers
  <1>3. CASE Touched # {} /\ stop_hit(sim.future[FirstTouch]) /\ r = _build_stop_result(FirstTouch)
    <2>1. i = FirstTouch /\ r.raw = _resolve_stop_exit_price(sim.future[i])
      BY <1>1, <1>3, ExitResults
    <2> QED BY <1>1, <1>2, <1>3, <2>1, StopFill
  <1>4. CASE target_hit(sim.future[FirstTouch]) /\ r = _build_target_result(FirstTouch)
    <2>1. i = FirstTouch /\ r.raw = sim.signal.target
      BY <1>1, <1>4, ExitResults
    <2> QED BY <1>1, <1>2, <1>4, <2>1 DEF target_hit
  <1>5. CASE r = _build_timeout_result
    <2>1. r.raw = sim.future[i].close
      BY <1>1, <1>5, ExitResults
    <2> QED BY <1>1, <1>2, <2>1, SimNumbers
  <1> QED BY <1>3, <1>4, <1>5, ExitCases

(* Stop and target are the exits of trades that were held.                  *)
LEMMA HitIsHeld ==
    ASSUME SimInit, execute_replay_signal.reason \in {"sl_hit", "tp_hit"}
    PROVE  execute_replay_signal.hold > 0
  <1>1. /\ NoTrade("rejected_short_signal", "skipped").reason = "rejected_short_signal"
        /\ NoTrade("timeout", "closed").reason = "timeout"
        /\ NoTrade("min_notional", "skipped").reason = "min_notional"
        /\ NoTrade("insufficient_capital", "skipped").reason = "insufficient_capital"
        /\ _build_timeout_result.reason = "timeout"
    BY ExitResults DEF NoTrade
  <1>2. Touched # {} /\ execute_replay_signal = _evaluate_candle_exit(FirstTouch)
    BY <1>1 DEF execute_replay_signal
  <1>3. FirstTouch \in Held
    BY <1>2, SimTypes, FirstTouchIsFirst DEF Touched
  <1>4. execute_replay_signal.hold = FirstTouch
    BY <1>2, ExitResults DEF _evaluate_candle_exit
  <1> QED BY <1>3, <1>4, HeldCandle

(* What a trade that was stopped earns.                                     *)
LEMMA StopGain ==
    ASSUME SimInit, execute_replay_signal.hold > 0,
           stop_hit(sim.future[execute_replay_signal.hold])
    PROVE  LET r == execute_replay_signal
               c == sim.future[r.hold]
           IN  /\ r.hold \in Held /\ EntryPrice \in Int
               /\ r.gain = Gain(_apply_slippage(_resolve_stop_exit_price(c),
                                                sim.signal.direction))
               /\ _apply_slippage(_resolve_stop_exit_price(c), sim.signal.direction) =
                     IF sim.signal.direction = "long"
                     THEN _resolve_stop_exit_price(c) - Slippage
                     ELSE _resolve_stop_exit_price(c) + Slippage
  <1> DEFINE r == execute_replay_signal
             c == sim.future[r.hold]
             fill == _resolve_stop_exit_price(c)
  <1>1. r.hold \in Held /\ EntryPrice \in Int
    BY ExitIsHeld, ExitCases, EntryCosts
  <1>2. r = _build_stop_result(r.hold)
    <2>1. r.hold \in Touched
      BY <1>1 DEF Touched
    <2> QED BY <2>1, ExitCases, ExitResults
  <1>3. fill \in Nat
    BY <1>1, StopFill
  <1>4. /\ Slippage \in Nat
        /\ _apply_slippage(fill, sim.signal.direction) =
              IF sim.signal.direction = "long" THEN fill - Slippage ELSE fill + Slippage
    <2>1. Slippage \in Nat /\ sim.signal.direction \in {"long", "short"}
      BY SimTypes, SimNumbers
    <2> HIDE DEF fill
    <2> QED BY <1>3, <2>1 DEF _apply_slippage, Sgn
  <1>5. r.gain = FeeScale * Sgn(sim.signal.direction)
                    * (_apply_slippage(fill, sim.signal.direction) - EntryPrice)
    BY <1>2, ExitResults
  <1>6. _apply_slippage(fill, sim.signal.direction) \in Int
    BY <1>3, <1>4
  <1> HIDE DEF fill
  <1>7. r.gain = Gain(_apply_slippage(fill, sim.signal.direction))
    BY <1>1, <1>5, <1>6, GainOfExit
  <1> QED BY <1>1, <1>4, <1>7 DEF fill

LEMMA StopLossIsBounded == SimInit => LossIsBounded
  <1> SUFFICES ASSUME SimInit PROVE LossIsBounded
    OBVIOUS
  <1> DEFINE r == execute_replay_signal
             c == sim.future[r.hold]
             fill == _resolve_stop_exit_price(c)
             exit == _apply_slippage(fill, sim.signal.direction)
  <1>1. /\ Slippage \in Nat /\ sim.signal.direction \in {"long", "short"}
        /\ sim.signal.stop \in Nat /\ FeeScale \in Nat
    BY SimTypes, SimNumbers
  <1>2. ASSUME r.hold > 0, stop_hit(c) PROVE r.gain <= 0
    <2>1. /\ r.hold \in Held /\ EntryPrice \in Int /\ r.gain = Gain(exit)
          /\ exit = IF sim.signal.direction = "long" THEN fill - Slippage ELSE fill + Slippage
      BY <1>2, StopGain
    <2>2. fill \in Nat
      BY <1>2, <2>1, StopFill
    <2>3. /\ sim.signal.direction = "long" => fill <= EntryPrice
          /\ sim.signal.direction = "short" => fill >= EntryPrice
      BY <1>2, <2>1, StopIsNoProfit
    <2> HIDE DEF fill, exit
    <2>4. exit \in Int
      BY <1>1, <2>1, <2>2
    <2>5. CASE sim.signal.direction = "long"
      <3>1. exit - EntryPrice <= 0 /\ exit - EntryPrice \in Int
        BY <1>1, <2>1, <2>2, <2>3, <2>4, <2>5
      <3> QED BY <2>1, <2>5, <3>1, Scaled DEF Gain
    <2>6. CASE sim.signal.direction = "short"
      <3>1. EntryPrice - exit <= 0 /\ EntryPrice - exit \in Int
        BY <1>1, <2>1, <2>2, <2>3, <2>4, <2>6
      <3> QED BY <2>1, <2>6, <3>1, Scaled DEF Gain
    <2> QED BY <1>1, <2>5, <2>6
  <1>3. ASSUME r.reason = "sl_hit", Sgn(sim.signal.direction) * (c.open - sim.signal.stop) >= 0
        PROVE  -r.gain <= FeeScale * (Risk + Slippage)
    <2>1. r.hold > 0
      BY <1>3, HitIsHeld
    <2>2. stop_hit(c)
      BY <1>3, <2>1, ExitCases, ExitResults
    <2>3. /\ r.hold \in Held /\ EntryPrice \in Int /\ r.gain = Gain(exit)
          /\ exit = IF sim.signal.direction = "long" THEN fill - Slippage ELSE fill + Slippage
      BY <2>1, <2>2, StopGain
    <2>4. fill = sim.signal.stop
      <3>1. c.open \in Nat
        BY <2>3, HeldCandle, SimNumbers
      <3>2. /\ sim.signal.direction = "long" => c.open - sim.signal.stop >= 0
            /\ sim.signal.direction = "short" => sim.signal.stop - c.open >= 0
        BY <1>1, <1>3, <3>1 DEF Sgn
      <3> QED BY <1>1, <2>2, <2>3, <3>2, StopFill
    <2>5. /\ sim.signal.direction = "long" => sim.signal.stop <= EntryPrice
          /\ sim.signal.direction = "short" => sim.signal.stop >= EntryPrice
      BY <2>1, <2>2, <2>3, <2>4, StopIsNoProfit
    <2> HIDE DEF fill, exit
    <2>6. Risk + Slippage = IF sim.signal.direction = "long" THEN EntryPrice - exit
                                                             ELSE exit - EntryPrice
      BY <1>1, <2>3, <2>4, <2>5 DEF Risk, Distance
    <2>7. exit \in Int
      BY <1>1, <2>3, <2>4
    <2>8. ASSUME NEW f \in Nat, NEW a \in Int, NEW b \in Int
          PROVE  -(f * (a - b)) = f * (b - a)
      BY <2>8
    <2>9. -r.gain = FeeScale * (Risk + Slippage) /\ r.gain \in Int
      <3>1. CASE sim.signal.direction = "long"
        <4>1. r.gain = FeeScale * (exit - EntryPrice)
          BY <2>3, <3>1 DEF Gain
        <4>2. -(FeeScale * (exit - EntryPrice)) = FeeScale * (EntryPrice - exit)
          BY <1>1, <2>3, <2>7, <2>8
        <4>3. FeeScale * (exit - EntryPrice) \in Int
          BY <2>3, <2>7, Scaled
        <4> QED BY <2>6, <3>1, <4>1, <4>2, <4>3
      <3>2. CASE sim.signal.direction = "short"
        <4>1. r.gain = FeeScale * (EntryPrice - exit)
          BY <2>3, <3>2 DEF Gain
        <4>2. -(FeeScale * (EntryPrice - exit)) = FeeScale * (exit - EntryPrice)
          BY <1>1, <2>3, <2>7, <2>8
        <4>3. FeeScale * (EntryPrice - exit) \in Int
          BY <2>3, <2>7, Scaled
        <4> QED BY <2>6, <3>2, <4>1, <4>2, <4>3
      <3> QED BY <1>1, <3>1, <3>2
    <2>10. -r.gain \in Int
      BY <2>9
    <2> QED BY <2>9, <2>10
  <1> QED BY <1>2, <1>3 DEF LossIsBounded

LEMMA TargetPaysItsDistance == SimInit => TargetPays
  <1> SUFFICES ASSUME SimInit, execute_replay_signal.reason = "tp_hit",
                      ~(/\ sim.one_bar_execution_delay
                        /\ Sgn(sim.signal.direction)
                              * (sim.future[1].open - sim.signal.target) >= 0)
               PROVE  execute_replay_signal.gain >= FeeScale * (1 - 2 * HalfSpread)
    BY DEF TargetPays
  <1> DEFINE r == execute_replay_signal
             base == IF sim.one_bar_execution_delay THEN sim.future[1].open
                                                    ELSE sim.signal.entry
             exit == _apply_spread(sim.signal.target, _exit_side(sim.signal.direction),
                                   sim.exit_maker)
  <1>1. /\ HalfSpread \in Nat /\ sim.signal.direction \in {"long", "short"}
        /\ sim.signal.target \in Nat /\ sim.signal.entry \in Nat
        /\ sim.signal.direction = "long" => sim.signal.entry < sim.signal.target
        /\ sim.signal.direction = "short" => sim.signal.target < sim.signal.entry
    BY SimTypes, SimNumbers
  <1>2. r.hold > 0
    BY HitIsHeld
  <1>3. r = _build_target_result(FirstTouch)
    BY <1>2, ExitCases, ExitResults
  <1>4. /\ base \in Nat /\ EntryPrice \in Int
        /\ sim.signal.direction = "long" => EntryPrice <= base + HalfSpread
        /\ sim.signal.direction = "short" => base - HalfSpread <= EntryPrice
    BY <1>2, ExitCases, EntryCosts
  <1>5. /\ sim.signal.direction = "long" => base < sim.signal.target
        /\ sim.signal.direction = "short" => base > sim.signal.target
    <2>1. CASE sim.one_bar_execution_delay
      <3>1. base = sim.future[1].open
        BY <2>1
      <3>2. ~(Sgn(sim.signal.direction) * (base - sim.signal.target) >= 0)
        BY <2>1, <3>1
      <3> HIDE DEF base
      <3> QED BY <1>1, <1>4, <3>2 DEF Sgn
    <2>2. CASE ~sim.one_bar_execution_delay
      BY <1>1, <2>2
    <2> QED BY <2>1, <2>2
  <1>6. /\ exit \in Int
        /\ sim.signal.direction = "long" => exit >= sim.signal.target - HalfSpread
        /\ sim.signal.direction = "short" => exit <= sim.signal.target + HalfSpread
    BY <1>1 DEF _apply_spread, _exit_side
  <1>7. r.gain = FeeScale * Sgn(sim.signal.direction) * (exit - EntryPrice)
    BY <1>3, ExitResults
  <1> HIDE DEF base, exit
  <1>8. r.gain = Gain(exit)
    BY <1>4, <1>6, <1>7, GainOfExit
  <1>9. CASE sim.signal.direction = "long"
    <2>1. 1 - 2 * HalfSpread <= exit - EntryPrice
      BY <1>1, <1>4, <1>5, <1>6, <1>9
    <2>2. FeeScale * (1 - 2 * HalfSpread) <= FeeScale * (exit - EntryPrice)
      BY <1>1, <1>4, <1>6, <2>1, Scaled
    <2>3. FeeScale * (1 - 2 * HalfSpread) \in Int /\ FeeScale * (exit - EntryPrice) \in Int
      BY <1>1, <1>4, <1>6, Scaled
    <2> QED BY <1>8, <1>9, <2>2, <2>3 DEF Gain
  <1>10. CASE sim.signal.direction = "short"
    <2>1. 1 - 2 * HalfSpread <= EntryPrice - exit
      BY <1>1, <1>4, <1>5, <1>6, <1>10
    <2>2. FeeScale * (1 - 2 * HalfSpread) <= FeeScale * (EntryPrice - exit)
      BY <1>1, <1>4, <1>6, <2>1, Scaled
    <2>3. FeeScale * (1 - 2 * HalfSpread) \in Int /\ FeeScale * (EntryPrice - exit) \in Int
      BY <1>1, <1>4, <1>6, Scaled
    <2> QED BY <1>8, <1>10, <2>2, <2>3 DEF Gain
  <1> QED BY <1>1, <1>9, <1>10

(* For all prices, spreads, slippages and fee rates and any candles: an     *)
(* exit of the simulation could have happened where it did, a stop costs    *)
(* what the position was sized for and slippage at most, unless its candle  *)
(* opened beyond it, and a target pays its distance less the spread         *)
(* (SimulationExecutionService.execute_replay_signal).                      *)
THEOREM BacktestIsPossible == SimInit => BacktestIsNotOptimistic
  <1>1. SimInit => ExitsArePossible
    BY ExitsPossible, NothingBefore DEF ExitsArePossible
  <1> QED BY <1>1, StopLossIsBounded, TargetPaysItsDistance DEF BacktestIsNotOptimistic

-----------------------------------------------------------------------------
(* The portfolio of a replay. *)

(* What a replay tells of a trade, and the portfolio it keeps.              *)
Trade ==
    [symbol : ReplaySymbols, entry_step : Nat, close_step : Nat, entry_day : 1..MaxDays,
     dawn : Nat, net : {-1, 0, 1}]

PortfolioState ==
    [open : SUBSET ReplaySymbols, cooldown_until : [ReplaySymbols -> Int],
     daily_trades : [1..MaxDays -> Nat], consecutive_losses : Nat,
     halted : BOOLEAN, date : 0..MaxDays]

LEMMA RecordedTrade ==
    ASSUME NEW p \in PortfolioState, NEW c \in Trade
    PROVE  LET q == _record_closed_trade(p, c)
           IN  /\ q \in PortfolioState
               /\ q.date = p.date
               /\ q.open = p.open \ {c.symbol}
               /\ \A s \in ReplaySymbols :
                     q.cooldown_until[s] = IF s = c.symbol THEN c.close_step + cooldown_candles
                                           ELSE p.cooldown_until[s]
               /\ \A d \in 1..MaxDays :
                     q.daily_trades[d] = p.daily_trades[d] + IF d = c.entry_day THEN 1 ELSE 0
               /\ c.net = 0 => /\ q.consecutive_losses = p.consecutive_losses
                               /\ q.halted = p.halted
               /\ c.net = 1 => q.consecutive_losses = 0 /\ q.halted = p.halted
               /\ c.net = -1 =>
                     /\ q.consecutive_losses = p.consecutive_losses + 1
                     /\ q.halted <=> \/ p.halted
                                     \/ q.consecutive_losses >= hard_pause_consecutive_losses
  <1> DEFINE r == [p EXCEPT !.open = @ \ {c.symbol},
                            !.cooldown_until[c.symbol] = c.close_step + cooldown_candles,
                            !.daily_trades[c.entry_day] = @ + 1]
  <1>1. cooldown_candles \in Nat /\ MaxDays \in Nat
    BY ReplayAssumption
  <1>2. r \in PortfolioState
    <2> DEFINE u == [p.cooldown_until EXCEPT ![c.symbol] = c.close_step + cooldown_candles]
               n == [p.daily_trades EXCEPT ![c.entry_day] = @ + 1]
    <2>1. u \in [ReplaySymbols -> Int]
      BY <1>1 DEF PortfolioState, Trade
    <2>2. n \in [1..MaxDays -> Nat]
      BY <1>1 DEF PortfolioState, Trade
    <2>3. p.open \ {c.symbol} \in SUBSET ReplaySymbols
      BY DEF PortfolioState
    <2>4. r = [p EXCEPT !.open = @ \ {c.symbol}, !.cooldown_until = u, !.daily_trades = n]
      BY DEF PortfolioState
    <2> HIDE DEF u, n, r
    <2> QED BY <2>1, <2>2, <2>3, <2>4 DEF PortfolioState
  <1>3. /\ r.date = p.date /\ r.open = p.open \ {c.symbol}
        /\ r.consecutive_losses = p.consecutive_losses /\ r.halted = p.halted
        /\ \A s \in ReplaySymbols :
              r.cooldown_until[s] = IF s = c.symbol THEN c.close_step + cooldown_candles
                                    ELSE p.cooldown_until[s]
        /\ \A d \in 1..MaxDays :
              r.daily_trades[d] = p.daily_trades[d] + IF d = c.entry_day THEN 1 ELSE 0
    BY <1>1 DEF PortfolioState, Trade
  <1>4. _record_closed_trade(p, c) = WithResult(r, c.net)
    BY DEF _record_closed_trade
  <1> HIDE DEF r
  <1>5. c.net \in {-1, 0, 1}
    BY DEF Trade
  <1>6. CASE c.net = 0
    BY <1>2, <1>3, <1>4, <1>6 DEF WithResult
  <1>7. CASE c.net = 1
    <2> DEFINE q == [r EXCEPT !.consecutive_losses = 0]
    <2>1. q \in PortfolioState /\ q.consecutive_losses = 0 /\ q.halted = r.halted
          /\ q.date = r.date /\ q.open = r.open /\ q.cooldown_until = r.cooldown_until
          /\ q.daily_trades = r.daily_trades
      BY <1>2 DEF PortfolioState
    <2>2. _record_closed_trade(p, c) = q
      BY <1>4, <1>7 DEF WithResult
    <2> HIDE DEF q
    <2> QED BY <1>3, <1>7, <2>1, <2>2
  <1>8. CASE c.net = -1
    <2> DEFINE q == [r EXCEPT !.consecutive_losses = @ + 1,
                              !.halted = @ \/ r.consecutive_losses + 1
                                                 >= hard_pause_consecutive_losses]
    <2> DEFINE more == r.consecutive_losses + 1
               over == \/ r.halted
                       \/ r.consecutive_losses + 1 >= hard_pause_consecutive_losses
    <2>0. more \in Nat /\ over \in BOOLEAN
      BY <1>2 DEF PortfolioState
    <2>1. q \in PortfolioState /\ q.consecutive_losses = r.consecutive_losses + 1
          /\ q.date = r.date /\ q.open = r.open /\ q.cooldown_until = r.cooldown_until
          /\ q.daily_trades = r.daily_trades
      <3>1. q = [r EXCEPT !.consecutive_losses = more, !.halted = over]
        BY <1>2 DEF PortfolioState
      <3>2. q.consecutive_losses = more
        BY <1>2 DEF PortfolioState
      <3> HIDE DEF q, over
      <3>3. q \in PortfolioState
        <4> HIDE DEF more
        <4> QED BY <1>2, <2>0, <3>1 DEF PortfolioState
      <3>4. q.date = r.date /\ q.open = r.open /\ q.cooldown_until = r.cooldown_until
            /\ q.daily_trades = r.daily_trades
        BY <1>2, <3>1 DEF PortfolioState
      <3> QED BY <3>2, <3>3, <3>4
    <2>2. q.halted <=> \/ r.halted
                      \/ r.consecutive_losses + 1 >= hard_pause_consecutive_losses
      BY <1>2 DEF PortfolioState
    <2>3. _record_closed_trade(p, c) = q
      BY <1>4, <1>8 DEF WithResult
    <2> HIDE DEF q
    <2> QED BY <1>3, <1>8, <2>1, <2>2, <2>3
  <1> QED BY <1>5, <1>6, <1>7, <1>8

(* The portfolio after the closures of a step, one after the other.         *)
LEMMA ClosuresOneByOne ==
    ASSUME NEW p \in PortfolioState, NEW cs \in Seq(Trade)
    PROVE  \E h \in [0..Len(cs) -> PortfolioState] :
              /\ h[0] = p
              /\ \A k \in 1..Len(cs) : h[k] = _record_closed_trade(h[k - 1], cs[k])
              /\ h[Len(cs)] = FoldLeft(_record_closed_trade, p, cs)
  <1> DEFINE n == Len(cs)
             V == PortfolioState
             act == [a \in (1..n) \X V |-> _record_closed_trade(a[2], cs[a[1]])]
             Def(it) == it = [s \in SUBSET DOMAIN cs |->
                                IF s = {} THEN p
                                ELSE LET x == Max(s)
                                     IN  _record_closed_trade(it[s \ {x}], cs[x])]
             iter == CHOOSE it : Def(it)
  <1>1. DOMAIN cs = 1..n /\ n \in Nat /\ \A i \in 1..n : cs[i] \in Trade
    OBVIOUS
  <1> HIDE DEF n, V
  <1>2. act \in [(1..n) \X V -> V] /\ p \in V
    <2>1. \A a \in (1..n) \X V : _record_closed_trade(a[2], cs[a[1]]) \in V
      BY <1>1, RecordedTrade DEF V
    <2> QED BY <2>1 DEF V
  <1>3. \A k \in 1..n : \A v \in V : act[<<k, v>>] = _record_closed_trade(v, cs[k])
    OBVIOUS
  <1>4. \A s \in SUBSET (1..n) : s # {} => Max(s) \in 1..n /\ s \ {Max(s)} \in SUBSET (1..n)
    BY <1>1, LastNumber
  <1> HIDE DEF act
  <1>5. PICK it : FoldsTo(it, n, V, p, act)
    BY <1>1, <1>2, FoldExists
  <1>6. Def(it)
    <2>1. \A s \in SUBSET (1..n) :
             s # {} => it[s] = _record_closed_trade(it[s \ {Max(s)}], cs[Max(s)])
      BY <1>3, <1>4, <1>5 DEF FoldsTo
    <2>2. it = [s \in SUBSET (1..n) |-> it[s]] /\ it[{}] = p
      BY <1>5 DEF FoldsTo
    <2> QED BY <1>1, <2>1, <2>2, Zenon
  <1>7. Def(iter)
    <2> HIDE DEF Def
    <2> QED BY <1>6
  <1>8. FoldLeft(_record_closed_trade, p, cs) = iter[DOMAIN cs]
    BY DEF FoldLeft, MapThenFoldSet
  <1> HIDE DEF iter
  <1>9. Unfolds(iter, n, V, p, act)
    BY <1>1, <1>3, <1>4, <1>7 DEF Unfolds
  <1>10. PICK h : Steps(h, n, V, p, act) /\ h[n] = iter[1..n]
    <2>1. Reaches(iter, n, V, p, act)
      BY <1>1, <1>2, <1>9, FoldSteps
    <2> QED BY <2>1 DEF Reaches
  <1>11. \A k \in 1..n : h[k] = _record_closed_trade(h[k - 1], cs[k])
    <2>1. \A k \in 1..n : k - 1 \in 0..n
      BY <1>1
    <2> QED BY <1>3, <1>10, <2>1 DEF Steps
  <1> QED BY <1>1, <1>8, <1>10, <1>11 DEF Steps, n, V

-----------------------------------------------------------------------------
(* What a portfolio knows of the trades of a log. *)

(* Trades are closed in the order of their steps, and those of one step in  *)
(* the order in which they were executed.                                   *)
Before(l, a, b) ==
    \/ l[a].close_step < l[b].close_step
    \/ l[a].close_step = l[b].close_step /\ a < b

(* The trades among P that count for the breaker since the step low.        *)
Counted(l, P, low) == {i \in P : l[i].net # 0 /\ l[i].close_step >= low}

(* Losses among C with no win between them.                                 *)
Streak(l, C, S) ==
    /\ S \subseteq C
    /\ \A i \in S : l[i].net < 0
    /\ \A i \in C \ S : \A a, b \in S : ~(Before(l, a, i) /\ Before(l, i, b))

(* Nothing of C comes after the streak.                                     *)
Trailing(l, C, S) == \A i \in C \ S : \A a \in S : ~Before(l, a, i)

(* The breaker has seen every streak, and counts the last one.              *)
Breaker(q, l, P, low) ==
    \A S \in SUBSET Counted(l, P, low) :
       Streak(l, Counted(l, P, low), S) =>
          /\ Cardinality(S) >= hard_pause_consecutive_losses => q.halted
          /\ Trailing(l, Counted(l, P, low), S) => Cardinality(S) <= q.consecutive_losses

(* The trades P of the log are recorded in the portfolio.                   *)
Ledger(q, l, P) ==
    /\ \A i \in P : q.cooldown_until[l[i].symbol] >= l[i].close_step + cooldown_candles
    /\ \A d \in 1..MaxDays : q.daily_trades[d] = Cardinality({i \in P : l[i].entry_day = d})

(* They are, and the others are open.                                       *)
Book(q, l, P) ==
    /\ q.open = {l[i].symbol : i \in DOMAIN l \ P}
    /\ Ledger(q, l, P)

(* Trades that share no symbol.                                             *)
Apart(l, T) == \A i, j \in T : l[i].symbol = l[j].symbol => i = j

(* Recording a trade that is closed after all those on record.              *)
LEMMA BreakerCounts ==
    ASSUME NEW q \in PortfolioState, NEW l \in Seq(Trade), NEW P, P \subseteq DOMAIN l,
           NEW i \in DOMAIN l \ P, NEW low \in Nat, Breaker(q, l, P, low),
           \A j \in P : Before(l, j, i)
    PROVE  Breaker(_record_closed_trade(q, l[i]), l, P \cup {i}, low)
  <1> DEFINE r == _record_closed_trade(q, l[i])
             C == Counted(l, P, low)
             D == Counted(l, P \cup {i}, low)
  <1>0. /\ hard_pause_consecutive_losses \in Nat \ {0}
        /\ IsFiniteSet(P) /\ DOMAIN l \subseteq Nat
        /\ \A j \in DOMAIN l : l[j] \in Trade
    <2>1. DOMAIN l = 1..Len(l) /\ IsFiniteSet(1..Len(l))
      BY FS_Interval
    <2> QED BY <2>1, FS_Subset, ReplayAssumption
  <1>1. l[i] \in Trade /\ i \in Nat
    BY <1>0
  <1>2. /\ r \in PortfolioState
        /\ l[i].net = 0 => r.consecutive_losses = q.consecutive_losses /\ r.halted = q.halted
        /\ l[i].net = 1 => r.consecutive_losses = 0 /\ r.halted = q.halted
        /\ l[i].net = -1 =>
              /\ r.consecutive_losses = q.consecutive_losses + 1
              /\ r.halted <=> \/ q.halted
                              \/ r.consecutive_losses >= hard_pause_consecutive_losses
    BY <1>1, RecordedTrade
  <1>3. l[i].net \in {-1, 0, 1} /\ q.consecutive_losses \in Nat /\ r.consecutive_losses \in Nat
    BY <1>1, <1>2 DEF Trade, PortfolioState
  <1>4. C \subseteq D /\ D \subseteq C \cup {i} /\ C \subseteq P /\ i \notin C
        /\ \A j \in D : l[j].net # 0
    BY DEF Counted
  <1> HIDE DEF r
  <1> SUFFICES ASSUME NEW S \in SUBSET D, Streak(l, D, S)
               PROVE  /\ Cardinality(S) >= hard_pause_consecutive_losses => r.halted
                      /\ Trailing(l, D, S) => Cardinality(S) <= r.consecutive_losses
    BY DEF Breaker, r
  <1>5. IsFiniteSet(S) /\ Cardinality(S) \in Nat
    BY <1>0, <1>4, FS_Subset, FS_AddElement, FS_CardinalityType
  <1>6. \A j \in C : Before(l, j, i)
    BY <1>4
  <1>7. \A T \in SUBSET C : Streak(l, C, T) =>
           /\ Cardinality(T) >= hard_pause_consecutive_losses => q.halted
           /\ Trailing(l, C, T) => Cardinality(T) <= q.consecutive_losses
    BY DEF Breaker
  <1>8. CASE i \in S
    <2> DEFINE T == S \ {i}
    <2> HIDE DEF C, D
    <2>1. l[i].net = -1
      BY <1>3, <1>8 DEF Streak
    <2>2. T \in SUBSET C /\ C \ T \subseteq D \ S
      BY <1>4, <1>8
    <2>3. Streak(l, C, T)
      BY <2>2 DEF Streak
    <2>4. Trailing(l, C, T)
      BY <1>6, <1>8, <2>2 DEF Trailing, Streak
    <2>5. Cardinality(S) = Cardinality(T) + 1 /\ Cardinality(T) \in Nat
      <3>1. IsFiniteSet(T) /\ Cardinality(T) = Cardinality(S) - 1
        BY <1>5, <1>8, FS_RemoveElement
      <3> HIDE DEF T
      <3> QED BY <1>5, <3>1, FS_CardinalityType
    <2>6. Cardinality(T) <= q.consecutive_losses
      BY <1>7, <2>2, <2>3, <2>4
    <2> HIDE DEF T
    <2>7. Cardinality(S) <= r.consecutive_losses
      BY <1>2, <1>3, <2>1, <2>5, <2>6
    <2> QED BY <1>0, <1>2, <1>3, <1>5, <2>1, <2>7
  <1>9. CASE i \notin S
    <2> HIDE DEF C, D
    <2>1. S \in SUBSET C /\ C \ S \subseteq D \ S
      BY <1>4, <1>9
    <2>2. Streak(l, C, S)
      BY <2>1 DEF Streak
    <2>3. Cardinality(S) >= hard_pause_consecutive_losses => r.halted
      BY <1>2, <1>3, <1>7, <2>1, <2>2
    <2>4. ASSUME Trailing(l, D, S) PROVE Cardinality(S) <= r.consecutive_losses
      <3>1. CASE l[i].net = 0
        <4>1. D = C
          BY <1>4, <3>1
        <4> QED BY <1>2, <1>7, <2>1, <2>2, <2>4, <3>1, <4>1
      <3>2. CASE l[i].net # 0 /\ l[i].close_step >= low
        <4>1. i \in D \ S
          BY <1>9, <3>2 DEF D, Counted
        <4>2. S = {}
          BY <1>6, <2>1, <2>4, <4>1 DEF Trailing
        <4> QED BY <1>3, <4>2, FS_EmptySet
      <3>3. CASE ~(l[i].close_step >= low)
        <4>1. \A j \in C : l[j].close_step >= low /\ l[j].close_step <= l[i].close_step
                           /\ l[j].close_step \in Nat /\ l[i].close_step \in Nat
          <5> SUFFICES ASSUME NEW j \in C
                       PROVE  /\ l[j].close_step >= low /\ l[j].close_step <= l[i].close_step
                              /\ l[j].close_step \in Nat /\ l[i].close_step \in Nat
            OBVIOUS
          <5>1. j \in DOMAIN l /\ l[j].close_step >= low
            BY <1>4 DEF C, Counted
          <5>2. l[j].close_step \in Nat /\ l[i].close_step \in Nat
            BY <1>0, <1>1, <5>1 DEF Trade
          <5>3. Before(l, j, i)
            BY <1>6
          <5> QED BY <5>1, <5>2, <5>3 DEF Before
        <4>2. S = {}
          BY <2>1, <3>3, <4>1
        <4> QED BY <1>3, <4>2, FS_EmptySet
      <3> QED BY <3>1, <3>2, <3>3
    <2> QED BY <2>3, <2>4
  <1> QED BY <1>8, <1>9

LEMMA LedgerKeeps ==
    ASSUME NEW q \in PortfolioState, NEW l \in Seq(Trade), NEW P, P \subseteq DOMAIN l,
           NEW i \in DOMAIN l \ P, Ledger(q, l, P),
           \A j \in P : l[j].close_step <= l[i].close_step
    PROVE  Ledger(_record_closed_trade(q, l[i]), l, P \cup {i})
  <1> DEFINE r == _record_closed_trade(q, l[i])
             R == P \cup {i}
  <1>0. /\ IsFiniteSet(P) /\ cooldown_candles \in Nat
        /\ \A j \in DOMAIN l : l[j] \in Trade
    <2>1. DOMAIN l = 1..Len(l) /\ IsFiniteSet(1..Len(l))
      BY FS_Interval
    <2> QED BY <2>1, FS_Subset, ReplayAssumption
  <1>1. l[i] \in Trade
    BY <1>0
  <1>2. /\ r.open = q.open \ {l[i].symbol}
        /\ \A s \in ReplaySymbols :
              r.cooldown_until[s] = IF s = l[i].symbol THEN l[i].close_step + cooldown_candles
                                    ELSE q.cooldown_until[s]
        /\ \A d \in 1..MaxDays :
              r.daily_trades[d] = q.daily_trades[d] + IF d = l[i].entry_day THEN 1 ELSE 0
    BY <1>1, RecordedTrade
  <1> HIDE DEF r
  <1>4. ASSUME NEW j \in R
        PROVE  r.cooldown_until[l[j].symbol] >= l[j].close_step + cooldown_candles
    <2>1. l[j] \in Trade
      BY <1>0
    <2>2. l[j].symbol \in ReplaySymbols /\ l[j].close_step \in Nat /\ l[i].close_step \in Nat
      BY <1>1, <2>1 DEF Trade
    <2>3. l[j].close_step <= l[i].close_step
      BY <2>2
    <2>4. CASE l[j].symbol = l[i].symbol
      BY <1>0, <1>2, <2>2, <2>3, <2>4
    <2>5. CASE l[j].symbol # l[i].symbol
      <3>1. j \in P
        BY <2>5
      <3> QED BY <1>2, <2>2, <2>5, <3>1 DEF Ledger
    <2> QED BY <2>4, <2>5
  <1>5. ASSUME NEW d \in 1..MaxDays
        PROVE  r.daily_trades[d] = Cardinality({j \in R : l[j].entry_day = d})
    <2> DEFINE A == {j \in P : l[j].entry_day = d}
               B == {j \in R : l[j].entry_day = d}
    <2>1. IsFiniteSet(A) /\ Cardinality(A) \in Nat /\ i \notin A
      BY <1>0, FS_Subset, FS_CardinalityType
    <2>2. q.daily_trades[d] = Cardinality(A)
      BY DEF Ledger
    <2>3. CASE d = l[i].entry_day
      <3>1. B = A \cup {i}
        BY <2>3
      <3> HIDE DEF A, B
      <3>2. Cardinality(B) = Cardinality(A) + 1
        BY <2>1, <3>1, FS_AddElement
      <3> QED BY <1>2, <2>2, <2>3, <3>2 DEF B
    <2>4. CASE d # l[i].entry_day
      <3>1. B = A
        BY <2>4
      <3> HIDE DEF A, B
      <3>2. r.daily_trades[d] = q.daily_trades[d]
        BY <1>2, <2>1, <2>2, <2>4
      <3> QED BY <2>2, <3>1, <3>2 DEF B
    <2> QED BY <2>3, <2>4
  <1> QED BY <1>4, <1>5 DEF Ledger, r

LEMMA BookKeeps ==
    ASSUME NEW q \in PortfolioState, NEW l \in Seq(Trade), NEW P, P \subseteq DOMAIN l,
           NEW i \in DOMAIN l \ P, Book(q, l, P), Apart(l, DOMAIN l \ P),
           \A j \in P : l[j].close_step <= l[i].close_step
    PROVE  Book(_record_closed_trade(q, l[i]), l, P \cup {i})
  <1> DEFINE r == _record_closed_trade(q, l[i])
  <1>1. Ledger(r, l, P \cup {i})
    BY LedgerKeeps DEF Book
  <1>2. r.open = q.open \ {l[i].symbol}
    <2>1. \A x \in PortfolioState, y \in Trade :
             _record_closed_trade(x, y).open = x.open \ {y.symbol}
      BY RecordedTrade
    <2>2. l[i] \in Trade
      OBVIOUS
    <2> QED BY <2>1, <2>2
  <1> HIDE DEF r
  <1>3. r.open = {l[j].symbol : j \in DOMAIN l \ (P \cup {i})}
    BY <1>2 DEF Book, Apart
  <1> QED BY <1>1, <1>3 DEF Book, r

(* The closures scheduled for a step are the trades T, in their order.      *)
Lists(cs, l, T) ==
    \E m \in [1..Len(cs) -> T] :
       /\ \A k \in 1..Len(cs) : cs[k] = l[m[k]]
       /\ \A j, k \in 1..Len(cs) : j < k => m[j] < m[k]
       /\ \A i \in T : \E k \in 1..Len(cs) : m[k] = i

(* The closures of a step, recorded one after the other.                    *)
LEMMA ClosuresRecorded ==
    ASSUME NEW p \in PortfolioState, NEW l \in Seq(Trade),
           NEW P, P \subseteq DOMAIN l, NEW T, T \subseteq DOMAIN l \ P,
           NEW cs \in Seq(Trade), Lists(cs, l, T), NEW low \in Nat,
           Book(p, l, P), Breaker(p, l, P, low), Apart(l, DOMAIN l \ P),
           \A i \in T : \A j \in P : l[j].close_step < l[i].close_step,
           \A i, j \in T : l[i].close_step = l[j].close_step
    PROVE  LET q == FoldLeft(_record_closed_trade, p, cs)
           IN  /\ q \in PortfolioState /\ q.date = p.date
               /\ Book(q, l, P \cup T) /\ Breaker(q, l, P \cup T, low)
  <1>1. PICK h \in [0..Len(cs) -> PortfolioState] :
              /\ h[0] = p
              /\ \A k \in 1..Len(cs) : h[k] = _record_closed_trade(h[k - 1], cs[k])
              /\ h[Len(cs)] = FoldLeft(_record_closed_trade, p, cs)
    BY ClosuresOneByOne
  <1>2. PICK m \in [1..Len(cs) -> T] :
              /\ \A k \in 1..Len(cs) : cs[k] = l[m[k]]
              /\ \A j, k \in 1..Len(cs) : j < k => m[j] < m[k]
              /\ \A i \in T : \E k \in 1..Len(cs) : m[k] = i
    BY DEF Lists
  <1> DEFINE Done(k) == P \cup {m[j] : j \in 1..k}
             Fine(k) == /\ h[k].date = p.date
                        /\ Book(h[k], l, Done(k)) /\ Breaker(h[k], l, Done(k), low)
  <1>3. Len(cs) \in Nat /\ DOMAIN l \subseteq Nat /\ \A i \in DOMAIN l : l[i] \in Trade
    OBVIOUS
  <1>4. Fine(0)
    <2>1. Done(0) = P
      OBVIOUS
    <2> HIDE DEF Done
    <2> QED BY <1>1, <2>1
  <1>5. ASSUME NEW k \in 1..Len(cs), Fine(k - 1) PROVE Fine(k)
    <2> DEFINE i == m[k]
    <2>0. k \in Nat /\ k >= 1 /\ k - 1 \in 0..Len(cs)
      BY <1>3
    <2>1. i \in T /\ cs[k] = l[i]
      BY <1>2
    <2>2. \A j \in 1..(k - 1) : m[j] \in T /\ m[j] < i /\ m[j] # i
      <3> SUFFICES ASSUME NEW j \in 1..(k - 1) PROVE m[j] \in T /\ m[j] < i /\ m[j] # i
        OBVIOUS
      <3>1. j \in 1..Len(cs) /\ j < k
        BY <1>3
      <3>2. m[j] \in T /\ m[j] < i
        BY <1>2, <3>1
      <3>3. m[j] \in Nat /\ i \in Nat
        BY <1>3, <2>1, <3>2
      <3> QED BY <3>2, <3>3
    <2>3. Done(k) = Done(k - 1) \cup {i}
      <3>1. 1..k = 1..(k - 1) \cup {k}
        BY <2>0
      <3> QED BY <3>1
    <2> HIDE DEF i
    <2>4. Done(k - 1) \subseteq DOMAIN l /\ P \subseteq Done(k - 1)
          /\ i \in DOMAIN l \ Done(k - 1)
      BY <2>1, <2>2
    <2>5. \A j \in Done(k - 1) : Before(l, j, i) /\ l[j].close_step <= l[i].close_step
      <3> SUFFICES ASSUME NEW j \in Done(k - 1)
                   PROVE  Before(l, j, i) /\ l[j].close_step <= l[i].close_step
        OBVIOUS
      <3>1. l[j].close_step \in Nat /\ l[i].close_step \in Nat
        BY <1>3, <2>4 DEF Trade
      <3>2. CASE j \in P
        BY <2>1, <3>1, <3>2 DEF Before
      <3>3. CASE \E n \in 1..(k - 1) : j = m[n]
        BY <2>1, <2>2, <3>1, <3>3 DEF Before
      <3> QED BY <3>2, <3>3
    <2>6. Apart(l, DOMAIN l \ Done(k - 1))
      BY <2>4 DEF Apart
    <2>7. h[k] = _record_closed_trade(h[k - 1], l[i]) /\ h[k - 1] \in PortfolioState
      BY <1>1, <2>0, <2>1
    <2>8. l[i] \in Trade
      BY <1>3, <2>4
    <2> HIDE DEF Done
    <2>9. h[k].date = p.date
      <3>1. _record_closed_trade(h[k - 1], l[i]).date = h[k - 1].date
        <4>1. h[k - 1] \in PortfolioState
          BY <2>7
        <4> QED BY <2>8, <4>1, RecordedTrade
      <3> QED BY <1>5, <2>7, <3>1
    <2>10. Book(h[k], l, Done(k))
      BY SMTT(30), <1>5, <2>3, <2>4, <2>5, <2>6, <2>7, BookKeeps
    <2>11. Breaker(h[k], l, Done(k), low)
      <3>1. Breaker(h[k - 1], l, Done(k - 1), low) /\ h[k - 1] \in PortfolioState
        BY <1>5, <2>7
      <3>2. \A j \in Done(k - 1) : Before(l, j, i)
        BY <2>5
      <3>3. Breaker(_record_closed_trade(h[k - 1], l[i]), l, Done(k - 1) \cup {i}, low)
        BY <2>4, <3>1, <3>2, BreakerCounts
      <3> QED BY <2>3, <2>7, <3>3
    <2> QED BY <2>9, <2>10, <2>11
  <1>6. Fine(Len(cs))
    <2> HIDE DEF Fine
    <2> DEFINE Bad == {k \in 0..Len(cs) : ~Fine(k)}
    <2> SUFFICES ASSUME Bad # {} PROVE FALSE
      BY <1>3
    <2>0. Bad \subseteq Nat
      BY <1>3
    <2>1. PICK k \in Bad : \A j \in Bad : k <= j
      BY <2>0, LeastNumber
    <2>2. k \in 1..Len(cs)
      BY <1>3, <1>4
    <2>3. k - 1 \in 0..Len(cs) /\ ~(k <= k - 1)
      BY <1>3, <2>2
    <2>4. Fine(k - 1)
      BY <2>1, <2>3
    <2> QED BY <1>5, <2>2, <2>4
  <1>7. Done(Len(cs)) = P \cup T
    <2>1. \A j \in 1..Len(cs) : m[j] \in T
      BY <1>2
    <2>2. {m[j] : j \in 1..Len(cs)} = T
      BY <1>2, <2>1
    <2> QED BY <2>2
  <1>8. h[Len(cs)] \in PortfolioState
    BY <1>1, <1>3
  <1> HIDE DEF Done
  <1> QED BY <1>1, <1>6, <1>7, <1>8

-----------------------------------------------------------------------------
(* The limits of a log. *)

TradesApart(l) ==
    \A i, j \in 1..Len(l) :
       i < j /\ l[i].symbol = l[j].symbol
          => l[j].entry_step > l[i].close_step + cooldown_candles

Overlap(l) ==
    \A t \in 0..Candles :
       Cardinality({i \in 1..Len(l) : l[i].entry_step <= t /\ t < l[i].close_step})
          <= max_open_positions

DayLimit(l) ==
    \A d \in 1..MaxDays :
       Cardinality({i \in 1..Len(l) : l[i].entry_day = d})
          <= max_trades_per_day + max_open_positions - 1

(* What counts for the entry of a trade.                                    *)
ClosedFor(l, j) ==
    {i \in 1..(j - 1) : /\ l[i].net # 0
                        /\ l[i].close_step \in l[j].dawn..l[j].entry_step}

StreakLimit(l) ==
    \A j \in 1..Len(l) : \A S \in SUBSET ClosedFor(l, j) :
       Streak(l, ClosedFor(l, j), S) => Cardinality(S) < hard_pause_consecutive_losses

LEMMA LimitsOfLog ==
    /\ TradesApart(log) /\ Overlap(log) <=> TradesKeepTheirDistance
    /\ DayLimit(log) <=> DayLimitIsClose
    /\ StreakLimit(log) <=> NoEntryAfterStreak
  <1>1. TradesApart(log) /\ Overlap(log) <=> TradesKeepTheirDistance
    BY Zenon DEF TradesApart, Overlap, TradesKeepTheirDistance, Trades
  <1>2. DayLimit(log) <=> DayLimitIsClose
    BY Zenon DEF DayLimit, DayLimitIsClose, Trades
  <1>3. StreakLimit(log) <=> NoEntryAfterStreak
    BY DEF StreakLimit, NoEntryAfterStreak, Trades, Streak, ClosedFor, Before
  <1> QED BY <1>1, <1>2, <1>3

(* What the limits of a portfolio leave of a log that they guarded.         *)
Guarded(l) == TradesApart(l) /\ Overlap(l) /\ DayLimit(l) /\ StreakLimit(l)

(* An entry that the portfolio lets pass keeps the limits.                  *)
LEMMA EntryKeepsLimits ==
    ASSUME NEW l \in Seq(Trade), NEW c \in Trade, NEW q \in PortfolioState,
           NEW st \in Nat, NEW P, P = {i \in DOMAIN l : l[i].close_step <= st},
           Book(q, l, P), Breaker(q, l, P, c.dawn), Apart(l, DOMAIN l \ P),
           \A i \in DOMAIN l : l[i].entry_step < st,
           c.entry_step = st, ~q.halted, c.symbol \notin q.open,
           Cardinality(q.open) < max_open_positions,
           st > q.cooldown_until[c.symbol],
           q.daily_trades[c.entry_day] < max_trades_per_day,
           Guarded(l)
    PROVE  Guarded(Append(l, c))
  <1> DEFINE k == Append(l, c)
             n == Len(l) + 1
             U == DOMAIN l \ P
  <1>1. /\ Len(l) \in Nat /\ Len(k) = n /\ DOMAIN l = 1..Len(l) /\ 1..n = DOMAIN l \cup {n}
        /\ n \notin DOMAIN l
        /\ k[n] = c /\ \A i \in DOMAIN l : k[i] = l[i]
    OBVIOUS
  <1>2. \A i \in DOMAIN l : l[i] \in Trade
    OBVIOUS
  <1>3. /\ max_open_positions \in Nat \ {0} /\ max_trades_per_day \in Nat \ {0}
        /\ cooldown_candles \in Nat /\ IsFiniteSet(ReplaySymbols)
    BY ReplayAssumption
  <1>4. IsFiniteSet(DOMAIN l) /\ IsFiniteSet(U) /\ IsFiniteSet(q.open)
    <2>1. IsFiniteSet(DOMAIN l)
      BY <1>1, FS_Interval
    <2>2. q.open \subseteq ReplaySymbols
      BY DEF PortfolioState
    <2> QED BY <1>3, <2>1, <2>2, FS_Subset
  <1>5. /\ Cardinality(U) <= Cardinality(q.open)
        /\ Cardinality(U) \in Nat /\ Cardinality(q.open) \in Nat
    <2> DEFINE f == [i \in U |-> l[i].symbol]
    <2>1. f \in Injection(U, q.open)
      BY DEF Injection, IsInjective, Apart, Book
    <2> QED BY <1>4, <2>1, FS_Injection, FS_CardinalityType
  <1>6. k \in Seq(Trade) /\ c.close_step \in Nat /\ c.symbol \in ReplaySymbols
        /\ c.entry_day \in 1..MaxDays /\ c.dawn \in Nat
    BY DEF Trade
  <1> HIDE DEF k, n, U
  <1>7. TradesApart(k)
    <2> SUFFICES ASSUME NEW i \in 1..n, NEW j \in 1..n, i < j, k[i].symbol = k[j].symbol
                 PROVE  k[j].entry_step > k[i].close_step + cooldown_candles
      BY <1>1 DEF TradesApart
    <2>1. CASE j \in DOMAIN l
      <3>1. i \in DOMAIN l
        BY <1>1, <2>1 DEF n
      <3> QED BY <1>1, <2>1, <3>1 DEF Guarded, TradesApart
    <2>2. CASE j = n
      <3>1. i \in DOMAIN l /\ l[i].symbol = c.symbol
        BY <1>1, <2>2 DEF n
      <3>2. i \in P
        BY <3>1 DEF Book
      <3>3. q.cooldown_until[c.symbol] >= l[i].close_step + cooldown_candles
        BY <3>1, <3>2 DEF Book, Ledger
      <3>4. l[i].close_step \in Nat /\ q.cooldown_until[c.symbol] \in Int
        BY <1>2, <1>6, <3>1 DEF Trade, PortfolioState
      <3> QED BY SMTT(30), <1>1, <1>3, <2>2, <3>1, <3>3, <3>4
    <2> QED BY <1>1, <2>1, <2>2
  <1>8. Overlap(k)
    <2> SUFFICES ASSUME NEW t \in 0..Candles
                 PROVE  Cardinality({i \in 1..n : k[i].entry_step <= t /\ t < k[i].close_step})
                           <= max_open_positions
      BY <1>1 DEF Overlap
    <2> DEFINE A == {i \in 1..Len(l) : l[i].entry_step <= t /\ t < l[i].close_step}
               B == {i \in 1..n : k[i].entry_step <= t /\ t < k[i].close_step}
    <2>1. CASE t < st
      <3>1. n \notin B
        BY <1>1, <2>1
      <3>2. B = A
        BY <1>1, <3>1
      <3> QED BY <3>2 DEF Guarded, Overlap
    <2>2. CASE ~(t < st)
      <3>1. \A i \in A : i \in U
        <4> SUFFICES ASSUME NEW i \in A PROVE i \in U
          OBVIOUS
        <4>1. l[i].close_step \in Nat /\ i \in DOMAIN l
          BY <1>1, <1>2 DEF Trade
        <4> QED BY <2>2, <4>1 DEF U
      <3>2. B \subseteq U \cup {n}
        BY <1>1, <3>1
      <3>3. Cardinality(U \cup {n}) = Cardinality(U) + 1 /\ IsFiniteSet(U \cup {n})
        BY <1>1, <1>4, FS_AddElement DEF U
      <3> HIDE DEF B
      <3>4. Cardinality(B) <= Cardinality(U) + 1 /\ Cardinality(B) \in Nat
        BY <3>2, <3>3, FS_Subset, FS_CardinalityType
      <3> QED BY <1>3, <1>5, <3>4 DEF B
    <2> QED BY <2>1, <2>2
  <1>9. DayLimit(k)
    <2> SUFFICES ASSUME NEW d \in 1..MaxDays
                 PROVE  Cardinality({i \in 1..n : k[i].entry_day = d})
                           <= max_trades_per_day + max_open_positions - 1
      BY <1>1 DEF DayLimit
    <2> DEFINE A == {i \in P : l[i].entry_day = d}
               B == {i \in 1..n : k[i].entry_day = d}
    <2>1. CASE d = c.entry_day
      <3>1. Cardinality(A) = q.daily_trades[d] /\ IsFiniteSet(A) /\ Cardinality(A) \in Nat
        BY <1>4, FS_Subset, FS_CardinalityType DEF Book, Ledger
      <3>2. B \subseteq (A \cup U) \cup {n}
        BY <1>1 DEF U
      <3> HIDE DEF A, B
      <3>3. Cardinality(A \cup U) <= Cardinality(A) + Cardinality(U) /\ IsFiniteSet(A \cup U)
            /\ Cardinality(A \cup U) \in Nat
        <4>1. IsFiniteSet(A \cup U)
          BY <1>4, <3>1, FS_Union
        <4>2. IsFiniteSet(A \cap U) /\ Cardinality(A \cap U) \in Nat
          BY <3>1, FS_Subset, FS_CardinalityType
        <4>3. Cardinality(A \cup U) = Cardinality(A) + Cardinality(U) - Cardinality(A \cap U)
          BY <1>4, <3>1, FS_Union
        <4> QED BY <1>5, <3>1, <4>1, <4>2, <4>3, FS_CardinalityType
      <3>4. Cardinality((A \cup U) \cup {n}) <= Cardinality(A \cup U) + 1
            /\ IsFiniteSet((A \cup U) \cup {n}) /\ Cardinality((A \cup U) \cup {n}) \in Nat
        <4> DEFINE W == A \cup U
        <4>1. IsFiniteSet(W) /\ Cardinality(W) \in Nat
          BY <3>3
        <4> HIDE DEF W
        <4>2. IsFiniteSet(W \cup {n}) /\ Cardinality(W \cup {n}) <= Cardinality(W) + 1
          <5>1. CASE n \in W
            <6>1. W \cup {n} = W
              BY <5>1
            <6>2. IsFiniteSet(W \cup {n}) /\ Cardinality(W \cup {n}) = Cardinality(W)
              BY <4>1, <6>1, Zenon
            <6> QED BY <4>1, <6>2
          <5>2. CASE n \notin W
            <6>1. IsFiniteSet(W \cup {n}) /\ Cardinality(W \cup {n}) = Cardinality(W) + 1
              BY <4>1, <5>2, FS_AddElement
            <6> QED BY <4>1, <6>1
          <5> QED BY <5>1, <5>2
        <4>3. Cardinality(W \cup {n}) \in Nat
          BY <4>2, FS_CardinalityType
        <4> QED BY <4>2, <4>3 DEF W
      <3>5. Cardinality(B) <= Cardinality((A \cup U) \cup {n}) /\ Cardinality(B) \in Nat
        BY <3>2, <3>4, FS_Subset, FS_CardinalityType
      <3>6. Cardinality(A) < max_trades_per_day
        BY <2>1, <3>1
      <3> QED BY <1>3, <1>5, <3>1, <3>3, <3>4, <3>5, <3>6 DEF B
    <2>2. CASE d # c.entry_day
      <3>1. B = {i \in 1..Len(l) : l[i].entry_day = d}
        BY <1>1, <2>2
      <3> QED BY <3>1 DEF Guarded, DayLimit
    <2> QED BY <2>1, <2>2
  <1>10. StreakLimit(k)
    <2> SUFFICES ASSUME NEW j \in 1..n, NEW S \in SUBSET ClosedFor(k, j),
                        Streak(k, ClosedFor(k, j), S)
                 PROVE  Cardinality(S) < hard_pause_consecutive_losses
      BY <1>1 DEF StreakLimit
    <2>1. \A i \in ClosedFor(k, j) : i \in DOMAIN l /\ k[i] = l[i]
      BY <1>1 DEF ClosedFor, n
    <2>2. CASE j \in DOMAIN l
      <3>1. ClosedFor(k, j) = ClosedFor(l, j)
        BY <1>1, <2>2 DEF ClosedFor, n
      <3>2. Streak(l, ClosedFor(l, j), S)
        BY <2>1, <3>1 DEF Streak, Before
      <3> QED BY <1>1, <2>2, <3>1, <3>2 DEF Guarded, StreakLimit
    <2>3. CASE j = n
      <3>1. ClosedFor(k, j) = Counted(l, P, c.dawn)
        <4>1. 1..(j - 1) = DOMAIN l /\ k[j] = c
          BY <1>1, <2>3 DEF n
        <4>2. \A i \in DOMAIN l : l[i].close_step \in c.dawn..st
                                     <=> l[i].close_step >= c.dawn /\ l[i].close_step <= st
          BY SMTT(30), <1>2, <1>6 DEF Trade
        <4> QED BY <1>1, <4>1, <4>2 DEF ClosedFor, Counted
      <3>2. Streak(l, Counted(l, P, c.dawn), S)
        BY ZenonT(30), <2>1, <3>1 DEF Streak, Before
      <3>3. ~(Cardinality(S) >= hard_pause_consecutive_losses)
        BY <3>1, <3>2 DEF Breaker
      <3>4. Cardinality(S) \in Nat /\ hard_pause_consecutive_losses \in Nat
        <4>1. S \subseteq DOMAIN l
          BY <2>1
        <4> QED BY <1>4, <4>1, FS_Subset, FS_CardinalityType, ReplayAssumption
      <3> QED BY <3>3, <3>4
    <2> QED BY <1>1, <2>2, <2>3
  <1> QED BY <1>7, <1>8, <1>9, <1>10 DEF Guarded, k

-----------------------------------------------------------------------------
(* The replay. *)

ClosedBy(l, t) == {i \in DOMAIN l : l[i].close_step < t}

(* The clock runs within the request, and a portfolio of another day means  *)
(* that the day begins with this step.                                      *)
ClockInv ==
    /\ end_step(request) \in 0..Candles
    /\ step \in Nat /\ step <= end_step(request)
    /\ day \in 1..MaxDays /\ dawn \in Nat /\ dawn <= step
    /\ portfolio \in PortfolioState
    /\ portfolio.date = day \/ dawn = step

LogInv ==
    /\ log \in Seq(Trade)
    /\ \A i \in DOMAIN log : /\ log[i].entry_step < step
                             /\ log[i].close_step <= log[i].entry_step + MaxHold

(* What the trades of the log that are still open wait for.                 *)
ScheduleInv ==
    /\ closures \in [CloseSteps -> Seq(Trade)]
    /\ \A t \in CloseSteps :
          Lists(closures[t], log, {i \in DOMAIN log : log[i].close_step = t /\ t >= step})

(* The portfolio records the trades whose closure it was told, and the      *)
(* breaker those of the day; the others are open, one for a symbol.         *)
PortfolioInv ==
    /\ Book(portfolio, log, ClosedBy(log, step))
    /\ Breaker(portfolio, log, ClosedBy(log, step), dawn)
    /\ Apart(log, DOMAIN log \ ClosedBy(log, step))
    /\ Cardinality(portfolio.open) <= max_open_positions

ReplayInv == ClockInv /\ LogInv /\ ScheduleInv /\ PortfolioInv /\ Guarded(log)

(* At first nothing was traded.                                             *)
LEMMA InitReplay == ReplayInit => ReplayInv
  <1> SUFFICES ASSUME ReplayInit PROVE ReplayInv
    OBVIOUS
  <1> USE DEF ReplayInit
  <1>1. /\ {max_open_positions, max_trades_per_day, hard_pause_consecutive_losses,
            required_candle_count, MaxDays} \subseteq Nat \ {0}
        /\ Candles \in Nat /\ cooldown_candles \in Nat /\ MaxHold \in Nat
    BY ReplayAssumption
  <1>2. log = <<>> /\ log \in Seq(Trade) /\ DOMAIN log = {} /\ Len(log) = 0
    OBVIOUS
  <1>3. ClockInv
    <2>1. /\ step = start_step(request) /\ request.start \in -1..Candles
          /\ request.end \in -1..Candles /\ AcceptedRequest(request)
      OBVIOUS
    <2>2. /\ step \in Nat /\ step <= end_step(request)
          /\ end_step(request) \in 0..Candles
      <3>1. /\ step \in Int /\ end_step(request) \in Int
            /\ step >= required_candle_count - 1 /\ step <= end_step(request)
            /\ end_step(request) <= Candles
        BY <1>1, <2>1 DEF AcceptedRequest, start_step, end_step, minimum_step
      <3> QED BY <1>1, <3>1
    <2>3. portfolio \in PortfolioState
      <3>1. [s \in ReplaySymbols |-> -1] \in [ReplaySymbols -> Int]
        OBVIOUS
      <3>2. [d \in 1..MaxDays |-> 0] \in [1..MaxDays -> Nat]
        OBVIOUS
      <3>3. 0 \in 0..MaxDays
        BY <1>1
      <3>4. portfolio = [open |-> {}, cooldown_until |-> [s \in ReplaySymbols |-> -1],
                         daily_trades |-> [d \in 1..MaxDays |-> 0],
                         consecutive_losses |-> 0, halted |-> FALSE, date |-> 0]
        OBVIOUS
      <3> QED BY <3>1, <3>2, <3>3, <3>4 DEF PortfolioState
    <2>4. day = 1 /\ dawn = step /\ 1 \in 1..MaxDays
      BY <1>1
    <2> QED BY <2>2, <2>3, <2>4 DEF ClockInv
  <1>4. LogInv
    BY <1>2 DEF LogInv
  <1>5. ScheduleInv
    <2>1. closures = [t \in CloseSteps |-> <<>>]
      OBVIOUS
    <2>2. closures \in [CloseSteps -> Seq(Trade)]
      BY <2>1
    <2>3. \A t \in CloseSteps : Lists(closures[t], log, {})
      <3> SUFFICES ASSUME NEW t \in CloseSteps PROVE Lists(<<>>, log, {})
        BY <2>1
      <3> DEFINE m == [k \in {} |-> k]
      <3>1. 1..Len(<<>>) = {} /\ m \in [{} -> {}]
        OBVIOUS
      <3> QED BY <3>1 DEF Lists
    <2> QED BY <1>2, <2>2, <2>3 DEF ScheduleInv
  <1>6. PortfolioInv
    <2>1. ClosedBy(log, step) = {}
      BY <1>2 DEF ClosedBy
    <2>2. Book(portfolio, log, {})
      <3>1. portfolio.open = {}
        OBVIOUS
      <3>2. \A d \in 1..MaxDays : portfolio.daily_trades[d] = 0
        OBVIOUS
      <3>3. \A d \in 1..MaxDays : {i \in {} : log[i].entry_day = d} = {}
        OBVIOUS
      <3> QED BY <1>2, <3>1, <3>2, <3>3, FS_EmptySet DEF Book, Ledger
    <2>3. Breaker(portfolio, log, {}, dawn)
      <3>1. Counted(log, {}, dawn) = {}
        BY DEF Counted
      <3>2. portfolio.consecutive_losses = 0
        OBVIOUS
      <3>3. \A S \in SUBSET {} : Cardinality(S) = 0
        BY FS_EmptySet
      <3> QED BY <1>1, <3>1, <3>2, <3>3 DEF Breaker
    <2>4. Apart(log, DOMAIN log \ {})
      BY <1>2 DEF Apart
    <2>5. Cardinality(portfolio.open) <= max_open_positions
      <3>1. portfolio.open = {}
        OBVIOUS
      <3> QED BY <1>1, <3>1, FS_EmptySet
    <2> QED BY <2>1, <2>2, <2>3, <2>4, <2>5 DEF PortfolioInv
  <1>7. Guarded(log)
    <2>1. 1..Len(log) = {}
      BY <1>2
    <2>2. \A t \in 0..Candles :
             {i \in 1..Len(log) : log[i].entry_step <= t /\ t < log[i].close_step} = {}
      BY <2>1
    <2>3. \A d \in 1..MaxDays : {i \in 1..Len(log) : log[i].entry_day = d} = {}
      BY <2>1
    <2>4. Overlap(log) /\ DayLimit(log)
      BY <1>1, <2>2, <2>3, FS_EmptySet DEF Overlap, DayLimit
    <2>5. TradesApart(log) /\ StreakLimit(log)
      BY <2>1 DEF TradesApart, StreakLimit
    <2> QED BY <2>4, <2>5 DEF Guarded
  <1> QED BY <1>3, <1>4, <1>5, <1>6, <1>7 DEF ReplayInv

(* The portfolio that a signal meets: of today, and with all closures told. *)
LEMMA CurrentPortfolio ==
    ASSUME ReplayInv, step < end_step(request)
    PROVE  /\ Current \in PortfolioState /\ Current.date = day
           /\ Book(Current, log, ClosedBy(log, step + 1))
           /\ Breaker(Current, log, ClosedBy(log, step + 1), dawn)
           /\ Apart(log, DOMAIN log \ ClosedBy(log, step + 1))
           /\ Cardinality(Current.open) <= max_open_positions
  <1> DEFINE p == _reset_daily_circuit_breaker(portfolio)
             P == ClosedBy(log, step)
             T == {i \in DOMAIN log : log[i].close_step = step /\ step >= step}
             Q == ClosedBy(log, step + 1)
  <1>1. /\ step \in Nat /\ dawn \in Nat /\ step \in CloseSteps
        /\ hard_pause_consecutive_losses \in Nat \ {0} /\ IsFiniteSet(ReplaySymbols)
        /\ max_open_positions \in Nat
    BY ReplayAssumption DEF ReplayInv, ClockInv, CloseSteps
  <1>2. log \in Seq(Trade) /\ \A i \in DOMAIN log : log[i].close_step \in Nat
    <2>1. log \in Seq(Trade)
      BY DEF ReplayInv, LogInv
    <2>2. \A i \in DOMAIN log : log[i] \in Trade
      BY <2>1
    <2> QED BY <2>1, <2>2 DEF Trade
  <1>3. /\ p \in PortfolioState /\ p.date = day /\ p.open = portfolio.open
        /\ p.cooldown_until = portfolio.cooldown_until
        /\ p.daily_trades = portfolio.daily_trades
        /\ \/ p = portfolio
           \/ p.consecutive_losses = 0 /\ dawn = step
    <2>1. portfolio \in PortfolioState /\ day \in 1..MaxDays /\ day \in 0..MaxDays
          /\ (portfolio.date = day \/ dawn = step)
      BY ReplayAssumption DEF ReplayInv, ClockInv
    <2>2. CASE portfolio.date = day
      BY <2>1, <2>2 DEF _reset_daily_circuit_breaker
    <2>3. CASE portfolio.date # day
      BY <2>1, <2>3 DEF _reset_daily_circuit_breaker, PortfolioState
    <2> QED BY <2>2, <2>3
  <1> HIDE DEF p
  <1>4. Book(p, log, P)
    BY <1>3 DEF ReplayInv, PortfolioInv, Book, Ledger
  <1>5. Breaker(p, log, P, dawn)
    <2>1. CASE p = portfolio
      BY <2>1 DEF ReplayInv, PortfolioInv
    <2>2. CASE dawn = step
      <3>1. Counted(log, P, dawn) = {}
        BY <1>1, <1>2, <2>2 DEF Counted, ClosedBy
      <3>2. \A S \in SUBSET {} : Cardinality(S) = 0
        BY FS_EmptySet
      <3>3. p.consecutive_losses \in Nat
        BY <1>3 DEF PortfolioState
      <3> QED BY <1>1, <3>1, <3>2, <3>3 DEF Breaker
    <2> QED BY <1>3, <2>1, <2>2
  <1>6. Apart(log, DOMAIN log \ P) /\ Cardinality(portfolio.open) <= max_open_positions
    BY DEF ReplayInv, PortfolioInv
  <1>7. closures[step] \in Seq(Trade) /\ Lists(closures[step], log, T)
    BY <1>1 DEF ReplayInv, ScheduleInv
  <1>8. /\ P \subseteq DOMAIN log /\ T \subseteq DOMAIN log \ P /\ Q = P \cup T
        /\ \A i \in T : \A j \in P : log[j].close_step < log[i].close_step
        /\ \A i, j \in T : log[i].close_step = log[j].close_step
    BY <1>1, <1>2 DEF ClosedBy
  <1>9. Current = FoldLeft(_record_closed_trade, p, closures[step])
    BY DEF Current, _apply_scheduled_closures, p
  <1> HIDE DEF P, T, Q
  <1>10. /\ Current \in PortfolioState /\ Current.date = p.date
         /\ Book(Current, log, P \cup T) /\ Breaker(Current, log, P \cup T, dawn)
    <2> DEFINE cs == closures[step]
               q == FoldLeft(_record_closed_trade, p, cs)
    <2>1. /\ p \in PortfolioState /\ log \in Seq(Trade) /\ dawn \in Nat
          /\ Book(p, log, P) /\ Breaker(p, log, P, dawn) /\ Apart(log, DOMAIN log \ P)
      BY <1>1, <1>2, <1>3, <1>4, <1>5, <1>6
    <2>2. /\ P \subseteq DOMAIN log /\ T \subseteq DOMAIN log \ P
          /\ \A i \in T : \A j \in P : log[j].close_step < log[i].close_step
          /\ \A i, j \in T : log[i].close_step = log[j].close_step
      BY <1>8
    <2>3. cs \in Seq(Trade) /\ Lists(cs, log, T)
      BY <1>7
    <2> HIDE DEF cs
    <2>4. /\ q \in PortfolioState /\ q.date = p.date
          /\ Book(q, log, P \cup T) /\ Breaker(q, log, P \cup T, dawn)
      BY <2>1, <2>2, <2>3, ClosuresRecorded
    <2>5. Current = q
      BY <1>9 DEF cs
    <2> HIDE DEF q
    <2> QED BY <2>4, <2>5
  <1>11. Apart(log, DOMAIN log \ Q)
    BY <1>6, <1>8 DEF Apart
  <1>12. Cardinality(Current.open) <= max_open_positions
    <2>1. Current.open \subseteq portfolio.open
      BY <1>3, <1>4, <1>10 DEF Book
    <2>2. IsFiniteSet(portfolio.open)
      <3>1. portfolio.open \subseteq ReplaySymbols
        BY DEF ReplayInv, ClockInv, PortfolioState
      <3> QED BY <1>1, <3>1, FS_Subset
    <2>3. Cardinality(Current.open) <= Cardinality(portfolio.open)
          /\ IsFiniteSet(Current.open)
      BY <2>1, <2>2, FS_Subset
    <2>4. Cardinality(Current.open) \in Nat /\ Cardinality(portfolio.open) \in Nat
      BY <2>2, <2>3, FS_CardinalityType
    <2> QED BY <1>1, <1>6, <2>3, <2>4
  <1> QED BY <1>3, <1>8, <1>10, <1>11, <1>12 DEF Q

(* What the breaker has to have seen is the same at the next candle, or     *)
(* nothing on a new day.                                                    *)
LEMMA BreakerOfNext ==
    ASSUME ReplayInv, NextCandle, NEW q \in PortfolioState, NEW l \in Seq(Trade),
           Breaker(q, l, ClosedBy(l, step + 1), dawn)
    PROVE  Breaker(q, l, ClosedBy(l, step + 1), dawn')
  <1>1. step \in Nat /\ step' = step + 1 /\ hard_pause_consecutive_losses \in Nat \ {0}
    BY ReplayAssumption DEF ReplayInv, ClockInv, NextCandle
  <1>2. CASE dawn' = dawn
    BY <1>2
  <1>3. CASE dawn' = step'
    <2>1. \A i \in DOMAIN l : l[i] \in Trade
      OBVIOUS
    <2>2. Counted(l, ClosedBy(l, step + 1), dawn') = {}
      BY <1>1, <1>3, <2>1 DEF Counted, ClosedBy, Trade
    <2>3. \A S \in SUBSET {} : Cardinality(S) = 0
      BY FS_EmptySet
    <2>4. q.consecutive_losses \in Nat
      BY DEF PortfolioState
    <2> QED BY <1>1, <2>2, <2>3, <2>4 DEF Breaker
  <1> QED BY <1>2, <1>3 DEF NextCandle

(* The clock of the next candle, for a portfolio that is of this day.       *)
LEMMA ClockKeeps ==
    ASSUME ReplayInv, NextCandle, portfolio' \in PortfolioState, portfolio'.date = day
    PROVE  ClockInv'
  <1>1. /\ step \in Nat /\ day \in 1..MaxDays /\ dawn \in Nat /\ dawn <= step
        /\ end_step(request) \in 0..Candles
        /\ MaxDays \in Nat /\ Candles \in Nat
    BY ReplayAssumption DEF ReplayInv, ClockInv
  <1>2. /\ step < end_step(request) /\ step' = step + 1 /\ request' = request
        /\ day' \in {day, day + 1} /\ day' <= MaxDays
        /\ dawn' = IF day' = day THEN dawn ELSE step'
    BY DEF NextCandle
  <1>3. end_step(request)' = end_step(request)
    BY <1>2 DEF end_step
  <1>4. step' \in Nat /\ step' <= end_step(request)
    BY <1>1, <1>2
  <1>5. day' \in 1..MaxDays /\ dawn' \in Nat /\ dawn' <= step'
        /\ (day' = day \/ dawn' = step')
    BY <1>1, <1>2
  <1> HIDE DEF Trade
  <1> QED BY <1>1, <1>3, <1>4, <1>5 DEF ClockInv

(* The schedule without the closures of this step.                          *)
LEMMA ScheduleTaken ==
    ASSUME ReplayInv, step \in CloseSteps
    PROVE  /\ NotDue \in [CloseSteps -> Seq(Trade)]
           /\ \A t \in CloseSteps :
                 Lists(NotDue[t], log, {i \in DOMAIN log : log[i].close_step = t /\ t >= step + 1})
  <1>1. /\ closures \in [CloseSteps -> Seq(Trade)] /\ step \in Nat
        /\ \A t \in CloseSteps :
              Lists(closures[t], log, {i \in DOMAIN log : log[i].close_step = t /\ t >= step})
    BY DEF ReplayInv, ScheduleInv, ClockInv
  <1>2. NotDue \in [CloseSteps -> Seq(Trade)]
    BY <1>1 DEF NotDue
  <1>3. ASSUME NEW t \in CloseSteps
        PROVE  Lists(NotDue[t], log, {i \in DOMAIN log : log[i].close_step = t /\ t >= step + 1})
    <2>1. t \in Nat
      BY ReplayAssumption DEF CloseSteps
    <2>2. CASE t = step
      <3>1. NotDue[t] = <<>>
        BY <1>1, <2>2 DEF NotDue
      <3>2. {i \in DOMAIN log : log[i].close_step = t /\ t >= step + 1} = {}
        BY <1>1, <2>1, <2>2
      <3>3. Lists(<<>>, log, {})
        <4> DEFINE m == [k \in {} |-> k]
        <4>1. 1..Len(<<>>) = {} /\ m \in [{} -> {}]
          OBVIOUS
        <4> QED BY <4>1 DEF Lists
      <3> QED BY <3>1, <3>2, <3>3
    <2>3. CASE t # step
      <3>1. NotDue[t] = closures[t]
        BY <1>1, <2>3 DEF NotDue
      <3>2. (t >= step) <=> (t >= step + 1)
        BY <1>1, <2>1, <2>3
      <3> QED BY <1>1, <3>1, <3>2
    <2> QED BY <2>2, <2>3
  <1> QED BY <1>2, <1>3

(* A candle without a trade.                                                *)
LEMMA NoTradeKeeps == ReplayInv /\ NoTradeStep => ReplayInv'
  <1> SUFFICES ASSUME ReplayInv, NoTradeStep PROVE ReplayInv'
    OBVIOUS
  <1>1. /\ NextCandle /\ portfolio' = Current /\ closures' = NotDue /\ log' = log
        /\ step < end_step(request) /\ step' = step + 1
    BY DEF NoTradeStep, NextCandle
  <1>2. step \in Nat /\ step \in CloseSteps /\ log \in Seq(Trade)
    BY <1>1, ReplayAssumption DEF ReplayInv, ClockInv, LogInv, CloseSteps
  <1>3. /\ Current \in PortfolioState /\ Current.date = day
        /\ Book(Current, log, ClosedBy(log, step + 1))
        /\ Breaker(Current, log, ClosedBy(log, step + 1), dawn)
        /\ Apart(log, DOMAIN log \ ClosedBy(log, step + 1))
        /\ Cardinality(Current.open) <= max_open_positions
    BY <1>1, CurrentPortfolio
  <1>4. ClockInv'
    BY <1>1, <1>3, ClockKeeps
  <1>5. LogInv'
    <2>1. \A i \in DOMAIN log : log[i].entry_step < step /\ log[i] \in Trade
      BY <1>2 DEF ReplayInv, LogInv
    <2>2. \A i \in DOMAIN log : log[i].entry_step < step + 1
      BY <1>2, <2>1 DEF Trade
    <2> QED BY <1>1, <2>2 DEF ReplayInv, LogInv
  <1>6. ScheduleInv'
    BY <1>1, <1>2, ScheduleTaken DEF ScheduleInv, CloseSteps
  <1>7. PortfolioInv'
    <2>1. Breaker(Current, log, ClosedBy(log, step + 1), dawn')
      BY <1>1, <1>2, <1>3, BreakerOfNext
    <2> QED BY <1>1, <1>3, <2>1 DEF PortfolioInv
  <1>8. Guarded(log)'
    BY <1>1 DEF ReplayInv
  <1> QED BY <1>4, <1>5, <1>6, <1>7, <1>8 DEF ReplayInv

(* What is known of the trades of a log is known of them in a longer one.   *)
LEMMA Longer ==
    ASSUME NEW l \in Seq(Trade), NEW c \in Trade, NEW P, P \subseteq DOMAIN l,
           NEW q, NEW low
    PROVE  LET k == Append(l, c)
           IN  /\ Ledger(q, l, P) => Ledger(q, k, P)
               /\ Breaker(q, l, P, low) => Breaker(q, k, P, low)
               /\ \A cs : Lists(cs, l, P) => Lists(cs, k, P)
  <1> DEFINE k == Append(l, c)
  <1>1. \A i \in DOMAIN l : k[i] = l[i]
    OBVIOUS
  <1> HIDE DEF k
  <1>2. Ledger(q, l, P) => Ledger(q, k, P)
    <2>1. \A d : {i \in P : l[i].entry_day = d} = {i \in P : k[i].entry_day = d}
      BY <1>1
    <2> QED BY <1>1, <2>1 DEF Ledger
  <1>3. Breaker(q, l, P, low) => Breaker(q, k, P, low)
    <2>1. Counted(k, P, low) = Counted(l, P, low) /\ Counted(l, P, low) \subseteq DOMAIN l
      BY <1>1 DEF Counted
    <2> DEFINE C == Counted(l, P, low)
    <2> HIDE DEF C
    <2>2. ASSUME NEW S \in SUBSET C
          PROVE  /\ Streak(k, C, S) <=> Streak(l, C, S)
                 /\ Trailing(k, C, S) <=> Trailing(l, C, S)
      <3>1. \A a, b \in C : Before(k, a, b) <=> Before(l, a, b)
        BY <1>1, <2>1 DEF Before, C
      <3>2. \A a \in C : k[a] = l[a]
        BY <1>1, <2>1 DEF C
      <3>3. Streak(k, C, S) <=> Streak(l, C, S)
        BY <3>1, <3>2 DEF Streak
      <3>4. Trailing(k, C, S) <=> Trailing(l, C, S)
        BY <3>1 DEF Trailing
      <3> QED BY <3>3, <3>4
    <2> QED BY <2>1, <2>2 DEF Breaker, C
  <1>4. ASSUME NEW cs, Lists(cs, l, P) PROVE Lists(cs, k, P)
    <2>1. PICK m \in [1..Len(cs) -> P] :
             /\ \A j \in 1..Len(cs) : cs[j] = l[m[j]]
             /\ \A i, j \in 1..Len(cs) : i < j => m[i] < m[j]
             /\ \A i \in P : \E j \in 1..Len(cs) : m[j] = i
      BY <1>4 DEF Lists
    <2>2. \A j \in 1..Len(cs) : cs[j] = k[m[j]]
      BY <1>1, <2>1
    <2> QED BY <2>1, <2>2 DEF Lists
  <1> QED BY <1>2, <1>3, <1>4 DEF k

(* The last trade is listed behind the others.                              *)
LEMMA Listed ==
    ASSUME NEW l \in Seq(Trade), NEW c \in Trade, NEW T, T \subseteq DOMAIN l,
           NEW cs \in Seq(Trade), Lists(cs, l, T)
    PROVE  Lists(Append(cs, c), Append(l, c), T \cup {Len(l) + 1})
  <1> DEFINE k == Append(l, c)
             n == Len(l) + 1
             N == Len(cs)
             ds == Append(cs, c)
  <1>1. /\ Len(l) \in Nat /\ N \in Nat /\ Len(ds) = N + 1 /\ k[n] = c /\ ds[N + 1] = c
        /\ \A i \in DOMAIN l : k[i] = l[i] /\ i < n /\ i \in Nat
        /\ \A j \in 1..N : ds[j] = cs[j]
    OBVIOUS
  <1>2. PICK m \in [1..N -> T] :
           /\ \A j \in 1..N : cs[j] = l[m[j]]
           /\ \A i, j \in 1..N : i < j => m[i] < m[j]
           /\ \A i \in T : \E j \in 1..N : m[j] = i
    BY DEF Lists
  <1> DEFINE w == [j \in 1..(N + 1) |-> IF j = N + 1 THEN n ELSE m[j]]
  <1> HIDE DEF k, n, N, ds
  <1>3. w \in [1..(N + 1) -> T \cup {n}]
    BY <1>1, <1>2
  <1>4. \A j \in 1..N : w[j] = m[j] /\ m[j] \in T /\ w[N + 1] = n
    BY <1>1, <1>2
  <1>5. w[N + 1] = n
    BY <1>1
  <1> HIDE DEF w
  <1>6. \A j \in 1..(N + 1) : ds[j] = k[w[j]]
    <2>1. \A j \in 1..N : ds[j] = k[w[j]]
      BY <1>1, <1>2, <1>4
    <2>2. ds[N + 1] = k[w[N + 1]]
      BY <1>1, <1>5
    <2> QED BY <1>1, <2>1, <2>2
  <1>7. \A i, j \in 1..(N + 1) : i < j => w[i] < w[j]
    <2> SUFFICES ASSUME NEW i \in 1..(N + 1), NEW j \in 1..(N + 1), i < j PROVE w[i] < w[j]
      OBVIOUS
    <2>1. i \in 1..N
      BY <1>1
    <2>2. CASE j = N + 1
      BY <1>1, <1>4, <1>5, <2>1, <2>2
    <2>3. CASE j \in 1..N
      BY <1>2, <1>4, <2>1, <2>3
    <2> QED BY <1>1, <2>2, <2>3
  <1>8. \A i \in T \cup {n} : \E j \in 1..(N + 1) : w[j] = i
    <2>1. \A i \in T : \E j \in 1..(N + 1) : w[j] = i
      <3> SUFFICES ASSUME NEW i \in T PROVE \E j \in 1..(N + 1) : w[j] = i
        OBVIOUS
      <3>1. PICK j \in 1..N : m[j] = i
        BY <1>2
      <3>2. j \in 1..(N + 1) /\ w[j] = i
        BY <1>1, <1>4, <3>1
      <3> QED BY <3>2
    <2>2. N + 1 \in 1..(N + 1)
      BY <1>1
    <2> QED BY <1>5, <2>1, <2>2
  <1>9. Lists(ds, k, T \cup {n})
    <2>1. 1..Len(ds) = 1..(N + 1)
      BY <1>1
    <2>2. w \in [1..Len(ds) -> T \cup {n}]
      BY <1>3, <2>1
    <2>3. /\ \A j \in 1..Len(ds) : ds[j] = k[w[j]]
          /\ \A i, j \in 1..Len(ds) : i < j => w[i] < w[j]
          /\ \A i \in T \cup {n} : \E j \in 1..Len(ds) : w[j] = i
      BY <1>6, <1>7, <1>8, <2>1
    <2> QED BY <2>2, <2>3 DEF Lists
  <1> QED BY <1>9 DEF ds, k, n

(* A trade that is executed keeps the limits.                               *)
LEMMA EntryKeeps ==
    ASSUME ReplayInv, NEW s \in ReplaySymbols, NEW hold \in 0..MaxHold, NEW net \in {-1, 0, 1},
           ExecuteStep(s, hold, net)
    PROVE  ReplayInv'
  <1> DEFINE c == [symbol |-> s, entry_step |-> step, close_step |-> step + hold,
                   entry_day |-> day, dawn |-> dawn, net |-> net]
             l == log
             k == Append(l, c)
             n == Len(l) + 1
             P == ClosedBy(l, step + 1)
             q == Current
  <1>1. /\ NextCandle /\ _can_execute_signal(q, s) /\ _track_execution(c) /\ log' = k
        /\ step < end_step(request) /\ step' = step + 1
    BY DEF ExecuteStep, NextCandle
  <1>2. /\ step \in Nat /\ step \in CloseSteps /\ step < Candles /\ day \in 1..MaxDays
        /\ dawn \in Nat /\ l \in Seq(Trade) /\ Candles \in Nat /\ MaxHold \in Nat
        /\ hold \in Nat /\ hold <= MaxHold
    BY SMTT(30), <1>1, ReplayAssumption DEF ReplayInv, ClockInv, LogInv, CloseSteps
  <1>3. /\ c \in Trade /\ c.symbol = s /\ c.entry_step = step /\ c.close_step = step + hold
        /\ c.entry_day = day /\ c.dawn = dawn /\ c.net = net
    BY <1>2 DEF Trade
  <1>4. /\ q \in PortfolioState /\ q.date = day /\ Book(q, l, P) /\ Breaker(q, l, P, dawn)
        /\ Apart(l, DOMAIN l \ P) /\ Cardinality(q.open) <= max_open_positions
    BY <1>1, CurrentPortfolio
  <1>5. /\ ~q.halted /\ s \notin q.open /\ Cardinality(q.open) < max_open_positions
        /\ step > q.cooldown_until[s] /\ q.daily_trades[day] < max_trades_per_day
    BY <1>1 DEF _can_execute_signal
  <1> HIDE DEF c, q
  <1>6. /\ k \in Seq(Trade) /\ Len(l) \in Nat /\ Len(k) = n /\ k[n] = c
        /\ DOMAIN k = DOMAIN l \cup {n} /\ n \notin DOMAIN l
        /\ DOMAIN l = 1..Len(l) /\ \A i \in DOMAIN l : k[i] = l[i] /\ l[i] \in Trade
    BY <1>2, <1>3
  <1> HIDE DEF k, n, l, P
  <1>7. /\ P = {i \in DOMAIN l : l[i].close_step <= step}
        /\ \A i \in DOMAIN l : l[i].entry_step < step
    <2>1. \A i \in DOMAIN l : l[i].close_step \in Nat /\ l[i].entry_step \in Nat
      BY <1>6 DEF Trade
    <2> QED BY <1>2, <2>1 DEF P, ClosedBy, ReplayInv, LogInv, l
  <1>8. Guarded(k)
    <2>1. Guarded(l)
      BY DEF ReplayInv, l
    <2> QED BY <1>2, <1>3, <1>4, <1>5, <1>7, <2>1, EntryKeepsLimits DEF k
  <1>9. LogInv'
    <2>1. \A i \in DOMAIN k : k[i].entry_step < step + 1
                              /\ k[i].close_step <= k[i].entry_step + MaxHold
      <3> SUFFICES ASSUME NEW i \in DOMAIN k
                   PROVE  k[i].entry_step < step + 1
                          /\ k[i].close_step <= k[i].entry_step + MaxHold
        OBVIOUS
      <3>1. CASE i \in DOMAIN l
        <4>1. l[i].entry_step \in Nat /\ k[i] = l[i] /\ l[i].entry_step < step
              /\ l[i].close_step <= l[i].entry_step + MaxHold
          BY <1>6, <1>7, <3>1 DEF Trade, ReplayInv, LogInv, l
        <4> QED BY <1>2, <4>1
      <3>2. CASE i = n
        BY <1>2, <1>3, <1>6, <3>2
      <3> QED BY <1>6, <3>1, <3>2
    <2> QED BY <1>1, <1>6, <2>1 DEF LogInv
  <1>10. /\ NotDue \in [CloseSteps -> Seq(Trade)]
         /\ \A t \in CloseSteps :
               Lists(NotDue[t], l, {i \in DOMAIN l : l[i].close_step = t /\ t >= step + 1})
    BY <1>2, ScheduleTaken DEF l
  <1>11. \A t \in CloseSteps :
            Lists(NotDue[t], k, {i \in DOMAIN l : l[i].close_step = t /\ t >= step + 1})
    <2> SUFFICES ASSUME NEW t \in CloseSteps
                 PROVE  Lists(NotDue[t], k, {i \in DOMAIN l : l[i].close_step = t /\ t >= step + 1})
      OBVIOUS
    <2> DEFINE T == {i \in DOMAIN l : l[i].close_step = t /\ t >= step + 1}
    <2>1. T \subseteq DOMAIN l /\ Lists(NotDue[t], l, T)
      BY <1>10
    <2> HIDE DEF T
    <2>2. Lists(NotDue[t], k, T)
      BY <1>2, <1>3, <2>1, Longer DEF k
    <2> QED BY <2>2 DEF T
  <1>12. Ledger(q, k, P) /\ Breaker(q, k, P, dawn) /\ P \subseteq DOMAIN l
    <2>1. P \subseteq DOMAIN l /\ Ledger(q, l, P)
      BY <1>4, <1>7 DEF Book
    <2> QED BY <1>2, <1>3, <1>4, <2>1, Longer DEF k
  <1>13. /\ cooldown_candles \in Nat /\ IsFiniteSet(q.open) /\ Cardinality(q.open) \in Nat
         /\ max_open_positions \in Nat
    <2>1. q.open \subseteq ReplaySymbols /\ IsFiniteSet(ReplaySymbols)
      BY <1>4, ReplayAssumption DEF PortfolioState
    <2> QED BY <2>1, FS_Subset, FS_CardinalityType, ReplayAssumption
  <1>14. CASE hold = 0
    <2> DEFINE r == _record_closed_trade(q, c)
    <2>1. portfolio' = r /\ closures' = NotDue
      BY <1>1, <1>2, <1>3, <1>14 DEF _track_execution, q
    <2>2. /\ r \in PortfolioState /\ r.date = q.date /\ r.open = q.open
      <3>1. r \in PortfolioState /\ r.date = q.date /\ r.open = q.open \ {s}
        BY <1>3, <1>4, RecordedTrade
      <3> QED BY <1>5, <3>1
    <2> HIDE DEF r
    <2>3. ClosedBy(k, step + 1) = P \cup {n}
      <3>1. c.close_step < step + 1
        BY <1>2, <1>3, <1>14
      <3> QED BY <1>6, <3>1 DEF ClosedBy, P
    <2>4. \A j \in P : Before(k, j, n) /\ k[j].close_step <= k[n].close_step
      <3> SUFFICES ASSUME NEW j \in P
                   PROVE  Before(k, j, n) /\ k[j].close_step <= k[n].close_step
        OBVIOUS
      <3>1. j \in DOMAIN l /\ k[j] = l[j] /\ l[j].close_step <= step /\ l[j].close_step \in Nat
        BY <1>6, <1>7 DEF Trade
      <3>2. j < n /\ k[n].close_step = step
        BY <1>2, <1>3, <1>6, <1>14, <3>1 DEF n
      <3> QED BY <1>2, <3>1, <3>2 DEF Before
    <2>5. n \in DOMAIN k \ P /\ P \subseteq DOMAIN k
      BY <1>6, <1>12
    <2>6. Ledger(r, k, P \cup {n})
      BY <1>4, <1>6, <1>12, <2>4, <2>5, LedgerKeeps DEF r
    <2>7. Breaker(r, k, P \cup {n}, dawn)
      <3>1. \A j \in P : Before(k, j, n)
        BY <2>4
      <3>2. Breaker(_record_closed_trade(q, k[n]), k, P \cup {n}, dawn)
        BY <1>2, <1>4, <1>6, <1>12, <2>5, <3>1, BreakerCounts
      <3> QED BY <1>6, <3>2 DEF r
    <2>8. DOMAIN k \ (P \cup {n}) = DOMAIN l \ P
      BY <1>6, <1>12
    <2>9. Book(r, k, P \cup {n})
      <3>1. r.open = {k[i].symbol : i \in DOMAIN l \ P}
        BY <1>4, <1>6, <2>2 DEF Book
      <3> QED BY <2>6, <2>8, <3>1 DEF Book
    <2>10. Apart(k, DOMAIN l \ P)
      BY <1>4, <1>6 DEF Apart
    <2>11. ClockInv'
      BY <1>1, <1>4, <2>1, <2>2, ClockKeeps
    <2>12. PortfolioInv'
      <3>1. Breaker(r, k, ClosedBy(k, step + 1), dawn')
        BY <1>1, <1>6, <2>2, <2>3, <2>7, BreakerOfNext
      <3>2. Cardinality(r.open) <= max_open_positions
        BY <1>4, <2>2
      <3> QED BY <1>1, <2>1, <2>3, <2>8, <2>9, <2>10, <3>1, <3>2 DEF PortfolioInv
    <2>13. ScheduleInv'
      <3>1. \A t \in CloseSteps : {i \in DOMAIN k : k[i].close_step = t /\ t >= step + 1}
                                     = {i \in DOMAIN l : l[i].close_step = t /\ t >= step + 1}
        <4>1. c.close_step = step /\ ~(step >= step + 1)
          BY <1>2, <1>3, <1>14
        <4> QED BY <1>6, <4>1
      <3>2. \A t \in CloseSteps :
               Lists(NotDue[t], k, {i \in DOMAIN k : k[i].close_step = t /\ t >= step + 1})
        BY <1>11, <3>1
      <3> QED BY <1>1, <1>10, <2>1, <3>2 DEF ScheduleInv, CloseSteps
    <2> QED BY <1>1, <1>8, <1>9, <2>11, <2>12, <2>13 DEF ReplayInv
  <1>15. CASE hold # 0
    <2> DEFINE r == [q EXCEPT !.open = @ \cup {s}]
               u == step + hold
    <2>1. portfolio' = r /\ closures' = [NotDue EXCEPT ![u] = Append(@, c)]
      BY <1>1, <1>2, <1>3, <1>15 DEF _track_execution, q
    <2>2. /\ r \in PortfolioState /\ r.date = q.date /\ r.open = q.open \cup {s}
          /\ r.cooldown_until = q.cooldown_until /\ r.daily_trades = q.daily_trades
          /\ r.consecutive_losses = q.consecutive_losses /\ r.halted = q.halted
      BY <1>4 DEF PortfolioState
    <2> HIDE DEF r
    <2>3. u \in CloseSteps /\ u \in Nat /\ u >= step + 1
      BY <1>2, <1>15 DEF CloseSteps
    <2>4. ClosedBy(k, step + 1) = P
      <3>1. ~(c.close_step < step + 1)
        BY <1>2, <1>3, <2>3
      <3> QED BY <1>6, <3>1 DEF ClosedBy, P
    <2>5. DOMAIN k \ P = (DOMAIN l \ P) \cup {n}
      BY <1>6, <1>12
    <2>6. Book(r, k, P)
      <3>1. r.open = {k[i].symbol : i \in DOMAIN k \ P}
        <4>1. q.open = {l[i].symbol : i \in DOMAIN l \ P}
          BY <1>4 DEF Book
        <4>2. {k[i].symbol : i \in DOMAIN k \ P} = {l[i].symbol : i \in DOMAIN l \ P} \cup {s}
          BY <1>3, <1>6, <2>5
        <4> QED BY <2>2, <4>1, <4>2
      <3>2. Ledger(r, k, P)
        BY <1>12, <2>2 DEF Ledger
      <3> QED BY <3>1, <3>2 DEF Book
    <2>7. Breaker(r, k, P, dawn)
      BY <1>12, <2>2 DEF Breaker
    <2>8. Apart(k, DOMAIN k \ P)
      <3>1. \A i \in DOMAIN l \ P : k[i].symbol # s /\ k[i] = l[i]
        BY <1>4, <1>5, <1>6 DEF Book
      <3>2. k[n].symbol = s
        BY <1>3, <1>6
      <3> QED BY <1>4, <2>5, <3>1, <3>2 DEF Apart
    <2>9. Cardinality(r.open) <= max_open_positions
      <3>1. Cardinality(q.open \cup {s}) = Cardinality(q.open) + 1
        BY <1>5, <1>13, FS_AddElement
      <3> QED BY <1>5, <1>13, <2>2, <3>1
    <2>10. ClockInv'
      BY <1>1, <1>4, <2>1, <2>2, ClockKeeps
    <2>11. PortfolioInv'
      <3>1. Breaker(r, k, ClosedBy(k, step + 1), dawn')
        BY <1>1, <1>6, <2>2, <2>4, <2>7, BreakerOfNext
      <3> QED BY <1>1, <2>1, <2>4, <2>6, <2>8, <2>9, <3>1 DEF PortfolioInv
    <2>12. ScheduleInv'
      <3>1. closures' \in [CloseSteps -> Seq(Trade)]
        BY <1>3, <1>10, <2>1, <2>3
      <3>2. ASSUME NEW t \in CloseSteps
            PROVE  Lists(closures'[t], k, {i \in DOMAIN k : k[i].close_step = t /\ t >= step + 1})
        <4> DEFINE T == {i \in DOMAIN l : l[i].close_step = t /\ t >= step + 1}
        <4>1. CASE t # u
          <5>1. {i \in DOMAIN k : k[i].close_step = t /\ t >= step + 1} = T
            BY <1>3, <1>6, <4>1
          <5>2. closures'[t] = NotDue[t]
            BY <1>10, <2>1, <4>1
          <5> QED BY <1>11, <5>1, <5>2
        <4>2. CASE t = u
          <5>1. {i \in DOMAIN k : k[i].close_step = t /\ t >= step + 1} = T \cup {n}
            BY <1>3, <1>6, <2>3, <4>2
          <5>2. closures'[t] = Append(NotDue[t], c)
            BY <1>10, <2>1, <2>3, <4>2
          <5>3. Lists(NotDue[t], l, T) /\ T \subseteq DOMAIN l /\ NotDue[t] \in Seq(Trade)
            BY <1>10
          <5> HIDE DEF T
          <5>4. Lists(Append(NotDue[t], c), k, T \cup {n})
            BY <1>2, <1>3, <5>3, Listed DEF k, n
          <5> QED BY <5>1, <5>2, <5>4
        <4> QED BY <4>1, <4>2
      <3> QED BY <1>1, <3>1, <3>2 DEF ScheduleInv, CloseSteps
    <2> QED BY <1>1, <1>8, <1>9, <2>10, <2>11, <2>12 DEF ReplayInv
  <1> QED BY <1>14, <1>15

LEMMA ReplayKeeps == ReplayInv /\ [ReplayNext]_replayVars => ReplayInv'
  <1> SUFFICES ASSUME ReplayInv, [ReplayNext]_replayVars PROVE ReplayInv'
    OBVIOUS
  <1>1. CASE NoTradeStep
    BY <1>1, NoTradeKeeps
  <1>2. CASE \E s \in ReplaySymbols, hold \in 0..MaxHold, net \in {-1, 0, 1} :
                (hold = 0 => net = 0) /\ ExecuteStep(s, hold, net)
    BY <1>2, EntryKeeps
  <1>3. CASE UNCHANGED replayVars
    <2>1. ClockInv'
      BY <1>3 DEF ReplayInv, ClockInv, replayVars, end_step
    <2>2. LogInv' /\ Guarded(log)'
      BY <1>3 DEF ReplayInv, LogInv, replayVars
    <2>3. ScheduleInv'
      BY <1>3 DEF ReplayInv, ScheduleInv, replayVars, CloseSteps
    <2>4. PortfolioInv'
      BY <1>3 DEF ReplayInv, PortfolioInv, replayVars
    <2> QED BY <2>1, <2>2, <2>3, <2>4 DEF ReplayInv
  <1> QED BY <1>1, <1>2, <1>3 DEF ReplayNext

(* An open trade is on the schedule, which holds nothing of the past.       *)
LEMMA OpenIsScheduled == ReplayInv => OpenTradesWillClose
  <1> SUFFICES ASSUME ReplayInv PROVE OpenTradesWillClose
    OBVIOUS
  <1>1. /\ step \in Nat /\ step <= Candles /\ Candles \in Nat /\ MaxHold \in Nat
        /\ log \in Seq(Trade) /\ closures \in [CloseSteps -> Seq(Trade)]
        /\ \A i \in DOMAIN log : /\ log[i].entry_step < step
                                 /\ log[i].close_step <= log[i].entry_step + MaxHold
        /\ \A t \in CloseSteps :
              Lists(closures[t], log, {i \in DOMAIN log : log[i].close_step = t /\ t >= step})
    BY ReplayAssumption DEF ReplayInv, ClockInv, LogInv, ScheduleInv
  <1>2. ASSUME NEW t \in CloseSteps, t < step PROVE closures[t] = <<>>
    <2>1. t \in Nat
      BY <1>1 DEF CloseSteps
    <2>2. {i \in DOMAIN log : log[i].close_step = t /\ t >= step} = {}
      BY <1>1, <1>2, <2>1
    <2>3. PICK m : m \in [1..Len(closures[t]) -> {}]
      BY <1>1, <2>2 DEF Lists
    <2>4. 1..Len(closures[t]) = {} /\ closures[t] \in Seq(Trade)
      BY <1>1, <2>3
    <2>5. Len(closures[t]) \in Nat /\ ~(1 \in 1..Len(closures[t]))
      BY <2>4
    <2> QED BY <2>4, <2>5
  <1>3. ASSUME NEW s \in portfolio.open
        PROVE  \E t \in CloseSteps : \E k \in 1..Len(closures[t]) : closures[t][k].symbol = s
    <2>1. PICK i \in DOMAIN log : s = log[i].symbol /\ ~(log[i].close_step < step)
      BY DEF ReplayInv, PortfolioInv, Book, ClosedBy
    <2>2. log[i] \in Trade
      BY <1>1
    <2> DEFINE t == log[i].close_step
    <2>3. t \in Nat /\ log[i].entry_step \in Nat
      BY <2>2 DEF Trade
    <2>4. t \in CloseSteps /\ t >= step
      BY <1>1, <2>1, <2>3 DEF CloseSteps
    <2>5. PICK m \in [1..Len(closures[t])
                         -> {j \in DOMAIN log : log[j].close_step = t /\ t >= step}] :
             /\ \A k \in 1..Len(closures[t]) : closures[t][k] = log[m[k]]
             /\ \A j \in {j \in DOMAIN log : log[j].close_step = t /\ t >= step} :
                   \E k \in 1..Len(closures[t]) : m[k] = j
      BY <1>1, <2>4 DEF Lists
    <2>6. PICK k \in 1..Len(closures[t]) : m[k] = i
      BY <2>4, <2>5
    <2> QED BY <2>1, <2>4, <2>5, <2>6
  <1> QED BY <1>2, <1>3 DEF OpenTradesWillClose

(* The inductive invariant of a replay.                                     *)
THEOREM ReplayInductive == ReplaySpec => []ReplayInv
  <1>1. ReplayInit => ReplayInv
    BY InitReplay
  <1>2. ReplayInv /\ [ReplayNext]_replayVars => ReplayInv'
    BY ReplayKeeps
  <1> QED BY <1>1, <1>2, PTL DEF ReplaySpec

(* Although the portfolio of a replay learns of a closure only when its     *)
(* step comes (_apply_scheduled_closures), the limits that                  *)
(* _can_execute_signal asks it about hold for the trades as they overlap:   *)
(* for every history, number of symbols and limit.                          *)
THEOREM ReplayKeepsLimits == ReplaySpec => []PortfolioLimitsHold
  <1>1. ReplayInv => PortfolioLimitsHold
    BY LimitsOfLog, OpenIsScheduled DEF ReplayInv, Guarded, PortfolioLimitsHold
  <1> QED BY <1>1, ReplayInductive, PTL

-----------------------------------------------------------------------------
(* The gate. *)

(* The gate exits with success only for a selection of scenarios that all   *)
(* passed.                                                                  *)
LEMMA OkIsEveryScenario ==
    ASSUME run_manifest_gate(manifest) = "ok"
    PROVE  /\ ~Unresolved(manifest) /\ Selected(manifest) # {}
           /\ \A s \in Selected(manifest) : s \in Scenarios /\ manifest.outcome[s] = "pass"
  <1> DEFINE results == Selected(manifest) \cap Scenarios
             wrong   == \/ Unresolved(manifest) \/ Selected(manifest) = {}
                        \/ \E s \in results : manifest.outcome[s] = "raise"
                        \/ ~_validate_selected_names(manifest)
             passed  == \A s \in results : manifest.outcome[s] = "pass"
  <1>1. run_manifest_gate(manifest) =
           IF wrong THEN "error" ELSE IF passed THEN "ok" ELSE "failed"
    BY DEF run_manifest_gate
  <1>2. ~wrong /\ passed
    BY <1>1
  <1> QED BY <1>2 DEF _validate_selected_names

(* For every manifest: an explicit suite decides, else the suite of the     *)
(* active strategy, else the default, else all scenarios; it is not empty,  *)
(* each of its names is a scenario and each scenario passed                 *)
(* (_resolve_suite_selection, _validate_selected_names, run_manifest_gate). *)
THEOREM GateOpensForMeantSuite == ManifestInit => GateCoversSuite
  <1> SUFFICES ASSUME ManifestInit, run_manifest_gate(manifest) = "ok"
               PROVE  GateCoversSuite
    BY DEF GateCoversSuite
  <1> DEFINE r == manifest
  <1>1. /\ ~Unresolved(r) /\ Selected(r) # {}
        /\ \A s \in Selected(r) : s \in Scenarios /\ r.outcome[s] = "pass"
    BY OkIsEveryScenario
  <1>2. CASE r.suite # None
    <2>1. Selected(r) = r.suites[r.suite]
      BY <1>2 DEF Selected, _resolve_suite_selection
    <2> QED BY <1>1, <1>2, <2>1 DEF GateCoversSuite
  <1>3. CASE r.suite = None /\ r.active_strategy # None
    <2>1. r.active_strategy_suites[r.active_strategy] # None
      BY <1>1, <1>3 DEF Unresolved, _resolve_suite_selection
    <2>2. Selected(r) = r.suites[r.active_strategy_suites[r.active_strategy]]
      BY <1>3, <2>1 DEF Selected, _resolve_suite_selection
    <2> QED BY <1>1, <1>3, <2>1, <2>2 DEF GateCoversSuite
  <1>4. CASE r.suite = None /\ r.active_strategy = None
    <2>1. Selected(r) = IF r.default = None THEN Scenarios ELSE r.suites[r.default]
      BY <1>4 DEF Selected, _resolve_suite_selection
    <2> QED BY <1>1, <1>4, <2>1 DEF GateCoversSuite
  <1> QED BY <1>2, <1>3, <1>4

-----------------------------------------------------------------------------
(* The stage scripts. *)

(* A total is the last of the running totals.                               *)
LEMMA RunningTotal ==
    ASSUME NEW s \in Seq(Int)
    PROVE  \E h \in [0..Len(s) -> Int] :
              /\ h[0] = 0
              /\ \A k \in 1..Len(s) : h[k] = h[k - 1] + s[k]
              /\ h[Len(s)] = Total(s)
  <1> DEFINE n == Len(s)
             act == [a \in (1..n) \X Int |-> a[2] + s[a[1]]]
             Def(it) == it = [t \in SUBSET DOMAIN s |->
                                IF t = {} THEN 0
                                ELSE LET x == Max(t) IN it[t \ {x}] + s[x]]
             iter == CHOOSE it : Def(it)
  <1>1. DOMAIN s = 1..n /\ n \in Nat /\ \A i \in 1..n : s[i] \in Int
    OBVIOUS
  <1> HIDE DEF n
  <1>2. act \in [(1..n) \X Int -> Int] /\ 0 \in Int
    <2>1. \A a \in (1..n) \X Int : a[2] + s[a[1]] \in Int
      BY <1>1
    <2> QED BY <2>1
  <1>3. \A k \in 1..n : \A v \in Int : act[<<k, v>>] = v + s[k]
    OBVIOUS
  <1>4. \A t \in SUBSET (1..n) : t # {} => Max(t) \in 1..n /\ t \ {Max(t)} \in SUBSET (1..n)
    BY <1>1, LastNumber
  <1> HIDE DEF act
  <1>5. PICK it : FoldsTo(it, n, Int, 0, act)
    BY <1>1, <1>2, FoldExists
  <1>6. Def(it)
    <2>1. \A t \in SUBSET (1..n) : t # {} => it[t] = it[t \ {Max(t)}] + s[Max(t)]
      BY <1>3, <1>4, <1>5 DEF FoldsTo
    <2>2. it = [t \in SUBSET (1..n) |-> it[t]] /\ it[{}] = 0
      BY <1>5 DEF FoldsTo
    <2> QED BY <1>1, <2>1, <2>2, Zenon
  <1>7. Def(iter)
    <2> HIDE DEF Def
    <2> QED BY <1>6
  <1>8. Total(s) = iter[DOMAIN s]
    BY DEF Total, FoldLeft, MapThenFoldSet
  <1> HIDE DEF iter
  <1>9. Unfolds(iter, n, Int, 0, act)
    BY <1>1, <1>3, <1>4, <1>7 DEF Unfolds
  <1>10. PICK h : Steps(h, n, Int, 0, act) /\ h[n] = iter[1..n]
    <2>1. Reaches(iter, n, Int, 0, act)
      BY <1>1, <1>2, <1>9, FoldSteps
    <2> QED BY <2>1 DEF Reaches
  <1>11. \A k \in 1..n : h[k] = h[k - 1] + s[k]
    <2>1. \A k \in 1..n : k - 1 \in 0..n
      BY <1>1
    <2> QED BY <1>3, <1>10, <2>1 DEF Steps
  <1> QED BY <1>1, <1>8, <1>10, <1>11 DEF Steps, n

(* The trades of a script earn what they gain less what they lose.          *)
LEMMA NetIsGainsLessLosses ==
    ASSUME NEW pnls \in Seq(Int)
    PROVE  LET m == MetricsOf(pnls)
           IN  /\ m.net = m.gains - m.losses
               /\ m.gains \in Nat /\ m.losses \in Nat
               /\ m.closed \in Nat /\ m.wins \in Nat
  <1> DEFINE up == [i \in DOMAIN pnls |-> Positive(pnls[i])]
             down == [i \in DOMAIN pnls |-> Positive(-pnls[i])]
             N == Len(pnls)
  <1>1. /\ N \in Nat /\ DOMAIN pnls = 1..N
        /\ \A i \in 1..N : pnls[i] \in Int
    OBVIOUS
  <1>2. /\ up \in Seq(Int) /\ down \in Seq(Int) /\ Len(up) = N /\ Len(down) = N
        /\ \A i \in 1..N : /\ up[i] \in Nat /\ down[i] \in Nat
                           /\ pnls[i] = up[i] - down[i]
    <2>1. \A i \in 1..N : /\ Positive(pnls[i]) \in Nat /\ Positive(-pnls[i]) \in Nat
                          /\ pnls[i] = Positive(pnls[i]) - Positive(-pnls[i])
      BY <1>1 DEF Positive
    <2> QED BY <1>1, <2>1
  <1> HIDE DEF up, down
  <1>3. PICK f \in [0..N -> Int] :
           f[0] = 0 /\ (\A k \in 1..N : f[k] = f[k - 1] + pnls[k]) /\ f[N] = Total(pnls)
    BY RunningTotal
  <1>4. PICK g \in [0..N -> Int] :
           g[0] = 0 /\ (\A k \in 1..N : g[k] = g[k - 1] + up[k]) /\ g[N] = Total(up)
    BY <1>2, RunningTotal
  <1>5. PICK h \in [0..N -> Int] :
           h[0] = 0 /\ (\A k \in 1..N : h[k] = h[k - 1] + down[k]) /\ h[N] = Total(down)
    BY <1>2, RunningTotal
  <1> DEFINE Fine(k) == f[k] = g[k] - h[k] /\ g[k] \in Nat /\ h[k] \in Nat
  <1>6. Fine(N)
    <2> DEFINE Bad == {k \in 0..N : ~Fine(k)}
    <2> SUFFICES ASSUME Bad # {} PROVE FALSE
      BY <1>1
    <2>0. Bad \subseteq Nat
      BY <1>1
    <2>1. PICK k \in Bad : \A j \in Bad : k <= j
      BY <2>0, LeastNumber
    <2>2. k # 0
      BY <1>3, <1>4, <1>5
    <2>3. k \in 1..N /\ k - 1 \in 0..N /\ ~(k <= k - 1)
      BY <1>1, <2>2
    <2>4. Fine(k - 1)
      <3> HIDE DEF Fine
      <3> QED BY <2>1, <2>3
    <2>5. Fine(k)
      <3>1. /\ f[k] = f[k - 1] + pnls[k] /\ g[k] = g[k - 1] + up[k] /\ h[k] = h[k - 1] + down[k]
            /\ up[k] \in Nat /\ down[k] \in Nat /\ pnls[k] = up[k] - down[k]
        BY <1>2, <1>3, <1>4, <1>5, <2>3
      <3>2. /\ f[k - 1] = g[k - 1] - h[k - 1] /\ g[k - 1] \in Nat /\ h[k - 1] \in Nat
            /\ f[k - 1] \in Int
        BY <2>3, <2>4
      <3> DEFINE a == g[k - 1]
                 b == h[k - 1]
                 x == up[k]
                 y == down[k]
      <3>3. /\ a \in Nat /\ b \in Nat /\ x \in Nat /\ y \in Nat
            /\ g[k] = a + x /\ h[k] = b + y /\ f[k] = (a - b) + (x - y)
        BY <3>1, <3>2, Zenon
      <3> HIDE DEF a, b, x, y
      <3>4. g[k] \in Nat /\ h[k] \in Nat
        BY <3>3
      <3>5. f[k] = g[k] - h[k]
        BY <3>3
      <3> QED BY <3>4, <3>5
    <2> QED BY <2>5
  <1>7. Cardinality({i \in DOMAIN pnls : pnls[i] > 0}) \in Nat
    <2>1. IsFiniteSet(DOMAIN pnls)
      BY <1>1, FS_Interval
    <2> QED BY <2>1, FS_Subset, FS_CardinalityType
  <1> QED BY <1>1, <1>3, <1>4, <1>5, <1>6, <1>7 DEF MetricsOf, up, down

(* A sum over a finite set of natural numbers is a natural number.          *)
LEMMA SumIsNatural ==
    ASSUME NEW D, IsFiniteSet(D), NEW f \in [D -> Nat]
    PROVE  SumOver(f) \in Nat /\ (D = {} => SumOver(f) = 0)
  <1> DEFINE pick == [t \in SUBSET D |-> CHOOSE x \in t : TRUE]
             act == [a \in D \X Nat |-> f[a[1]] + a[2]]
             Def(it) == it = [t \in SUBSET DOMAIN f |->
                                IF t = {} THEN 0
                                ELSE LET x == CHOOSE x \in t : TRUE IN f[x] + it[t \ {x}]]
             iter == CHOOSE it : Def(it)
  <1>1. DOMAIN f = D /\ \A i \in D : f[i] \in Nat
    OBVIOUS
  <1>2. \A t \in SUBSET D : t # {} => (CHOOSE x \in t : TRUE) \in t
    OBVIOUS
  <1>3. act \in [D \X Nat -> Nat]
    <2>1. \A a \in D \X Nat : f[a[1]] + a[2] \in Nat
      BY <1>1
    <2> QED BY <2>1
  <1>4. Picks(pick, D)
    BY <1>2 DEF Picks
  <1>5. PICK it : Recurs(it, D, Nat, 0, act, pick)
    <2> HIDE DEF pick, act
    <2> QED BY <1>3, <1>4, SetRecursion
  <1>6. \A t \in SUBSET D : t # {} =>
           it[t] = f[CHOOSE x \in t : TRUE] + it[t \ {CHOOSE x \in t : TRUE}]
    <2> SUFFICES ASSUME NEW t \in SUBSET D, t # {}
                 PROVE  it[t] = f[CHOOSE x \in t : TRUE] + it[t \ {CHOOSE x \in t : TRUE}]
      OBVIOUS
    <2> DEFINE x == CHOOSE x \in t : TRUE
    <2>1. pick[t] = x /\ x \in D /\ t \ {x} \in SUBSET D
      BY <1>2
    <2> HIDE DEF x
    <2>2. it[t \ {x}] \in Nat
      BY <1>5, <2>1 DEF Recurs
    <2>3. act[<<x, it[t \ {x}]>>] = f[x] + it[t \ {x}]
      BY <2>1, <2>2
    <2>4. it[t] = act[<<pick[t], it[t \ {pick[t]}]>>]
      <3> HIDE DEF pick, act
      <3> QED BY <1>5 DEF Recurs
    <2> QED BY <2>1, <2>3, <2>4 DEF x
  <1>7. Def(it)
    <2>1. it = [t \in SUBSET D |-> it[t]] /\ it[{}] = 0
      BY <1>5 DEF Recurs
    <2> HIDE DEF pick, act
    <2> QED BY <1>1, <1>6, <2>1, Zenon
  <1>8. Def(iter)
    <2> HIDE DEF Def
    <2> QED BY <1>7
  <1>9. SumOver(f) = iter[DOMAIN f]
    BY DEF SumOver, FoldFunction, FoldFunctionOnSet, MapThenFoldSet
  <1> HIDE DEF iter
  <1>10. iter[{}] = 0
    BY <1>8
  <1>11. ASSUME NEW t \in SUBSET D, t # {}
         PROVE  LET x == CHOOSE x \in t : TRUE
                IN  x \in t /\ iter[t] = f[x] + iter[t \ {x}]
    <2>1. iter[t] = LET x == CHOOSE x \in t : TRUE IN f[x] + iter[t \ {x}]
      BY <1>1, <1>8, <1>11
    <2> QED BY <1>2, <1>11, <2>1
  <1>12. \A t \in SUBSET D : iter[t] \in Nat
    <2> SUFFICES ASSUME NEW t0 \in SUBSET D, iter[t0] \notin Nat PROVE FALSE
      OBVIOUS
    <2> DEFINE Bad == {t \in SUBSET D : iter[t] \notin Nat}
               Sizes == {Cardinality(t) : t \in Bad}
    <2>1. \A t \in SUBSET D : IsFiniteSet(t) /\ Cardinality(t) \in Nat
      BY FS_Subset, FS_CardinalityType
    <2>2. Sizes \subseteq Nat /\ Sizes # {}
      BY <2>1
    <2>3. PICK n \in Sizes : \A k \in Sizes : n <= k
      BY <2>2, LeastNumber
    <2>4. PICK t \in Bad : n = Cardinality(t)
      BY <2>3
    <2>5. t # {} /\ t \in SUBSET D
      BY <1>10, <2>4
    <2>6. PICK x : x \in t /\ iter[t] = f[x] + iter[t \ {x}]
      BY <1>11, <2>5
    <2>7. Cardinality(t \ {x}) = n - 1 /\ n \in Nat
      BY <2>1, <2>4, <2>5, <2>6, FS_RemoveElement
    <2>8. t \ {x} \in SUBSET D /\ t \ {x} \notin Bad
      <3>1. ~(n <= n - 1)
        BY <2>7
      <3> QED BY <2>3, <2>5, <2>7, <3>1
    <2>9. iter[t \ {x}] \in Nat /\ f[x] \in Nat
      BY <1>1, <2>5, <2>6, <2>8
    <2> QED BY <2>4, <2>6, <2>9
  <1> QED BY <1>1, <1>9, <1>10, <1>12

(* What AtLeast and Less compare are integers.                              *)
LEMMA Comparable ==
    ASSUME NEW a \in Int, NEW b \in Int, NEW c \in Int, NEW d \in Int
    PROVE  AtLeast(<<a, b>>, <<c, d>>) <=> ~Less(<<a, b>>, <<c, d>>)
  <1>1. a * d \in Int /\ c * b \in Int
    OBVIOUS
  <1>2. \A x, y \in Int : x >= y <=> ~(x < y)
    OBVIOUS
  <1>3. AtLeast(<<a, b>>, <<c, d>>) <=> a * d >= c * b
    BY DEF AtLeast
  <1>4. Less(<<a, b>>, <<c, d>>) <=> a * d < c * b
    BY DEF Less
  <1> QED BY <1>1, <1>2, <1>3, <1>4

(* A profit factor above one is a profit.                                   *)
LEMMA FactorIsProfit ==
    ASSUME NEW pnls \in Seq(Int)
    PROVE  LET m == MetricsOf(pnls)
           IN  /\ \E a, b \in Nat : profit_factor(m) = <<a, b>>
               /\ \E a, b \in Nat : win_rate(m) = <<a, b>>
               /\ AtLeast(profit_factor(m), PROFIT_FACTOR_THRESHOLD) => m.net > 0
  <1> DEFINE m == MetricsOf(pnls)
             t == PROFIT_FACTOR_THRESHOLD
  <1>1. /\ m.net = m.gains - m.losses /\ m.gains \in Nat /\ m.losses \in Nat
        /\ m.closed \in Nat /\ m.wins \in Nat
    BY NetIsGainsLessLosses
  <1> HIDE DEF m
  <1>2. \E a, b \in Nat : win_rate(m) = <<a, b>>
    BY <1>1 DEF win_rate
  <1>3. \E a, b \in Nat : profit_factor(m) = <<a, b>>
    BY <1>1 DEF profit_factor
  <1>4. ASSUME AtLeast(profit_factor(m), t) PROVE m.net > 0
    <2>1. CASE m.gains > 0 /\ m.losses = 0
      BY <1>1, <2>1
    <2>2. CASE ~(m.gains > 0 /\ m.losses = 0) /\ m.losses > 0
      <3>1. profit_factor(m) = <<m.gains, m.losses>>
        BY <2>2 DEF profit_factor
      <3>2. m.gains * 100 >= 105 * m.losses
        BY <1>4, <3>1 DEF AtLeast, PROFIT_FACTOR_THRESHOLD
      <3> QED BY <1>1, <2>2, <3>2
    <2>3. CASE ~(m.gains > 0 /\ m.losses = 0) /\ ~(m.losses > 0)
      <3>1. profit_factor(m) = <<0, 1>>
        BY <2>3 DEF profit_factor
      <3>2. 0 * 100 >= 105 * 1
        BY <1>4, <3>1 DEF AtLeast, PROFIT_FACTOR_THRESHOLD
      <3> QED BY <3>2
    <2> QED BY <2>1, <2>2, <2>3
  <1> QED BY <1>2, <1>3, <1>4 DEF m

(* Stage A: the script that prints PASS is the one that exits with 0, and   *)
(* its trades paid their fees.                                              *)
LEMMA StageAAgrees ==
    ASSUME StageAInit
    PROVE  /\ ~exits_with_error_a => _print_validation_block_a
           /\ _print_validation_block_a =>
                 ~exits_with_error_a \/ SumOver(stage.old) = 0
           /\ _print_validation_block_a /\ stage.raised = {} =>
                 /\ DOMAIN stage.new # DOMAIN stage.old
                 /\ DOMAIN stage.new # {} \/ SumOver(stage.old) = 0
                 /\ SumOver(stage.new) >= SumOver(Restrict(stage.old, DOMAIN stage.new))
  <1>1. PICK signals, executed :
           /\ signals \subseteq SignalSteps /\ executed \subseteq signals
           /\ stage.old \in [signals -> FlatFees] /\ stage.new \in [executed -> RealFees]
           /\ stage.raised \in SUBSET {"old", "new"}
    BY DEF StageAInit
  <1> DEFINE old == stage.old
             new == stage.new
             kept == Restrict(old, executed)
  <1>2. /\ IsFiniteSet(signals) /\ IsFiniteSet(executed) /\ executed \subseteq signals
        /\ old \in [signals -> Nat] /\ new \in [executed -> Nat] /\ kept \in [executed -> Nat]
        /\ DOMAIN old = signals /\ DOMAIN new = executed /\ DOMAIN kept = executed
    <2>1. IsFiniteSet(signals) /\ FlatFees \subseteq Nat /\ RealFees \subseteq Nat
      BY <1>1, FS_Subset, StageAssumption
    <2>2. IsFiniteSet(executed)
      BY <1>1, <2>1, FS_Subset
    <2> QED BY <1>1, <2>1, <2>2 DEF Restrict
  <1>3. /\ SumOver(old) \in Nat /\ SumOver(new) \in Nat /\ SumOver(kept) \in Nat
        /\ executed = {} => SumOver(new) = 0 /\ SumOver(kept) = 0
        /\ signals = {} => SumOver(old) = 0
        /\ Cardinality(signals) \in Nat /\ Cardinality(executed) \in Nat
        /\ signals = {} <=> Cardinality(signals) = 0
        /\ executed = {} <=> Cardinality(executed) = 0
    BY <1>2, SumIsNatural, FS_CardinalityType, FS_EmptySet
  <1>4. DOMAIN <<>> = {} /\ AverageFees(<<>>) = <<0, 1>> /\ Cardinality({}) = 0
    BY FS_EmptySet DEF AverageFees
  <1>5. /\ executed = {} => AverageFees(new) = <<0, 1>> /\ AverageFees(kept) = <<0, 1>>
        /\ executed # {} => /\ AverageFees(new) = <<SumOver(new), Cardinality(executed)>>
                            /\ AverageFees(kept) = <<SumOver(kept), Cardinality(executed)>>
        /\ signals = {} => AverageFees(old) = <<0, 1>>
        /\ signals # {} => AverageFees(old) = <<SumOver(old), Cardinality(signals)>>
    BY <1>2 DEF AverageFees
  <1>6. stage.raised = {} =>
           /\ OldTrades = Cardinality(signals) /\ NewTrades = Cardinality(executed)
           /\ NewFees = AverageFees(new)
           /\ OldFees = IF executed = {} THEN AverageFees(old) ELSE AverageFees(kept)
    <2>1. executed \cap signals = executed
      BY <1>2
    <2> QED BY <1>2, <2>1 DEF OldTrades, NewTrades, NewFees, OldFees, SummaryA,
               _align_old_summary_to_new_executions
  <1>7. "old" \in stage.raised => OldTrades = 0
    BY <1>4 DEF OldTrades, SummaryA
  <1>8. "old" \notin stage.raised /\ stage.raised # {} =>
           /\ OldTrades = Cardinality(signals) /\ NewTrades = 0
           /\ NewFees = <<0, 1>> /\ OldFees = AverageFees(old)
    <2>1. "old" \notin stage.raised /\ stage.raised # {} => "new" \in stage.raised
      BY <1>1
    <2> QED BY <1>2, <1>4, <2>1 DEF OldTrades, NewTrades, NewFees, OldFees, SummaryA
  <1>9. NewTrades \in Nat
    <2>1. CASE "new" \in stage.raised
      BY <1>4, <2>1 DEF NewTrades, SummaryA
    <2>2. CASE "new" \notin stage.raised
      BY <1>2, <1>3, <2>2 DEF NewTrades, SummaryA
    <2> QED BY <2>1, <2>2
  <1> HIDE DEF old, new, kept
  <1>10. \A x, y \in Nat : AtLeast(<<0, 1>>, <<x, y>>) => x = 0
    <2> SUFFICES ASSUME NEW x \in Nat, NEW y \in Nat, AtLeast(<<0, 1>>, <<x, y>>) PROVE x = 0
      OBVIOUS
    <2>1. 0 * y >= x * 1
      BY DEF AtLeast
    <2>2. 0 * y = 0 /\ x * 1 = x
      OBVIOUS
    <2> QED BY <2>1, <2>2
  <1>11. _print_validation_block_a =>
           NewTrades < OldTrades /\ AtLeast(NewFees, OldFees) /\ stage.failed = {}
    BY DEF _print_validation_block_a
  <1>12. ASSUME _print_validation_block_a, stage.raised # {} PROVE SumOver(old) = 0
    <2>1. CASE "old" \in stage.raised
      BY <1>7, <1>9, <1>11, <1>12, <2>1
    <2>2. CASE "old" \notin stage.raised
      <3>1. AtLeast(<<0, 1>>, AverageFees(old)) /\ signals # {}
        BY <1>3, <1>8, <1>11, <1>12, <2>2
      <3> QED BY <1>3, <1>5, <1>10, <3>1
    <2> QED BY <2>1, <2>2
  <1>13. ASSUME _print_validation_block_a, stage.raised = {}
         PROVE  /\ executed # signals
                /\ executed # {} \/ SumOver(old) = 0
                /\ SumOver(new) >= SumOver(kept)
    <2>1. Cardinality(executed) < Cardinality(signals) /\ AtLeast(NewFees, OldFees)
      BY <1>6, <1>11, <1>13
    <2>2. executed # signals
      BY <1>3, <2>1
    <2>3. CASE executed = {}
      <3>1. AtLeast(<<0, 1>>, AverageFees(old)) /\ signals # {}
        BY <1>3, <1>5, <1>6, <1>13, <2>1, <2>3
      <3> QED BY <1>3, <1>5, <1>10, <2>2, <2>3, <3>1
    <2>4. CASE executed # {}
      <3>1. SumOver(new) * Cardinality(executed) >= SumOver(kept) * Cardinality(executed)
        BY <1>5, <1>6, <1>13, <2>1, <2>4 DEF AtLeast
      <3>2. \A x, y \in Nat, n \in Nat \ {0} : x * n >= y * n => x >= y
        <4> SUFFICES ASSUME NEW x \in Nat, NEW y \in Nat, NEW n \in Nat \ {0},
                            x * n >= y * n, x < y
                     PROVE  FALSE
          OBVIOUS
        <4>1. y = x + 1 + (y - x - 1) /\ y - x - 1 \in Nat
          OBVIOUS
        <4>2. y * n = x * n + n + (y - x - 1) * n
          OBVIOUS
        <4>3. (y - x - 1) * n >= 0
          BY <4>1
        <4> QED BY <4>2, <4>3
      <3> QED BY <1>3, <2>2, <2>4, <3>1, <3>2
    <2> QED BY <2>3, <2>4
  <1>14. ASSUME ~exits_with_error_a PROVE _print_validation_block_a
    <2>1. stage.raised = {} /\ ~(NewTrades >= OldTrades) /\ ~Less(NewFees, OldFees)
          /\ stage.failed = {}
      BY <1>14 DEF exits_with_error_a, _collect_failures_a
    <2>2. NewTrades < OldTrades
      BY <1>3, <1>6, <2>1
    <2>3. AtLeast(NewFees, OldFees)
      <3>1. /\ \E a, b \in Int : NewFees = <<a, b>>
            /\ \E a, b \in Int : OldFees = <<a, b>>
        BY <1>3, <1>5, <1>6, <2>1
      <3> QED BY <2>1, <3>1, Comparable
    <2> QED BY <2>1, <2>2, <2>3 DEF _print_validation_block_a
  <1>15. ASSUME _print_validation_block_a, stage.raised = {} PROVE ~exits_with_error_a
    <2>1. NewTrades < OldTrades /\ AtLeast(NewFees, OldFees) /\ stage.failed = {}
      BY <1>11, <1>15
    <2>2. ~(NewTrades >= OldTrades)
      BY <1>3, <1>6, <1>15, <2>1
    <2>3. ~Less(NewFees, OldFees)
      <3>1. /\ \E a, b \in Int : NewFees = <<a, b>>
            /\ \E a, b \in Int : OldFees = <<a, b>>
        BY <1>3, <1>5, <1>6, <1>15
      <3> QED BY <2>1, <3>1, Comparable
    <2> QED BY <1>15, <2>1, <2>2, <2>3 DEF exits_with_error_a, _collect_failures_a
  <1>16. DOMAIN new = executed /\ DOMAIN old = signals /\ kept = Restrict(old, executed)
    BY <1>2 DEF new, old, kept
  <1> QED BY <1>12, <1>13, <1>14, <1>15, <1>16 DEF old, new

(* Results of a backtest are a sequence of integers.                        *)
LEMMA ResultsAreIntegers == PnlSequences \subseteq Seq(Int)
  <1> SUFFICES ASSUME NEW n \in 0..MaxStageTrades, NEW s \in [1..n -> StagePnls]
               PROVE  s \in Seq(Int)
    BY DEF PnlSequences
  <1>1. n \in Nat /\ StagePnls \subseteq Int
    BY StageAssumption
  <1>2. s \in [1..n -> Int]
    <2>1. /\ s = [i \in 1..n |-> s[i]]
          /\ \A i \in 1..n : s[i] \in StagePnls
      OBVIOUS
    <2>2. \A i \in 1..n : s[i] \in Int
      BY <1>1, <2>1
    <2> QED BY <2>1, <2>2
  <1> QED BY <1>1, <1>2

(* Stage B: the two verdicts agree, and what passed earned money.           *)
LEMMA StageBAgrees ==
    ASSUME StageBInit
    PROVE  /\ _collect_failures_b = {} <=> _print_validation_block_b
           /\ _print_validation_block_b => V2.net > 0
  <1>1. /\ stage.v1 \in 0..(MaxStageTrades + 1)
        /\ stage.attempts \in [1..V2Attempts -> [pnls : PnlSequences, weak : BOOLEAN]]
    BY DEF StageBInit
  <1>2. MaxStageTrades \in Nat /\ V2Attempts \in Nat \ {0}
    BY StageAssumption
  <1>3. _run_v2_attempts \in [pnls : PnlSequences, weak : BOOLEAN]
    <2>1. Good \subseteq 1..V2Attempts
      BY DEF Good
    <2>2. Good # {} => Min(Good) \in Good
      <3> SUFFICES ASSUME Good # {} PROVE Min(Good) \in Good
        OBVIOUS
      <3>1. Good \subseteq Nat
        BY <2>1
      <3>2. \E n \in Good : \A k \in Good : n <= k
        BY <3>1, LeastNumber
      <3> QED BY <3>2 DEF Min
    <2>3. (IF Good = {} THEN V2Attempts ELSE Min(Good)) \in 1..V2Attempts
      <3>1. CASE Good = {}
        BY <1>2, <3>1
      <3>2. CASE Good # {}
        <4>1. Min(Good) \in 1..V2Attempts
          BY <2>1, <2>2, <3>2
        <4>2. (IF Good = {} THEN V2Attempts ELSE Min(Good)) = Min(Good)
          BY <3>2
        <4> QED BY <4>1, <4>2
      <3> QED BY <3>1, <3>2
    <2> QED BY <1>1, <2>3 DEF _run_v2_attempts
  <1>4. _run_v2_attempts.pnls \in Seq(Int)
    BY <1>3, ResultsAreIntegers
  <1>5. /\ \E a, b \in Nat : profit_factor(V2) = <<a, b>>
        /\ \E a, b \in Nat : win_rate(V2) = <<a, b>>
        /\ AtLeast(profit_factor(V2), PROFIT_FACTOR_THRESHOLD) => V2.net > 0
    BY <1>4, FactorIsProfit DEF V2
  <1>6. V2.closed \in Nat /\ stage.v1 \in Nat
    BY <1>1, <1>2, <1>4, NetIsGainsLessLosses DEF V2
  <1>7. /\ AtLeast(profit_factor(V2), PROFIT_FACTOR_THRESHOLD)
              <=> ~Less(profit_factor(V2), PROFIT_FACTOR_THRESHOLD)
        /\ AtLeast(win_rate(V2), WIN_RATE_THRESHOLD_B)
              <=> ~Less(win_rate(V2), WIN_RATE_THRESHOLD_B)
    BY <1>5, Comparable DEF PROFIT_FACTOR_THRESHOLD, WIN_RATE_THRESHOLD_B
  <1>8. V2.closed < stage.v1 <=> ~(V2.closed >= stage.v1)
    BY <1>6
  <1>9. _collect_failures_b = {} <=> _print_validation_block_b
    BY <1>7, <1>8 DEF _collect_failures_b, _print_validation_block_b
  <1>10. _print_validation_block_b => V2.net > 0
    BY <1>5 DEF _print_validation_block_b
  <1> QED BY <1>9, <1>10

(* Stage C, the same.                                                       *)
LEMMA StageCAgrees ==
    ASSUME StageCInit
    PROVE  /\ ~exits_with_error_c <=> _print_validation_block_c
           /\ _print_validation_block_c => EMAPullback.net > 0
  <1>1. stage.pnls \in Seq(Int)
    BY ResultsAreIntegers DEF StageCInit
  <1>2. /\ \E a, b \in Nat : profit_factor(EMAPullback) = <<a, b>>
        /\ \E a, b \in Nat : win_rate(EMAPullback) = <<a, b>>
        /\ AtLeast(profit_factor(EMAPullback), PROFIT_FACTOR_THRESHOLD) => EMAPullback.net > 0
    BY <1>1, FactorIsProfit DEF EMAPullback
  <1>3. /\ AtLeast(profit_factor(EMAPullback), PROFIT_FACTOR_THRESHOLD)
              <=> ~Less(profit_factor(EMAPullback), PROFIT_FACTOR_THRESHOLD)
        /\ AtLeast(win_rate(EMAPullback), WIN_RATE_THRESHOLD_C)
              <=> ~Less(win_rate(EMAPullback), WIN_RATE_THRESHOLD_C)
    BY <1>2, Comparable DEF PROFIT_FACTOR_THRESHOLD, WIN_RATE_THRESHOLD_C
  <1>4. ~exits_with_error_c <=> _print_validation_block_c
    BY <1>3 DEF exits_with_error_c, _print_validation_block_c
  <1>5. _print_validation_block_c => EMAPullback.net > 0
    BY <1>2 DEF _print_validation_block_c
  <1> QED BY <1>4, <1>5

(* The acceptance scripts (validate_stage_a.py, _b.py, _c.py) compute what  *)
(* they print and the exit code with separate code.  For all results of     *)
(* the backtests and of the checks the two agree, but for stage A after     *)
(* nothing but skipped trades, and what passed is not empty.                *)
THEOREM StagesAgree == StageInit => VerdictsAgree
  <1>1. ASSUME StageAInit PROVE VerdictsAgree
    <2>1. stage.script = "a"
      BY <1>1 DEF StageAInit
    <2>2. /\ Passed = _print_validation_block_a /\ ExitsWithError = exits_with_error_a
          /\ OnlySkipped <=> SumOver(stage.old) = 0
      BY <2>1 DEF Passed, ExitsWithError, OnlySkipped
    <2> QED BY <1>1, <2>1, <2>2, StageAAgrees DEF VerdictsAgree
  <1>2. ASSUME StageBInit PROVE VerdictsAgree
    <2>1. stage.script = "b"
      BY <1>2 DEF StageBInit
    <2>2. Passed = _print_validation_block_b /\ ExitsWithError = (_collect_failures_b # {})
      BY <2>1 DEF Passed, ExitsWithError
    <2> QED BY <1>2, <2>1, <2>2, StageBAgrees DEF VerdictsAgree
  <1>3. ASSUME StageCInit PROVE VerdictsAgree
    <2>1. stage.script = "c"
      BY <1>3 DEF StageCInit
    <2>2. Passed = _print_validation_block_c /\ ExitsWithError = exits_with_error_c
      BY <2>1 DEF Passed, ExitsWithError
    <2> QED BY <1>3, <2>1, <2>2, StageCAgrees DEF VerdictsAgree
  <1> QED BY <1>1, <1>2, <1>3 DEF StageInit

-----------------------------------------------------------------------------
(* Sums over a set. *)

(* The sum of v over every subset of D, whichever element is taken first.   *)
Totals(h, D, v) ==
    /\ h \in [SUBSET D -> Int]
    /\ h[{}] = 0
    /\ \A s \in SUBSET D : \A x \in s : h[s] = v[x] + h[s \ {x}]

(* The sum over a set that is not empty is made without its first element.  *)
FirstTotals(h, D, v) ==
    /\ h \in [SUBSET D -> Int]
    /\ h[{}] = 0
    /\ \A s \in SUBSET D : s # {} =>
          LET x == CHOOSE x \in s : TRUE IN h[s] = v[x] + h[s \ {x}]

(* What holds of the empty set and of a set if it holds of every set with   *)
(* one element less holds of every finite set.                              *)
LEMMA LeastSet ==
    ASSUME NEW D, IsFiniteSet(D), NEW B, B \subseteq SUBSET D, B # {}
    PROVE  \E s \in B : \A x \in s : s \ {x} \notin B
  <1>1. \A s \in SUBSET D : IsFiniteSet(s) /\ Cardinality(s) \in Nat
    BY FS_Subset, FS_CardinalityType
  <1> DEFINE Sizes == {Cardinality(s) : s \in B}
  <1>2. Sizes \subseteq Nat /\ Sizes # {}
    BY <1>1
  <1>3. PICK n \in Sizes : \A m \in Sizes : n <= m
    <2> HIDE DEF Sizes
    <2> QED BY <1>2, LeastNumber
  <1>4. PICK s \in B : n = Cardinality(s)
    BY <1>3
  <1>5. ASSUME NEW x \in s, s \ {x} \in B PROVE FALSE
    <2>1. Cardinality(s \ {x}) = Cardinality(s) - 1
      BY <1>1, FS_RemoveElement
    <2>2. n <= Cardinality(s \ {x})
      BY <1>3, <1>5
    <2> QED BY <1>1, <1>4, <2>1, <2>2
  <1> QED BY <1>5

(* The order in which a sum is taken does not matter.                       *)
LEMMA AnyFirst ==
    ASSUME NEW D, IsFiniteSet(D), NEW v \in [D -> Int], NEW h, FirstTotals(h, D, v)
    PROVE  Totals(h, D, v)
  <1> DEFINE Steady(s) == \A x \in s : h[s] = v[x] + h[s \ {x}]
             B == {s \in SUBSET D : ~Steady(s)}
  <1>1. B = {}
    <2> SUFFICES ASSUME B # {} PROVE FALSE
      OBVIOUS
    <2>1. B \subseteq SUBSET D
      OBVIOUS
    <2>2. PICK s \in B : \A x \in s : s \ {x} \notin B
      <3> HIDE DEF B
      <3> QED BY <2>1, LeastSet
    <2>3. PICK x \in s : h[s] # v[x] + h[s \ {x}]
      BY <2>2
    <2> DEFINE p == CHOOSE y \in s : TRUE
    <2>4. p \in s /\ h[s] = v[p] + h[s \ {p}]
      BY <2>2, <2>3 DEF FirstTotals
    <2> HIDE DEF p
    <2>5. p # x
      BY <2>3, <2>4
    <2>6. Steady(s \ {x}) /\ Steady(s \ {p})
      BY <2>2, <2>3, <2>4
    <2>7. /\ h[s \ {x}] = v[p] + h[(s \ {x}) \ {p}]
          /\ h[s \ {p}] = v[x] + h[(s \ {p}) \ {x}]
      BY <2>3, <2>4, <2>5, <2>6
    <2>8. (s \ {x}) \ {p} = (s \ {p}) \ {x}
      OBVIOUS
    <2>9. v[p] \in Int /\ v[x] \in Int /\ h[(s \ {p}) \ {x}] \in Int
      BY <2>2, <2>3, <2>4 DEF FirstTotals
    <2> DEFINE a == h[s \ {x}]  b == h[s \ {p}]  c == h[(s \ {p}) \ {x}]
    <2>10. a = v[p] + c /\ b = v[x] + c /\ h[s] = v[p] + b /\ h[s] # v[x] + a
      BY <2>3, <2>4, <2>7, <2>8
    <2>11. c \in Int
      BY <2>9
    <2> HIDE DEF a, b, c
    <2> QED BY <2>9, <2>10, <2>11
  <1> QED BY <1>1 DEF Totals, FirstTotals

(* Sums of the same values are the same.                                    *)
LEMMA TotalsAgree ==
    ASSUME NEW D, IsFiniteSet(D), NEW F \in SUBSET D, NEW v \in [D -> Int], NEW w \in [F -> Int],
           \A x \in F : v[x] = w[x],
           NEW h, Totals(h, D, v), NEW k, Totals(k, F, w)
    PROVE  k[F] = h[F]
  <1> DEFINE B == {s \in SUBSET F : k[s] # h[s]}
  <1>1. B = {}
    <2> SUFFICES ASSUME B # {} PROVE FALSE
      OBVIOUS
    <2>1. B \subseteq SUBSET F /\ IsFiniteSet(F)
      BY FS_Subset
    <2>2. PICK s \in B : \A x \in s : s \ {x} \notin B
      <3> HIDE DEF B
      <3> QED BY <2>1, LeastSet
    <2>3. s # {}
      BY <2>2 DEF Totals
    <2>4. PICK x \in s : TRUE
      BY <2>3
    <2>5. k[s \ {x}] = h[s \ {x}]
      BY <2>2, <2>4
    <2>6. k[s] = w[x] + k[s \ {x}] /\ h[s] = v[x] + h[s \ {x}]
      BY <2>2, <2>4 DEF Totals
    <2> QED BY <2>2, <2>4, <2>5, <2>6
  <1> QED BY <1>1

(* Sums of what is not negative are not negative.                           *)
LEMMA TotalsPositive ==
    ASSUME NEW D, IsFiniteSet(D), NEW v \in [D -> Int], \A x \in D : v[x] >= 0,
           NEW h, Totals(h, D, v)
    PROVE  h[D] >= 0
  <1> DEFINE B == {s \in SUBSET D : ~(h[s] >= 0)}
  <1>1. B = {}
    <2> SUFFICES ASSUME B # {} PROVE FALSE
      OBVIOUS
    <2>1. B \subseteq SUBSET D
      OBVIOUS
    <2>2. PICK s \in B : \A x \in s : s \ {x} \notin B
      <3> HIDE DEF B
      <3> QED BY <2>1, LeastSet
    <2>3. s # {}
      <3>1. h[{}] >= 0 /\ ~(h[s] >= 0)
        BY <2>2 DEF Totals
      <3> QED BY <3>1
    <2>4. PICK x \in s : TRUE
      BY <2>3
    <2>5. h[s \ {x}] >= 0 /\ h[s \ {x}] \in Int /\ v[x] \in Int /\ v[x] >= 0
      BY <2>2, <2>4 DEF Totals
    <2>6. h[s] = v[x] + h[s \ {x}]
      BY <2>2, <2>4 DEF Totals
    <2> QED BY <2>2, <2>5, <2>6
  <1> QED BY <1>1

(* Sum is such a sum.                                                       *)
LEMMA SumIsTotal ==
    ASSUME NEW D, IsFiniteSet(D), NEW v \in [D -> Int]
    PROVE  \E h : Totals(h, D, v) /\ Sum(v) = h[D]
  <1> DEFINE pick == [s \in SUBSET D |-> CHOOSE x \in s : TRUE]
             act == [a \in D \X Int |-> v[a[1]] + a[2]]
             Def(it) == it = [s \in SUBSET DOMAIN v |->
                                IF s = {} THEN 0
                                ELSE LET x == CHOOSE x \in s : TRUE IN v[x] + it[s \ {x}]]
             iter == CHOOSE it : Def(it)
  <1>1. act \in [D \X Int -> Int]
    <2>1. \A a \in D \X Int : v[a[1]] + a[2] \in Int
      OBVIOUS
    <2> QED BY <2>1
  <1>2. \A s \in SUBSET D : s # {} => (CHOOSE x \in s : TRUE) \in s
    OBVIOUS
  <1>3. Picks(pick, D)
    BY <1>2 DEF Picks
  <1>4. PICK it : Recurs(it, D, Int, 0, act, pick)
    <2>1. 0 \in Int
      OBVIOUS
    <2> HIDE DEF pick, act
    <2> QED BY <1>1, <1>3, <2>1, SetRecursion
  <1>5. \A s \in SUBSET D : s # {} =>
           LET x == CHOOSE x \in s : TRUE IN it[s] = v[x] + it[s \ {x}]
    <2> SUFFICES ASSUME NEW s \in SUBSET D, s # {}
                 PROVE  LET x == CHOOSE x \in s : TRUE IN it[s] = v[x] + it[s \ {x}]
      OBVIOUS
    <2> DEFINE x == CHOOSE x \in s : TRUE
    <2>1. pick[s] = x /\ x \in D /\ s \ {x} \in SUBSET D
      BY <1>2
    <2>2. it[s \ {x}] \in Int
      BY <1>4, <2>1 DEF Recurs
    <2>3. act[<<x, it[s \ {x}]>>] = v[x] + it[s \ {x}]
      BY <2>1, <2>2
    <2>4. it[s] = act[<<pick[s], it[s \ {pick[s]}]>>]
      <3> HIDE DEF pick, act
      <3> QED BY <1>4 DEF Recurs
    <2> QED BY <2>1, <2>3, <2>4
  <1>6. Def(it)
    <2>1. it = [s \in SUBSET D |-> it[s]] /\ it[{}] = 0 /\ DOMAIN v = D
      BY <1>4 DEF Recurs
    <2> HIDE DEF pick, act
    <2> QED BY <1>5, <2>1, Zenon
  <1>7. Def(iter)
    <2> HIDE DEF Def
    <2> QED BY <1>6
  <1>8. Sum(v) = iter[D]
    <2>1. DOMAIN v = D
      OBVIOUS
    <2>2. Sum(v) = iter[DOMAIN v]
      BY DEF Sum, FoldFunctionOnSet, MapThenFoldSet
    <2> QED BY <2>1, <2>2
  <1>9. \A s \in SUBSET D : iter[s] = IF s = {} THEN 0
                               ELSE LET x == CHOOSE x \in s : TRUE IN v[x] + iter[s \ {x}]
    <2>1. DOMAIN v = D
      OBVIOUS
    <2> HIDE DEF iter
    <2> QED BY <1>7, <2>1, Zenon
  <1>10. \A s \in SUBSET D : iter[s] = it[s]
    <2> DEFINE B == {s \in SUBSET D : iter[s] # it[s]}
    <2> HIDE DEF iter
    <2> SUFFICES ASSUME B # {} PROVE FALSE
      OBVIOUS
    <2>1. B \subseteq SUBSET D
      OBVIOUS
    <2>2. PICK s \in B : \A x \in s : s \ {x} \notin B
      <3> HIDE DEF B
      <3> QED BY <2>1, LeastSet
    <2>3. s # {}
      BY <1>4, <1>9, <2>2 DEF Recurs
    <2> DEFINE x == CHOOSE x \in s : TRUE
    <2>4. x \in s
      BY <2>3
    <2>5. iter[s] = v[x] + iter[s \ {x}] /\ it[s] = v[x] + it[s \ {x}]
      BY <1>5, <1>9, <2>2, <2>3
    <2> HIDE DEF x
    <2>6. iter[s \ {x}] = it[s \ {x}]
      BY <2>2, <2>4
    <2> QED BY <2>2, <2>5, <2>6
  <1>11. Totals(it, D, v)
    <2>1. FirstTotals(it, D, v)
      BY <1>4, <1>5 DEF Recurs, FirstTotals
    <2> QED BY <2>1, AnyFirst
  <1>12. Sum(v) = it[D]
    <2>1. D \in SUBSET D
      OBVIOUS
    <2> HIDE DEF iter
    <2> QED BY <1>8, <1>10, <2>1
  <1> QED BY <1>11, <1>12

LEMMA SumOf ==
    ASSUME NEW D, IsFiniteSet(D), NEW v \in [D -> Int], NEW h, Totals(h, D, v)
    PROVE  Sum(v) = h[D] /\ Sum(v) \in Int
  <1>1. PICK k : Totals(k, D, v) /\ Sum(v) = k[D]
    BY SumIsTotal
  <1>2. k[D] = h[D]
    <2>1. D \in SUBSET D /\ \A x \in D : v[x] = v[x]
      OBVIOUS
    <2> QED BY <1>1, <2>1, TotalsAgree
  <1>3. h[D] \in Int
    BY DEF Totals
  <1> QED BY <1>1, <1>2, <1>3

LEMMA SumIsInteger ==
    ASSUME NEW D, IsFiniteSet(D), NEW v \in [D -> Int]
    PROVE  Sum(v) \in Int
  <1>1. PICK h : Totals(h, D, v)
    BY SumIsTotal
  <1> QED BY <1>1, SumOf

(* Sums may be taken together.                                              *)
LEMMA SumPlus ==
    ASSUME NEW D, IsFiniteSet(D), NEW v \in [D -> Int], NEW w \in [D -> Int]
    PROVE  Sum([x \in D |-> v[x] + w[x]]) = Sum(v) + Sum(w)
  <1>1. PICK h : Totals(h, D, v) /\ Sum(v) = h[D]
    BY SumIsTotal
  <1>2. PICK k : Totals(k, D, w) /\ Sum(w) = k[D]
    BY SumIsTotal
  <1> DEFINE both == [x \in D |-> v[x] + w[x]]
             hk == [s \in SUBSET D |-> h[s] + k[s]]
  <1>3. both \in [D -> Int]
    OBVIOUS
  <1>4. Totals(hk, D, both)
    <2>1. \A s \in SUBSET D : h[s] \in Int /\ k[s] \in Int
      BY <1>1, <1>2 DEF Totals
    <2>2. hk \in [SUBSET D -> Int]
      BY <2>1
    <2>3. hk[{}] = 0
      BY <1>1, <1>2 DEF Totals
    <2>4. ASSUME NEW s \in SUBSET D, NEW x \in s PROVE hk[s] = both[x] + hk[s \ {x}]
      <3>1. h[s] = v[x] + h[s \ {x}] /\ k[s] = w[x] + k[s \ {x}]
        BY <1>1, <1>2 DEF Totals
      <3> DEFINE a == h[s \ {x}]  b == k[s \ {x}]
      <3>2. a \in Int /\ b \in Int /\ v[x] \in Int /\ w[x] \in Int
        BY <2>1
      <3>3. hk[s] = (v[x] + a) + (w[x] + b) /\ both[x] + hk[s \ {x}] = (v[x] + w[x]) + (a + b)
        BY <3>1
      <3> HIDE DEF a, b, hk, both
      <3> QED BY <3>2, <3>3
    <2> HIDE DEF hk, both
    <2> QED BY <2>2, <2>3, <2>4 DEF Totals
  <1>5. Sum(both) = hk[D]
    <2> HIDE DEF hk, both
    <2> QED BY <1>3, <1>4, SumOf
  <1> QED BY <1>1, <1>2, <1>5

(* The sum over a part is that of all where the others are left out.        *)
LEMMA SumPart ==
    ASSUME NEW D, IsFiniteSet(D), NEW F \in SUBSET D, NEW v \in [D -> Int], NEW w \in [F -> Int],
           \A x \in F : w[x] = v[x]
    PROVE  Sum(w) = Sum([x \in D |-> IF x \in F THEN v[x] ELSE 0])
  <1>1. PICK h : Totals(h, F, w) /\ Sum(w) = h[F]
    BY FS_Subset, SumIsTotal
  <1> DEFINE m == [x \in D |-> IF x \in F THEN v[x] ELSE 0]
             hm == [s \in SUBSET D |-> h[s \cap F]]
  <1>2. m \in [D -> Int]
    OBVIOUS
  <1>3. Totals(hm, D, m)
    <2>1. hm \in [SUBSET D -> Int]
      <3>1. \A s \in SUBSET D : h[s \cap F] \in Int
        BY <1>1 DEF Totals
      <3> QED BY <3>1
    <2>2. hm[{}] = 0
      <3>1. {} \cap F = {}
        OBVIOUS
      <3> QED BY <1>1, <3>1 DEF Totals
    <2>3. ASSUME NEW s \in SUBSET D, NEW x \in s PROVE hm[s] = m[x] + hm[s \ {x}]
      <3>1. hm[s] = h[s \cap F] /\ hm[s \ {x}] = h[(s \ {x}) \cap F]
        OBVIOUS
      <3>2. h[s \cap F] \in Int /\ h[(s \ {x}) \cap F] \in Int
        BY <1>1 DEF Totals
      <3>3. CASE x \in F
        <4>1. (s \ {x}) \cap F = (s \cap F) \ {x} /\ x \in s \cap F /\ s \cap F \in SUBSET F
          BY <3>3
        <4>2. h[s \cap F] = w[x] + h[(s \cap F) \ {x}]
          BY <1>1, <4>1 DEF Totals
        <4>3. m[x] = w[x]
          BY <3>3
        <4> HIDE DEF hm, m
        <4> QED BY <3>1, <4>1, <4>2, <4>3
      <3>4. CASE x \notin F
        <4>1. (s \ {x}) \cap F = s \cap F /\ m[x] = 0
          BY <3>4
        <4> DEFINE a == h[s \cap F]
        <4>2. a \in Int /\ hm[s] = a /\ hm[s \ {x}] = a
          BY <3>1, <3>2, <4>1
        <4> HIDE DEF a, hm, m
        <4> QED BY <4>1, <4>2
      <3> QED BY <3>3, <3>4
    <2> HIDE DEF hm, m
    <2> QED BY <2>1, <2>2, <2>3 DEF Totals
  <1>4. Sum(m) = hm[D]
    <2> HIDE DEF hm, m
    <2> QED BY <1>2, <1>3, SumOf
  <1>5. hm[D] = h[F]
    <2>1. D \cap F = F /\ D \in SUBSET D
      OBVIOUS
    <2> QED BY <2>1
  <1> QED BY <1>1, <1>4, <1>5

LEMMA SumPositive ==
    ASSUME NEW D, IsFiniteSet(D), NEW v \in [D -> Int], \A x \in D : v[x] >= 0
    PROVE  Sum(v) >= 0
  <1>1. PICK h : Totals(h, D, v) /\ Sum(v) = h[D]
    BY SumIsTotal
  <1> QED BY <1>1, TotalsPositive

LEMMA SumConstant ==
    ASSUME NEW D, IsFiniteSet(D), NEW c \in Int, NEW v \in [D -> Int], \A x \in D : v[x] = c
    PROVE  Sum(v) = c * Cardinality(D)
  <1> DEFINE h == [s \in SUBSET D |-> c * Cardinality(s)]
  <1>1. Totals(h, D, v)
    <2>1. \A s \in SUBSET D : IsFiniteSet(s) /\ Cardinality(s) \in Nat
      BY FS_Subset, FS_CardinalityType
    <2>2. h \in [SUBSET D -> Int]
      BY <2>1
    <2>3. h[{}] = 0
      BY FS_EmptySet
    <2>4. ASSUME NEW s \in SUBSET D, NEW x \in s PROVE h[s] = v[x] + h[s \ {x}]
      <3>1. Cardinality(s \ {x}) = Cardinality(s) - 1
        BY <2>1, FS_RemoveElement
      <3> DEFINE n == Cardinality(s)
      <3>2. n \in Int /\ h[s] = c * n /\ v[x] = c /\ v[x] + h[s \ {x}] = c + c * (n - 1)
        BY <2>1, <3>1
      <3> HIDE DEF n, h
      <3>3. c * (n - 1) = c * n - c
        BY <3>2
      <3>4. c * n \in Int
        BY <3>2
      <3> QED BY <3>2, <3>3, <3>4
    <2> HIDE DEF h
    <2> QED BY <2>2, <2>3, <2>4 DEF Totals
  <1>2. Sum(v) = h[D]
    <2> HIDE DEF h
    <2> QED BY <1>1, SumOf
  <1> QED BY <1>2

LEMMA SumAtMost ==
    ASSUME NEW D, IsFiniteSet(D), NEW v \in [D -> Int], NEW w \in [D -> Int],
           \A x \in D : v[x] <= w[x]
    PROVE  Sum(v) <= Sum(w)
  <1> DEFINE d == [x \in D |-> w[x] - v[x]]
  <1>1. d \in [D -> Int] /\ \A x \in D : d[x] >= 0
    <2>1. \A x \in D : w[x] - v[x] \in Int /\ w[x] - v[x] >= 0
      OBVIOUS
    <2> QED BY <2>1
  <1>2. w = [x \in D |-> v[x] + d[x]]
    <2>1. w = [x \in D |-> w[x]] /\ \A x \in D : w[x] = v[x] + d[x]
      OBVIOUS
    <2> HIDE DEF d
    <2> QED BY <2>1, Zenon
  <1>3. Sum(w) = Sum(v) + Sum(d)
    <2> HIDE DEF d
    <2>1. Sum([x \in D |-> v[x] + d[x]]) = Sum(v) + Sum(d)
      BY <1>1, SumPlus
    <2> QED BY <1>2, <2>1
  <1>4. Sum(d) >= 0 /\ Sum(d) \in Int /\ Sum(v) \in Int
    <2> HIDE DEF d
    <2> QED BY <1>1, SumPositive, SumIsInteger
  <1> QED BY <1>3, <1>4

-----------------------------------------------------------------------------
(* The advice of a grid. *)

LEMMA AdviceInputs ==
    ASSUME AdviceInit
    PROVE  /\ Price \in Nat \ {0}
           /\ HalfRange[1] \in Int /\ HalfRange[2] \in Nat \ {0}
  <1>1. PICK first \in AdvicePrices :
           grid \in [about : {"advice"}, first_close : {first},
                     candles : [1..atr_period ->
                        {c \in [high : AdvicePrices, low : AdvicePrices, close : AdvicePrices] :
                           c.low <= c.close /\ c.close <= c.high}]]
    BY DEF AdviceInit
  <1>2. /\ AdvicePrices \subseteq Nat \ {0} /\ atr_period \in Nat \ {0}
        /\ atr_multiplier \in Nat /\ target_n_levels \in Nat
    BY GridAssumption
  <1>3. \A i \in 1..atr_period : /\ grid.candles[i].high \in Nat \ {0}
                                 /\ grid.candles[i].low \in Nat \ {0}
                                 /\ grid.candles[i].close \in Nat \ {0}
    BY <1>1, <1>2
  <1>4. grid.first_close \in Nat \ {0}
    BY <1>1, <1>2
  <1>5. Price \in Nat \ {0}
    <2>1. Len(grid.candles) = atr_period
      BY <1>1, <1>2
    <2> QED BY <1>2, <1>3, <2>1 DEF Price, Last
  <1>6. \A i \in 1..atr_period : TrueRange(i) \in Int
    <2> SUFFICES ASSUME NEW i \in 1..atr_period PROVE TrueRange(i) \in Int
      OBVIOUS
    <2> DEFINE c == grid.candles[i]
               p == IF i = 1 THEN grid.first_close ELSE grid.candles[i - 1].close
               d == c.high - c.low
               u == Gap(c.high, p)
               l == Gap(c.low, p)
    <2>1. p \in Int /\ c.high \in Int /\ c.low \in Int
      <3>1. i # 1 => i - 1 \in 1..atr_period
        BY <1>2
      <3> QED BY <1>3, <1>4, <3>1
    <2>2. d \in Int /\ u \in Int /\ l \in Int
      BY <2>1 DEF Gap
    <2>3. TrueRange(i) = Max({d, u, l})
      BY DEF TrueRange
    <2> HIDE DEF d, u, l
    <2>4. \E x \in {d, u, l} : \A y \in {d, u, l} : x >= y
      <3>1. CASE d >= u /\ d >= l
        BY <2>2, <3>1
      <3>2. CASE u >= d /\ u >= l
        BY <2>2, <3>2
      <3>3. CASE l >= d /\ l >= u
        BY <2>2, <3>3
      <3> QED BY <2>2, <3>1, <3>2, <3>3
    <2>5. Max({d, u, l}) \in {d, u, l}
      BY <2>4 DEF Max
    <2> QED BY <2>2, <2>3, <2>5
  <1> DEFINE ranges == [i \in 1..atr_period |-> TrueRange(i)]
  <1>7. Sum(ranges) \in Int
    <2>1. IsFiniteSet(1..atr_period) /\ ranges \in [1..atr_period -> Int]
      BY <1>2, <1>6, FS_Interval
    <2> HIDE DEF ranges
    <2> QED BY <2>1, SumIsInteger
  <1>8. HalfRange = <<atr_multiplier * Sum(ranges), atr_period>>
    BY DEF HalfRange
  <1> HIDE DEF ranges
  <1> QED BY <1>2, <1>5, <1>7, <1>8

LEMMA AdviceAddsUp ==
    ASSUME AdviceInit
    PROVE  AdviceIsSound
  <1> DEFINE top == Max({4, target_n_levels})
             K == {k \in 4..top : k = 4 \/ WideEnough(HalfRange, k)}
             n == Max(K)
             g == suggest_grid
             s == min_step_pct[1]
             t == min_step_pct[2]
  <1>1. /\ s \in Nat /\ t \in Nat \ {0} /\ target_n_levels \in Nat
        /\ Price \in Nat \ {0} /\ HalfRange[1] \in Int /\ HalfRange[2] \in Nat \ {0}
    BY AdviceInputs, GridAssumption
  <1>2. top \in Nat /\ top >= 4 /\ top >= target_n_levels
    BY <1>1, LargerOfTwo
  <1>3. n \in K /\ \A k \in K : n >= k
    <2> HIDE DEF top
    <2>1. K \subseteq 1..top /\ 4 \in K
      BY <1>2
    <2> HIDE DEF K
    <2> QED BY <1>2, <2>1, LastNumber
  <1>4. /\ g.n_levels = n
        /\ g.half_range = IF WideEnough(HalfRange, n) THEN HalfRange ELSE _minimum_half_range(n)
    BY DEF suggest_grid
  <1>5. n \in Nat
    <2> HIDE DEF top, n
    <2> QED BY <1>2, <1>3
  <1> HIDE DEF top, n, s, t, g
  <1>6. ASSUME AdviceIsGiven
        PROVE  g.half_range[1] < Price * g.half_range[2] /\ WideEnough(g.half_range, n)
    <2>1. CASE WideEnough(HalfRange, n)
      BY <1>4, <1>6, <2>1 DEF AdviceIsGiven
    <2>2. CASE ~WideEnough(HalfRange, n)
      <3> DEFINE P == Price
                 m == s * n
      <3>1. g.half_range = <<m * P, 2 * t + m>>
        BY <1>4, <2>2 DEF _minimum_half_range, s, t
      <3>2. m \in Nat /\ P \in Nat \ {0}
        BY <1>1, <1>5
      <3>3. WideEnough(g.half_range, n) <=> 2 * (m * P) * t >= m * (P * (2 * t + m) - m * P)
        BY <3>1 DEF WideEnough, s, t
      <3> HIDE DEF m, P
      <3>4. P * (2 * t + m) = 2 * (P * t) + P * m /\ P * m = m * P
        BY <1>1, <3>2
      <3>5. P * t \in Nat \ {0} /\ m * P \in Nat
        BY <1>1, <3>2
      <3>6. P * (2 * t + m) - m * P = 2 * (P * t)
        BY <3>4, <3>5
      <3>7. 2 * (m * P) * t = m * (2 * (P * t))
        BY <1>1, <3>2
      <3>8. m * (2 * (P * t)) \in Int
        BY <3>2, <3>5
      <3>9. m * P < P * (2 * t + m)
        BY <3>4, <3>5
      <3>10. WideEnough(g.half_range, n)
        BY <3>3, <3>6, <3>7, <3>8
      <3> QED BY <3>1, <3>9, <3>10 DEF P
    <2> QED BY <2>1, <2>2
  <1>7. ASSUME NEW k \in (n + 1)..target_n_levels
        PROVE  ~WideEnough(HalfRange, k)
    <2>1. k \in 4..top
      BY <1>1, <1>2, <1>3, <1>5
    <2>2. ~(n >= k)
      BY <1>1, <1>5
    <2> QED BY <1>3, <2>1, <2>2
  <1> QED BY <1>4, <1>6, <1>7 DEF AdviceIsSound, g

-----------------------------------------------------------------------------
(* The sweep. *)

(* The order in which the sweep prefers its configurations.                 *)
Better(j, k) ==
    \/ grid.results[k].profitable < grid.results[j].profitable
    \/ grid.results[k].profitable = grid.results[j].profitable /\ Ahead(j, k)

LEMMA SweepInputs ==
    ASSUME SweepInit
    PROVE  /\ grid.results \in [1..(TopConfigs + 1) ->
                                  [yield : Int, solid : BOOLEAN, profitable : Nat]]
           /\ TopConfigs \in Nat
  <1>1. TopConfigs \in Nat /\ GridWindows \in Nat /\ SweepYields \subseteq Int
    BY GridAssumption
  <1>2. grid.results \in [1..(TopConfigs + 1) ->
                           [yield : SweepYields, solid : BOOLEAN, profitable : 0..GridWindows]]
    BY DEF SweepInit
  <1>3. (\A y \in SweepYields : y \in Int) /\ (\A p \in 0..GridWindows : p \in Nat)
    BY <1>1
  <1>4. [yield : SweepYields, solid : BOOLEAN, profitable : 0..GridWindows]
           \subseteq [yield : Int, solid : BOOLEAN, profitable : Nat]
    <2> SUFFICES ASSUME NEW q \in [yield : SweepYields, solid : BOOLEAN,
                                   profitable : 0..GridWindows]
                 PROVE  q \in [yield : Int, solid : BOOLEAN, profitable : Nat]
      OBVIOUS
    <2>1. q.yield \in Int /\ q.solid \in BOOLEAN /\ q.profitable \in Nat
      <3>1. q.solid \in BOOLEAN
        OBVIOUS
      <3>2. q.yield \in SweepYields /\ q.profitable \in 0..GridWindows
        OBVIOUS
      <3>3. q.yield \in Int /\ q.profitable \in Nat
        BY <1>3, <3>2, Zenon
      <3> QED BY <3>1, <3>3
    <2>2. q = [yield |-> q.yield, solid |-> q.solid, profitable |-> q.profitable]
      OBVIOUS
    <2> QED BY <2>1, <2>2
  <1> QED BY <1>1, <1>2, <1>4

LEMMA PreferenceIsOrder ==
    ASSUME SweepInit, NEW i \in DOMAIN grid.results, NEW j \in DOMAIN grid.results,
           NEW k \in DOMAIN grid.results
    PROVE  /\ ~Better(i, i)
           /\ i # j => Better(i, j) \/ Better(j, i)
           /\ Better(i, j) /\ Better(j, k) => Better(i, k)
  <1> DEFINE P(x) == grid.results[x].profitable
             Y(x) == grid.results[x].yield
  <1>1. \A x \in {i, j, k} : x \in Int /\ P(x) \in Int /\ Y(x) \in Int
    BY SweepInputs
  <1>2. \A x, y : Better(x, y) <=> \/ P(y) < P(x)
                                   \/ /\ P(y) = P(x)
                                      /\ Y(x) > Y(y) \/ (Y(x) = Y(y) /\ x < y)
    BY DEF Better, Ahead
  <1> DEFINE p == P(i)  q == P(j)  r == P(k)  y == Y(i)  z == Y(j)  w == Y(k)
  <1>3. /\ p \in Int /\ q \in Int /\ r \in Int /\ y \in Int /\ z \in Int /\ w \in Int
        /\ i \in Int /\ j \in Int /\ k \in Int
    BY <1>1
  <1>4. /\ Better(i, i) <=> (p < p \/ (p = p /\ (y > y \/ (y = y /\ i < i))))
        /\ Better(i, j) <=> (q < p \/ (q = p /\ (y > z \/ (y = z /\ i < j))))
        /\ Better(j, i) <=> (p < q \/ (p = q /\ (z > y \/ (z = y /\ j < i))))
        /\ Better(j, k) <=> (r < q \/ (r = q /\ (z > w \/ (z = w /\ j < k))))
        /\ Better(i, k) <=> (r < p \/ (r = p /\ (y > w \/ (y = w /\ i < k))))
    BY <1>2
  <1> HIDE DEF p, q, r, y, z, w
  <1> QED BY <1>3, <1>4

(* The configurations that are tried have a best one.                       *)
LEMMA BestOfTop ==
    ASSUME SweepInit, _top_positive # {}
    PROVE  /\ _run_walk_forward \in _top_positive
           /\ \A j \in _top_positive \ {_run_walk_forward} : Better(_run_walk_forward, j)
  <1> DEFINE T == _top_positive
             D == DOMAIN grid.results
             ahead(k) == {j \in T : Better(j, k)}
  <1>1. IsFiniteSet(T) /\ T \subseteq D
    <2>1. D = 1..(TopConfigs + 1) /\ IsFiniteSet(D)
      BY SweepInputs, FS_Interval
    <2>2. T \subseteq D
      BY DEF _top_positive, Earning
    <2> HIDE DEF T, D
    <2> QED BY <2>1, <2>2, FS_Subset
  <1>2. \A k \in T : IsFiniteSet(ahead(k)) /\ Cardinality(ahead(k)) \in Nat
    <2> HIDE DEF T
    <2>1. \A k \in T : ahead(k) \subseteq T
      OBVIOUS
    <2> QED BY <1>1, <2>1, FS_Subset, FS_CardinalityType
  <1> DEFINE Ranks == {Cardinality(ahead(k)) : k \in T}
  <1>3. Ranks \subseteq Nat /\ Ranks # {}
    BY <1>2
  <1>4. PICK n \in Ranks : \A m \in Ranks : n <= m
    <2> HIDE DEF Ranks
    <2> QED BY <1>3, LeastNumber
  <1>5. PICK k \in T : n = Cardinality(ahead(k))
    BY <1>4
  <1>6. ASSUME NEW j \in T \ {k} PROVE Better(k, j)
    <2> SUFFICES ASSUME ~Better(k, j) PROVE FALSE
      OBVIOUS
    <2>1. Better(j, k) /\ ~Better(j, j)
      BY <1>1, PreferenceIsOrder
    <2>2. ahead(j) \subseteq ahead(k) /\ j \in ahead(k) /\ j \notin ahead(j)
      BY <1>1, <2>1, PreferenceIsOrder
    <2>3. Cardinality(ahead(j)) < Cardinality(ahead(k))
      <3>1. /\ Cardinality(ahead(k) \ {j}) = Cardinality(ahead(k)) - 1
            /\ ahead(j) \subseteq ahead(k) \ {j} /\ IsFiniteSet(ahead(k) \ {j})
        BY <1>2, <2>2, FS_RemoveElement
      <3>2. Cardinality(ahead(j)) <= Cardinality(ahead(k) \ {j})
        BY <3>1, FS_Subset
      <3> HIDE DEF ahead
      <3> QED BY <1>2, <3>1, <3>2
    <2>4. n <= Cardinality(ahead(j))
      BY <1>4
    <2> HIDE DEF ahead
    <2> QED BY <1>2, <1>5, <2>3, <2>4
  <1>7. \A j \in T \ {k} : \/ grid.results[j].profitable < grid.results[k].profitable
                           \/ /\ grid.results[j].profitable = grid.results[k].profitable
                              /\ Ahead(k, j)
    BY <1>6 DEF Better
  <1>8. /\ _run_walk_forward \in T
        /\ \A j \in T \ {_run_walk_forward} :
              \/ grid.results[j].profitable < grid.results[_run_walk_forward].profitable
              \/ /\ grid.results[j].profitable = grid.results[_run_walk_forward].profitable
                 /\ Ahead(_run_walk_forward, j)
    <2> HIDE DEF T
    <2> QED BY <1>7 DEF _run_walk_forward, T
  <1> QED BY <1>8 DEF Better

LEMMA SweepAddsUp ==
    ASSUME SweepInit
    PROVE  SweepIsSound
  <1> DEFINE r == grid.results
             k == _run_walk_forward
  <1> SUFFICES ASSUME _print_walk_forward_gate
               PROVE  /\ r[k].yield > 0 /\ 2 * r[k].profitable >= GridWindows
                      /\ \A j \in DOMAIN r :
                            r[j].profitable > r[k].profitable /\ r[j].yield > 0 =>
                               Cardinality({i \in DOMAIN r \ {j} : r[i].yield >= r[j].yield})
                                  >= TopConfigs
    BY DEF SweepIsSound
  <1>1. _top_positive # {} /\ 2 * r[k].profitable >= GridWindows
    BY DEF _print_walk_forward_gate
  <1>2. /\ k \in _top_positive
        /\ \A j \in _top_positive \ {k} : Better(k, j)
    BY <1>1, BestOfTop
  <1> HIDE DEF k
  <1>3. r[k].yield > 0 /\ k \in DOMAIN r
    BY <1>2 DEF _top_positive, Earning
  <1>4. ASSUME NEW j \in DOMAIN r, r[j].profitable > r[k].profitable, r[j].yield > 0
        PROVE  Cardinality({i \in DOMAIN r \ {j} : r[i].yield >= r[j].yield}) >= TopConfigs
    <2> DEFINE A == {i \in Earning : Ahead(i, j)}
               E == {i \in DOMAIN r \ {j} : r[i].yield >= r[j].yield}
    <2>1. Better(j, k) /\ j # k
      <3>1. r[j].profitable \in Int /\ r[k].profitable \in Int
        BY <1>3, SweepInputs
      <3> QED BY <1>4, <3>1 DEF Better
    <2>2. ~Better(k, j)
      BY <1>3, <2>1, PreferenceIsOrder
    <2>3. j \notin _top_positive
      BY <1>2, <2>1, <2>2
    <2>4. ~(Cardinality(A) < TopConfigs)
      BY <1>4, <2>3 DEF _top_positive, Earning
    <2>5. A \subseteq E
      <3>1. \A i \in DOMAIN r : r[i].yield \in Int /\ i \in Int
        BY SweepInputs
      <3> QED BY <3>1 DEF Ahead, Earning
    <2>6. IsFiniteSet(E)
      <3>1. IsFiniteSet(DOMAIN r)
        BY SweepInputs, FS_Interval
      <3>2. E \subseteq DOMAIN r
        OBVIOUS
      <3> QED BY <3>1, <3>2, FS_Subset
    <2>7. Cardinality(A) <= Cardinality(E) /\ Cardinality(A) \in Nat /\ Cardinality(E) \in Nat
      <3> HIDE DEF A, E
      <3> QED BY <2>5, <2>6, FS_Subset, FS_CardinalityType
    <2> HIDE DEF A
    <2> QED BY <2>4, <2>7, SweepInputs
  <1> QED BY <1>1, <1>3, <1>4

-----------------------------------------------------------------------------
(* The backtest of a grid: one candle. *)

Slots == 1..LevelCount

(* The grid of a backtest, its candles and the coins of a level.            *)
Ladder == buy_prices(grid.candles[1].close)

Coins == [l \in Slots |-> _units_for_level(Ladder[l])]

GridState == [buys : {Ladder}, held : [Slots -> BOOLEAN], cycles : [Slots -> Nat],
              gross : Int, worst : Int, fees : Int]

BacktestIsValid ==
    /\ grid.candles \in [1..Len(grid.candles) -> [open : Int, high : Int, low : Int, close : Nat]]
    /\ Len(grid.candles) \in Nat \ {0}
    /\ \A l \in Slots : /\ Ladder[l] \in Nat \ {0} /\ Coins[l] \in Nat
                        /\ Coins[l] * Ladder[l] <= capital_per_level
    /\ DOMAIN Ladder = Slots
    /\ LevelCount \in Nat /\ IsFiniteSet(Slots) /\ Cardinality(Slots) = LevelCount
    /\ {capital_per_level, GridFee, GridFeeScale} \subseteq Nat

LEMMA WholeLots ==
    ASSUME NEW c \in Nat, NEW b \in Nat \ {0}, NEW lot \in Nat \ {0}
    PROVE  /\ ((c \div b) \div lot) * lot \in Nat
           /\ (((c \div b) \div lot) * lot) * b <= c
  <1> DEFINE q == c \div b
             p == q \div lot
             u == p * lot
  <1>1. q \in Nat /\ q * b <= c
    OBVIOUS
  <1> HIDE DEF q
  <1>2. p \in Nat /\ p * lot <= q
    BY <1>1
  <1> HIDE DEF p
  <1>3. u \in Nat /\ u <= q
    BY <1>2
  <1> HIDE DEF u
  <1>4. u * b <= q * b
    BY <1>1, <1>3
  <1>5. u * b <= c
    <2>1. u * b \in Int /\ q * b \in Int
      BY <1>1, <1>3
    <2> QED BY <1>1, <1>4, <2>1
  <1> QED BY <1>3, <1>5 DEF u, p, q

LEMMA ValidBacktest ==
    ASSUME BacktestInit
    PROVE  BacktestIsValid
  <1> DEFINE C == grid.candles
             Cs(n, start) == {cs \in [1..n -> {c \in GridCandle : c.open \in {start, c.close}}] :
                                 /\ cs[1].open = start
                                 /\ \A i \in 1..n : cs[i].close > HalfLevels
                                 /\ \A i \in 2..n : cs[i].open = cs[i].close}
  <1>1. /\ GridPrices \subseteq Nat \ {0} /\ LotSizes \subseteq Nat
        /\ HalfLevels \in Nat \ {0} /\ GridWindows \in Nat /\ WindowCandles \in Nat
        /\ capital_per_level \in Nat /\ GridFee \in Nat /\ GridFeeScale \in Nat
    BY GridAssumption
  <1>2. PICK start \in GridPrices, n \in 1..(GridWindows * WindowCandles) :
        \E m \in 0..(GridWindows * WindowCandles - n) :
           grid \in [about : {"backtest"}, lot : LotSizes,
                     windows : 0..GridWindows, min_window_rate : {<<>>, <<1, 2>>},
                     candles : Cs(n, start),
                     later : [1..m -> {c \in GridCandle : c.close > HalfLevels /\ c.open = c.close}]]
    BY DEF BacktestInit
  <1>3. grid.lot \in Nat /\ C \in Cs(n, start)
    BY <1>1, <1>2
  <1>4. C \in [1..n -> GridCandle] /\ \A i \in 1..n : C[i].close > HalfLevels
    BY <1>3
  <1>5. n \in Nat \ {0}
    <2>1. GridWindows * WindowCandles \in Nat
      BY <1>1
    <2> QED BY <2>1
  <1>6. Len(C) = n
    BY <1>4, <1>5
  <1>7. \A i \in 1..n : C[i] \in [open : Int, high : Int, low : Int, close : Nat]
    <2>1. \A c \in GridCandle : c \in [open : Int, high : Int, low : Int, close : Nat]
      <3> SUFFICES ASSUME NEW c \in GridCandle
                   PROVE  c \in [open : Int, high : Int, low : Int, close : Nat]
        OBVIOUS
      <3>1. /\ c = [open |-> c.open, high |-> c.high, low |-> c.low, close |-> c.close]
            /\ {c.open, c.high, c.low, c.close} \subseteq GridPrices
        BY DEF GridCandle
      <3>2. \A p \in GridPrices : p \in Int /\ p \in Nat
        BY <1>1
      <3> QED BY <3>1, <3>2
    <2> QED BY <1>4, <2>1
  <1>8. C[1].close \in Nat /\ C[1].close > HalfLevels
    BY <1>4, <1>5, <1>7
  <1>9. LevelCount \in Nat /\ IsFiniteSet(Slots) /\ Cardinality(Slots) = LevelCount
    BY <1>1, FS_Interval DEF LevelCount, Slots
  <1>10. DOMAIN Ladder = Slots /\ \A l \in Slots : Ladder[l] \in Nat \ {0}
    BY <1>1, <1>8, <1>9 DEF Ladder, buy_prices, Slots
  <1>11. \A l \in Slots : Coins[l] \in Nat /\ Coins[l] * Ladder[l] <= capital_per_level
    <2>1. ASSUME NEW l \in Slots
          PROVE  /\ _units_for_level(Ladder[l]) \in Nat
                 /\ _units_for_level(Ladder[l]) * Ladder[l] <= capital_per_level
      <3>1. CASE grid.lot = 0
        BY <1>1, <1>10, <3>1 DEF _units_for_level
      <3>2. CASE grid.lot # 0
        BY <1>1, <1>3, <1>10, <3>2, WholeLots DEF _units_for_level
      <3> QED BY <3>1, <3>2
    <2> QED BY <2>1 DEF Coins
  <1>12. C \in [1..n -> [open : Int, high : Int, low : Int, close : Nat]]
    BY <1>4, <1>7
  <1> QED BY <1>1, <1>5, <1>6, <1>9, <1>10, <1>11, <1>12 DEF BacktestIsValid

(* A sum whose terms grow by those of a part.                               *)
Grows(u, v, D, F, w) ==
    /\ u \in [D -> Int] /\ v \in [D -> Int] /\ F \in SUBSET D /\ w \in [F -> Int]
    /\ \A x \in D : u[x] = IF x \in F THEN v[x] + w[x] ELSE v[x]

LEMMA SumGrows ==
    ASSUME NEW D, IsFiniteSet(D), NEW u, NEW v, NEW F, NEW w, Grows(u, v, D, F, w)
    PROVE  Sum(u) = Sum(v) + Sum(w)
  <1> USE DEF Grows
  <1> DEFINE m == [x \in D |-> IF x \in F THEN w[x] ELSE 0]
             k == [x \in D |-> IF x \in F THEN m[x] ELSE 0]
             vk == [x \in D |-> v[x] + k[x]]
  <1>1. m \in [D -> Int] /\ k \in [D -> Int] /\ \A x \in F : w[x] = m[x]
    OBVIOUS
  <1>2. Sum(w) = Sum(k)
    <2> HIDE DEF m
    <2> QED BY <1>1, SumPart
  <1>3. Sum(vk) = Sum(v) + Sum(k)
    <2> HIDE DEF k
    <2> QED BY <1>1, SumPlus
  <1>4. u = vk
    <2>1. \A x \in D : u[x] = vk[x]
      OBVIOUS
    <2>2. u = [x \in D |-> u[x]] /\ vk = [x \in D |-> vk[x]]
      OBVIOUS
    <2> HIDE DEF vk
    <2> QED BY <2>1, <2>2, Zenon
  <1> QED BY <1>2, <1>3, <1>4

(* What is held is worth no more than the capital.                          *)
LEMMA HeldWithinCapital ==
    ASSUME BacktestIsValid, NEW F \in SUBSET Slots, NEW w \in [F -> Int],
           \A l \in F : w[l] <= capital_per_level
    PROVE  Sum(w) <= Capital /\ Sum(w) \in Int
  <1> DEFINE c == [l \in F |-> capital_per_level]
  <1>1. IsFiniteSet(F) /\ Cardinality(F) \in Nat /\ Cardinality(F) <= LevelCount
    BY FS_Subset, FS_CardinalityType DEF BacktestIsValid
  <1>2. capital_per_level \in Nat /\ LevelCount \in Nat
    BY DEF BacktestIsValid
  <1>3. Sum(w) <= Sum(c) /\ Sum(w) \in Int
    <2>1. c \in [F -> Int] /\ \A l \in F : w[l] <= c[l]
      BY <1>2
    <2> HIDE DEF c
    <2> QED BY <1>1, <2>1, SumAtMost, SumIsInteger
  <1>4. Sum(c) = capital_per_level * Cardinality(F)
    <2>1. capital_per_level \in Int /\ c \in [F -> Int] /\ \A l \in F : c[l] = capital_per_level
      BY <1>2
    <2> HIDE DEF c
    <2> QED BY <1>1, <2>1, SumConstant
  <1>5. capital_per_level * Cardinality(F) <= LevelCount * capital_per_level
    <2> DEFINE a == Cardinality(F)  k == capital_per_level  n == LevelCount
    <2>1. a \in Nat /\ k \in Nat /\ n \in Nat /\ a <= n
      BY <1>1, <1>2
    <2> HIDE DEF a, k, n
    <2>2. k * a <= n * k
      BY <2>1
    <2> QED BY <2>2 DEF a, k, n
  <1> HIDE DEF c
  <1>6. capital_per_level * Cardinality(F) \in Int /\ LevelCount * capital_per_level \in Int
    BY <1>1, <1>2
  <1> QED BY <1>3, <1>4, <1>5, <1>6 DEF Capital

(* Coins bought and sold, and what that cost.                               *)
Bought(s, l) == s.cycles[l] + IF s.held[l] THEN 1 ELSE 0

Earned(s) == [l \in Slots |-> Coins[l] * s.cycles[l]]

Traded(s) == [l \in Slots |-> Coins[l] * (Ladder[l] * Bought(s, l) + (Ladder[l] + 1) * s.cycles[l])]

Seen(i, l) == {j \in 1..i : grid.candles[j].high > Ladder[l]}

Dipped(i, l) == {j \in 1..i : grid.candles[j].low <= Ladder[l]}

(* The books after i candles.                                               *)
Accounts(s) ==
    /\ s \in GridState
    /\ s.gross = Sum(Earned(s))
    /\ s.fees = GridFee * Sum(Traded(s))
    /\ s.worst <= Capital

Kept(s, i) ==
    \A l \in Slots :
       /\ s.cycles[l] <= Cardinality(Seen(i, l))
       /\ Bought(s, l) <= Cardinality(Dipped(i, l))
                             + IF Ladder[l] >= grid.candles[1].open THEN 1 ELSE 0

LEMMA AccountTypes ==
    ASSUME BacktestIsValid, NEW s \in GridState
    PROVE  /\ s.buys = Ladder /\ DOMAIN s.buys = Slots
           /\ \A l \in Slots : Bought(s, l) \in Nat /\ s.cycles[l] \in Nat /\ s.held[l] \in BOOLEAN
           /\ Earned(s) \in [Slots -> Int] /\ Traded(s) \in [Slots -> Int]
           /\ \A l \in Slots : Traded(s)[l] >= 0
           /\ s.gross \in Int /\ s.fees \in Int /\ s.worst \in Int
  <1>1. /\ s.buys = Ladder /\ s.held \in [Slots -> BOOLEAN] /\ s.cycles \in [Slots -> Nat]
        /\ s.gross \in Int /\ s.fees \in Int /\ s.worst \in Int
    BY DEF GridState
  <1>2. DOMAIN Ladder = Slots /\ \A l \in Slots : Coins[l] \in Nat /\ Ladder[l] \in Nat
    BY DEF BacktestIsValid
  <1>3. \A l \in Slots : Bought(s, l) \in Nat /\ s.cycles[l] \in Nat /\ s.held[l] \in BOOLEAN
    BY <1>1 DEF Bought
  <1>4. \A l \in Slots : Coins[l] * s.cycles[l] \in Int
    BY <1>2, <1>3
  <1>5. ASSUME NEW l \in Slots
        PROVE  Coins[l] * (Ladder[l] * Bought(s, l) + (Ladder[l] + 1) * s.cycles[l]) \in Nat
    <2> DEFINE u == Coins[l]  p == Ladder[l]  b == Bought(s, l)  c == s.cycles[l]
    <2>1. u \in Nat /\ p \in Nat /\ b \in Nat /\ c \in Nat
      BY <1>2, <1>3
    <2> HIDE DEF u, p, b, c
    <2>2. p * b \in Nat /\ (p + 1) * c \in Nat
      BY <2>1
    <2>3. u * (p * b + (p + 1) * c) \in Nat
      BY <2>1, <2>2
    <2> QED BY <2>3 DEF u, p, b, c
  <1>6. \A l \in Slots : Traded(s)[l] \in Nat /\ Earned(s)[l] \in Int
    BY <1>4, <1>5 DEF Traded, Earned
  <1>7. Earned(s) \in [Slots -> Int]
    BY <1>4 DEF Earned
  <1>8. Traded(s) \in [Slots -> Int]
    <2>1. \A l \in Slots :
             Coins[l] * (Ladder[l] * Bought(s, l) + (Ladder[l] + 1) * s.cycles[l]) \in Int
      BY <1>5
    <2> QED BY <2>1 DEF Traded
  <1> QED BY <1>1, <1>2, <1>3, <1>6, <1>7, <1>8

(* Buying: what fills is held from now on, and its fee is paid.             *)
LEMMA BuysAccounted ==
    ASSUME BacktestIsValid, NEW s, Accounts(s), NEW c, NEW z, z = _process_buy_fills(s, c)
    PROVE  /\ Accounts(z)
           /\ z.cycles = s.cycles
           /\ \A l \in Slots : Bought(z, l) = Bought(s, l)
                                 + IF ~s.held[l] /\ c.low <= Ladder[l] THEN 1 ELSE 0
  <1> DEFINE F == {l \in Slots : ~s.held[l] /\ c.low <= Ladder[l]}
             paid == [l \in F |-> Ladder[l] * Coins[l]]
             held == [l \in Slots |-> s.held[l] \/ l \in F]
  <1>1. s \in GridState /\ s.buys = Ladder /\ DOMAIN s.held = Slots
        /\ s.held \in [Slots -> BOOLEAN]
    BY AccountTypes DEF Accounts, GridState
  <1>2. DOMAIN Ladder = Slots /\ IsFiniteSet(Slots)
        /\ \A l \in Slots : Coins[l] \in Nat /\ Ladder[l] \in Nat
    BY DEF BacktestIsValid
  <1>3. /\ z = [s EXCEPT !.held = held, !.fees = s.fees + GridFee * Sum(paid)]
    <2>1. \A l \in F : Ladder[l] * _units_for_level(Ladder[l]) = Ladder[l] * Coins[l]
      BY DEF Coins
    <2>2. [l \in F |-> Ladder[l] * _units_for_level(Ladder[l])] = paid
      <3> HIDE DEF F
      <3> QED BY <2>1
    <2>3. F = {l \in DOMAIN s.buys : ~s.held[l] /\ c.low <= s.buys[l]}
      BY <1>1, <1>2
    <2> HIDE DEF F, paid
    <2> QED BY <1>1, <2>2, <2>3 DEF _process_buy_fills
  <1>4. F \in SUBSET Slots /\ paid \in [F -> Int]
    <2>1. \A l \in F : Ladder[l] * Coins[l] \in Int
      BY <1>2
    <2> HIDE DEF F
    <2>2. paid \in [F -> Int]
      BY <2>1
    <2> QED BY <2>2 DEF F
  <1>5. Sum(paid) \in Int
    <2> HIDE DEF F, paid
    <2> QED BY <1>2, <1>4, FS_Subset, SumIsInteger
  <1>6. held \in [Slots -> BOOLEAN]
    BY <1>1
  <1>7. /\ z.held = held /\ z.cycles = s.cycles /\ z.gross = s.gross /\ z.worst = s.worst
        /\ z.buys = s.buys /\ z.fees = s.fees + GridFee * Sum(paid)
    <2> HIDE DEF held, paid
    <2> QED BY <1>1, <1>3 DEF GridState
  <1>8. z \in GridState
    <2>1. s.fees + GridFee * Sum(paid) \in Int
      BY <1>1, <1>5, AccountTypes DEF BacktestIsValid
    <2> HIDE DEF held, paid
    <2> QED BY <1>1, <1>3, <1>6, <2>1 DEF GridState
  <1>9. \A l \in Slots : Bought(z, l) = Bought(s, l) + IF l \in F THEN 1 ELSE 0
    <2> SUFFICES ASSUME NEW l \in Slots
                 PROVE  Bought(z, l) = Bought(s, l) + IF l \in F THEN 1 ELSE 0
      OBVIOUS
    <2>1. /\ z.held[l] <=> s.held[l] \/ l \in F
          /\ l \in F => ~s.held[l]
          /\ z.cycles[l] = s.cycles[l]
      BY <1>7
    <2>2. s.cycles[l] \in Nat /\ s.held[l] \in BOOLEAN
      BY <1>1, AccountTypes
    <2> HIDE DEF F, held
    <2>3. CASE s.held[l]
      BY <2>1, <2>2, <2>3 DEF Bought
    <2>4. CASE ~s.held[l] /\ l \in F
      BY <2>1, <2>2, <2>4 DEF Bought
    <2>5. CASE ~s.held[l] /\ l \notin F
      BY <2>1, <2>2, <2>5 DEF Bought
    <2> QED BY <2>3, <2>4, <2>5
  <1>10. Sum(Traded(z)) = Sum(Traded(s)) + Sum(paid)
    <2>1. \A l \in Slots : Traded(z)[l] = IF l \in F THEN Traded(s)[l] + paid[l] ELSE Traded(s)[l]
      <3> SUFFICES ASSUME NEW l \in Slots
                   PROVE  Traded(z)[l] = IF l \in F THEN Traded(s)[l] + paid[l] ELSE Traded(s)[l]
        OBVIOUS
      <3> DEFINE u == Coins[l]  p == Ladder[l]  b == Bought(s, l)  k == s.cycles[l]
                 y == Bought(z, l)
      <3>1. u \in Nat /\ p \in Nat /\ b \in Nat /\ k \in Nat
        BY <1>1, <1>2, AccountTypes
      <3>2. /\ Traded(s)[l] = u * (p * b + (p + 1) * k)
            /\ Traded(z)[l] = u * (p * y + (p + 1) * k)
        BY <1>7 DEF Traded
      <3>3. y = b + IF l \in F THEN 1 ELSE 0
        BY <1>9
      <3>4. l \in F => paid[l] = p * u
        OBVIOUS
      <3> HIDE DEF u, p, b, k, y, paid, F
      <3>5. u * (p * (b + 1) + (p + 1) * k) = u * (p * b + (p + 1) * k) + p * u
        BY <3>1
      <3>6. CASE l \in F
        BY <3>2, <3>3, <3>4, <3>5, <3>6
      <3>7. CASE l \notin F
        <4>1. y = b
          BY <3>1, <3>3, <3>7
        <4> QED BY <3>2, <3>7, <4>1
      <3> QED BY <3>6, <3>7
    <2>2. Traded(z) \in [Slots -> Int] /\ Traded(s) \in [Slots -> Int]
      BY <1>1, <1>8, AccountTypes
    <2> HIDE DEF F, paid
    <2>3. Grows(Traded(z), Traded(s), Slots, F, paid)
      BY <1>4, <2>1, <2>2 DEF Grows
    <2> QED BY <1>2, <2>3, SumGrows
  <1>11. z.fees = GridFee * Sum(Traded(z))
    <2> DEFINE a == Sum(Traded(s))  b == Sum(paid)
    <2>1. a \in Int /\ b \in Int /\ GridFee \in Int
      <3> HIDE DEF paid
      <3> QED BY <1>1, <1>2, <1>5, AccountTypes, SumIsInteger DEF BacktestIsValid
    <2>2. z.fees = GridFee * a + GridFee * b /\ Sum(Traded(z)) = a + b
      BY <1>7, <1>10 DEF Accounts
    <2> HIDE DEF a, b
    <2> QED BY <2>1, <2>2
  <1>12. Earned(z) = Earned(s)
    BY <1>7 DEF Earned
  <1> HIDE DEF held, paid
  <1>13. Accounts(z)
    BY <1>7, <1>8, <1>11, <1>12 DEF Accounts
  <1> QED BY <1>7, <1>9, <1>13

(* Selling: what fills is held no longer, and a cycle is earned.            *)
LEMMA SalesAccounted ==
    ASSUME BacktestIsValid, NEW s, Accounts(s), NEW c, NEW z, z = _process_sell_fills(s, c)
    PROVE  /\ Accounts(z)
           /\ \A l \in Slots :
                 /\ z.cycles[l] =
                       s.cycles[l] + IF s.held[l] /\ c.high >= Ladder[l] + 1 THEN 1 ELSE 0
                 /\ Bought(z, l) = Bought(s, l)
  <1> DEFINE F == {l \in Slots : s.held[l] /\ c.high >= Ladder[l] + 1}
             made == [l \in F |-> Coins[l]]
             paid == [l \in F |-> (Ladder[l] + 1) * Coins[l]]
             held == [l \in Slots |-> s.held[l] /\ l \notin F]
             cycles == [l \in Slots |-> s.cycles[l] + IF l \in F THEN 1 ELSE 0]
  <1>1. s \in GridState /\ s.buys = Ladder /\ DOMAIN s.held = Slots /\ DOMAIN s.cycles = Slots
        /\ s.held \in [Slots -> BOOLEAN] /\ s.cycles \in [Slots -> Nat]
    BY AccountTypes DEF Accounts, GridState
  <1>2. DOMAIN Ladder = Slots /\ IsFiniteSet(Slots)
        /\ \A l \in Slots : Coins[l] \in Nat /\ Ladder[l] \in Nat
    BY DEF BacktestIsValid
  <1>3. z = [s EXCEPT !.held = held, !.cycles = cycles, !.gross = s.gross + Sum(made),
                      !.fees = s.fees + GridFee * Sum(paid)]
    <2>1. \A l \in F : /\ _units_for_level(Ladder[l]) = Coins[l]
                       /\ sell_price(Ladder[l]) = Ladder[l] + 1
      BY DEF Coins, sell_price
    <2>2. /\ [l \in F |-> _units_for_level(Ladder[l])] = made
          /\ [l \in F |-> sell_price(Ladder[l]) * _units_for_level(Ladder[l])] = paid
      <3> HIDE DEF F
      <3> QED BY <2>1
    <2>3. F = {l \in DOMAIN s.buys : s.held[l] /\ c.high >= sell_price(s.buys[l])}
      BY <1>1, <1>2 DEF sell_price
    <2> HIDE DEF F, made, paid
    <2> QED BY <1>1, <2>2, <2>3 DEF _process_sell_fills
  <1>4. F \in SUBSET Slots /\ paid \in [F -> Int] /\ made \in [F -> Int]
    <2>1. \A l \in F : (Ladder[l] + 1) * Coins[l] \in Int /\ Coins[l] \in Int
      BY <1>2
    <2> HIDE DEF F
    <2>2. paid \in [F -> Int] /\ made \in [F -> Int]
      BY <2>1
    <2> QED BY <2>2 DEF F
  <1>5. Sum(paid) \in Int /\ Sum(made) \in Int
    <2> HIDE DEF F, paid, made
    <2> QED BY <1>2, <1>4, FS_Subset, SumIsInteger
  <1>6. held \in [Slots -> BOOLEAN] /\ cycles \in [Slots -> Nat]
    BY <1>1
  <1>7. /\ z.held = held /\ z.cycles = cycles /\ z.gross = s.gross + Sum(made)
        /\ z.worst = s.worst /\ z.buys = s.buys /\ z.fees = s.fees + GridFee * Sum(paid)
    <2> HIDE DEF held, cycles, paid, made
    <2> QED BY <1>1, <1>3 DEF GridState
  <1>8. z \in GridState
    <2>1. s.fees + GridFee * Sum(paid) \in Int /\ s.gross + Sum(made) \in Int
      BY <1>1, <1>5, AccountTypes DEF BacktestIsValid
    <2> HIDE DEF held, cycles, paid, made
    <2> QED BY <1>1, <1>3, <1>6, <2>1 DEF GridState
  <1>9. \A l \in Slots : /\ z.cycles[l] = s.cycles[l] + IF l \in F THEN 1 ELSE 0
                         /\ Bought(z, l) = Bought(s, l)
    <2> SUFFICES ASSUME NEW l \in Slots
                 PROVE  /\ z.cycles[l] = s.cycles[l] + IF l \in F THEN 1 ELSE 0
                        /\ Bought(z, l) = Bought(s, l)
      OBVIOUS
    <2>1. /\ z.held[l] <=> s.held[l] /\ l \notin F
          /\ l \in F => s.held[l]
          /\ z.cycles[l] = s.cycles[l] + IF l \in F THEN 1 ELSE 0
      BY <1>7
    <2>2. s.cycles[l] \in Nat /\ s.held[l] \in BOOLEAN
      BY <1>1, AccountTypes
    <2> HIDE DEF F, held, cycles
    <2>3. CASE l \in F
      BY <2>1, <2>2, <2>3 DEF Bought
    <2>4. CASE l \notin F
      BY <2>1, <2>2, <2>4 DEF Bought
    <2> QED BY <2>3, <2>4
  <1>10. Sum(Traded(z)) = Sum(Traded(s)) + Sum(paid)
    <2>1. \A l \in Slots : Traded(z)[l] = IF l \in F THEN Traded(s)[l] + paid[l] ELSE Traded(s)[l]
      <3> SUFFICES ASSUME NEW l \in Slots
                   PROVE  Traded(z)[l] = IF l \in F THEN Traded(s)[l] + paid[l] ELSE Traded(s)[l]
        OBVIOUS
      <3> DEFINE u == Coins[l]  p == Ladder[l]  b == Bought(s, l)  k == s.cycles[l]
                 m == z.cycles[l]
      <3>1. u \in Nat /\ p \in Nat /\ b \in Nat /\ k \in Nat
        BY <1>1, <1>2, AccountTypes
      <3>2. /\ Traded(s)[l] = u * (p * b + (p + 1) * k)
            /\ Traded(z)[l] = u * (p * b + (p + 1) * m)
        BY <1>9 DEF Traded
      <3>3. m = k + IF l \in F THEN 1 ELSE 0
        BY <1>9
      <3>4. l \in F => paid[l] = (p + 1) * u
        OBVIOUS
      <3> HIDE DEF u, p, b, k, m, paid, F
      <3>5. u * (p * b + (p + 1) * (k + 1)) = u * (p * b + (p + 1) * k) + (p + 1) * u
        BY <3>1
      <3>6. CASE l \in F
        BY <3>2, <3>3, <3>4, <3>5, <3>6
      <3>7. CASE l \notin F
        <4>1. m = k
          BY <3>1, <3>3, <3>7
        <4> QED BY <3>2, <3>7, <4>1
      <3> QED BY <3>6, <3>7
    <2>2. Traded(z) \in [Slots -> Int] /\ Traded(s) \in [Slots -> Int]
      BY <1>1, <1>8, AccountTypes
    <2> HIDE DEF F, paid
    <2>3. Grows(Traded(z), Traded(s), Slots, F, paid)
      BY <1>4, <2>1, <2>2 DEF Grows
    <2> QED BY <1>2, <2>3, SumGrows
  <1>11. z.fees = GridFee * Sum(Traded(z))
    <2> DEFINE a == Sum(Traded(s))  b == Sum(paid)
    <2>1. a \in Int /\ b \in Int /\ GridFee \in Int
      <3> HIDE DEF paid
      <3> QED BY <1>1, <1>2, <1>5, AccountTypes, SumIsInteger DEF BacktestIsValid
    <2>2. z.fees = GridFee * a + GridFee * b /\ Sum(Traded(z)) = a + b
      BY <1>7, <1>10 DEF Accounts
    <2> HIDE DEF a, b
    <2> QED BY <2>1, <2>2
  <1>12. Sum(Earned(z)) = Sum(Earned(s)) + Sum(made)
    <2>1. \A l \in Slots : Earned(z)[l] = IF l \in F THEN Earned(s)[l] + made[l] ELSE Earned(s)[l]
      <3> SUFFICES ASSUME NEW l \in Slots
                   PROVE  Earned(z)[l] = IF l \in F THEN Earned(s)[l] + made[l] ELSE Earned(s)[l]
        OBVIOUS
      <3> DEFINE u == Coins[l]  k == s.cycles[l]  m == z.cycles[l]
      <3>1. u \in Nat /\ k \in Nat
        BY <1>1, <1>2, AccountTypes
      <3>2. Earned(s)[l] = u * k /\ Earned(z)[l] = u * m
        BY DEF Earned
      <3>3. m = k + IF l \in F THEN 1 ELSE 0
        BY <1>9
      <3>4. l \in F => made[l] = u
        OBVIOUS
      <3> HIDE DEF u, k, m, made, F
      <3>5. u * (k + 1) = u * k + u
        BY <3>1
      <3>6. CASE l \in F
        BY <3>2, <3>3, <3>4, <3>5, <3>6
      <3>7. CASE l \notin F
        <4>1. m = k
          BY <3>1, <3>3, <3>7
        <4> QED BY <3>2, <3>7, <4>1
      <3> QED BY <3>6, <3>7
    <2>2. Earned(z) \in [Slots -> Int] /\ Earned(s) \in [Slots -> Int]
      BY <1>1, <1>8, AccountTypes
    <2> HIDE DEF F, made
    <2>3. Grows(Earned(z), Earned(s), Slots, F, made)
      BY <1>4, <2>1, <2>2 DEF Grows
    <2> QED BY <1>2, <2>3, SumGrows
  <1>13. z.gross = Sum(Earned(z))
    BY <1>7, <1>12 DEF Accounts
  <1>14. Accounts(z)
    <2> HIDE DEF held, cycles, made, paid
    <2> QED BY <1>7, <1>8, <1>11, <1>13 DEF Accounts
  <1> QED BY <1>9, <1>14

(* The snapshot at the close: the loss on what is held is within the        *)
(* capital.                                                                 *)
LEMMA SnapshotAccounted ==
    ASSUME BacktestIsValid, NEW s, Accounts(s), NEW c, c.close \in Nat,
           NEW z, z = _record_snapshot(s, c)
    PROVE  Accounts(z) /\ z.cycles = s.cycles /\ z.held = s.held
  <1> DEFINE F == {l \in Slots : s.held[l]}
             lost == [l \in F |-> (Ladder[l] - c.close) * Coins[l]]
             worst == Max({s.worst, Sum(lost)})
  <1>1. s \in GridState /\ s.buys = Ladder /\ s.worst \in Int
    BY AccountTypes DEF Accounts
  <1>2. DOMAIN Ladder = Slots /\ IsFiniteSet(Slots)
        /\ \A l \in Slots : /\ Coins[l] \in Nat /\ Ladder[l] \in Nat
                            /\ Coins[l] * Ladder[l] <= capital_per_level
    BY DEF BacktestIsValid
  <1>3. z = [s EXCEPT !.worst = worst]
    <2>1. \A l \in F : _units_for_level(Ladder[l]) = Coins[l]
      BY DEF Coins
    <2>2. [l \in F |-> (Ladder[l] - c.close) * _units_for_level(Ladder[l])] = lost
      <3> HIDE DEF F
      <3> QED BY <2>1
    <2>3. F = {l \in DOMAIN s.buys : s.held[l]}
      BY <1>1, <1>2
    <2> HIDE DEF F, lost
    <2> QED BY <1>1, <2>2, <2>3 DEF _record_snapshot
  <1>4. F \in SUBSET Slots
    OBVIOUS
  <1>5. \A l \in F : (Ladder[l] - c.close) * Coins[l] \in Int
                     /\ (Ladder[l] - c.close) * Coins[l] <= capital_per_level
    <2> SUFFICES ASSUME NEW l \in F
                 PROVE  (Ladder[l] - c.close) * Coins[l] \in Int
                        /\ (Ladder[l] - c.close) * Coins[l] <= capital_per_level
      OBVIOUS
    <2> DEFINE u == Coins[l]  p == Ladder[l]  k == c.close
    <2>1. u \in Nat /\ p \in Nat /\ k \in Nat /\ u * p <= capital_per_level
          /\ capital_per_level \in Nat
      BY <1>2 DEF BacktestIsValid
    <2> HIDE DEF u, p, k
    <2>2. (p - k) * u = u * p - k * u /\ k * u \in Nat /\ u * p \in Nat
      BY <2>1
    <2>3. (p - k) * u \in Int /\ (p - k) * u <= capital_per_level
      BY <2>1, <2>2
    <2> QED BY <2>3 DEF u, p, k
  <1>6. Sum(lost) <= Capital /\ Sum(lost) \in Int
    <2>1. lost \in [F -> Int] /\ \A l \in F : lost[l] <= capital_per_level
      <3> HIDE DEF F
      <3> QED BY <1>5
    <2> HIDE DEF F, lost
    <2> QED BY <1>4, <2>1, HeldWithinCapital
  <1>7. worst \in Int /\ worst <= Capital
    <2> HIDE DEF lost
    <2>1. worst \in {s.worst, Sum(lost)}
      BY <1>1, <1>6, LargerOfTwo
    <2> HIDE DEF worst
    <2> QED BY <1>1, <1>6, <2>1 DEF Accounts
  <1> HIDE DEF worst
  <1>8. /\ z.held = s.held /\ z.cycles = s.cycles /\ z.gross = s.gross
        /\ z.worst = worst /\ z.buys = s.buys /\ z.fees = s.fees
    BY <1>1, <1>3 DEF GridState
  <1>9. z \in GridState
    BY <1>1, <1>3, <1>7 DEF GridState
  <1>10. Earned(z) = Earned(s) /\ Traded(z) = Traded(s)
    BY <1>8 DEF Earned, Traded, Bought
  <1> QED BY <1>7, <1>8, <1>9, <1>10 DEF Accounts

CandleStep(s, c) == _record_snapshot(_process_sell_fills(_process_buy_fills(s, c), c), c)

LEMMA OneMore ==
    ASSUME NEW i \in Nat, NEW A, A \subseteq 1..i, NEW B, NEW q \in BOOLEAN,
           B = A \cup (IF q THEN {i + 1} ELSE {})
    PROVE  Cardinality(B) = Cardinality(A) + (IF q THEN 1 ELSE 0) /\ Cardinality(A) \in Nat
  <1>1. IsFiniteSet(A) /\ Cardinality(A) \in Nat /\ i + 1 \notin A
    <2>1. IsFiniteSet(1..i) /\ i + 1 \notin 1..i
      BY FS_Interval
    <2> QED BY <2>1, FS_Subset, FS_CardinalityType
  <1>2. CASE q
    BY <1>1, <1>2, FS_AddElement
  <1>3. CASE ~q
    BY <1>1, <1>3
  <1> QED BY <1>2, <1>3

LEMMA CandleAccounted ==
    ASSUME BacktestIsValid, NEW i \in 0..(Len(grid.candles) - 1),
           NEW s, Accounts(s), NEW z, z = CandleStep(s, grid.candles[i + 1])
    PROVE  Accounts(z) /\ (Kept(s, i) => Kept(z, i + 1))
  <1> DEFINE c == grid.candles[i + 1]
             x == _process_buy_fills(s, c)
             y == _process_sell_fills(x, c)
  <1>1. i \in Nat /\ i + 1 \in 1..Len(grid.candles)
    BY DEF BacktestIsValid
  <1>2. c.close \in Nat /\ c.low \in Int /\ c.high \in Int
    BY <1>1 DEF BacktestIsValid
  <1> HIDE DEF c
  <1>3. /\ Accounts(x)
        /\ x.cycles = s.cycles
        /\ \A l \in Slots : Bought(x, l) = Bought(s, l)
                              + IF ~s.held[l] /\ c.low <= Ladder[l] THEN 1 ELSE 0
    BY BuysAccounted
  <1> HIDE DEF x
  <1>4. /\ Accounts(y)
        /\ \A l \in Slots :
              /\ y.cycles[l] = x.cycles[l] + IF x.held[l] /\ c.high >= Ladder[l] + 1 THEN 1 ELSE 0
              /\ Bought(y, l) = Bought(x, l)
    BY <1>3, SalesAccounted
  <1> HIDE DEF y
  <1>5. z = _record_snapshot(y, c)
    BY DEF CandleStep, x, y, c
  <1>6. Accounts(z) /\ z.cycles = y.cycles /\ z.held = y.held
    BY <1>2, <1>4, <1>5, SnapshotAccounted
  <1>7. ASSUME Kept(s, i), NEW l \in Slots
        PROVE  /\ z.cycles[l] <= Cardinality(Seen(i + 1, l))
               /\ Bought(z, l) <= Cardinality(Dipped(i + 1, l))
                             + IF Ladder[l] >= grid.candles[1].open THEN 1 ELSE 0
    <2>1. Ladder[l] \in Int
      BY DEF BacktestIsValid
    <2>2. Seen(i + 1, l) = Seen(i, l) \cup (IF c.high > Ladder[l] THEN {i + 1} ELSE {})
      BY <1>1 DEF Seen, c
    <2>3. Dipped(i + 1, l) = Dipped(i, l) \cup (IF c.low <= Ladder[l] THEN {i + 1} ELSE {})
      BY <1>1 DEF Dipped, c
    <2>4. /\ Cardinality(Seen(i + 1, l))
                = Cardinality(Seen(i, l)) + IF c.high > Ladder[l] THEN 1 ELSE 0
          /\ Cardinality(Seen(i, l)) \in Nat
      <3> DEFINE q == c.high > Ladder[l]
                 A == Seen(i, l)
                 B == Seen(i + 1, l)
      <3>1. A \subseteq 1..i /\ q \in BOOLEAN
        BY DEF Seen
      <3>2. B = A \cup (IF q THEN {i + 1} ELSE {})
        BY <2>2
      <3> HIDE DEF q, A, B
      <3>3. Cardinality(B) = Cardinality(A) + (IF q THEN 1 ELSE 0) /\ Cardinality(A) \in Nat
        BY <1>1, <3>1, <3>2, OneMore
      <3> QED BY <3>3 DEF q, A, B
    <2>5. /\ Cardinality(Dipped(i + 1, l))
                = Cardinality(Dipped(i, l)) + IF c.low <= Ladder[l] THEN 1 ELSE 0
          /\ Cardinality(Dipped(i, l)) \in Nat
      <3> DEFINE q == c.low <= Ladder[l]
                 A == Dipped(i, l)
                 B == Dipped(i + 1, l)
      <3>1. A \subseteq 1..i /\ q \in BOOLEAN
        BY DEF Dipped
      <3>2. B = A \cup (IF q THEN {i + 1} ELSE {})
        BY <2>3
      <3> HIDE DEF q, A, B
      <3>3. Cardinality(B) = Cardinality(A) + (IF q THEN 1 ELSE 0) /\ Cardinality(A) \in Nat
        BY <1>1, <3>1, <3>2, OneMore
      <3> QED BY <3>3 DEF q, A, B
    <2> DEFINE seen == Cardinality(Seen(i, l))
               dipped == Cardinality(Dipped(i, l))
               first == IF Ladder[l] >= grid.candles[1].open THEN 1 ELSE 0
               k == s.cycles[l]
               b == Bought(s, l)
    <2>6. k \in Nat /\ b \in Nat /\ seen \in Nat /\ dipped \in Nat /\ first \in Nat
          /\ k <= seen /\ b <= dipped + first
      BY <1>7, <2>4, <2>5, AccountTypes DEF Kept, Accounts
    <2>7. z.cycles[l] = k + IF x.held[l] /\ c.high >= Ladder[l] + 1 THEN 1 ELSE 0
      BY <1>3, <1>4, <1>6
    <2>8. Bought(z, l) = b + IF ~s.held[l] /\ c.low <= Ladder[l] THEN 1 ELSE 0
      BY <1>3, <1>4, <1>6 DEF Bought
    <2> HIDE DEF seen, dipped, first, k, b
    <2>9. z.cycles[l] <= seen + IF c.high > Ladder[l] THEN 1 ELSE 0
      BY <1>2, <2>1, <2>6, <2>7
    <2>10. Bought(z, l) <= (dipped + IF c.low <= Ladder[l] THEN 1 ELSE 0) + first
      BY <1>2, <2>1, <2>6, <2>8
    <2> QED BY <2>4, <2>5, <2>9, <2>10 DEF seen, dipped, first
  <1> QED BY <1>6, <1>7 DEF Kept

(* The grid at the start.                                                   *)
Start == _initialize_state(grid.candles[1].close, grid.candles[1].open)

LEMMA StartAccounted ==
    ASSUME BacktestIsValid
    PROVE  Accounts(Start) /\ Kept(Start, 0)
  <1> DEFINE open == grid.candles[1].open
             held == [l \in Slots |-> Ladder[l] >= open]
             none == [l \in Slots |-> 0]
             paid == [l \in Slots |-> IF held[l] THEN Ladder[l] * Coins[l] ELSE 0]
  <1>1. /\ DOMAIN Ladder = Slots /\ IsFiniteSet(Slots)
        /\ \A l \in Slots : Coins[l] \in Nat /\ Ladder[l] \in Nat
        /\ capital_per_level \in Nat /\ LevelCount \in Nat /\ GridFee \in Nat
    BY DEF BacktestIsValid
  <1>2. Start = [buys |-> Ladder, held |-> held, cycles |-> none, gross |-> 0, worst |-> 0,
                 fees |-> GridFee * Sum(paid)]
    <2>1. /\ [l \in DOMAIN Ladder |-> Ladder[l] >= open] = held
          /\ [l \in DOMAIN Ladder |-> 0] = none
      BY <1>1
    <2>2. [l \in DOMAIN Ladder |-> IF held[l] THEN Ladder[l] * _units_for_level(Ladder[l]) ELSE 0]
             = paid
      <3>1. \A l \in Slots : _units_for_level(Ladder[l]) = Coins[l]
        BY DEF Coins
      <3> HIDE DEF held
      <3> QED BY <1>1, <3>1
    <2> HIDE DEF held, none, paid
    <2> QED BY <2>1, <2>2 DEF Start, _initialize_state, Ladder
  <1>3. /\ Start.buys = Ladder /\ Start.held = held /\ Start.cycles = none /\ Start.gross = 0
        /\ Start.worst = 0 /\ Start.fees = GridFee * Sum(paid)
    <2> HIDE DEF held, none, paid
    <2> QED BY <1>2
  <1>4. held \in [Slots -> BOOLEAN] /\ none \in [Slots -> Nat] /\ paid \in [Slots -> Int]
    <2>1. \A l \in Slots : Ladder[l] * Coins[l] \in Int
      BY <1>1
    <2> QED BY <2>1
  <1>5. Start \in GridState
    <2>1. GridFee * Sum(paid) \in Int
      <3> HIDE DEF paid
      <3>1. Sum(paid) \in Int
        BY <1>1, <1>4, SumIsInteger
      <3> QED BY <1>1, <3>1
    <2> HIDE DEF held, none, paid
    <2> QED BY <1>2, <1>4, <2>1 DEF GridState
  <1>6. \A l \in Slots : Bought(Start, l) = IF Ladder[l] >= open THEN 1 ELSE 0
    <2> SUFFICES ASSUME NEW l \in Slots
                 PROVE  Bought(Start, l) = IF Ladder[l] >= open THEN 1 ELSE 0
      OBVIOUS
    <2>1. (Start.held[l] <=> Ladder[l] >= open) /\ Start.cycles[l] = 0
      BY <1>3
    <2> HIDE DEF open
    <2>2. CASE Ladder[l] >= open
      BY <2>1, <2>2 DEF Bought
    <2>3. CASE ~(Ladder[l] >= open)
      BY <2>1, <2>3 DEF Bought
    <2> QED BY <2>2, <2>3
  <1>7. Traded(Start) = paid
    <2>1. ASSUME NEW l \in Slots
          PROVE  Coins[l] * (Ladder[l] * Bought(Start, l) + (Ladder[l] + 1) * Start.cycles[l])
                    = IF held[l] THEN Ladder[l] * Coins[l] ELSE 0
      <3> DEFINE u == Coins[l]  p == Ladder[l]  b == Bought(Start, l)
      <3>1. u \in Nat /\ p \in Nat /\ Start.cycles[l] = 0
        BY <1>1, <1>3
      <3>2. held[l] <=> p >= open
        OBVIOUS
      <3>3. b = IF p >= open THEN 1 ELSE 0
        BY <1>6
      <3> HIDE DEF u, p, b, held
      <3>4. u * (p * 1 + (p + 1) * 0) = p * u /\ u * (p * 0 + (p + 1) * 0) = 0
        BY <3>1
      <3>5. u * (p * b + (p + 1) * 0) = IF held[l] THEN p * u ELSE 0
        BY <3>2, <3>3, <3>4
      <3> QED BY <3>1, <3>5 DEF u, p, b
    <2> HIDE DEF held
    <2> QED BY <2>1 DEF Traded
  <1>8. Sum(Earned(Start)) = 0
    <2>1. Earned(Start) \in [Slots -> Int]
      BY <1>5, AccountTypes
    <2>2. \A l \in Slots : Earned(Start)[l] = 0
      BY <1>1, <1>3 DEF Earned
    <2>3. Cardinality(Slots) \in Nat
      BY <1>1, FS_CardinalityType
    <2>4. Sum(Earned(Start)) = 0 * Cardinality(Slots)
      BY <1>1, <2>1, <2>2, SumConstant
    <2> QED BY <2>3, <2>4
  <1>9. 0 <= Capital
    <2>1. LevelCount * capital_per_level \in Nat
      BY <1>1
    <2> QED BY <2>1 DEF Capital
  <1>10. Kept(Start, 0)
    <2> SUFFICES ASSUME NEW l \in Slots
                 PROVE  /\ Start.cycles[l] <= Cardinality(Seen(0, l))
                        /\ Bought(Start, l) <= Cardinality(Dipped(0, l))
                               + IF Ladder[l] >= grid.candles[1].open THEN 1 ELSE 0
      BY DEF Kept
    <2>1. Cardinality(Seen(0, l)) = 0 /\ Cardinality(Dipped(0, l)) = 0
      <3>1. Seen(0, l) = {} /\ Dipped(0, l) = {}
        BY DEF Seen, Dipped
      <3> QED BY <3>1, FS_EmptySet
    <2>2. Start.cycles[l] = 0
      BY <1>3
    <2> QED BY <1>6, <2>1, <2>2
  <1> HIDE DEF paid
  <1> QED BY <1>3, <1>5, <1>7, <1>8, <1>9, <1>10 DEF Accounts

(* The result of a backtest is the books after its last candle.             *)
LEMMA BacktestAccounted ==
    ASSUME BacktestIsValid
    PROVE  LET s == run_grid_backtest(grid.candles)
           IN  Accounts(s) /\ Kept(s, Len(grid.candles))
  <1> DEFINE C == grid.candles
             n == Len(C)
             V == {s \in GridState : Accounts(s)}
             act == [a \in (1..n) \X V |-> CandleStep(a[2], C[a[1]])]
             Def(it) == it = [t \in SUBSET DOMAIN C |->
                                IF t = {} THEN Start
                                ELSE LET x == Max(t) IN CandleStep(it[t \ {x}], C[x])]
             iter == CHOOSE it : Def(it)
  <1>1. n \in Nat \ {0} /\ DOMAIN C = 1..n
    BY DEF BacktestIsValid
  <1>2. Start \in V
    BY StartAccounted DEF Accounts
  <1>3. ASSUME NEW k \in 1..n, NEW s \in V
        PROVE  /\ CandleStep(s, C[k]) \in V
               /\ Kept(s, k - 1) => Kept(CandleStep(s, C[k]), k)
    <2>1. k - 1 \in 0..(n - 1) /\ (k - 1) + 1 = k
      BY <1>1
    <2>2. Accounts(CandleStep(s, C[k]))
          /\ (Kept(s, k - 1) => Kept(CandleStep(s, C[k]), (k - 1) + 1))
      BY <2>1, CandleAccounted
    <2> QED BY <2>1, <2>2 DEF Accounts
  <1> HIDE DEF n, V
  <1>4. act \in [(1..n) \X V -> V]
    <2>1. \A a \in (1..n) \X V : CandleStep(a[2], C[a[1]]) \in V
      BY <1>3
    <2> QED BY <2>1
  <1>5. PICK it : FoldsTo(it, n, V, Start, act)
    <2>1. n \in Nat
      BY <1>1
    <2> HIDE DEF act
    <2> QED BY <1>2, <1>4, <2>1, FoldExists
  <1>6. \A t \in SUBSET (1..n) : t # {} => Max(t) \in 1..n /\ t \ {Max(t)} \in SUBSET (1..n)
    BY <1>1, LastNumber
  <1>7. \A k \in 1..n : \A s \in V : act[<<k, s>>] = CandleStep(s, C[k])
    OBVIOUS
  <1>8. Def(it)
    <2>1. \A t \in SUBSET (1..n) : t # {} => it[t] = CandleStep(it[t \ {Max(t)}], C[Max(t)])
      <3> HIDE DEF act
      <3> QED BY <1>5, <1>6, <1>7 DEF FoldsTo
    <2>2. it = [t \in SUBSET (1..n) |-> it[t]]
      BY <1>5 DEF FoldsTo
    <2>3. it[{}] = Start
      BY <1>5 DEF FoldsTo
    <2> HIDE DEF act
    <2> QED BY <1>1, <2>1, <2>2, <2>3, Zenon
  <1>9. Def(iter)
    <2> HIDE DEF Def
    <2> QED BY <1>8
  <1>10. run_grid_backtest(C) = iter[DOMAIN C]
    BY DEF run_grid_backtest, FoldLeft, MapThenFoldSet, CandleStep, Start
  <1>11. Unfolds(iter, n, V, Start, act)
    <2>1. iter[{}] = Start
      <3> HIDE DEF iter
      <3> QED BY <1>9
    <2>2. \A t \in SUBSET (1..n) :
             t # {} => iter[t] = CandleStep(iter[t \ {Max(t)}], C[Max(t)])
      <3> HIDE DEF iter
      <3> QED BY <1>1, <1>9
    <2> HIDE DEF iter, act
    <2> QED BY <1>6, <1>7, <2>1, <2>2 DEF Unfolds
  <1>12. PICK h : Steps(h, n, V, Start, act) /\ h[n] = iter[1..n]
    <2>1. n \in Nat
      BY <1>1
    <2> HIDE DEF iter, act
    <2>2. Reaches(iter, n, V, Start, act)
      BY <1>2, <1>4, <1>11, <2>1, FoldSteps
    <2> QED BY <2>2 DEF Reaches
  <1> HIDE DEF iter, act
  <1>13. \A k \in 0..n : h[k] \in V /\ Kept(h[k], k)
    <2> DEFINE Bad == {k \in 0..n : ~Kept(h[k], k)}
    <2>1. \A k \in 0..n : h[k] \in V
      BY <1>12 DEF Steps
    <2>2. Bad = {}
      <3> SUFFICES ASSUME Bad # {} PROVE FALSE
        OBVIOUS
      <3>1. Bad \subseteq Nat
        BY <1>1
      <3>2. PICK k \in Bad : \A j \in Bad : k <= j
        BY <3>1, LeastNumber
      <3>3. k # 0
        BY <1>12, <3>2, StartAccounted DEF Steps
      <3>4. k \in 1..n /\ k - 1 \in 0..n /\ ~(k <= k - 1)
        BY <1>1, <3>2, <3>3
      <3>5. Kept(h[k - 1], k - 1)
        BY <3>2, <3>4
      <3>6. h[k] = CandleStep(h[k - 1], C[k])
        BY <1>7, <1>12, <2>1, <3>4 DEF Steps
      <3> QED BY <1>3, <2>1, <3>2, <3>4, <3>5, <3>6
    <2> QED BY <2>1, <2>2
  <1>14. run_grid_backtest(C) = h[n] /\ n \in 0..n
    BY <1>1, <1>10, <1>12
  <1> QED BY <1>13, <1>14 DEF V, n

LEMMA BooksAddUp ==
    ASSUME BacktestInit
    PROVE  BooksBalance
  <1> DEFINE C == grid.candles
             s == run_grid_backtest(C)
             n == Len(C)
             value == [l \in {k \in DOMAIN s.buys : s.held[k]} |->
                          s.buys[l] * _units_for_level(s.buys[l])]
  <1>1. BacktestIsValid
    BY ValidBacktest
  <1>2. Accounts(s) /\ Kept(s, n)
    BY <1>1, BacktestAccounted
  <1> HIDE DEF s
  <1>3. /\ s.buys = Ladder /\ DOMAIN s.buys = Slots
        /\ \A l \in Slots : s.cycles[l] \in Nat
        /\ Traded(s) \in [Slots -> Int] /\ Earned(s) \in [Slots -> Int]
        /\ \A l \in Slots : Traded(s)[l] >= 0
    BY <1>1, <1>2, AccountTypes DEF Accounts
  <1>4. \A l \in Slots : _units_for_level(s.buys[l]) = Coins[l]
    BY <1>3 DEF Coins
  <1>5. s.gross = Sum([l \in DOMAIN s.buys |-> _units_for_level(s.buys[l]) * s.cycles[l]])
    <2>1. [l \in DOMAIN s.buys |-> _units_for_level(s.buys[l]) * s.cycles[l]] = Earned(s)
      BY <1>3, <1>4 DEF Earned
    <2> QED BY <1>2, <2>1 DEF Accounts
  <1>6. s.fees = GridFee * Sum([l \in DOMAIN s.buys |->
                    _units_for_level(s.buys[l]) *
                       (s.buys[l] * (s.cycles[l] + IF s.held[l] THEN 1 ELSE 0)
                          + (s.buys[l] + 1) * s.cycles[l])])
    <2>1. [l \in DOMAIN s.buys |->
              _units_for_level(s.buys[l]) *
                 (s.buys[l] * (s.cycles[l] + IF s.held[l] THEN 1 ELSE 0)
                    + (s.buys[l] + 1) * s.cycles[l])] = Traded(s)
      BY <1>3, <1>4 DEF Traded, Bought
    <2> QED BY <1>2, <2>1 DEF Accounts
  <1>7. DOMAIN C = 1..n /\ n \in Nat
    BY <1>1 DEF BacktestIsValid
  <1>8. ASSUME NEW l \in DOMAIN s.buys
        PROVE  /\ s.cycles[l] <= Cardinality({i \in DOMAIN C : C[i].high > s.buys[l]})
               /\ s.cycles[l] + (IF s.held[l] THEN 1 ELSE 0)
                     <= Cardinality({i \in DOMAIN C : C[i].low <= s.buys[l]})
                           + IF s.buys[l] >= C[1].open THEN 1 ELSE 0
    <2>1. /\ {i \in DOMAIN C : C[i].high > s.buys[l]} = Seen(n, l)
          /\ {i \in DOMAIN C : C[i].low <= s.buys[l]} = Dipped(n, l)
      BY <1>3, <1>7 DEF Seen, Dipped
    <2> HIDE DEF C
    <2> QED BY <1>2, <1>3, <2>1 DEF Kept, Bought, C
  <1>9. Sum(value) <= Capital
    <2> DEFINE F == {k \in Slots : s.held[k]}
    <2>1. value = [l \in F |-> Ladder[l] * Coins[l]]
      BY <1>3, <1>4
    <2>2. \A l \in F : Ladder[l] * Coins[l] \in Int /\ Ladder[l] * Coins[l] <= capital_per_level
      <3> SUFFICES ASSUME NEW l \in Slots
                   PROVE  /\ Ladder[l] * Coins[l] \in Int
                          /\ Ladder[l] * Coins[l] <= capital_per_level
        OBVIOUS
      <3> DEFINE u == Coins[l]  p == Ladder[l]
      <3>1. u \in Nat /\ p \in Nat /\ u * p <= capital_per_level
        BY <1>1 DEF BacktestIsValid
      <3> HIDE DEF u, p
      <3>2. p * u = u * p /\ u * p \in Int
        BY <3>1
      <3> QED BY <3>1, <3>2 DEF u, p
    <2>3. F \in SUBSET Slots
      OBVIOUS
    <2> HIDE DEF F, value
    <2>4. value \in [F -> Int] /\ \A l \in F : value[l] <= capital_per_level
      BY <2>1, <2>2
    <2> QED BY <1>1, <2>3, <2>4, HeldWithinCapital
  <1>10. s.worst <= Capital
    BY <1>2 DEF Accounts
  <1>11. _evaluate_grid_scenario /\ grid.min_window_rate # <<>> => ProfitableWindows # {}
    <2> SUFFICES ASSUME _evaluate_grid_scenario, grid.min_window_rate # <<>>, ProfitableWindows = {}
                 PROVE  FALSE
      OBVIOUS
    <2>1. /\ grid.windows > 0
          /\ Cardinality(ProfitableWindows) * grid.min_window_rate[2]
                >= grid.min_window_rate[1] * grid.windows
      BY DEF _evaluate_grid_scenario, _evaluate_grid_profile
    <2>2. Cardinality(ProfitableWindows) = 0
      BY FS_EmptySet
    <2>3. /\ grid.min_window_rate = <<1, 2>>
          /\ grid.windows \in 0..GridWindows
      BY DEF BacktestInit
    <2>4. grid.windows \in Nat
      BY <2>3, GridAssumption
    <2> QED BY <2>1, <2>2, <2>3, <2>4
  <1>12. _regression_passes(s, _backtest_days(C))
            => s.gross * GridFeeScale > s.fees /\ \E l \in DOMAIN s.buys : s.cycles[l] > 0
    <2> SUFFICES ASSUME net_pnl(s) > 0
                 PROVE  s.gross * GridFeeScale > s.fees /\ \E l \in DOMAIN s.buys : s.cycles[l] > 0
      BY DEF _regression_passes
    <2>1. s.gross \in Int /\ s.fees \in Int /\ GridFeeScale \in Nat /\ GridFee \in Nat
      BY <1>1, <1>2, AccountTypes DEF Accounts, BacktestIsValid
    <2>2. IsFiniteSet(Slots) /\ Cardinality(Slots) \in Nat
      BY <1>1 DEF BacktestIsValid
    <2>3. s.fees >= 0
      <3>1. Sum(Traded(s)) >= 0 /\ Sum(Traded(s)) \in Int
        BY <1>3, <2>2, SumPositive, SumIsInteger
      <3> DEFINE a == Sum(Traded(s))
      <3> HIDE DEF a
      <3>2. GridFee * a >= 0
        BY <2>1, <3>1 DEF a
      <3> QED BY <1>2, <3>2 DEF Accounts, a
    <2>4. GridFeeScale * s.gross > s.fees /\ s.gross * GridFeeScale > s.fees
      <3> DEFINE a == s.gross  b == s.fees
      <3>1. GridFeeScale * a - b > 0 /\ a \in Int /\ b \in Int
        BY <2>1 DEF net_pnl
      <3> HIDE DEF a, b
      <3>2. GridFeeScale * a \in Int /\ a * GridFeeScale = GridFeeScale * a
        BY <2>1, <3>1
      <3>3. GridFeeScale * a > b /\ a * GridFeeScale > b
        BY <3>1, <3>2
      <3> QED BY <3>3 DEF a, b
    <2>5. s.gross # 0
      BY <2>1, <2>3, <2>4
    <2>6. \E l \in Slots : s.cycles[l] > 0
      <3> SUFFICES ASSUME \A l \in Slots : ~(s.cycles[l] > 0) PROVE FALSE
        OBVIOUS
      <3>1. \A l \in Slots : s.cycles[l] = 0
        BY <1>3
      <3>2. \A l \in Slots : Earned(s)[l] = 0
        BY <1>1, <3>1 DEF Earned, BacktestIsValid
      <3>3. Sum(Earned(s)) = 0 * Cardinality(Slots)
        BY <1>3, <2>2, <3>2, SumConstant
      <3> QED BY <1>2, <2>2, <2>5, <3>3 DEF Accounts
    <2> QED BY <1>3, <2>4, <2>6
  <1> HIDE DEF n
  <1> QED BY <1>5, <1>6, <1>8, <1>9, <1>10, <1>11, <1>12 DEF BooksBalance, s

(* Research on grids does not flatter them, whatever the candles, the       *)
(* grid, its fees and the configurations of a sweep.                        *)
THEOREM GridsAddUp == GridResearchInit => GridResearchAddsUp
  <1>1. BacktestInit => grid.about = "backtest" /\ BooksBalance
    <2>1. BacktestInit => grid.about = "backtest"
      BY DEF BacktestInit
    <2> QED BY <2>1, BooksAddUp
  <1>2. AdviceInit => grid.about = "advice" /\ AdviceIsSound
    <2>1. AdviceInit => grid.about = "advice"
      BY DEF AdviceInit
    <2> QED BY <2>1, AdviceAddsUp
  <1>3. SweepInit => grid.about = "sweep" /\ SweepIsSound
    <2>1. SweepInit => grid.about = "sweep"
      BY DEF SweepInit
    <2> QED BY <2>1, SweepAddsUp
  <1> QED BY <1>1, <1>2, <1>3 DEF GridResearchInit, GridResearchAddsUp

-----------------------------------------------------------------------------
(* Ratios. *)

Ratio == Int \X (Nat \ {0})

Share == Nat \X (Nat \ {0})

LEMMA Ratios ==
    ASSUME NEW a \in Ratio, NEW b \in Ratio
    PROVE  RAdd(a, b) \in Ratio /\ RSub(a, b) \in Ratio /\ RMul(a, b) \in Ratio
  <1>1. a[1] \in Int /\ b[1] \in Int /\ a[2] \in Nat \ {0} /\ b[2] \in Nat \ {0}
    BY DEF Ratio
  <1>2. a[2] * b[2] \in Nat \ {0}
    BY <1>1
  <1>3. a[1] * b[2] \in Int /\ b[1] * a[2] \in Int /\ a[1] * b[1] \in Int
    BY <1>1
  <1>4. /\ a[1] * b[2] + b[1] * a[2] \in Int
        /\ a[1] * b[2] - b[1] * a[2] \in Int
    BY <1>3
  <1> QED BY <1>2, <1>3, <1>4 DEF RAdd, RSub, RMul, Ratio

LEMMA Shares ==
    ASSUME NEW a \in Share, NEW b \in Share
    PROVE  /\ RMul(a, b) \in Share
           /\ RAdd(a, b) \in Share
           /\ a[1] > 0 /\ b[1] > 0 => RMul(a, b)[1] > 0
           /\ a[1] > 0 => RAdd(a, b)[1] > 0
  <1>1. a[1] \in Nat /\ b[1] \in Nat /\ a[2] \in Nat \ {0} /\ b[2] \in Nat \ {0}
    BY DEF Share
  <1>2. a[2] * b[2] \in Nat \ {0} /\ a[1] * b[1] \in Nat
    BY <1>1
  <1>3. a[1] * b[2] \in Nat /\ b[1] * a[2] \in Nat
    BY <1>1
  <1>4. a[1] > 0 => a[1] * b[2] > 0
    BY <1>1
  <1>5. a[1] > 0 /\ b[1] > 0 => a[1] * b[1] > 0
    BY <1>1
  <1> DEFINE p == a[2] * b[2]
             q == a[1] * b[1]
             r == a[1] * b[2]
             t == b[1] * a[2]
  <1>6. RMul(a, b) = <<q, p>> /\ RAdd(a, b) = <<r + t, p>>
    BY DEF RMul, RAdd
  <1> HIDE DEF p, q, r, t
  <1>7. p \in Nat \ {0} /\ q \in Nat /\ r \in Nat /\ t \in Nat
    BY <1>2, <1>3 DEF p, q, r, t
  <1>8. (a[1] > 0 => r > 0) /\ (a[1] > 0 /\ b[1] > 0 => q > 0)
    BY <1>4, <1>5 DEF r, q
  <1> QED BY <1>6, <1>7, <1>8 DEF Share

(* The distance of two ratios, and on which side one lies of the other.     *)
LEMMA Distances ==
    ASSUME NEW a \in Ratio, NEW b \in Ratio
    PROVE  /\ RDist(a, b) \in Share
           /\ RDist(a, b)[1] # 0 <=> RLess(a, b) \/ RLess(b, a)
           /\ ~(RLess(a, b) /\ RLess(b, a))
           /\ RLeq(a, b) <=> ~RLess(b, a)
  <1>1. a[1] \in Int /\ b[1] \in Int /\ a[2] \in Nat \ {0} /\ b[2] \in Nat \ {0}
    BY DEF Ratio
  <1>2. a[1] * b[2] \in Int /\ b[1] * a[2] \in Int /\ a[2] * b[2] \in Nat \ {0}
    BY <1>1
  <1> DEFINE p == a[1] * b[2]
             q == b[1] * a[2]
             r == a[2] * b[2]
  <1>3. RSub(a, b) = <<p - q, r>>
    BY DEF RSub
  <1>4. /\ RLess(a, b) <=> p < q
        /\ RLess(b, a) <=> q < p
        /\ RLeq(a, b) <=> p <= q
    BY DEF RLess, RLeq
  <1> HIDE DEF p, q, r
  <1>5. p \in Int /\ q \in Int /\ r \in Nat \ {0}
    BY <1>2 DEF p, q, r
  <1>6. RDist(a, b) = <<IF p - q < 0 THEN -(p - q) ELSE p - q, r>>
    BY <1>3 DEF RDist
  <1>7. (IF p - q < 0 THEN -(p - q) ELSE p - q) \in Nat
    BY <1>5
  <1>8. (IF p - q < 0 THEN -(p - q) ELSE p - q) # 0 <=> p < q \/ q < p
    BY <1>5
  <1>9. RDist(a, b) \in Share
    BY <1>5, <1>6, <1>7 DEF Share
  <1> QED BY <1>4, <1>5, <1>6, <1>8, <1>9

(* A price at a distance is at that distance, and on its side.              *)
LEMMA AtDistance ==
    ASSUME NEW e \in Int, NEW d \in Share, NEW s \in {1, -1}
    PROVE  /\ Away(Whole(e), s, d) \in Ratio
           /\ RDist(Whole(e), Away(Whole(e), s, d)) = d
           /\ RDist(Away(Whole(e), s, d), Whole(e)) = d
           /\ d[1] > 0 => /\ Above(Away(Whole(e), s, d), Whole(e), s)
                          /\ Above(Whole(e), Away(Whole(e), s, d), -s)
  <1>1. d[1] \in Nat /\ d[2] \in Nat \ {0} /\ d = <<d[1], d[2]>>
    BY DEF Share
  <1> DEFINE n == d[1]
             m == d[2]
             p == e * m
  <1> HIDE DEF n, m
  <1>2. n \in Nat /\ m \in Nat \ {0} /\ d = <<n, m>> /\ p \in Int
    BY <1>1 DEF n, m
  <1>3. Away(Whole(e), s, d) = <<p + s * n, m>>
    <2>1. RMul(Whole(s), d) = <<s * n, m>>
      BY <1>2 DEF RMul, Whole
    <2>2. Away(Whole(e), s, d) = <<e * m + (s * n) * 1, 1 * m>>
      BY <2>1 DEF Away, RAdd, Whole
    <2> QED BY <1>2, <2>2
  <1> DEFINE a == Away(Whole(e), s, d)
  <1>4. a[1] = p + s * n /\ a[2] = m
    BY <1>3
  <1>5. /\ RSub(Whole(e), a) = <<p - (p + s * n), m>>
        /\ RSub(a, Whole(e)) = <<(p + s * n) - p, m>>
    <2>1. RSub(Whole(e), a) = <<e * m - (p + s * n) * 1, 1 * m>>
      BY <1>4 DEF RSub, Whole
    <2>2. RSub(a, Whole(e)) = <<(p + s * n) * 1 - e * m, m * 1>>
      BY <1>4 DEF RSub, Whole
    <2> QED BY <1>2, <2>1, <2>2
  <1>6. /\ RLess(Whole(e), a) <=> p < p + s * n
        /\ RLess(a, Whole(e)) <=> p + s * n < p
    <2>1. RLess(Whole(e), a) <=> e * m < (p + s * n) * 1
      BY <1>4 DEF RLess, Whole
    <2>2. RLess(a, Whole(e)) <=> (p + s * n) * 1 < e * m
      BY <1>4 DEF RLess, Whole
    <2> QED BY <1>2, <2>1, <2>2
  <1> HIDE DEF a, p
  <1>7. CASE s = 1
    <2>1. RSub(Whole(e), a) = <<-n, m>> /\ RSub(a, Whole(e)) = <<n, m>>
      BY <1>2, <1>5, <1>7
    <2>2. RDist(Whole(e), a) = d /\ RDist(a, Whole(e)) = d
      BY <1>2, <2>1 DEF RDist
    <2>3. a \in Ratio
      BY <1>2, <1>3, <1>7 DEF Ratio, a
    <2>4. n > 0 => RLess(Whole(e), a)
      BY <1>2, <1>6, <1>7
    <2> QED BY <1>7, <2>2, <2>3, <2>4 DEF a, n, Above
  <1>8. CASE s = -1
    <2>1. RSub(Whole(e), a) = <<n, m>> /\ RSub(a, Whole(e)) = <<-n, m>>
      BY <1>2, <1>5, <1>8
    <2>2. RDist(Whole(e), a) = d /\ RDist(a, Whole(e)) = d
      BY <1>2, <2>1 DEF RDist
    <2>3. a \in Ratio
      BY <1>2, <1>3, <1>8 DEF Ratio, a
    <2>4. n > 0 => RLess(a, Whole(e))
      BY <1>2, <1>6, <1>8
    <2>5. s # 1 /\ -s = 1
      <3>1. \A i \in {1, -1} : i # 1 => -i = 1
        OBVIOUS
      <3>2. s # 1
        BY <1>8
      <3> QED BY <3>1, <3>2
    <2>6. Above(a, Whole(e), s) = RLess(a, Whole(e)) /\ Above(Whole(e), a, -s) = RLess(a, Whole(e))
      BY <2>5, Zenon DEF Above
    <2> QED BY <2>2, <2>3, <2>4, <2>6 DEF a, n
  <1> QED BY <1>7, <1>8

(* What a signal has to be to be traded.                                    *)
Tradable(s) ==
    /\ s.direction # "ValueError"
    /\ s.entry = Entry
    /\ IF s.direction = "long" THEN RLess(s.stop, s.entry) /\ RLess(s.entry, s.target)
                               ELSE RLess(s.target, s.entry) /\ RLess(s.entry, s.stop)
    /\ RLeq(RMul(MinRRR, RDist(s.entry, s.stop)), RDist(s.target, s.entry))

(* The last close is a price.                                               *)
LastClose(e) == e \in Nat \ {0} /\ Entry = Whole(e)

LEMMA RatioConstants ==
    /\ {MinRRR, StopMultiple, TargetMultiple, ReversionStop, MinDeviation, CostFraction,
        VwapTolerance, Offset} \subseteq Share
    /\ MinRRR[1] > 0 /\ StopMultiple[1] > 0 /\ TargetMultiple[1] > 0 /\ ReversionStop[1] > 0
  <1>1. \A a \in (Nat \ {0}) \X (Nat \ {0}) : a \in Share /\ a[1] > 0
    BY DEF Share
  <1>2. \A a \in Nat \X (Nat \ {0}) : a \in Share
    BY DEF Share
  <1>3. /\ MinRRR \in (Nat \ {0}) \X (Nat \ {0}) /\ StopMultiple \in (Nat \ {0}) \X (Nat \ {0})
        /\ TargetMultiple \in (Nat \ {0}) \X (Nat \ {0})
        /\ ReversionStop \in (Nat \ {0}) \X (Nat \ {0})
    BY StrategyAssumption
  <1>4. /\ MinDeviation \in Nat \X (Nat \ {0}) /\ CostFraction \in Nat \X (Nat \ {0})
        /\ VwapTolerance \in Nat \X (Nat \ {0}) /\ Offset \in Nat \X (Nat \ {0})
    BY StrategyAssumption
  <1>5. MinRRR \in Share /\ MinRRR[1] > 0 /\ StopMultiple \in Share /\ StopMultiple[1] > 0
    BY <1>1, <1>3
  <1>6. /\ TargetMultiple \in Share /\ TargetMultiple[1] > 0
        /\ ReversionStop \in Share /\ ReversionStop[1] > 0
    BY <1>1, <1>3
  <1>7. /\ MinDeviation \in Share /\ CostFraction \in Share
        /\ VwapTolerance \in Share /\ Offset \in Share
    BY <1>2, <1>4
  <1> QED BY <1>5, <1>6, <1>7

LEMMA ShareIsRatio == Share \subseteq Ratio
  BY DEF Share, Ratio

(* Stop and target on their sides, and the reward worth the risk.           *)
LEMMA SignalOnItsSides ==
    ASSUME NEW s \in {1, -1}, NEW stop, NEW target,
           Above(Entry, stop, s), Above(target, Entry, s),
           RLeq(RMul(MinRRR, RDist(Entry, stop)), RDist(target, Entry))
    PROVE  Tradable(Signal(Direction(s), Entry, stop, target))
  <1> DEFINE g == Signal(Direction(s), Entry, stop, target)
  <1>1. g.entry = Entry /\ g.stop = stop /\ g.target = target /\ g.direction = Direction(s)
    BY DEF Signal
  <1> HIDE DEF g
  <1>2. CASE s = 1
    <2>1. g.direction = "long"
      BY <1>1, <1>2 DEF Direction
    <2>2. RLess(stop, Entry) /\ RLess(Entry, target)
      BY <1>2 DEF Above
    <2> QED BY <1>1, <2>1, <2>2 DEF Tradable, g
  <1>3. CASE s = -1
    <2>1. g.direction = "short" /\ s # 1
      BY <1>1, <1>3 DEF Direction
    <2>2. RLess(Entry, stop) /\ RLess(target, Entry)
      BY <2>1 DEF Above
    <2> QED BY <1>1, <2>1, <2>2 DEF Tradable, g
  <1> QED BY <1>2, <1>3

(* A signal that is built has a risk, and a reward that is worth it.        *)
LEMMA BuiltSignal ==
    ASSUME NEW e, LastClose(e), NEW direction, NEW stop \in Ratio, NEW target \in Ratio,
           NEW g \in _build_signal(direction, Entry, stop, target)
    PROVE  /\ g = Signal(direction, Entry, stop, target)
           /\ RDist(Entry, stop)[1] # 0
           /\ RLeq(RMul(MinRRR, RDist(Entry, stop)), RDist(target, Entry))
  <1>1. Entry \in Ratio
    BY DEF LastClose, Whole, Ratio
  <1>2. RMul(MinRRR, RDist(Entry, stop)) \in Ratio /\ RDist(target, Entry) \in Ratio
    <2>1. RDist(Entry, stop) \in Share /\ RDist(target, Entry) \in Share
      BY <1>1, Distances
    <2>2. MinRRR \in Share
      BY RatioConstants
    <2> QED BY <2>1, <2>2, Shares, ShareIsRatio
  <1>3. /\ g = Signal(direction, Entry, stop, target)
        /\ RDist(Entry, stop)[1] # 0
        /\ ~RLess(RDist(target, Entry), RMul(MinRRR, RDist(Entry, stop)))
    BY Zenon DEF _build_signal
  <1> QED BY <1>2, <1>3, Distances

(* A target at a distance that is the risk times a multiple.                *)
LEMMA TargetAtMultiple ==
    ASSUME NEW e, LastClose(e), NEW s \in {1, -1}, NEW stop \in Ratio, NEW times \in Share,
           times[1] > 0, Above(Entry, stop, s),
           NEW g \in _build_signal(Direction(s), Entry, stop,
                                   Away(Entry, s, RMul(times, RDist(Entry, stop))))
    PROVE  Tradable(g)
  <1> DEFINE d == RMul(times, RDist(Entry, stop))
             target == Away(Entry, s, d)
  <1>1. Entry \in Ratio /\ e \in Int /\ Entry = Whole(e)
    BY DEF LastClose, Whole, Ratio
  <1>2. RDist(Entry, stop) \in Share /\ RDist(Entry, stop)[1] > 0
    <2>1. RLess(Entry, stop) \/ RLess(stop, Entry)
      BY DEF Above
    <2>2. RDist(Entry, stop) \in Share /\ RDist(Entry, stop)[1] # 0
      BY <1>1, <2>1, Distances
    <2> QED BY <2>2 DEF Share
  <1>3. d \in Share /\ d[1] > 0
    BY <1>2, Shares
  <1> HIDE DEF d
  <1>4. target \in Ratio /\ Above(target, Entry, s)
    BY <1>1, <1>3, AtDistance
  <1> HIDE DEF target
  <1>5. g \in _build_signal(Direction(s), Entry, stop, target)
    BY DEF target, d
  <1>6. /\ g = Signal(Direction(s), Entry, stop, target)
        /\ RLeq(RMul(MinRRR, RDist(Entry, stop)), RDist(target, Entry))
    BY <1>4, <1>5, BuiltSignal
  <1> QED BY <1>4, <1>6, SignalOnItsSides

(* A stop at a distance that is not zero.                                   *)
LEMMA StopAtDistance ==
    ASSUME NEW e, LastClose(e), NEW s \in {1, -1}, NEW d \in Share
    PROVE  LET stop == Away(Entry, -s, d)
           IN  /\ stop \in Ratio
               /\ RDist(Entry, stop) = d
               /\ d[1] > 0 <=> RDist(Entry, stop)[1] # 0
               /\ d[1] > 0 => Above(Entry, stop, s)
  <1>1. -s \in {1, -1} /\ -(-s) = s
    OBVIOUS
  <1>2. e \in Int /\ Entry = Whole(e)
    BY DEF LastClose
  <1>3. d[1] \in Nat
    BY DEF Share
  <1> DEFINE r == -s
  <1>4. /\ Away(Entry, r, d) \in Ratio
        /\ RDist(Entry, Away(Entry, r, d)) = d
        /\ d[1] > 0 => Above(Entry, Away(Entry, r, d), -r)
    <2> HIDE DEF r
    <2>1. r \in {1, -1}
      BY <1>1 DEF r
    <2> QED BY <1>2, <2>1, AtDistance
  <1> QED BY <1>1, <1>3, <1>4

(* A target at a distance of its own.                                       *)
LEMMA TargetAtDistance ==
    ASSUME NEW e, LastClose(e), NEW s \in {1, -1}, NEW d \in Share, d[1] > 0
    PROVE  LET target == Away(Entry, s, d)
           IN  target \in Ratio /\ RDist(target, Entry) = d /\ Above(target, Entry, s)
  <1>1. e \in Int /\ Entry = Whole(e)
    BY DEF LastClose
  <1> QED BY <1>1, AtDistance

-----------------------------------------------------------------------------
(* Indicators. *)

(* The indicators sum as the gate does.                                     *)
LEMMA RunningSum ==
    ASSUME NEW s \in Seq(Int)
    PROVE  \E h \in [0..Len(s) -> Int] :
              /\ h[0] = 0
              /\ \A k \in 1..Len(s) : h[k] = h[k - 1] + s[k]
              /\ h[Len(s)] = SumSeq(s)
  <1>1. SumSeq(s) = Total(s)
    BY DEF SumSeq, Total
  <1> QED BY <1>1, RunningTotal

LEMMA SumOfNaturals ==
    ASSUME NEW s \in Seq(Nat)
    PROVE  /\ SumSeq(s) \in Nat
           /\ Len(s) > 0 /\ s[Len(s)] > 0 => SumSeq(s) > 0
  <1> DEFINE n == Len(s)
  <1>1. n \in Nat /\ (\A k \in 1..n : s[k] \in Nat) /\ s \in Seq(Int)
    OBVIOUS
  <1>2. PICK h \in [0..n -> Int] : /\ h[0] = 0
                                   /\ \A k \in 1..n : h[k] = h[k - 1] + s[k]
                                   /\ h[n] = SumSeq(s)
    BY <1>1, RunningSum
  <1> HIDE DEF n
  <1>3. \A k \in 0..n : h[k] \in Nat
    <2> DEFINE Bad == {k \in 0..n : h[k] \notin Nat}
    <2> SUFFICES ASSUME Bad # {} PROVE FALSE
      OBVIOUS
    <2>1. Bad \subseteq Nat
      BY <1>1
    <2>2. PICK k \in Bad : \A j \in Bad : k <= j
      BY <2>1, LeastNumber
    <2>3. k \in 1..n /\ k - 1 \in 0..n /\ ~(k <= k - 1)
      BY <1>1, <1>2, <2>2
    <2>4. h[k - 1] \in Nat /\ h[k] = h[k - 1] + s[k] /\ s[k] \in Nat
      BY <1>1, <1>2, <2>2, <2>3
    <2> QED BY <2>2, <2>4
  <1>4. n > 0 => h[n] = h[n - 1] + s[n] /\ h[n - 1] \in Nat /\ s[n] \in Nat
    BY <1>1, <1>2, <1>3
  <1> QED BY <1>1, <1>2, <1>3, <1>4 DEF n

(* The averages of lists of numbers are ratios.                             *)
LEMMA EmaIsRatio ==
    ASSUME NEW values \in Seq(Int), values # <<>>, NEW period \in Nat \ {0}
    PROVE  _calculate_ema(values, period) \in Ratio
  <1> DEFINE t == Tail(values)
             n == Len(t)
             base == Whole(values[1])
             Next(e, v) == <<2 * v * e[2] + (period - 1) * e[1], (period + 1) * e[2]>>
             act == [a \in (1..n) \X Ratio |-> Next(a[2], t[a[1]])]
             Def(it) == it = [u \in SUBSET DOMAIN t |->
                                IF u = {} THEN base
                                ELSE LET x == Max(u) IN Next(it[u \ {x}], t[x])]
             iter == CHOOSE it : Def(it)
  <1>1. n \in Nat /\ DOMAIN t = 1..n /\ (\A k \in 1..n : t[k] \in Int) /\ base \in Ratio
    BY DEF Whole, Ratio
  <1>2. \A v \in Int, e \in Ratio : Next(e, v) \in Ratio
    <2> SUFFICES ASSUME NEW v \in Int, NEW e \in Ratio PROVE Next(e, v) \in Ratio
      OBVIOUS
    <2>1. e[1] \in Int /\ e[2] \in Nat \ {0} /\ period - 1 \in Nat /\ period + 1 \in Nat \ {0}
      BY DEF Ratio
    <2>2. /\ 2 * v * e[2] \in Int /\ (period - 1) * e[1] \in Int
          /\ (period + 1) * e[2] \in Nat \ {0}
      BY <2>1
    <2>3. 2 * v * e[2] + (period - 1) * e[1] \in Int
      BY <2>2
    <2> QED BY <2>2, <2>3 DEF Ratio
  <1> HIDE DEF n, base, t, Next
  <1>3. act \in [(1..n) \X Ratio -> Ratio]
    BY <1>1, <1>2
  <1>4. \A k \in 1..n : \A e \in Ratio : act[<<k, e>>] = Next(e, t[k])
    OBVIOUS
  <1>5. \A u \in SUBSET (1..n) : u # {} => Max(u) \in 1..n /\ u \ {Max(u)} \in SUBSET (1..n)
    BY <1>1, LastNumber
  <1> HIDE DEF act
  <1>6. PICK it : FoldsTo(it, n, Ratio, base, act)
    BY <1>1, <1>3, FoldExists
  <1>7. Def(it)
    <2>1. \A u \in SUBSET (1..n) : u # {} => it[u] = Next(it[u \ {Max(u)}], t[Max(u)])
      BY <1>4, <1>5, <1>6 DEF FoldsTo
    <2>2. it = [u \in SUBSET (1..n) |-> it[u]] /\ it[{}] = base
      BY <1>6 DEF FoldsTo
    <2> QED BY <1>1, <2>1, <2>2, Zenon
  <1>8. Def(iter)
    <2> HIDE DEF Def
    <2> QED BY <1>7
  <1>9. _calculate_ema(values, period) = iter[DOMAIN t]
    BY DEF _calculate_ema, FoldLeft, MapThenFoldSet, t, base, Next
  <1> HIDE DEF iter
  <1>10. Unfolds(iter, n, Ratio, base, act)
    BY <1>1, <1>4, <1>5, <1>8 DEF Unfolds
  <1>11. Reaches(iter, n, Ratio, base, act)
    BY <1>1, <1>3, <1>10, FoldSteps
  <1>12. iter[1..n] \in Ratio
    BY <1>1, <1>11 DEF Reaches, Steps
  <1> QED BY <1>1, <1>9, <1>12

(* So is Wilder's smoothing, and the last value counts.                     *)
LEMMA SmoothedIsShare ==
    ASSUME NEW values \in Seq(Nat), NEW period \in Nat \ {0}, period <= Len(values)
    PROVE  /\ Smoothed(values, period) \in Share
           /\ values[Len(values)] > 0 => Smoothed(values, period)[1] > 0
  <1> DEFINE t == SubSeq(values, period + 1, Len(values))
             n == Len(t)
             seed == SubSeq(values, 1, period)
             base == <<SumSeq(seed), period>>
             Next(a, v) == <<(period - 1) * a[1] + v * a[2], period * a[2]>>
             act == [a \in (1..n) \X Share |-> Next(a[2], t[a[1]])]
             Def(it) == it = [u \in SUBSET DOMAIN t |->
                                IF u = {} THEN base
                                ELSE LET x == Max(u) IN Next(it[u \ {x}], t[x])]
             iter == CHOOSE it : Def(it)
             last == values[Len(values)]
  <1>1. /\ n \in Nat /\ DOMAIN t = 1..n
        /\ \A k \in 1..n : t[k] \in Nat
        /\ n > 0 => t[n] = last
    <2>1. Len(values) \in Nat /\ \A k \in 1..Len(values) : values[k] \in Nat
      OBVIOUS
    <2>2. /\ n = Len(values) - period /\ n \in Nat /\ DOMAIN t = 1..n
          /\ \A k \in 1..n : t[k] = values[period + k]
      BY <2>1
    <2> HIDE DEF n, t
    <2>3. \A k \in 1..n : period + k \in 1..Len(values)
      BY <2>1, <2>2
    <2>4. n > 0 => n \in 1..n /\ period + n = Len(values)
      BY <2>1, <2>2
    <2> QED BY <2>1, <2>2, <2>3, <2>4
  <1>2. base \in Share /\ (n = 0 /\ last > 0 => base[1] > 0)
    <2>1. seed \in Seq(Nat) /\ Len(seed) = period /\ seed[period] = values[period]
      OBVIOUS
    <2>2. n = 0 => period = Len(values)
      OBVIOUS
    <2>3. SumSeq(seed) \in Nat /\ (seed[Len(seed)] > 0 => SumSeq(seed) > 0)
      <3>1. Len(seed) > 0
        BY <2>1
      <3> HIDE DEF seed
      <3> QED BY <2>1, <3>1, SumOfNaturals
    <2> HIDE DEF seed, n
    <2> QED BY <2>1, <2>2, <2>3 DEF Share
  <1>3. \A v \in Nat, a \in Share : /\ Next(a, v) \in Share
                                    /\ v > 0 => Next(a, v)[1] > 0
    <2> SUFFICES ASSUME NEW v \in Nat, NEW a \in Share
                 PROVE  Next(a, v) \in Share /\ (v > 0 => Next(a, v)[1] > 0)
      OBVIOUS
    <2>1. a[1] \in Nat /\ a[2] \in Nat \ {0} /\ period - 1 \in Nat
      BY DEF Share
    <2> DEFINE p == (period - 1) * a[1]
               q == v * a[2]
               r == period * a[2]
    <2>2. p \in Nat /\ q \in Nat /\ r \in Nat \ {0} /\ (v > 0 => q > 0)
      <3>1. p \in Nat
        BY <2>1
      <3>2. q \in Nat /\ (v > 0 => q > 0)
        BY <2>1
      <3>3. r \in Nat \ {0}
        BY <2>1
      <3> QED BY <3>1, <3>2, <3>3
    <2>3. Next(a, v) = <<p + q, r>>
      OBVIOUS
    <2> HIDE DEF p, q, r, Next
    <2> QED BY <2>2, <2>3 DEF Share
  <1> HIDE DEF n, base, t, Next, last
  <1>4. act \in [(1..n) \X Share -> Share]
    BY <1>1, <1>3
  <1>5. \A k \in 1..n : \A a \in Share : act[<<k, a>>] = Next(a, t[k])
    OBVIOUS
  <1>6. \A u \in SUBSET (1..n) : u # {} => Max(u) \in 1..n /\ u \ {Max(u)} \in SUBSET (1..n)
    BY <1>1, LastNumber
  <1> HIDE DEF act
  <1>7. PICK it : FoldsTo(it, n, Share, base, act)
    BY <1>1, <1>2, <1>4, FoldExists
  <1>8. Def(it)
    <2>1. \A u \in SUBSET (1..n) : u # {} => it[u] = Next(it[u \ {Max(u)}], t[Max(u)])
      BY <1>5, <1>6, <1>7 DEF FoldsTo
    <2>2. it = [u \in SUBSET (1..n) |-> it[u]] /\ it[{}] = base
      BY <1>7 DEF FoldsTo
    <2> QED BY <1>1, <2>1, <2>2, Zenon
  <1>9. Def(iter)
    <2> HIDE DEF Def
    <2> QED BY <1>8
  <1>10. Smoothed(values, period) = iter[DOMAIN t]
    BY DEF Smoothed, FoldLeft, MapThenFoldSet, t, base, Next
  <1> HIDE DEF iter
  <1>11. Unfolds(iter, n, Share, base, act)
    BY <1>1, <1>5, <1>6, <1>9 DEF Unfolds
  <1>12. PICK h : Steps(h, n, Share, base, act) /\ h[n] = iter[1..n]
    <2>1. Reaches(iter, n, Share, base, act)
      BY <1>1, <1>2, <1>4, <1>11, FoldSteps
    <2> QED BY <2>1 DEF Reaches
  <1>13. h[n] \in Share
    BY <1>1, <1>12 DEF Steps
  <1>14. ASSUME last > 0 PROVE h[n][1] > 0
    <2>1. CASE n = 0
      BY <1>2, <1>12, <1>14, <2>1 DEF Steps
    <2>2. CASE n > 0
      <3>1. n \in 1..n /\ n - 1 \in 0..n /\ t[n] = last
        BY <1>1, <2>2
      <3>2. h[n - 1] \in Share /\ h[n] = Next(h[n - 1], last)
        BY <1>5, <1>12, <3>1 DEF Steps
      <3>3. last \in Nat
        BY <1>1, <3>1
      <3> QED BY <1>3, <1>14, <3>2, <3>3
    <2> QED BY <1>1, <2>1, <2>2
  <1> QED BY <1>1, <1>10, <1>12, <1>13, <1>14 DEF last

-----------------------------------------------------------------------------
(* Windows. *)

WindowOf(n) ==
    /\ n \in Nat \ {0}
    /\ window.candles \in Seq([close : Nat \ {0}, high : Int, low : Int])
    /\ Len(window.candles) = n
    /\ window.today \in Int

LEMMA CandleOfWindow ==
    ASSUME NEW n, WindowOf(n), NEW i \in 1..n
    PROVE  /\ window.candles[i].close \in Nat \ {0}
           /\ window.candles[i].high \in Int
           /\ window.candles[i].low \in Int
  <1>1. window.candles[i] \in [close : Nat \ {0}, high : Int, low : Int]
    <2> DEFINE R == [close : Nat \ {0}, high : Int, low : Int]
               cs == window.candles
    <2>1. cs \in Seq(R) /\ Len(cs) = n
      BY DEF WindowOf
    <2> HIDE DEF R, cs
    <2>2. cs[i] \in R
      BY <2>1
    <2> QED BY <2>2 DEF R, cs
  <1> QED BY <1>1

(* A candle reaches as far above its close as below.                        *)
Wicked(c) == c.high - c.close \in Nat /\ c.close - c.low \in Nat

LEMMA WindowsAreSequences ==
    ASSUME StrategyInit
    PROVE  /\ WindowOf(Len(window.candles))
           /\ Len(window.candles) \in {WindowLength, LongWindowLength}
           /\ \A i \in 1..Len(window.candles) : Wicked(window.candles[i])
  <1> DEFINE In(n, closes, wicks) ==
               /\ window \in Windows(n, closes, wicks)
               /\ n \in {WindowLength, LongWindowLength}
               /\ closes \subseteq Nat \ {0} /\ wicks \subseteq Nat
  <1>1. \/ In(WindowLength, StrategyCloses, Wicks)
        \/ In(LongWindowLength, SwingCloses, {0})
    <2>1. StrategyCloses \subseteq Nat \ {0} /\ SwingCloses \subseteq Nat \ {0}
          /\ Wicks \subseteq Nat /\ {0} \subseteq Nat
      BY StrategyAssumption
    <2>2. \/ window \in Windows(WindowLength, StrategyCloses, Wicks)
          \/ window \in Windows(LongWindowLength, SwingCloses, {0})
      BY Zenon DEF StrategyInit
    <2> QED BY <2>1, <2>2
  <1>2. PICK n, closes, wicks : In(n, closes, wicks)
    BY <1>1
  <1> DEFINE cs == window.candles
             C == {Candle(p, w) : p \in closes, w \in wicks}
  <1>3. n \in Nat \ {0} /\ MinDayCandles \in Nat
    BY <1>2, StrategyAssumption
  <1>4. cs \in [1..n -> C] /\ window.today \in {MinDayCandles - 1, n}
    <2>1. window \in [candles : [1..n -> C], today : {MinDayCandles - 1, n},
                      volume_confirms : BOOLEAN, calm : BOOLEAN]
      BY <1>2 DEF Windows
    <2> HIDE DEF C
    <2> QED BY <2>1
  <1>5. \A c \in C : c \in [close : Nat \ {0}, high : Int, low : Int] /\ Wicked(c)
    <2> SUFFICES ASSUME NEW p \in closes, NEW w \in wicks
                 PROVE  /\ Candle(p, w) \in [close : Nat \ {0}, high : Int, low : Int]
                        /\ Wicked(Candle(p, w))
      OBVIOUS
    <2>1. p \in Nat \ {0} /\ w \in Nat
      BY <1>2
    <2> QED BY <2>1 DEF Candle, Wicked
  <1> HIDE DEF cs, C
  <1>6. cs \in Seq([close : Nat \ {0}, high : Int, low : Int]) /\ Len(cs) = n
    <2> DEFINE R == [close : Nat \ {0}, high : Int, low : Int]
    <2>1. \A i \in 1..n : cs[i] \in R
      BY <1>4, <1>5
    <2>2. cs = [i \in 1..n |-> cs[i]]
      BY <1>4
    <2> HIDE DEF R
    <2>3. cs \in [1..n -> R]
      BY <2>1, <2>2
    <2>4. cs \in Seq(R) /\ Len(cs) = n
      BY <1>3, <2>3
    <2> QED BY <2>4 DEF R
  <1>7. \A i \in 1..n : Wicked(cs[i])
    BY <1>4, <1>5
  <1>8. window.today \in Int
    BY <1>3, <1>4
  <1> QED BY <1>2, <1>3, <1>6, <1>7, <1>8 DEF WindowOf, cs

LEMMA LastCloseIsPrice ==
    ASSUME NEW n, WindowOf(n)
    PROVE  /\ Last(window.candles) = window.candles[n]
           /\ LastClose(window.candles[n].close)
  <1>1. n \in 1..n /\ Len(window.candles) = n
    BY DEF WindowOf
  <1>2. Last(window.candles) = window.candles[n]
    BY <1>1 DEF Last
  <1>3. window.candles[n].close \in Nat \ {0}
    BY <1>1, CandleOfWindow
  <1> QED BY <1>2, <1>3 DEF LastClose, Entry

LEMMA ClosesOfWindow ==
    ASSUME NEW n, WindowOf(n)
    PROVE  /\ Closes(window.candles) \in Seq(Int)
           /\ Len(Closes(window.candles)) = n
           /\ \A i \in 1..n : Closes(window.candles)[i] = window.candles[i].close
  <1> DEFINE cs == window.candles
  <1>1. DOMAIN cs = 1..n /\ n \in Nat
    BY DEF WindowOf
  <1>2. \A i \in 1..n : cs[i].close \in Int
    BY CandleOfWindow
  <1>3. Closes(cs) = [i \in 1..n |-> cs[i].close]
    BY <1>1 DEF Closes
  <1> HIDE DEF cs
  <1> QED BY <1>1, <1>2, <1>3 DEF cs

LEMMA EmaOfCloses ==
    ASSUME NEW n, WindowOf(n), NEW period \in {FastPeriod, SlowPeriod}
    PROVE  _calculate_ema(Closes(window.candles), period) \in Ratio
  <1>1. period \in Nat \ {0}
    BY StrategyAssumption
  <1>2. Closes(window.candles) # <<>>
    <2>1. n # 0
      BY DEF WindowOf
    <2> QED BY <2>1, ClosesOfWindow
  <1> QED BY <1>1, <1>2, ClosesOfWindow, EmaIsRatio

(* The largest of three numbers.                                            *)
LEMMA LargestOfThree ==
    ASSUME NEW a \in Int, NEW b \in Int, NEW c \in Int
    PROVE  /\ Max({a, b, c}) \in Int
           /\ Max({a, b, c}) >= a
           /\ Max({a, b, c}) >= b
           /\ Max({a, b, c}) >= c
  <1>1. \E x \in {a, b, c} : \A y \in {a, b, c} : x >= y
    <2>1. CASE a >= b /\ a >= c
      BY <2>1
    <2>2. CASE b >= a /\ b >= c
      BY <2>2
    <2>3. CASE c >= a /\ c >= b
      BY <2>3
    <2> QED BY <2>1, <2>2, <2>3
  <1>2. Max({a, b, c}) \in {a, b, c} /\ \A y \in {a, b, c} : Max({a, b, c}) >= y
    BY <1>1 DEF Max
  <1> QED BY <1>2

LEMMA RangesOfWindow ==
    ASSUME NEW n, WindowOf(n), n > 1, Wicked(window.candles[n])
    PROVE  LET r == true_ranges(window.candles)
           IN  /\ r \in Seq(Nat)
               /\ Len(r) = n - 1
               /\ window.candles[n].close # window.candles[n - 1].close => r[n - 1] > 0
  <1> DEFINE cs == window.candles
             high(i) == cs[i].high
             low(i) == cs[i].low
             close(i) == cs[i].close
             range(i) == Max({high(i + 1) - low(i + 1), Abs(high(i + 1) - close(i)),
                              Abs(low(i + 1) - close(i))})
  <1>1. n \in Nat /\ Len(cs) = n
    BY DEF WindowOf
  <1>2. true_ranges(cs) = [i \in 1..(n - 1) |-> range(i)]
    BY <1>1 DEF true_ranges
  <1>3. \A i \in 1..n : high(i) \in Int /\ low(i) \in Int /\ close(i) \in Int
    BY CandleOfWindow
  <1>4. ASSUME NEW i \in 1..(n - 1)
        PROVE  /\ range(i) \in Nat
               /\ range(i) >= Abs(high(i + 1) - close(i))
               /\ range(i) >= Abs(low(i + 1) - close(i))
    <2>1. i \in 1..n /\ i + 1 \in 1..n
      BY <1>1
    <2> DEFINE h == high(i + 1)
               l == low(i + 1)
               c == close(i)
    <2>2. h \in Int /\ l \in Int /\ c \in Int
      BY <1>3, <2>1
    <2> HIDE DEF h, l, c
    <2>3. Abs(h - c) \in Nat /\ Abs(l - c) \in Nat /\ h - l \in Int
      BY <2>2 DEF Abs
    <2>4. /\ Max({h - l, Abs(h - c), Abs(l - c)}) \in Int
          /\ Max({h - l, Abs(h - c), Abs(l - c)}) >= Abs(h - c)
          /\ Max({h - l, Abs(h - c), Abs(l - c)}) >= Abs(l - c)
      <3> DEFINE x == h - l
                 y == Abs(h - c)
                 z == Abs(l - c)
      <3>1. x \in Int /\ y \in Int /\ z \in Int
        BY <2>3
      <3> HIDE DEF x, y, z
      <3>2. Max({x, y, z}) \in Int /\ Max({x, y, z}) >= y /\ Max({x, y, z}) >= z
        BY <3>1, LargestOfThree
      <3> QED BY <3>2 DEF x, y, z
    <2>5. range(i) = Max({h - l, Abs(h - c), Abs(l - c)})
      BY DEF h, l, c
    <2> HIDE DEF range
    <2>6. range(i) \in Int /\ range(i) >= Abs(h - c) /\ range(i) >= Abs(l - c)
      BY <2>4, <2>5
    <2>7. range(i) \in Nat
      BY <2>3, <2>6
    <2> QED BY <2>6, <2>7 DEF h, l, c
  <1>5. ASSUME close(n) # close(n - 1) PROVE range(n - 1) > 0
    <2>1. n \in 1..n /\ n - 1 \in 1..n /\ n - 1 \in 1..(n - 1) /\ (n - 1) + 1 = n
      BY <1>1
    <2> DEFINE h == high(n)
               l == low(n)
               c == close(n - 1)
               d == close(n)
               m == range(n - 1)
    <2>2. h \in Int /\ l \in Int /\ c \in Int /\ d \in Int
      BY <1>3, <2>1
    <2>3. h - d \in Nat /\ d - l \in Nat
      BY DEF Wicked
    <2>4. m \in Nat /\ m >= Abs(h - c) /\ m >= Abs(l - c)
      <3> HIDE DEF range, high, low, close
      <3> QED BY <1>4, <2>1
    <2>5. d # c
      BY <1>5
    <2> HIDE DEF h, l, c, d, m
    <2>6. h - c > 0 \/ c - l > 0
      BY <2>2, <2>3, <2>5
    <2>7. Abs(h - c) > 0 \/ Abs(l - c) > 0
      BY <2>2, <2>6 DEF Abs
    <2>8. Abs(h - c) \in Nat /\ Abs(l - c) \in Nat
      BY <2>2 DEF Abs
    <2>9. m > 0
      BY <2>4, <2>7, <2>8
    <2> QED BY <2>9 DEF m
  <1> HIDE DEF range
  <1>6. true_ranges(cs) \in Seq(Nat) /\ Len(true_ranges(cs)) = n - 1
    BY <1>1, <1>2, <1>4
  <1>7. true_ranges(cs)[n - 1] = range(n - 1)
    BY <1>1, <1>2
  <1> QED BY <1>5, <1>6, <1>7

LEMMA AtrOfWindow ==
    ASSUME NEW n, WindowOf(n), n = WindowLength, Wicked(window.candles[n])
    PROVE  /\ _calculate_atr(window.candles) \in Share
           /\ window.candles[n].close # window.candles[n - 1].close
                 => _calculate_atr(window.candles)[1] > 0
  <1> DEFINE r == true_ranges(window.candles)
  <1>1. AtrPeriod \in Nat \ {0} /\ AtrPeriod < n /\ n \in Nat
    BY StrategyAssumption DEF WindowOf
  <1>2. n > 1
    BY <1>1
  <1>3. /\ r \in Seq(Nat) /\ Len(r) = n - 1
        /\ window.candles[n].close # window.candles[n - 1].close => r[Len(r)] > 0
    BY <1>2, RangesOfWindow
  <1> HIDE DEF r
  <1>4. AtrPeriod <= Len(r)
    BY <1>1, <1>3
  <1>5. Smoothed(r, AtrPeriod) \in Share
        /\ (r[Len(r)] > 0 => Smoothed(r, AtrPeriod)[1] > 0)
    BY <1>1, <1>3, <1>4, SmoothedIsShare
  <1> QED BY <1>3, <1>5 DEF _calculate_atr, r

-----------------------------------------------------------------------------
(* Signals of each strategy. *)

LEMMA ExtremeIsInteger ==
    ASSUME NEW n, WindowOf(n), NEW i \in 1..n, NEW s
    PROVE  Extreme(window.candles[i], s) \in Int
  BY CandleOfWindow DEF Extreme

LEMMA WholeIsRatio == \A i \in Int : Whole(i) \in Ratio
  BY DEF Whole, Ratio

LEMMA CrossoverTradable ==
    ASSUME NEW n, WindowOf(n), NEW s \in {1, -1}, NEW g \in ema_crossover(s)
    PROVE  Tradable(g)
  <1> DEFINE stop == Whole(Extreme(Last(window.candles), s))
             target == Away(Entry, s, RMul(Whole(2), RDist(Entry, stop)))
  <1>1. /\ Above(Entry, stop, s)
        /\ g \in _build_signal(Direction(s), Entry, stop, target)
    BY Zenon DEF ema_crossover
  <1>2. stop \in Ratio
    <2>1. n \in 1..n
      BY DEF WindowOf
    <2>2. Extreme(Last(window.candles), s) \in Int
      BY <2>1, LastCloseIsPrice, ExtremeIsInteger
    <2> QED BY <2>2, WholeIsRatio
  <1> HIDE DEF stop
  <1>3. Whole(2) \in Share /\ Whole(2)[1] > 0
    BY DEF Whole, Share
  <1> QED BY <1>1, <1>2, <1>3, LastCloseIsPrice, TargetAtMultiple

(* A stop at a multiple of the average range.                               *)
LEMMA BreakoutTradable ==
    ASSUME NEW n, WindowOf(n), n = WindowLength, Wicked(window.candles[n]),
           NEW s \in {1, -1}, NEW g \in breakout(s)
    PROVE  Tradable(g)
  <1> DEFINE d == _calculate_atr(window.candles)
             stop == Away(Entry, -s, d)
             target == Away(Entry, s, RMul(MinRRR, RDist(Entry, stop)))
  <1>1. g \in _build_signal(Direction(s), Entry, stop, target)
    BY Zenon DEF breakout
  <1>2. d \in Share /\ LastClose(window.candles[n].close)
    BY AtrOfWindow, LastCloseIsPrice
  <1>3. MinRRR \in Share /\ MinRRR[1] > 0
    BY RatioConstants
  <1> HIDE DEF d
  <1>4. /\ stop \in Ratio
        /\ RDist(Entry, stop) = d
        /\ RDist(Entry, stop)[1] # 0 => Above(Entry, stop, s)
    BY <1>2, StopAtDistance
  <1> HIDE DEF stop
  <1>5. target \in Ratio
    <2>1. RMul(MinRRR, RDist(Entry, stop)) \in Share
      BY <1>2, <1>3, <1>4, Shares
    <2>2. \E e \in Int : Entry = Whole(e)
      BY <1>2 DEF LastClose
    <2> QED BY <2>1, <2>2, AtDistance
  <1>6. Above(Entry, stop, s)
    <2> HIDE DEF target
    <2>1. RDist(Entry, stop)[1] # 0
      BY <1>1, <1>2, <1>4, <1>5, BuiltSignal
    <2> QED BY <1>4, <2>1
  <1> QED BY <1>1, <1>2, <1>3, <1>4, <1>6, TargetAtMultiple

(* Stop and target at given distances, which are positive.                  *)
LEMMA GivenDistances ==
    ASSUME NEW e, LastClose(e), NEW s \in {1, -1}, NEW d \in Share, d[1] > 0
    PROVE  LET stop == Away(Entry, -s, d)
           IN  /\ Above(Entry, stop, s)
               /\ Tradable(Signal(Direction(s), Entry, stop,
                                  Away(Entry, s, RMul(MinRRR, RDist(Entry, stop)))))
  <1> DEFINE stop == Away(Entry, -s, d)
             reward == RMul(MinRRR, RDist(Entry, stop))
             target == Away(Entry, s, reward)
  <1>1. Above(Entry, stop, s) /\ RDist(Entry, stop) = d
    BY StopAtDistance
  <1> HIDE DEF stop
  <1>2. reward \in Share /\ reward[1] > 0
    <2>1. MinRRR \in Share /\ MinRRR[1] > 0
      BY RatioConstants
    <2> QED BY <1>1, <2>1, Shares
  <1>3. Above(target, Entry, s) /\ RDist(target, Entry) = reward
    <2> HIDE DEF reward
    <2> QED BY <1>2, TargetAtDistance
  <1>4. RLeq(reward, reward)
    <2>1. reward[1] \in Int /\ reward[2] \in Int
      BY <1>2 DEF Share
    <2> HIDE DEF reward
    <2>2. reward[1] * reward[2] \in Int
      BY <2>1
    <2> QED BY <2>2 DEF RLeq
  <1>5. RLeq(RMul(MinRRR, RDist(Entry, stop)), RDist(target, Entry))
    BY <1>3, <1>4
  <1>6. Tradable(Signal(Direction(s), Entry, stop, target))
    <2> HIDE DEF target
    <2> QED BY <1>1, <1>3, <1>5, SignalOnItsSides
  <1> QED BY <1>1, <1>6 DEF stop

(* The squeeze strategy never raises: the last candle moved, so the average *)
(* range is not zero.                                                       *)
LEMMA SqueezeTradable ==
    ASSUME NEW n, WindowOf(n), n = WindowLength, Wicked(window.candles[n]),
           NEW s \in {1, -1}, NEW g \in bb_squeeze(s)
    PROVE  Tradable(g)
  <1> DEFINE closes == Closes(window.candles)
             m == Len(closes)
             d == RMul(Whole(2), _calculate_atr(window.candles))
             stop == Away(Entry, -s, d)
             target == Away(Entry, s, RMul(MinRRR, RDist(Entry, stop)))
  <1>1. /\ s * (closes[m] - closes[m - 1]) > 0
        /\ g \in IF ~Above(Entry, stop, s) THEN {Signal("ValueError", Entry, stop, Entry)}
                 ELSE {Signal(Direction(s), Entry, stop, target)}
    <2> HIDE DEF stop, target
    <2> QED BY Zenon DEF bb_squeeze, stop, target
  <1>2. n > 1 /\ n \in Nat
    <2>1. AtrPeriod \in Nat \ {0} /\ AtrPeriod < n
      BY StrategyAssumption
    <2> QED BY <2>1 DEF WindowOf
  <1>3. window.candles[n].close # window.candles[n - 1].close
    <2>1. n \in 1..n /\ n - 1 \in 1..n
      BY <1>2
    <2>2. /\ m = n
          /\ closes[n] = window.candles[n].close
          /\ closes[n - 1] = window.candles[n - 1].close
      BY <2>1, ClosesOfWindow
    <2>3. closes[n] \in Int
      BY <2>1, <2>2, CandleOfWindow
    <2> HIDE DEF closes, m
    <2> SUFFICES ASSUME closes[n] = closes[n - 1] PROVE FALSE
      BY <2>2
    <2>4. s * (closes[n] - closes[n - 1]) = 0
      BY <2>3
    <2> QED BY <1>1, <2>2, <2>4
  <1>4. d \in Share /\ d[1] > 0
    <2>1. /\ _calculate_atr(window.candles) \in Share
          /\ _calculate_atr(window.candles)[1] > 0
      BY <1>3, AtrOfWindow
    <2>2. Whole(2) \in Share /\ Whole(2)[1] > 0
      BY DEF Whole, Share
    <2> QED BY <2>1, <2>2, Shares
  <1> HIDE DEF d
  <1>5. Above(Entry, stop, s) /\ Tradable(Signal(Direction(s), Entry, stop, target))
    BY <1>4, LastCloseIsPrice, GivenDistances
  <1> HIDE DEF stop, target
  <1> QED BY <1>1, <1>5

LEMMA MomentumTradable ==
    ASSUME NEW n, WindowOf(n), n = WindowLength, Wicked(window.candles[n]),
           NEW g \in ts_momentum
    PROVE  Tradable(g)
  <1> DEFINE atr == _calculate_atr(window.candles)
             d == RMul(StopMultiple, atr)
             stop == Away(Entry, -1, d)
             target == Away(Entry, 1, RMul(MinRRR, RDist(Entry, stop)))
  <1>1. atr[1] > 0 /\ g = Signal("long", Entry, stop, target)
    BY DEF ts_momentum
  <1>2. d \in Share /\ d[1] > 0
    BY <1>1, AtrOfWindow, RatioConstants, Shares
  <1> HIDE DEF d
  <1>3. Tradable(Signal(Direction(1), Entry, stop, target))
    BY <1>2, LastCloseIsPrice, GivenDistances
  <1>4. Direction(1) = "long"
    BY DEF Direction
  <1> QED BY <1>1, <1>3, <1>4

(* A list of numbers has a least and a greatest one.                        *)
LEMMA LeastOfList ==
    ASSUME NEW k \in Nat \ {0}, NEW v \in [1..k -> Int]
    PROVE  \E i \in 1..k : \A j \in 1..k : v[i] <= v[j]
  <1> DEFINE Has(m) == \E i \in 1..m : \A j \in 1..m : v[i] <= v[j]
             Bad == {m \in 1..k : ~Has(m)}
  <1>1. k \in 1..k
    OBVIOUS
  <1> SUFFICES ASSUME Bad # {} PROVE FALSE
    BY <1>1
  <1>2. Bad \subseteq Nat
    OBVIOUS
  <1>3. PICK m \in Bad : \A j \in Bad : m <= j
    BY <1>2, LeastNumber
  <1>4. m # 1
    <2>1. Has(1)
      OBVIOUS
    <2> QED BY <1>3, <2>1
  <1>5. m - 1 \in 1..k /\ m \in 1..k /\ ~(m <= m - 1)
    BY <1>3, <1>4
  <1>6. Has(m - 1)
    BY <1>3, <1>5
  <1>7. PICK i \in 1..(m - 1) : \A j \in 1..(m - 1) : v[i] <= v[j]
    BY <1>6
  <1>8. \A j \in 1..m : j \in 1..(m - 1) \/ j = m
    BY <1>5
  <1>9. i \in 1..m /\ m \in 1..m /\ v[i] \in Int /\ v[m] \in Int
        /\ \A j \in 1..m : v[j] \in Int
    BY <1>5
  <1>10. CASE v[i] <= v[m]
    <2>1. \A j \in 1..m : v[i] <= v[j]
      BY <1>7, <1>8, <1>10
    <2> QED BY <1>3, <1>9, <2>1
  <1>11. CASE v[m] <= v[i]
    <2>1. \A j \in 1..m : v[m] <= v[j]
      BY SMTT(30), <1>7, <1>8, <1>9, <1>11
    <2> QED BY <1>3, <1>9, <2>1
  <1> QED BY <1>9, <1>10, <1>11

LEMMA ExtremesOfList ==
    ASSUME NEW k \in Nat \ {0}, NEW v \in [1..k -> Int]
    PROVE  /\ Min({v[i] : i \in 1..k}) \in Int
           /\ Max({v[i] : i \in 1..k}) \in Int
  <1> DEFINE S == {v[i] : i \in 1..k}
  <1>1. S \subseteq Int
    OBVIOUS
  <1>2. \E x \in S : \A y \in S : x <= y
    BY LeastOfList
  <1>3. \E x \in S : \A y \in S : x >= y
    <2> DEFINE w == [i \in 1..k |-> -v[i]]
    <2>1. w \in [1..k -> Int]
      OBVIOUS
    <2> HIDE DEF w
    <2>2. PICK i \in 1..k : \A j \in 1..k : w[i] <= w[j]
      BY <2>1, LeastOfList
    <2>3. \A j \in 1..k : w[j] = -v[j] /\ v[j] \in Int
      BY DEF w
    <2>4. \A j \in 1..k : v[i] >= v[j]
      BY <2>2, <2>3
    <2> QED BY <2>4
  <1> HIDE DEF S
  <1>4. Min(S) \in S /\ Max(S) \in S
    BY <1>2, <1>3 DEF Min, Max
  <1> QED BY <1>1, <1>4 DEF S

(* The last candles of a window.                                            *)
LEMMA LastCandles ==
    ASSUME NEW n, WindowOf(n), NEW many \in Nat \ {0}
    PROVE  LET last == LastOf(window.candles, many)
           IN  /\ Len(last) \in Nat \ {0}
               /\ DOMAIN last = 1..Len(last)
               /\ \A i \in 1..Len(last) :
                     last[i].high \in Int /\ last[i].low \in Int /\ last[i].close \in Int
  <1> DEFINE R == [close : Nat \ {0}, high : Int, low : Int]
             cs == window.candles
             from == Max({1, n - many + 1})
             last == SubSeq(cs, from, n)
  <1>1. cs \in Seq(R) /\ Len(cs) = n /\ n \in Nat \ {0}
    BY DEF WindowOf
  <1>2. from \in 1..n
    <2>1. n - many + 1 \in Int /\ n - many + 1 <= n /\ 1 \in Int
      BY <1>1
    <2>2. from \in {1, n - many + 1} /\ from >= 1
      BY <2>1, LargerOfTwo
    <2> HIDE DEF from
    <2> QED BY <1>1, <2>1, <2>2
  <1>3. LastOf(cs, many) = last
    BY <1>1 DEF LastOf
  <1> HIDE DEF from, cs, R
  <1>4. last \in Seq(R) /\ Len(last) = n - from + 1
    BY <1>1, <1>2
  <1> HIDE DEF last
  <1>5. /\ Len(last) \in Nat \ {0} /\ DOMAIN last = 1..Len(last)
        /\ \A i \in 1..Len(last) : last[i] \in R
    BY <1>1, <1>2, <1>4
  <1>6. \A c \in R : c.high \in Int /\ c.low \in Int /\ c.close \in Int
    BY DEF R
  <1> QED BY <1>3, <1>5, <1>6 DEF cs

LEMMA PullbackTradable ==
    ASSUME NEW n, WindowOf(n), n = WindowLength, Wicked(window.candles[n]),
           NEW s \in {1, -1}, NEW g \in ema_pullback(s)
    PROVE  Tradable(g)
  <1> DEFINE atr == _calculate_atr(window.candles)
             recent == LastOf(window.candles, 5)
             swing == IF s = 1 THEN Min({recent[i].low : i \in DOMAIN recent})
                               ELSE Max({recent[i].high : i \in DOMAIN recent})
             swing_stop == Away(Whole(swing), -s, RMul(Offset, Entry))
             atr_stop == Away(Entry, -s, RMul(StopMultiple, atr))
             stop == IF s = 1 THEN RMax(swing_stop, atr_stop) ELSE RMin(swing_stop, atr_stop)
             target == Away(Entry, s, RMul(TargetMultiple, RDist(Entry, stop)))
  <1>1. Above(Entry, stop, s) /\ g \in _build_signal(Direction(s), Entry, stop, target)
    BY Zenon DEF ema_pullback
  <1>2. atr \in Share /\ LastClose(window.candles[n].close)
    BY AtrOfWindow, LastCloseIsPrice
  <1>3. /\ StopMultiple \in Share /\ Offset \in Share
        /\ TargetMultiple \in Share /\ TargetMultiple[1] > 0
    BY RatioConstants
  <1>4. Entry \in Share /\ Entry = Whole(window.candles[n].close)
        /\ window.candles[n].close \in Int
    BY <1>2 DEF LastClose, Whole, Share
  <1>5. swing \in Int
    <2> DEFINE k == Len(recent)
               lows == [i \in 1..k |-> recent[i].low]
               highs == [i \in 1..k |-> recent[i].high]
    <2>1. /\ k \in Nat \ {0} /\ DOMAIN recent = 1..k
          /\ \A i \in 1..k : recent[i].high \in Int /\ recent[i].low \in Int
      BY LastCandles
    <2> HIDE DEF recent, k
    <2>2. lows \in [1..k -> Int] /\ highs \in [1..k -> Int]
      BY <2>1
    <2>3. /\ {recent[i].low : i \in DOMAIN recent} = {lows[i] : i \in 1..k}
          /\ {recent[i].high : i \in DOMAIN recent} = {highs[i] : i \in 1..k}
      BY <2>1
    <2> HIDE DEF lows, highs
    <2>4. Min({lows[i] : i \in 1..k}) \in Int /\ Max({highs[i] : i \in 1..k}) \in Int
      BY <2>1, <2>2, ExtremesOfList
    <2> QED BY <2>3, <2>4
  <1>6. -s \in {1, -1}
    OBVIOUS
  <1> HIDE DEF atr, swing
  <1>7. swing_stop \in Ratio
    <2>1. RMul(Offset, Entry) \in Share
      BY <1>3, <1>4, Shares
    <2> QED BY <1>5, <1>6, <2>1, AtDistance
  <1>8. atr_stop \in Ratio
    <2>1. RMul(StopMultiple, atr) \in Share
      BY <1>2, <1>3, Shares
    <2> QED BY <1>4, <1>6, <2>1, AtDistance
  <1> HIDE DEF swing_stop, atr_stop
  <1>9. stop \in Ratio
    BY <1>7, <1>8 DEF RMax, RMin
  <1> HIDE DEF stop
  <1> QED BY <1>1, <1>2, <1>3, <1>9, TargetAtMultiple

LEMMA AwayIsRatio ==
    ASSUME NEW a \in Ratio, NEW s \in Int, NEW d \in Ratio
    PROVE  Away(a, s, d) \in Ratio
  <1>1. Whole(s) \in Ratio
    BY WholeIsRatio
  <1>2. RMul(Whole(s), d) \in Ratio
    BY <1>1, Ratios
  <1> QED BY <1>2, Ratios DEF Away

(* The swing whose extreme is the stop is a candle of the window.           *)
LEMMA DivergenceTradable ==
    ASSUME NEW n, WindowOf(n), n = LongWindowLength,
           NEW s \in {1, -1}, NEW g \in _check_divergence(s)
    PROVE  Tradable(g)
  <1> DEFINE closes == Closes(window.candles)
             size == SwingLookback + 2 * SwingWing
             first == Len(closes) - size
             search == LastOf(closes, size)
             swings == _find_swings(search, s)
             i2 == Max(swings)
             extreme == Whole(Extreme(window.candles[first + i2], s))
             stop == Away(extreme, -s, RMul(Offset, extreme))
             target == Away(Entry, s, RMul(TargetMultiple, RDist(Entry, stop)))
  <1>1. /\ Cardinality(swings) >= 2
        /\ Above(Entry, stop, s)
        /\ g \in _build_signal(Direction(s), Entry, stop, target)
    BY Zenon DEF _check_divergence
  <1>2. /\ SwingWing \in Nat \ {0} /\ SwingLookback \in Nat
        /\ RsiPeriod \in Nat /\ RsiPeriod + SwingLookback + 2 * SwingWing <= n
    BY StrategyAssumption
  <1>3. n \in Nat \ {0} /\ closes \in Seq(Int) /\ Len(closes) = n
    BY ClosesOfWindow DEF WindowOf
  <1>4. size \in Nat \ {0} /\ size <= n
    BY <1>2, <1>3
  <1> HIDE DEF size, closes
  <1>5. Len(search) = size
    <2> DEFINE from == Max({1, n - size + 1})
    <2>1. n - size + 1 \in Int /\ 1 \in Int /\ n - size + 1 >= 1
      BY <1>3, <1>4
    <2>2. from \in {1, n - size + 1} /\ from >= n - size + 1
      BY <2>1, LargerOfTwo
    <2> HIDE DEF from
    <2>3. from = n - size + 1
      BY <2>1, <2>2
    <2>4. search = SubSeq(closes, from, n)
      BY <1>3 DEF LastOf, from
    <2> HIDE DEF search
    <2> QED BY <1>3, <1>4, <2>3, <2>4
  <1> HIDE DEF search
  <1>6. swings \subseteq 1..size
    <2>1. swings \subseteq (SwingWing + 1)..(size - SwingWing)
      BY <1>5 DEF _find_swings
    <2> HIDE DEF swings
    <2>2. \A i \in (SwingWing + 1)..(size - SwingWing) : i \in 1..size
      BY <1>2, <1>4
    <2> QED BY <2>1, <2>2
  <1> HIDE DEF swings
  <1>7. swings # {}
    <2> SUFFICES ASSUME swings = {} PROVE FALSE
      OBVIOUS
    <2>1. Cardinality(swings) >= 2
      BY <1>1
    <2>2. Cardinality({}) = 0
      BY FS_EmptySet
    <2> QED BY <2>1, <2>2
  <1>8. i2 \in 1..size
    BY <1>4, <1>6, <1>7, LastNumber
  <1> HIDE DEF i2
  <1>9. first + i2 \in 1..n
    BY <1>3, <1>4, <1>8
  <1> HIDE DEF first
  <1>10. extreme \in Ratio
    BY <1>9, ExtremeIsInteger, WholeIsRatio
  <1> HIDE DEF extreme
  <1>11. Offset \in Share /\ TargetMultiple \in Share /\ TargetMultiple[1] > 0
    BY RatioConstants
  <1>12. stop \in Ratio
    <2>1. RMul(Offset, extreme) \in Ratio
      BY <1>10, <1>11, ShareIsRatio, Ratios
    <2>2. -s \in Int
      OBVIOUS
    <2> QED BY <1>10, <2>1, <2>2, AwayIsRatio
  <1> HIDE DEF stop
  <1> QED BY <1>1, <1>11, <1>12, LastCloseIsPrice, TargetAtMultiple

(* The average price of the day, of which there are candles.                *)
LEMMA VwapIsRatio ==
    ASSUME NEW n, WindowOf(n), window.today >= MinDayCandles
    PROVE  _calculate_intraday_vwap \in Ratio
  <1> DEFINE cs == LastOf(window.candles, window.today)
             prices == [i \in DOMAIN cs |-> cs[i].high + cs[i].low + cs[i].close]
             k == Len(cs)
  <1>1. window.today \in Nat \ {0}
    <2>1. MinDayCandles \in Nat \ {0} /\ window.today \in Int
      BY StrategyAssumption DEF WindowOf
    <2> QED BY <2>1
  <1>2. /\ k \in Nat \ {0} /\ DOMAIN cs = 1..k
        /\ \A i \in 1..k : cs[i].high \in Int /\ cs[i].low \in Int /\ cs[i].close \in Int
    BY <1>1, LastCandles
  <1> HIDE DEF cs, k
  <1>3. prices \in Seq(Int)
    <2>1. \A i \in 1..k : cs[i].high + cs[i].low + cs[i].close \in Int
      BY <1>2
    <2>2. prices \in [1..k -> Int]
      BY <1>2, <2>1
    <2> HIDE DEF prices
    <2> QED BY <1>2, <2>2
  <1> HIDE DEF prices
  <1>4. SumSeq(prices) \in Int
    BY <1>3, RunningSum
  <1>5. _calculate_intraday_vwap = <<SumSeq(prices), 3 * k>>
    BY DEF _calculate_intraday_vwap, prices, cs, k
  <1> QED BY <1>2, <1>4, <1>5 DEF Ratio

LEMMA ReversionTradable ==
    ASSUME NEW n, WindowOf(n), n = WindowLength, Wicked(window.candles[n]),
           NEW s \in {1, -1}, NEW g \in vwap_reversion(s)
    PROVE  Tradable(g)
  <1> DEFINE d == RMul(ReversionStop, _calculate_atr(window.candles))
             stop == Away(Entry, -s, d)
             vwap == _calculate_intraday_vwap
  <1>1. Reverts(s, MinDeviation, 35, 65) /\ g \in _build_signal(Direction(s), Entry, stop, vwap)
    BY Zenon DEF vwap_reversion
  <1>2. window.today >= MinDayCandles /\ Above(vwap, Entry, s)
    BY <1>1 DEF Reverts
  <1>3. vwap \in Ratio
    BY <1>2, VwapIsRatio
  <1>4. d \in Share /\ LastClose(window.candles[n].close)
    BY AtrOfWindow, RatioConstants, Shares, LastCloseIsPrice
  <1> HIDE DEF d, vwap
  <1>5. /\ stop \in Ratio
        /\ RDist(Entry, stop)[1] # 0 => Above(Entry, stop, s)
    BY <1>4, StopAtDistance
  <1> HIDE DEF stop
  <1>6. /\ g = Signal(Direction(s), Entry, stop, vwap)
        /\ RDist(Entry, stop)[1] # 0
        /\ RLeq(RMul(MinRRR, RDist(Entry, stop)), RDist(vwap, Entry))
    BY <1>1, <1>3, <1>4, <1>5, BuiltSignal
  <1> QED BY <1>2, <1>5, <1>6, SignalOnItsSides

LEMMA ReversionV2Tradable ==
    ASSUME NEW n, WindowOf(n), n = WindowLength, Wicked(window.candles[n]),
           NEW s \in {1, -1}, NEW g \in vwap_reversion_v2(s)
    PROVE  Tradable(g)
  <1> DEFINE d == RMul(ReversionStop, _calculate_atr(window.candles))
             stop == Away(Entry, -s, d)
             worth == RMul(MinRRR, RDist(Entry, stop))
             costs == RMul(CostFraction, Entry)
             reward == RAdd(worth, costs)
             target == Away(Entry, s, reward)
  <1>1. g \in _build_signal(Direction(s), Entry, stop, target)
    BY Zenon DEF vwap_reversion_v2
  <1>2. d \in Share /\ LastClose(window.candles[n].close)
    BY AtrOfWindow, RatioConstants, Shares, LastCloseIsPrice
  <1>3. Entry \in Share /\ Entry = Whole(window.candles[n].close)
        /\ window.candles[n].close \in Int
    BY <1>2 DEF LastClose, Whole, Share
  <1>4. MinRRR \in Share /\ CostFraction \in Share /\ MinRRR[1] > 0
    BY RatioConstants
  <1> HIDE DEF d
  <1>5. /\ stop \in Ratio
        /\ RDist(Entry, stop) = d
        /\ RDist(Entry, stop)[1] # 0 => Above(Entry, stop, s) /\ d[1] > 0
    BY <1>2, StopAtDistance
  <1> HIDE DEF stop
  <1>6. worth \in Share /\ costs \in Share
    BY <1>2, <1>3, <1>4, <1>5, Shares
  <1> HIDE DEF costs
  <1>7. reward \in Share
    <2> HIDE DEF worth
    <2> QED BY <1>6, Shares
  <1>8. target \in Ratio
    <2> HIDE DEF reward
    <2> QED BY <1>3, <1>7, AtDistance
  <1>9. /\ g = Signal(Direction(s), Entry, stop, target)
        /\ RDist(Entry, stop)[1] # 0
        /\ RLeq(RMul(MinRRR, RDist(Entry, stop)), RDist(target, Entry))
    <2> HIDE DEF target
    <2> QED BY <1>1, <1>2, <1>5, <1>8, BuiltSignal
  <1>10. reward[1] > 0
    <2>1. worth[1] > 0
      BY <1>2, <1>4, <1>5, <1>9, Shares
    <2> HIDE DEF worth
    <2> QED BY <1>6, <2>1, Shares
  <1>11. Above(target, Entry, s)
    <2> HIDE DEF reward
    <2> QED BY <1>2, <1>7, <1>10, TargetAtDistance
  <1> HIDE DEF target
  <1> QED BY <1>5, <1>9, <1>11, SignalOnItsSides

-----------------------------------------------------------------------------
(* Long and short. *)

LEMMA NotBothSides ==
    ASSUME NEW a \in Ratio, NEW b \in Ratio
    PROVE  ~(Above(a, b, 1) /\ Above(a, b, -1))
  BY Distances DEF Above

(* The guard of a strategy in one direction excludes that in the other.     *)
LEMMA OneDirection ==
    ASSUME NEW n, WindowOf(n), n = WindowLength
    PROVE  /\ ema_crossover(1) = {} \/ ema_crossover(-1) = {}
           /\ breakout(1) = {} \/ breakout(-1) = {}
           /\ bb_squeeze(1) = {} \/ bb_squeeze(-1) = {}
           /\ ema_pullback(1) = {} \/ ema_pullback(-1) = {}
           /\ vwap_reversion(1) = {} \/ vwap_reversion(-1) = {}
           /\ vwap_reversion_v2(1) = {} \/ vwap_reversion_v2(-1) = {}
  <1> DEFINE closes == Closes(window.candles)
             fast == _calculate_ema(closes, FastPeriod)
             slow == _calculate_ema(closes, SlowPeriod)
             vwap == _calculate_intraday_vwap
  <1>1. fast \in Ratio /\ slow \in Ratio
    BY EmaOfCloses
  <1>2. Entry \in Ratio
    BY LastCloseIsPrice DEF LastClose, Whole, Ratio
  <1>3. ema_crossover(1) = {} \/ ema_crossover(-1) = {}
    <2>1. \A s : ema_crossover(s) # {} => Above(fast, slow, s)
      BY Zenon DEF ema_crossover
    <2> HIDE DEF fast, slow
    <2> QED BY <1>1, <2>1, NotBothSides
  <1>4. breakout(1) = {} \/ breakout(-1) = {}
    <2>1. \A s : breakout(s) # {} => Above(Entry, slow, s)
      BY Zenon DEF breakout
    <2> HIDE DEF slow
    <2> QED BY <1>1, <1>2, <2>1, NotBothSides
  <1>5. bb_squeeze(1) = {} \/ bb_squeeze(-1) = {}
    <2> DEFINE m == Len(closes)
    <2>1. \A s : bb_squeeze(s) # {} => s * (closes[m] - closes[m - 1]) > 0
      BY Zenon DEF bb_squeeze
    <2>2. closes[m] \in Int /\ closes[m - 1] \in Int
      <3>1. AtrPeriod \in Nat \ {0} /\ AtrPeriod < n /\ n \in Nat
        BY StrategyAssumption DEF WindowOf
      <3>2. closes \in Seq(Int) /\ m = n
        BY ClosesOfWindow
      <3>3. m \in 1..m /\ m - 1 \in 1..m
        BY <3>1, <3>2
      <3> HIDE DEF closes
      <3> QED BY <3>2, <3>3
    <2> HIDE DEF closes, m
    <2>3. ~(1 * (closes[m] - closes[m - 1]) > 0 /\ (-1) * (closes[m] - closes[m - 1]) > 0)
      BY <2>2
    <2> QED BY <2>1, <2>3
  <1>6. ema_pullback(1) = {} \/ ema_pullback(-1) = {}
    <2>1. \A s : ema_pullback(s) # {} => Above(fast, slow, s)
      BY Zenon DEF ema_pullback
    <2> HIDE DEF fast, slow
    <2> QED BY <1>1, <2>1, NotBothSides
  <1>7. ASSUME NEW s, NEW a, NEW b, NEW c, Reverts(s, a, b, c)
        PROVE  Above(vwap, Entry, s) /\ vwap \in Ratio
    <2>1. window.today >= MinDayCandles /\ Above(vwap, Entry, s)
      BY <1>7 DEF Reverts
    <2> QED BY <2>1, VwapIsRatio
  <1>8. vwap_reversion(1) = {} \/ vwap_reversion(-1) = {}
    <2>1. \A s : vwap_reversion(s) # {} => Reverts(s, MinDeviation, 35, 65)
      BY Zenon DEF vwap_reversion
    <2> HIDE DEF vwap
    <2> QED BY <1>2, <1>7, <2>1, NotBothSides
  <1>9. vwap_reversion_v2(1) = {} \/ vwap_reversion_v2(-1) = {}
    <2>1. \A s : vwap_reversion_v2(s) # {} => Reverts(s, MinDeviation, RsiLong, RsiShort)
      BY Zenon DEF vwap_reversion_v2
    <2> HIDE DEF vwap
    <2> QED BY <1>2, <1>7, <2>1, NotBothSides
  <1> QED BY <1>3, <1>4, <1>5, <1>6, <1>8, <1>9

(* SignalsAreTradable: of the signals of all strategies, entry, stop and    *)
(* target lie as the direction says, the reward is worth the risk, and no   *)
(* window raises; six strategies are never for both directions at once,     *)
(* and rsi_divergence, which may be, gives the bullish signal then, for all *)
(* candles that a window may hold and all settings.                         *)
THEOREM SignalsTradable == StrategyInit => SignalsAreTradable
  <1> SUFFICES ASSUME StrategyInit PROVE SignalsAreTradable
    OBVIOUS
  <1> DEFINE n == Len(window.candles)
  <1>1. /\ WindowOf(n)
        /\ n \in {WindowLength, LongWindowLength}
        /\ Wicked(window.candles[n])
    <2>1. WindowOf(n) /\ n \in {WindowLength, LongWindowLength}
          /\ \A i \in 1..n : Wicked(window.candles[i])
      BY WindowsAreSequences
    <2>2. n \in 1..n
      BY <2>1 DEF WindowOf
    <2> HIDE DEF n
    <2> QED BY <2>1, <2>2
  <1> HIDE DEF n
  <1>2. ASSUME NEW g \in Signals PROVE Tradable(g)
    <2>1. CASE n = WindowLength
      <3>1. \/ g \in ts_momentum
            \/ \E s \in {1, -1} :
                  \/ g \in ema_crossover(s)
                  \/ g \in breakout(s)
                  \/ g \in bb_squeeze(s)
                  \/ g \in ema_pullback(s)
                  \/ g \in vwap_reversion(s)
                  \/ g \in vwap_reversion_v2(s)
        <4> DEFINE Of(s) == ema_crossover(s) \cup breakout(s) \cup bb_squeeze(s)
                              \cup ema_pullback(s) \cup vwap_reversion(s) \cup vwap_reversion_v2(s)
        <4>1. Signals = ts_momentum \cup UNION {Of(s) : s \in {1, -1}}
          BY <2>1 DEF Signals, n
        <4> HIDE DEF Of
        <4>2. g \in UNION {Of(s) : s \in {1, -1}} \/ g \in ts_momentum
          BY <4>1, Zenon
        <4>3. g \in ts_momentum \/ \E s \in {1, -1} : g \in Of(s)
          BY <4>2, Zenon
        <4> QED BY <4>3, Zenon DEF Of
      <3>2. ASSUME NEW s \in {1, -1}
            PROVE  /\ g \in ema_crossover(s) => Tradable(g)
                   /\ g \in breakout(s) => Tradable(g)
                   /\ g \in bb_squeeze(s) => Tradable(g)
                   /\ g \in ema_pullback(s) => Tradable(g)
                   /\ g \in vwap_reversion(s) => Tradable(g)
                   /\ g \in vwap_reversion_v2(s) => Tradable(g)
        BY <1>1, <2>1, CrossoverTradable, BreakoutTradable, SqueezeTradable, PullbackTradable,
           ReversionTradable, ReversionV2Tradable
      <3>3. g \in ts_momentum => Tradable(g)
        BY <1>1, <2>1, MomentumTradable
      <3> QED BY <3>1, <3>2, <3>3
    <2>2. CASE n # WindowLength
      <3>1. n = LongWindowLength
        BY <1>1, <2>2
      <3>2. \E s \in {1, -1} : g \in _check_divergence(s)
        <4>1. g \in rsi_divergence
          BY <2>2, <3>1 DEF Signals, n
        <4>2. g \in _check_divergence(1) \/ g \in _check_divergence(-1)
          BY <4>1, Zenon DEF rsi_divergence
        <4> QED BY <4>2
      <3> QED BY <1>1, <3>1, <3>2, DivergenceTradable
    <2> QED BY <2>1, <2>2
  <1>3. n = WindowLength =>
           /\ ema_crossover(1) = {} \/ ema_crossover(-1) = {}
           /\ breakout(1) = {} \/ breakout(-1) = {}
           /\ bb_squeeze(1) = {} \/ bb_squeeze(-1) = {}
           /\ ema_pullback(1) = {} \/ ema_pullback(-1) = {}
           /\ vwap_reversion(1) = {} \/ vwap_reversion(-1) = {}
           /\ vwap_reversion_v2(1) = {} \/ vwap_reversion_v2(-1) = {}
    BY <1>1, OneDirection
  <1>4. n = LongWindowLength =>
           \A s \in _check_divergence(-1) : s \in Signals \/ _check_divergence(1) # {}
    <2> SUFFICES ASSUME n = LongWindowLength, NEW s \in _check_divergence(-1),
                        _check_divergence(1) = {}
                 PROVE  s \in Signals
      OBVIOUS
    <2>1. s \in rsi_divergence
      BY Zenon DEF rsi_divergence
    <2>2. LongWindowLength # WindowLength
      BY StrategyAssumption
    <2> QED BY <2>1, <2>2 DEF Signals, n
  <1> QED BY <1>2, <1>3, <1>4 DEF SignalsAreTradable, Tradable, n

-----------------------------------------------------------------------------
(* The metrics of the gate. *)

(* R[k] is the total of the first k numbers of a list.                      *)
Runs(R, p) ==
    /\ R \in [0..Len(p) -> Int]
    /\ R[0] = 0
    /\ \A k \in 1..Len(p) : R[k] = R[k - 1] + p[k]

(* Two such functions agree as far as their lists do.                       *)
LEMMA RunsAgree ==
    ASSUME NEW p \in Seq(Int), NEW q \in Seq(Int), NEW R, Runs(R, p), NEW T, Runs(T, q),
           NEW m \in 0..Len(p), m <= Len(q), \A k \in 1..m : p[k] = q[k]
    PROVE  R[m] = T[m]
  <1> DEFINE Bad == {k \in 0..m : R[k] # T[k]}
  <1> SUFFICES ASSUME Bad # {} PROVE FALSE
    OBVIOUS
  <1>1. Len(p) \in Nat /\ Len(q) \in Nat /\ m \in Nat
    OBVIOUS
  <1>2. Bad \subseteq Nat
    OBVIOUS
  <1>3. PICK k \in Bad : \A j \in Bad : k <= j
    BY <1>2, LeastNumber
  <1>4. k # 0
    BY <1>3 DEF Runs
  <1>5. k \in 1..m /\ k - 1 \in 0..m /\ ~(k <= k - 1) /\ k \in 1..Len(p) /\ k \in 1..Len(q)
    BY <1>1, <1>3, <1>4
  <1>6. R[k - 1] = T[k - 1]
    BY <1>3, <1>5
  <1>7. R[k] = R[k - 1] + p[k] /\ T[k] = T[k - 1] + q[k] /\ p[k] = q[k]
    BY <1>5 DEF Runs
  <1> QED BY <1>3, <1>6, <1>7

LEMMA RunsExist ==
    ASSUME NEW p \in Seq(Int)
    PROVE  \E R : Runs(R, p) /\ R[Len(p)] = Total(p)
  <1>1. PICK R \in [0..Len(p) -> Int] : /\ R[0] = 0
                                       /\ \A k \in 1..Len(p) : R[k] = R[k - 1] + p[k]
                                       /\ R[Len(p)] = Total(p)
    BY RunningTotal
  <1>2. Runs(R, p)
    BY <1>1 DEF Runs
  <1>3. R[Len(p)] = Total(p)
    BY <1>1
  <1> QED BY <1>2, <1>3, Zenon

LEMMA TotalOfRuns ==
    ASSUME NEW p \in Seq(Int), NEW R, Runs(R, p), NEW m \in 0..Len(p)
    PROVE  R[m] = Total(SubSeq(p, 1, m))
  <1> DEFINE q == SubSeq(p, 1, m)
  <1>1. q \in Seq(Int) /\ Len(q) = m /\ \A k \in 1..m : q[k] = p[k]
    OBVIOUS
  <1> HIDE DEF q
  <1>2. PICK T : Runs(T, q) /\ T[m] = Total(q)
    BY <1>1, RunsExist
  <1>3. R[m] = T[m]
    BY <1>1, <1>2, RunsAgree
  <1> QED BY <1>2, <1>3 DEF q

(* A total is that of the whole list.                                       *)
LEMMA TotalIs ==
    ASSUME NEW p \in Seq(Int), NEW R, Runs(R, p)
    PROVE  R[Len(p)] = Total(p) /\ Total(p) \in Int
  <1>1. PICK T : Runs(T, p) /\ T[Len(p)] = Total(p)
    BY RunsExist
  <1>2. Len(p) \in 0..Len(p) /\ Len(p) <= Len(p)
    OBVIOUS
  <1>3. R[Len(p)] = T[Len(p)]
    BY <1>1, <1>2, RunsAgree
  <1>4. R[Len(p)] \in Int
    BY <1>2 DEF Runs
  <1> QED BY <1>1, <1>3, <1>4

(* The deepest fall between two moments, of which it is one.                *)
Deepest(d, R, n) ==
    /\ d \in Int
    /\ \E i, j \in 0..n : i <= j /\ d = R[i] - R[j]
    /\ \A i, j \in 0..n : i <= j => R[i] - R[j] <= d

Highest(h, R, n) ==
    /\ h \in Int
    /\ \E i \in 0..n : h = R[i]
    /\ \A i \in 0..n : R[i] <= h

(* One step of calculate_max_drawdown.                                      *)
Falls(c, pnl) ==
    LET equity == c.equity + pnl
        peak   == Max({c.peak, equity})
    IN  [equity |-> equity, peak |-> peak, worst |-> Max({c.worst, peak - equity})]

Curve == [equity : Int, peak : Int, worst : Int]

CurveOf(c, R, n) == c.equity = R[n] /\ Highest(c.peak, R, n) /\ Deepest(c.worst, R, n)

LEMMA FallsKeep ==
    ASSUME NEW c \in Curve, NEW pnl \in Int
    PROVE  /\ Falls(c, pnl) \in Curve
           /\ \A R, n : /\ n \in Nat /\ R[n + 1] = R[n] + pnl /\ CurveOf(c, R, n)
                        /\ \A i \in 0..(n + 1) : R[i] \in Int
                        => CurveOf(Falls(c, pnl), R, n + 1)
  <1> DEFINE e == c.equity + pnl
             h == Max({c.peak, e})
             w == Max({c.worst, h - e})
  <1>1. c.equity \in Int /\ c.peak \in Int /\ c.worst \in Int
    BY DEF Curve
  <1>2. e \in Int
    BY <1>1
  <1>3. h \in {c.peak, e} /\ h >= c.peak /\ h >= e
    BY <1>1, <1>2, LargerOfTwo
  <1>4. h \in Int /\ h - e \in Int
    BY <1>1, <1>2, <1>3
  <1>5. w \in {c.worst, h - e} /\ w >= c.worst /\ w >= h - e
    BY <1>1, <1>4, LargerOfTwo
  <1>6. w \in Int
    BY <1>1, <1>4, <1>5
  <1>7. Falls(c, pnl) = [equity |-> e, peak |-> h, worst |-> w]
    BY DEF Falls
  <1> HIDE DEF w, h
  <1>8. Falls(c, pnl) \in Curve
    BY <1>2, <1>4, <1>6, <1>7 DEF Curve
  <1>9. ASSUME NEW R, NEW n, n \in Nat, \A i \in 0..(n + 1) : R[i] \in Int,
               R[n + 1] = R[n] + pnl, CurveOf(c, R, n)
        PROVE  CurveOf(Falls(c, pnl), R, n + 1)
    <2>1. e = R[n + 1]
      BY <1>9 DEF CurveOf
    <2> HIDE DEF e
    <2>2. /\ \A i \in 0..(n + 1) : i \in 0..n \/ i = n + 1
          /\ \A i \in 0..n : i \in 0..(n + 1) /\ i <= n + 1
          /\ n + 1 \in 0..(n + 1) /\ n + 1 <= n + 1
          /\ \A i \in 0..(n + 1) : R[i] \in Int
          /\ \A i \in 0..n : ~(n + 1 <= i)
      BY <1>9
    <2>3. Highest(c.peak, R, n) /\ Deepest(c.worst, R, n)
      BY <1>9 DEF CurveOf
    <2>4. Highest(h, R, n + 1)
      <3>1. \E i \in 0..(n + 1) : h = R[i]
        BY <1>3, <2>1, <2>2, <2>3 DEF Highest
      <3>2. ASSUME NEW i \in 0..(n + 1) PROVE R[i] <= h
        <4>1. CASE i = n + 1
          BY <1>2, <1>3, <1>4, <2>1, <4>1
        <4>2. CASE i \in 0..n
          <5>1. R[i] <= c.peak /\ R[i] \in Int
            BY <2>2, <2>3, <4>2 DEF Highest
          <5> QED BY <1>1, <1>3, <1>4, <5>1
        <4> QED BY <2>2, <4>1, <4>2
      <3> QED BY <1>4, <3>1, <3>2 DEF Highest
    <2>5. Deepest(w, R, n + 1)
      <3>1. \E i, j \in 0..(n + 1) : i <= j /\ w = R[i] - R[j]
        <4>1. CASE w = c.worst
          BY <2>2, <2>3, <4>1 DEF Deepest
        <4>2. CASE w = h - e
          <5>1. PICK i \in 0..(n + 1) : h = R[i]
            BY <2>4 DEF Highest
          <5>2. i <= n + 1
            BY <1>9
          <5> QED BY <2>1, <2>2, <4>2, <5>1, <5>2
        <4> QED BY <1>5, <4>1, <4>2
      <3>2. ASSUME NEW i \in 0..(n + 1), NEW j \in 0..(n + 1), i <= j
            PROVE  R[i] - R[j] <= w
        <4>0. R[i] \in Int /\ R[j] \in Int
          BY <2>2
        <4>1. CASE j = n + 1
          <5>1. R[i] <= h
            BY <2>4 DEF Highest
          <5> QED BY <1>2, <1>4, <1>5, <1>6, <2>1, <4>0, <4>1, <5>1
        <4>2. CASE j \in 0..n
          <5>1. i \in 0..n
            BY <2>2, <3>2, <4>2
          <5>2. R[i] - R[j] <= c.worst
            BY <2>3, <3>2, <4>2, <5>1 DEF Deepest
          <5> QED BY <1>1, <1>5, <1>6, <4>0, <5>2
        <4> QED BY <2>2, <4>1, <4>2
      <3> QED BY <1>6, <3>1, <3>2 DEF Deepest
    <2> QED BY <1>7, <2>1, <2>4, <2>5 DEF CurveOf
  <1> QED BY <1>8, <1>9

LEMMA DrawdownIsDeepest ==
    ASSUME NEW p \in Seq(Int), NEW R, Runs(R, p)
    PROVE  Deepest(calculate_max_drawdown(p), R, Len(p))
  <1> DEFINE n == Len(p)
             base == [equity |-> 0, peak |-> 0, worst |-> 0]
             act == [a \in (1..n) \X Curve |-> Falls(a[2], p[a[1]])]
             Def(it) == it = [t \in SUBSET DOMAIN p |->
                                IF t = {} THEN base
                                ELSE LET x == Max(t) IN Falls(it[t \ {x}], p[x])]
             iter == CHOOSE it : Def(it)
  <1>1. n \in Nat /\ DOMAIN p = 1..n /\ (\A k \in 1..n : p[k] \in Int) /\ base \in Curve
    BY DEF Curve
  <1>2. \A k \in 1..n : \A c \in Curve : Falls(c, p[k]) \in Curve
    BY <1>1, FallsKeep
  <1> HIDE DEF n, base
  <1>3. act \in [(1..n) \X Curve -> Curve]
    BY <1>2
  <1>4. \A k \in 1..n : \A c \in Curve : act[<<k, c>>] = Falls(c, p[k])
    OBVIOUS
  <1>5. \A u \in SUBSET (1..n) : u # {} => Max(u) \in 1..n /\ u \ {Max(u)} \in SUBSET (1..n)
    BY <1>1, LastNumber
  <1> HIDE DEF act
  <1>6. PICK it : FoldsTo(it, n, Curve, base, act)
    BY <1>1, <1>3, FoldExists
  <1>7. Def(it)
    <2>1. \A u \in SUBSET (1..n) : u # {} => it[u] = Falls(it[u \ {Max(u)}], p[Max(u)])
      BY <1>4, <1>5, <1>6 DEF FoldsTo
    <2>2. it = [u \in SUBSET (1..n) |-> it[u]] /\ it[{}] = base
      BY <1>6 DEF FoldsTo
    <2> QED BY <1>1, <2>1, <2>2, Zenon
  <1>8. Def(iter)
    <2> HIDE DEF Def
    <2> QED BY <1>7
  <1>9. calculate_max_drawdown(p) = iter[DOMAIN p].worst
    BY DEF calculate_max_drawdown, FoldLeft, MapThenFoldSet, Falls, base
  <1> HIDE DEF iter
  <1>10. Unfolds(iter, n, Curve, base, act)
    <2>1. iter[{}] = base
      BY <1>8
    <2>2. \A u \in SUBSET (1..n) : u # {} => iter[u] = Falls(iter[u \ {Max(u)}], p[Max(u)])
      BY <1>1, <1>8
    <2> QED BY <1>4, <1>5, <2>1, <2>2 DEF Unfolds
  <1>11. PICK h : Steps(h, n, Curve, base, act) /\ h[n] = iter[1..n]
    <2>1. Reaches(iter, n, Curve, base, act)
      BY <1>1, <1>3, <1>10, FoldSteps
    <2> QED BY <2>1 DEF Reaches
  <1>12. /\ R[0] = 0 /\ (\A i \in 0..n : R[i] \in Int)
         /\ \A k \in 1..n : R[k] = R[k - 1] + p[k]
    BY <1>1 DEF Runs, n
  <1>13. \A k \in 0..n : CurveOf(h[k], R, k)
    <2> DEFINE Bad == {k \in 0..n : ~CurveOf(h[k], R, k)}
    <2> SUFFICES ASSUME Bad # {} PROVE FALSE
      OBVIOUS
    <2>1. Bad \subseteq Nat
      BY <1>1
    <2>2. PICK k \in Bad : \A j \in Bad : k <= j
      BY <2>1, LeastNumber
    <2>3. k # 0
      <3>1. h[0] = base
        BY <1>11 DEF Steps
      <3>2. \A i \in 0..0 : i = 0
        OBVIOUS
      <3>3. h[0].equity = 0 /\ h[0].peak = 0 /\ h[0].worst = 0 /\ R[0] = 0 /\ 0 \in 0..0
        BY <1>12, <3>1 DEF base
      <3>4. Highest(0, R, 0)
        BY <3>2, <3>3 DEF Highest
      <3>5. Deepest(0, R, 0)
        <4>1. \A i, j \in 0..0 : R[i] - R[j] = 0
          BY <3>2, <3>3
        <4> QED BY <3>2, <3>3, <4>1 DEF Deepest
      <3> QED BY <2>2, <3>3, <3>4, <3>5 DEF CurveOf
    <2>4. k \in 1..n /\ k - 1 \in 0..n /\ ~(k <= k - 1) /\ k - 1 \in Nat /\ (k - 1) + 1 = k
      BY <1>1, <2>2, <2>3
    <2>5. CurveOf(h[k - 1], R, k - 1)
      BY <2>2, <2>4
    <2>6. h[k - 1] \in Curve /\ h[k] = Falls(h[k - 1], p[k])
      BY <1>4, <1>11, <2>4 DEF Steps
    <2>7. \A i \in 0..k : R[i] \in Int
      BY <1>1, <1>12, <2>4
    <2> DEFINE m == k - 1
    <2>8. /\ m \in Nat /\ R[m + 1] = R[m] + p[k] /\ CurveOf(h[m], R, m) /\ h[m] \in Curve
          /\ (\A i \in 0..(m + 1) : R[i] \in Int) /\ p[k] \in Int
      BY <1>1, <1>12, <2>4, <2>5, <2>6, <2>7
    <2> HIDE DEF m
    <2>9. CurveOf(Falls(h[m], p[k]), R, m + 1)
      BY <2>8, FallsKeep
    <2>10. CurveOf(h[k], R, k)
      BY <2>4, <2>6, <2>9 DEF m
    <2> QED BY <2>2, <2>10
  <1>14. n \in 0..n /\ Deepest(h[n].worst, R, n)
    BY <1>1, <1>13 DEF CurveOf
  <1> QED BY <1>1, <1>9, <1>11, <1>14 DEF n

(* h[k] is what is left of the first k elements of a list.                  *)
Sifts(h, s, K, A) ==
    /\ h \in [0..Len(s) -> Seq(A)]
    /\ h[0] = <<>>
    /\ \A k \in 1..Len(s) : h[k] = IF s[k] \in K THEN Append(h[k - 1], s[k]) ELSE h[k - 1]

LEMMA OnlySifts ==
    ASSUME NEW A, NEW s \in Seq(A), NEW K
    PROVE  \E h : Sifts(h, s, K, A) /\ h[Len(s)] = Only(s, K)
  <1> DEFINE n == Len(s)
             V == Seq(A)
             Sift(t, x) == IF x \in K THEN Append(t, x) ELSE t
             act == [a \in (1..n) \X V |-> Sift(a[2], s[a[1]])]
             Def(it) == it = [t \in SUBSET DOMAIN s |->
                                IF t = {} THEN <<>>
                                ELSE LET x == Max(t) IN Sift(it[t \ {x}], s[x])]
             iter == CHOOSE it : Def(it)
  <1>1. DOMAIN s = 1..n /\ n \in Nat /\ (\A i \in 1..n : s[i] \in A) /\ <<>> \in V
    OBVIOUS
  <1>2. \A x \in A : \A t \in V : Sift(t, x) \in V
    OBVIOUS
  <1> HIDE DEF n, V
  <1>3. act \in [(1..n) \X V -> V]
    <2>1. \A a \in (1..n) \X V : Sift(a[2], s[a[1]]) \in V
      <3> HIDE DEF Sift
      <3> QED BY <1>1, <1>2
    <2> HIDE DEF Sift
    <2> QED BY <2>1
  <1>4. \A k \in 1..n : \A v \in V : act[<<k, v>>] = Sift(v, s[k])
    <2> HIDE DEF Sift
    <2> QED OBVIOUS
  <1>5. \A t \in SUBSET (1..n) : t # {} => Max(t) \in 1..n /\ t \ {Max(t)} \in SUBSET (1..n)
    BY <1>1, LastNumber
  <1> HIDE DEF act
  <1>6. PICK it : FoldsTo(it, n, V, <<>>, act)
    BY <1>1, <1>3, FoldExists
  <1>7. Def(it)
    <2> HIDE DEF Sift
    <2>1. \A t \in SUBSET (1..n) : t # {} => it[t] = Sift(it[t \ {Max(t)}], s[Max(t)])
      BY <1>4, <1>5, <1>6 DEF FoldsTo
    <2>2. it = [t \in SUBSET (1..n) |-> it[t]] /\ it[{}] = <<>>
      BY <1>6 DEF FoldsTo
    <2> QED BY <1>1, <2>1, <2>2, Zenon
  <1>8. Def(iter)
    <2> HIDE DEF Def
    <2> QED BY <1>7
  <1>9. Only(s, K) = iter[DOMAIN s]
    BY DEF Only, FoldLeft, MapThenFoldSet
  <1> HIDE DEF iter
  <1>10. Unfolds(iter, n, V, <<>>, act)
    <2> HIDE DEF Sift
    <2>1. iter[{}] = <<>>
      BY <1>8
    <2>2. \A t \in SUBSET (1..n) : t # {} => iter[t] = Sift(iter[t \ {Max(t)}], s[Max(t)])
      BY <1>1, <1>8
    <2> QED BY <1>4, <1>5, <2>1, <2>2 DEF Unfolds
  <1>11. PICK h : Steps(h, n, V, <<>>, act) /\ h[n] = iter[1..n]
    <2>1. Reaches(iter, n, V, <<>>, act)
      BY <1>1, <1>3, <1>10, FoldSteps
    <2> QED BY <2>1 DEF Reaches
  <1>12. \A k \in 1..n : h[k] = Sift(h[k - 1], s[k])
    <2> HIDE DEF Sift
    <2>1. \A k \in 1..n : k - 1 \in 0..n
      BY <1>1
    <2> QED BY <1>4, <1>11, <2>1 DEF Steps
  <1>13. Sifts(h, s, K, A) /\ h[n] = Only(s, K)
    BY <1>1, <1>9, <1>11, <1>12 DEF Sifts, Steps, n, V
  <1> QED BY <1>13 DEF n

(* The list u is the list s with e put before its position j.               *)
Inserted(u, s, j, e) ==
    /\ j \in 1..(Len(s) + 1) /\ Len(u) = Len(s) + 1
    /\ u[j] = e
    /\ \A i \in 1..Len(s) : (i < j => u[i] = s[i]) /\ (i >= j => u[i + 1] = s[i])

LEMMA InsertAtInserts ==
    ASSUME NEW A, NEW s \in Seq(A), NEW e \in A, NEW at \in 1..(Len(s) + 1)
    PROVE  InsertAt(s, at, e) \in Seq(A) /\ Inserted(InsertAt(s, at, e), s, at, e)
  <1> DEFINE n == Len(s)
             a == SubSeq(s, 1, at - 1)
             b == <<e>>
             c == SubSeq(s, at, n)
             ab == a \o b
             u == ab \o c
  <1>1. n \in Nat /\ at \in Int /\ at >= 1 /\ at <= n + 1 /\ \A i \in 1..n : s[i] \in A
    OBVIOUS
  <1>2. a \in Seq(A) /\ Len(a) = at - 1 /\ \A i \in 1..(at - 1) : a[i] = s[i]
    BY <1>1
  <1>3. c \in Seq(A) /\ Len(c) = n - at + 1 /\ \A i \in 1..(n - at + 1) : c[i] = s[at + i - 1]
    BY <1>1
  <1>4. b \in Seq(A) /\ Len(b) = 1 /\ b[1] = e
    OBVIOUS
  <1> HIDE DEF a, b, c, n
  <1>5. ab \in Seq(A) /\ Len(ab) = at /\ ab[at] = e /\ \A i \in 1..(at - 1) : ab[i] = s[i]
    <2>1. /\ ab \in Seq(A) /\ Len(ab) = Len(a) + Len(b)
          /\ \A i \in 1..Len(a) : ab[i] = a[i]
          /\ \A i \in 1..Len(b) : ab[Len(a) + i] = b[i]
      <3>1. a \in Seq(A) /\ b \in Seq(A)
        BY <1>2, <1>4
      <3> QED BY ONLY <3>1
    <2>2. Len(a) + Len(b) = at /\ Len(a) + 1 = at /\ 1 \in 1..Len(b)
      BY <1>1, <1>2, <1>4
    <2> QED BY <1>2, <1>4, <2>1, <2>2
  <1> HIDE DEF ab
  <1>6. /\ u \in Seq(A) /\ Len(u) = n + 1
        /\ \A i \in 1..at : u[i] = ab[i]
        /\ \A i \in 1..(n - at + 1) : u[at + i] = c[i]
    BY <1>1, <1>3, <1>5
  <1>7. InsertAt(s, at, e) = u
    BY DEF InsertAt, ab, a, b, c, n
  <1> HIDE DEF u
  <1>8. \A i \in 1..n : (i < at => u[i] = s[i]) /\ (i >= at => u[i + 1] = s[i])
    <2> SUFFICES ASSUME NEW i \in 1..n PROVE (i < at => u[i] = s[i]) /\ (i >= at => u[i + 1] = s[i])
      OBVIOUS
    <2>1. CASE i < at
      <3>1. i \in 1..at /\ i \in 1..(at - 1)
        BY <1>1, <2>1
      <3> QED BY <1>1, <1>5, <1>6, <2>1, <3>1
    <2>2. CASE i >= at
      <3>1. i - at + 1 \in 1..(n - at + 1) /\ at + (i - at + 1) = i + 1
            /\ at + (i - at + 1) - 1 = i
        BY <1>1, <2>2
      <3>2. u[i + 1] = c[i - at + 1] /\ c[i - at + 1] = s[i]
        BY <1>3, <1>6, <3>1
      <3> QED BY <1>1, <2>2, <3>2
    <2> QED BY <1>1, <2>1, <2>2
  <1>9. u[at] = e
    BY <1>1, <1>5, <1>6
  <1> QED BY <1>1, <1>6, <1>7, <1>8, <1>9 DEF Inserted, n

(* It may be longer.                                                        *)
LEMMA InsertedLonger ==
    ASSUME NEW A, NEW s \in Seq(A), NEW u \in Seq(A), NEW j, NEW e, NEW x \in A,
           Inserted(u, s, j, e)
    PROVE  Inserted(Append(u, x), Append(s, x), j, e)
  <1> DEFINE n == Len(s)
             us == Append(u, x)
             ss == Append(s, x)
  <1>1. /\ n \in Nat /\ Len(u) = n + 1 /\ j \in 1..(n + 1) /\ u[j] = e
        /\ \A i \in 1..n : (i < j => u[i] = s[i]) /\ (i >= j => u[i + 1] = s[i])
    BY DEF Inserted
  <1>2. /\ Len(us) = n + 2 /\ Len(ss) = n + 1 /\ us[n + 2] = x /\ ss[n + 1] = x
        /\ \A i \in 1..(n + 1) : us[i] = u[i]
        /\ \A i \in 1..n : ss[i] = s[i]
    BY <1>1
  <1> HIDE DEF us, ss, n
  <1>3. us[j] = e /\ j \in 1..(n + 2)
    BY <1>1, <1>2
  <1>4. ASSUME NEW i \in 1..(n + 1)
        PROVE  (i < j => us[i] = ss[i]) /\ (i >= j => us[i + 1] = ss[i])
    <2>1. CASE i = n + 1
      BY <1>1, <1>2, <2>1
    <2>2. CASE i \in 1..n
      <3>1. i \in 1..(n + 1) /\ i + 1 \in 1..(n + 1)
        BY <1>1, <2>2
      <3> QED BY <1>1, <1>2, <2>2, <3>1
    <2> QED BY <1>1, <2>1, <2>2
  <1>5. Len(us) = Len(ss) + 1 /\ Len(ss) + 1 = n + 2 /\ Len(ss) = n + 1
    BY <1>1, <1>2
  <1>6. Inserted(us, ss, j, e)
    BY <1>3, <1>4, <1>5 DEF Inserted
  <1> QED BY <1>6 DEF us, ss

LEMMA InsertedLast ==
    ASSUME NEW A, NEW s \in Seq(A), NEW e \in A
    PROVE  Inserted(Append(s, e), s, Len(s) + 1, e)
  BY DEF Inserted

(* What is put into a list is put into what is left of it, or leaves that   *)
(* as it was.                                                               *)
LEMMA OnlyInserted ==
    ASSUME NEW A, NEW s \in Seq(A), NEW u \in Seq(A), NEW at, NEW e \in A, NEW K,
           Inserted(u, s, at, e)
    PROVE  /\ e \notin K => Only(u, K) = Only(s, K)
           /\ e \in K => \E j : Inserted(Only(u, K), Only(s, K), j, e)
  <1> DEFINE n == Len(s)
  <1>1. PICK h : Sifts(h, s, K, A) /\ h[Len(s)] = Only(s, K)
    BY OnlySifts
  <1>2. PICK g : Sifts(g, u, K, A) /\ g[Len(u)] = Only(u, K)
    BY OnlySifts
  <1>3. /\ n \in Nat /\ Len(u) = n + 1 /\ at \in 1..(n + 1) /\ u[at] = e
        /\ \A i \in 1..n : (i < at => u[i] = s[i]) /\ (i >= at => u[i + 1] = s[i])
    BY DEF Inserted
  <1>4. /\ h[0] = <<>> /\ (\A k \in 0..n : h[k] \in Seq(A))
        /\ \A k \in 1..n : h[k] = IF s[k] \in K THEN Append(h[k - 1], s[k]) ELSE h[k - 1]
    BY <1>1 DEF Sifts
  <1>5. /\ g[0] = <<>> /\ (\A k \in 0..(n + 1) : g[k] \in Seq(A))
        /\ \A k \in 1..(n + 1) : g[k] = IF u[k] \in K THEN Append(g[k - 1], u[k]) ELSE g[k - 1]
    BY <1>2, <1>3 DEF Sifts
  <1>6. \A i \in 1..n : s[i] \in A
    OBVIOUS
  <1> HIDE DEF n
  <1>7. g[at - 1] = h[at - 1]
    <2> DEFINE Bad == {k \in 0..(at - 1) : g[k] # h[k]}
    <2> SUFFICES ASSUME Bad # {} PROVE FALSE
      <3>1. at - 1 \in 0..(at - 1)
        BY <1>3
      <3> QED BY <3>1
    <2>1. Bad \subseteq Nat
      BY <1>3
    <2>2. PICK k \in Bad : \A i \in Bad : k <= i
      BY <2>1, LeastNumber
    <2>3. k # 0
      BY <1>4, <1>5, <2>2
    <2>4. /\ k \in 1..n /\ k \in 1..(n + 1) /\ k < at /\ k - 1 \in 0..(at - 1) /\ ~(k <= k - 1)
      BY <1>3, <2>2, <2>3
    <2>5. g[k - 1] = h[k - 1] /\ u[k] = s[k]
      BY <1>3, <2>2, <2>4
    <2>6. g[k] = h[k]
      BY <1>4, <1>5, <2>4, <2>5
    <2> QED BY <2>2, <2>6
  <1>8. /\ g[at] = IF e \in K THEN Append(h[at - 1], e) ELSE h[at - 1]
        /\ at - 1 \in 0..n /\ h[at - 1] \in Seq(A)
    BY <1>3, <1>4, <1>5, <1>7
  <1> DEFINE j == Len(h[at - 1]) + 1
             Same(k) == IF e \in K THEN Inserted(g[k + 1], h[k], j, e) ELSE g[k + 1] = h[k]
  <1>9. Same(at - 1)
    <2>1. (at - 1) + 1 = at
      BY <1>3
    <2>2. Inserted(Append(h[at - 1], e), h[at - 1], j, e)
      BY <1>8, InsertedLast
    <2> QED BY <1>8, <2>1, <2>2
  <1> HIDE DEF j
  <1>10. Same(n)
    <2> DEFINE Bad == {k \in (at - 1)..n : ~Same(k)}
    <2> HIDE DEF Same
    <2> SUFFICES ASSUME Bad # {} PROVE FALSE
      <3>1. n \in (at - 1)..n
        BY <1>3
      <3> QED BY <3>1
    <2>1. Bad \subseteq Nat
      BY <1>3
    <2>2. PICK k \in Bad : \A i \in Bad : k <= i
      BY <2>1, LeastNumber
    <2>3. k # at - 1
      BY <1>9, <2>2
    <2>4. /\ k \in 1..n /\ k + 1 \in 1..(n + 1) /\ k >= at /\ k - 1 \in (at - 1)..n
          /\ ~(k <= k - 1) /\ k - 1 \in 0..n /\ (k + 1) - 1 = k /\ (k - 1) + 1 = k
          /\ k \in 0..(n + 1)
      BY <1>3, <2>2, <2>3
    <2>5. Same(k - 1)
      BY <2>2, <2>4
    <2>6. u[k + 1] = s[k] /\ s[k] \in A
      BY <1>3, <1>6, <2>4
    <2>7. /\ g[k + 1] = IF s[k] \in K THEN Append(g[k], s[k]) ELSE g[k]
          /\ h[k] = IF s[k] \in K THEN Append(h[k - 1], s[k]) ELSE h[k - 1]
      BY <1>4, <1>5, <2>4, <2>6
    <2>8. g[k] \in Seq(A) /\ h[k - 1] \in Seq(A)
      BY <1>4, <1>5, <2>4
    <2>9. CASE e \in K
      <3>1. Inserted(g[k], h[k - 1], j, e)
        BY <2>4, <2>5, <2>9 DEF Same
      <3>2. Inserted(Append(g[k], s[k]), Append(h[k - 1], s[k]), j, e)
        BY <2>6, <2>8, <3>1, InsertedLonger
      <3>3. Inserted(g[k + 1], h[k], j, e)
        BY <2>7, <3>1, <3>2
      <3> QED BY <2>2, <2>9, <3>3 DEF Same
    <2>10. CASE e \notin K
      <3>1. g[k] = h[k - 1]
        BY <2>4, <2>5, <2>10 DEF Same
      <3>2. g[k + 1] = h[k]
        BY <2>7, <3>1
      <3> QED BY <2>2, <2>10, <3>2 DEF Same
    <2> QED BY <2>9, <2>10
  <1>11. g[n + 1] = Only(u, K) /\ h[n] = Only(s, K)
    BY <1>1, <1>2, <1>3 DEF n
  <1> QED BY <1>10, <1>11

(* The deepest fall is the largest of all falls.                            *)
LEMMA LargestFall ==
    ASSUME NEW p \in Seq(Int)
    PROVE  calculate_max_drawdown(p) =
              Max({Total(SubSeq(p, 1, a[1])) - Total(SubSeq(p, 1, a[2])) : a \in
                      {q \in (0..Len(p)) \X (0..Len(p)) : q[1] <= q[2]}})
  <1> DEFINE n == Len(p)
             Run(i) == Total(SubSeq(p, 1, i))
             d == calculate_max_drawdown(p)
             Falling == {q \in (0..n) \X (0..n) : q[1] <= q[2]}
             S == {Run(a[1]) - Run(a[2]) : a \in Falling}
  <1>1. PICK R : Runs(R, p)
    BY RunsExist
  <1>2. Deepest(d, R, n)
    BY <1>1, DrawdownIsDeepest
  <1>3. \A i \in 0..n : R[i] = Run(i) /\ R[i] \in Int
    BY <1>1, TotalOfRuns DEF Runs
  <1> HIDE DEF n, d, Run
  <1>4. d \in S
    <2>1. PICK i \in 0..n, j \in 0..n : i <= j /\ d = R[i] - R[j]
      BY <1>2 DEF Deepest
    <2>2. <<i, j>> \in Falling /\ d = Run(<<i, j>>[1]) - Run(<<i, j>>[2])
      BY <1>3, <2>1
    <2> QED BY <2>2
  <1>5. \A y \in S : d >= y
    <2> SUFFICES ASSUME NEW a \in Falling PROVE d >= Run(a[1]) - Run(a[2])
      OBVIOUS
    <2>1. a[1] \in 0..n /\ a[2] \in 0..n /\ a[1] <= a[2]
      OBVIOUS
    <2>2. R[a[1]] - R[a[2]] <= d /\ d \in Int
      BY <1>2, <2>1 DEF Deepest
    <2>3. R[a[1]] = Run(a[1]) /\ R[a[2]] = Run(a[2]) /\ R[a[1]] \in Int /\ R[a[2]] \in Int
      BY <1>3, <2>1
    <2> DEFINE x == R[a[1]]
               y == R[a[2]]
    <2>4. x \in Int /\ y \in Int /\ x - y <= d /\ Run(a[1]) - Run(a[2]) = x - y
      BY <2>2, <2>3, Zenon
    <2> HIDE DEF x, y
    <2> QED BY <2>2, <2>4
  <1>6. \A y \in S : y \in Int
    <2> SUFFICES ASSUME NEW a \in Falling PROVE Run(a[1]) - Run(a[2]) \in Int
      OBVIOUS
    <2>1. a[1] \in 0..n /\ a[2] \in 0..n
      OBVIOUS
    <2> QED BY <1>3, <2>1
  <1>7. Max(S) = d
    <2> HIDE DEF S
    <2>1. Max(S) \in S /\ \A y \in S : Max(S) >= y
      BY <1>4, <1>5 DEF Max
    <2> DEFINE x == Max(S)
    <2>2. x \in S /\ x >= d
      BY <1>4, <2>1
    <2> HIDE DEF x
    <2>3. x = d
      BY <1>4, <1>5, <1>6, <2>2
    <2> QED BY <2>3 DEF x
  <1> QED BY <1>7 DEF n, d, Run

(* Results that are lower are no more wins, and their falls are deeper.     *)
LEMMA LowerResults ==
    ASSUME NEW p \in Seq(Int), NEW q \in Seq(Int), Len(p) = Len(q),
           \A i \in 1..Len(p) : p[i] <= q[i]
    PROVE  /\ Cardinality({i \in DOMAIN q : q[i] > 0}) >= Cardinality({i \in DOMAIN p : p[i] > 0})
           /\ calculate_max_drawdown(q) <= calculate_max_drawdown(p)
  <1> DEFINE n == Len(p)
  <1>1. /\ n \in Nat /\ Len(q) = n /\ DOMAIN p = 1..n /\ DOMAIN q = 1..n
        /\ \A i \in 1..n : p[i] \in Int /\ q[i] \in Int /\ p[i] <= q[i]
    OBVIOUS
  <1>2. PICK P : Runs(P, p)
    BY RunsExist
  <1>3. PICK Q : Runs(Q, q)
    BY RunsExist
  <1>4. /\ Deepest(calculate_max_drawdown(p), P, n)
        /\ Deepest(calculate_max_drawdown(q), Q, n)
    BY <1>1, <1>2, <1>3, DrawdownIsDeepest
  <1>5. /\ P[0] = 0 /\ Q[0] = 0 /\ (\A i \in 0..n : P[i] \in Int /\ Q[i] \in Int)
        /\ \A k \in 1..n : P[k] = P[k - 1] + p[k] /\ Q[k] = Q[k - 1] + q[k]
    BY <1>1, <1>2, <1>3 DEF Runs
  <1> HIDE DEF n
  <1> DEFINE D(i) == Q[i] - P[i]
  <1>6. \A i \in 0..n : \A j \in 0..n : i <= j => D(i) <= D(j)
    <2> SUFFICES ASSUME NEW i \in 0..n PROVE \A j \in 0..n : i <= j => D(i) <= D(j)
      OBVIOUS
    <2> DEFINE Bad == {j \in 0..n : i <= j /\ ~(D(i) <= D(j))}
    <2> SUFFICES ASSUME Bad # {} PROVE FALSE
      OBVIOUS
    <2>1. Bad \subseteq Nat
      BY <1>1
    <2>2. PICK k \in Bad : \A j \in Bad : k <= j
      BY <2>1, LeastNumber
    <2>3. k # i
      BY <1>5, <2>2
    <2>4. k \in 1..n /\ k - 1 \in 0..n /\ ~(k <= k - 1) /\ i <= k - 1
      BY <1>1, <2>2, <2>3
    <2>5. D(i) <= D(k - 1)
      <3> HIDE DEF D
      <3> QED BY <2>2, <2>4
    <2>6. D(i) <= D(k)
      <3> DEFINE a == P[k - 1]
                 b == Q[k - 1]
                 x == p[k]
                 y == q[k]
                 c == D(i)
      <3>1. /\ a \in Int /\ b \in Int /\ x \in Int /\ y \in Int /\ x <= y /\ c \in Int
            /\ D(k) = (b + y) - (a + x) /\ c <= b - a
        <4>1. /\ a \in Int /\ b \in Int /\ x \in Int /\ y \in Int /\ x <= y
              /\ P[k] = a + x /\ Q[k] = b + y
          BY <1>1, <1>5, <2>4
        <4>2. c \in Int
          BY <1>5
        <4> QED BY <2>5, <4>1, <4>2
      <3> HIDE DEF a, b, x, y, c
      <3>2. c <= (b + y) - (a + x)
        BY <3>1
      <3> QED BY <3>1, <3>2 DEF c
    <2> QED BY <2>2, <2>6
  <1>7. calculate_max_drawdown(q) <= calculate_max_drawdown(p)
    <2> DEFINE dp == calculate_max_drawdown(p)
               dq == calculate_max_drawdown(q)
    <2>1. PICK i \in 0..n, j \in 0..n : i <= j /\ dq = Q[i] - Q[j]
      BY <1>4 DEF Deepest
    <2>2. P[i] - P[j] <= dp /\ dp \in Int
      BY <1>4, <2>1 DEF Deepest
    <2>3. Q[i] - P[i] <= Q[j] - P[j]
      BY <1>6, <2>1
    <2> HIDE DEF dp, dq
    <2> DEFINE a == P[i]
               b == P[j]
               x == Q[i]
               y == Q[j]
    <2>4. /\ a \in Int /\ b \in Int /\ x \in Int /\ y \in Int
          /\ a - b <= dp /\ dq = x - y /\ x - a <= y - b
      BY <1>5, <2>1, <2>2, <2>3
    <2> HIDE DEF a, b, x, y
    <2>5. dq <= dp
      BY <2>2, <2>4
    <2> QED BY <2>5 DEF dp, dq
  <1>8. Cardinality({i \in DOMAIN q : q[i] > 0}) >= Cardinality({i \in DOMAIN p : p[i] > 0})
    <2> DEFINE S == {i \in 1..n : q[i] > 0}
               T == {i \in 1..n : p[i] > 0}
    <2>1. IsFiniteSet(S)
      BY <1>1, FS_Interval, FS_Subset
    <2>2. T \in SUBSET S
      BY <1>1
    <2> HIDE DEF S, T
    <2>3. Cardinality(T) <= Cardinality(S) /\ Cardinality(S) \in Nat /\ Cardinality(T) \in Nat
      BY <2>1, <2>2, FS_Subset, FS_CardinalityType
    <2>4. Cardinality(S) >= Cardinality(T)
      BY <2>3
    <2> QED BY <1>1, <2>4 DEF S, T
  <1> QED BY <1>7, <1>8

LEMMA FunctionIsList ==
    ASSUME NEW A, NEW n \in Nat, NEW g \in [1..n -> A]
    PROVE  g \in Seq(A)
  OBVIOUS

(* What W makes of the elements of a list.                                  *)
Values(s, W) == [i \in DOMAIN s |-> W[s[i]]]

LEMMA ListOfValues ==
    ASSUME NEW A, NEW s \in Seq(A), NEW W \in [A -> Int]
    PROVE  /\ Values(s, W) \in Seq(Int) /\ Len(Values(s, W)) = Len(s)
           /\ \A i \in 1..Len(s) : Values(s, W)[i] = W[s[i]] /\ W[s[i]] \in Int
  <1> DEFINE n == Len(s)
  <1>1. DOMAIN s = 1..n /\ n \in Nat /\ \A i \in 1..n : s[i] \in A
    OBVIOUS
  <1>2. \A i \in 1..n : W[s[i]] \in Int
    BY <1>1
  <1> HIDE DEF n
  <1>3. Values(s, W) \in [1..n -> Int] /\ \A i \in 1..n : Values(s, W)[i] = W[s[i]]
    BY <1>1, <1>2 DEF Values
  <1>4. Values(s, W) \in Seq(Int)
    BY <1>1, <1>3, FunctionIsList
  <1>5. Len(Values(s, W)) = n
    BY <1>1, <1>3, <1>4
  <1> QED BY <1>2, <1>3, <1>4, <1>5 DEF n

(* The same holds of what is made of the elements of the two lists.         *)
LEMMA ValuesInserted ==
    ASSUME NEW A, NEW s \in Seq(A), NEW u \in Seq(A), NEW j, NEW e \in A, Inserted(u, s, j, e),
           NEW W \in [A -> Int]
    PROVE  Inserted(Values(u, W), Values(s, W), j, W[e])
  <1> DEFINE t == Values(s, W)
             w == Values(u, W)
  <1>1. Len(t) = Len(s) /\ \A i \in 1..Len(s) : t[i] = W[s[i]]
    BY ListOfValues
  <1>2. Len(w) = Len(u) /\ \A i \in 1..Len(u) : w[i] = W[u[i]]
    BY ListOfValues
  <1> HIDE DEF t, w
  <1>3. \A i \in 1..Len(s) : i \in 1..Len(u) /\ i + 1 \in 1..Len(u)
    BY DEF Inserted
  <1>4. j \in 1..Len(u)
    BY DEF Inserted
  <1>5. Inserted(w, t, j, W[e])
    BY <1>1, <1>2, <1>3, <1>4 DEF Inserted
  <1> QED BY <1>5 DEF t, w

(* From there on every total is larger by the element.                      *)
LEMMA RunsInserted ==
    ASSUME NEW p \in Seq(Int), NEW q \in Seq(Int), NEW j, NEW v \in Int, Inserted(q, p, j, v),
           NEW R, Runs(R, p), NEW T, Runs(T, q)
    PROVE  \A i \in 0..Len(p) : (i < j => T[i] = R[i]) /\ (i >= j - 1 => T[i + 1] = R[i] + v)
  <1> DEFINE n == Len(p)
             Fine(i) == (i < j => T[i] = R[i]) /\ (i >= j - 1 => T[i + 1] = R[i] + v)
             Bad == {i \in 0..n : ~Fine(i)}
  <1> SUFFICES ASSUME Bad # {} PROVE FALSE
    OBVIOUS
  <1>1. /\ n \in Nat /\ Len(q) = n + 1 /\ j \in 1..(n + 1) /\ q[j] = v
        /\ \A i \in 1..n : (i < j => q[i] = p[i]) /\ (i >= j => q[i + 1] = p[i])
        /\ \A i \in 1..n : p[i] \in Int
    BY DEF Inserted
  <1>2. /\ R[0] = 0 /\ (\A i \in 0..n : R[i] \in Int)
        /\ \A k \in 1..n : R[k] = R[k - 1] + p[k]
    BY DEF Runs
  <1>3. /\ T[0] = 0 /\ (\A i \in 0..(n + 1) : T[i] \in Int)
        /\ \A k \in 1..(n + 1) : T[k] = T[k - 1] + q[k]
    BY <1>1 DEF Runs
  <1>4. \A i \in 1..n : T[i + 1] = T[i] + q[i + 1]
    <2> SUFFICES ASSUME NEW i \in 1..n PROVE T[i + 1] = T[i] + q[i + 1]
      OBVIOUS
    <2>1. i + 1 \in 1..(n + 1) /\ (i + 1) - 1 = i
      BY <1>1
    <2> QED BY <1>3, <2>1
  <1>5. Bad \subseteq Nat
    BY <1>1
  <1> HIDE DEF n
  <1>6. PICK k \in Bad : \A i \in Bad : k <= i
    <2> HIDE DEF Bad
    <2> QED BY <1>5, LeastNumber
  <1>7. k < j => T[k] = R[k]
    <2> SUFFICES ASSUME k < j PROVE T[k] = R[k]
      OBVIOUS
    <2>1. CASE k = 0
      BY <1>2, <1>3, <2>1
    <2>2. CASE k # 0
      <3>1. /\ k \in 1..n /\ k - 1 \in 0..n /\ ~(k <= k - 1) /\ k - 1 < j /\ k \in 1..(n + 1)
        BY <1>1, <1>6, <2>2
      <3>2. T[k - 1] = R[k - 1] /\ q[k] = p[k]
        BY <1>1, <1>6, <3>1
      <3> QED BY <1>2, <1>3, <3>1, <3>2
    <2> QED BY <2>1, <2>2
  <1>8. k >= j - 1 => T[k + 1] = R[k] + v
    <2> SUFFICES ASSUME k >= j - 1 PROVE T[k + 1] = R[k] + v
      OBVIOUS
    <2>1. CASE k = j - 1
      <3>1. k < j /\ k + 1 = j /\ j \in 1..(n + 1) /\ j - 1 = k
        BY <1>1, <1>6, <2>1
      <3> QED BY <1>1, <1>3, <1>7, <3>1
    <2>2. CASE k # j - 1
      <3>1. /\ k \in 1..n /\ k - 1 \in 0..n /\ ~(k <= k - 1) /\ k - 1 >= j - 1 /\ k >= j
            /\ (k - 1) + 1 = k /\ k \in 1..(n + 1)
        BY <1>1, <1>6, <2>2
      <3>2. T[k] = R[k - 1] + v
        BY <1>6, <3>1
      <3>3. /\ q[k + 1] = p[k] /\ T[k + 1] = T[k] + q[k + 1] /\ R[k] = R[k - 1] + p[k]
            /\ p[k] \in Int /\ R[k - 1] \in Int
        BY <1>1, <1>2, <1>4, <3>1
      <3> QED BY <3>2, <3>3
    <2> QED BY <2>1, <2>2
  <1> QED BY <1>6, <1>7, <1>8

LEMMA TotalInserted ==
    ASSUME NEW p \in Seq(Int), NEW q \in Seq(Int), NEW j, NEW v \in Int, Inserted(q, p, j, v)
    PROVE  Total(q) = Total(p) + v
  <1>1. PICK R : Runs(R, p)
    BY RunsExist
  <1>2. PICK T : Runs(T, q)
    BY RunsExist
  <1>3. /\ Len(p) \in 0..Len(p) /\ Len(q) = Len(p) + 1 /\ Len(p) >= j - 1
    BY DEF Inserted
  <1>4. T[Len(p) + 1] = R[Len(p)] + v
    BY <1>1, <1>2, <1>3, RunsInserted
  <1>5. R[Len(p)] = Total(p) /\ T[Len(q)] = Total(q)
    BY <1>1, <1>2, TotalIs
  <1> QED BY <1>3, <1>4, <1>5

(* A loss makes no fall less deep.                                          *)
LEMMA FallsInserted ==
    ASSUME NEW p \in Seq(Int), NEW q \in Seq(Int), NEW j, NEW v \in Int, v < 0,
           Inserted(q, p, j, v)
    PROVE  /\ calculate_max_drawdown(p) <= calculate_max_drawdown(q)
           /\ calculate_max_drawdown(p) \in Int /\ calculate_max_drawdown(q) \in Int
  <1> DEFINE n == Len(p)
             dp == calculate_max_drawdown(p)
             dq == calculate_max_drawdown(q)
  <1>1. PICK R : Runs(R, p)
    BY RunsExist
  <1>2. PICK T : Runs(T, q)
    BY RunsExist
  <1>3. n \in Nat /\ Len(q) = n + 1 /\ j \in 1..(n + 1)
    BY DEF Inserted
  <1>4. Deepest(dp, R, n) /\ Deepest(dq, T, n + 1)
    BY <1>1, <1>2, <1>3, DrawdownIsDeepest
  <1>5. \A i \in 0..n : (i < j => T[i] = R[i]) /\ (i >= j - 1 => T[i + 1] = R[i] + v)
    BY <1>1, <1>2, RunsInserted
  <1>6. \A i \in 0..n : R[i] \in Int
    BY <1>1 DEF Runs
  <1> HIDE DEF n, dp, dq
  <1>7. dp \in Int /\ dq \in Int
    BY <1>4 DEF Deepest
  <1>8. PICK a \in 0..n, b \in 0..n : a <= b /\ dp = R[a] - R[b]
    BY <1>4 DEF Deepest
  <1>9. /\ a \in 0..(n + 1) /\ b \in 0..(n + 1) /\ a + 1 \in 0..(n + 1) /\ b + 1 \in 0..(n + 1)
        /\ a + 1 <= b + 1 /\ a <= b + 1
    BY <1>3, <1>8
  <1>10. R[a] \in Int /\ R[b] \in Int
    BY <1>6
  <1>11. CASE b < j
    <2>1. T[a] = R[a] /\ T[b] = R[b]
      BY <1>3, <1>5, <1>8, <1>11
    <2>2. T[a] - T[b] <= dq
      BY <1>4, <1>8, <1>9 DEF Deepest
    <2>3. dp <= dq
      BY <1>8, <2>1, <2>2
    <2> QED BY <1>7, <2>3 DEF dp, dq
  <1>12. CASE b >= j /\ a < j
    <2>1. T[a] = R[a] /\ T[b + 1] = R[b] + v
      BY <1>3, <1>5, <1>12
    <2>2. T[a] - T[b + 1] <= dq
      BY <1>4, <1>9 DEF Deepest
    <2>3. R[a] - (R[b] + v) <= dq
      BY <2>1, <2>2
    <2>4. R[a] - R[b] <= dq
      BY <1>7, <1>10, <2>3
    <2> QED BY <1>7, <1>8, <2>4 DEF dp, dq
  <1>13. CASE b >= j /\ a >= j
    <2>1. T[a + 1] = R[a] + v /\ T[b + 1] = R[b] + v
      BY <1>3, <1>5, <1>13
    <2>2. T[a + 1] - T[b + 1] <= dq
      BY <1>4, <1>9 DEF Deepest
    <2>3. (R[a] + v) - (R[b] + v) <= dq
      BY <2>1, <2>2
    <2>4. R[a] - R[b] <= dq
      BY <1>7, <1>10, <2>3
    <2> QED BY <1>7, <1>8, <2>4 DEF dp, dq
  <1> QED BY <1>3, <1>11, <1>12, <1>13

(* It is no win.                                                            *)
LEMMA WinsInserted ==
    ASSUME NEW p \in Seq(Int), NEW q \in Seq(Int), NEW j, NEW v \in Int, v < 0,
           Inserted(q, p, j, v)
    PROVE  Cardinality({i \in DOMAIN q : q[i] > 0}) <= Cardinality({i \in DOMAIN p : p[i] > 0})
  <1> DEFINE n == Len(p)
             S == {i \in DOMAIN q : q[i] > 0}
             T == {i \in DOMAIN p : p[i] > 0}
             f == [i \in S |-> IF i < j THEN i ELSE i - 1]
  <1>1. /\ n \in Nat /\ DOMAIN q = 1..(n + 1) /\ DOMAIN p = 1..n /\ j \in 1..(n + 1) /\ q[j] = v
        /\ \A i \in 1..n : (i < j => q[i] = p[i]) /\ (i >= j => q[i + 1] = p[i])
    BY DEF Inserted
  <1> HIDE DEF n
  <1>2. \A i \in S : i \in 1..(n + 1) /\ q[i] > 0 /\ i # j
    BY <1>1
  <1>3. ASSUME NEW i \in S PROVE (IF i < j THEN i ELSE i - 1) \in T
    <2>1. CASE i < j
      <3>1. i \in 1..n /\ q[i] = p[i]
        BY <1>1, <1>2, <2>1
      <3> QED BY <1>1, <1>2, <2>1, <3>1
    <2>2. CASE ~(i < j)
      <3>1. i - 1 \in 1..n /\ i - 1 >= j /\ (i - 1) + 1 = i
        <4>1. n \in Nat /\ j \in 1..(n + 1) /\ i \in 1..(n + 1) /\ i # j /\ ~(i < j)
          BY <1>1, <1>2, <2>2
        <4> QED BY ONLY <4>1
      <3>2. q[i] = p[i - 1]
        BY <1>1, <3>1
      <3> QED BY <1>1, <1>2, <2>2, <3>1, <3>2
    <2> QED BY <2>1, <2>2
  <1>4. f \in [S -> T]
    <2> HIDE DEF S, T
    <2> QED BY <1>3
  <1>5. \A x, y \in S : f[x] = f[y] => x = y
    <2>1. \A x \in S : f[x] = IF x < j THEN x ELSE x - 1
      OBVIOUS
    <2> HIDE DEF f, S
    <2> QED BY <1>1, <1>2, <2>1
  <1>6. f \in Injection(S, T)
    <2> HIDE DEF f, S, T
    <2> QED BY <1>4, <1>5 DEF Injection, IsInjective
  <1>7. IsFiniteSet(T)
    <2>1. IsFiniteSet(1..n) /\ T \in SUBSET (1..n)
      BY <1>1, FS_Interval
    <2> QED BY <2>1, FS_Subset
  <1> HIDE DEF f, S, T
  <1>8. Cardinality(S) <= Cardinality(T)
    BY <1>6, <1>7, FS_Injection
  <1> QED BY <1>8 DEF S, T

(* What a loss makes of the metrics.                                        *)
Worse(w, m, v) ==
    /\ w.closed = m.closed + 1 /\ m.closed \in Nat
    /\ w.wins <= m.wins /\ w.wins \in Nat /\ m.wins \in Nat
    /\ w.gains = m.gains /\ m.gains \in Nat
    /\ w.losses = m.losses - v /\ m.losses \in Nat
    /\ w.net = m.net + v /\ m.net \in Int
    /\ w.drawdown >= m.drawdown /\ w.drawdown \in Int /\ m.drawdown \in Int
    /\ m.closed = 0 => m.gains = 0

LEMMA LossInserted ==
    ASSUME NEW p \in Seq(Int), NEW q \in Seq(Int), NEW j, NEW v \in Int, v < 0,
           Inserted(q, p, j, v)
    PROVE  Worse(MetricsOf(q), MetricsOf(p), v)
  <1> DEFINE m == MetricsOf(p)
             w == MetricsOf(q)
             up(s) == [i \in DOMAIN s |-> Positive(s[i])]
             down(s) == [i \in DOMAIN s |-> Positive(-s[i])]
             wins(s) == Cardinality({i \in DOMAIN s : s[i] > 0})
  <1>1. \A i \in Int : Positive(i) \in Int /\ Positive(-i) \in Int
    BY DEF Positive
  <1>2. \A s \in Seq(Int) : up(s) \in Seq(Int) /\ down(s) \in Seq(Int)
    <2> SUFFICES ASSUME NEW s \in Seq(Int) PROVE up(s) \in Seq(Int) /\ down(s) \in Seq(Int)
      OBVIOUS
    <2>1. DOMAIN s = 1..Len(s) /\ Len(s) \in Nat /\ \A i \in 1..Len(s) : s[i] \in Int
      OBVIOUS
    <2>2. up(s) \in [1..Len(s) -> Int] /\ down(s) \in [1..Len(s) -> Int]
      BY <1>1, <2>1
    <2> HIDE DEF up, down
    <2> QED BY <2>1, <2>2, FunctionIsList
  <1>3. \A s \in Seq(Int) : /\ Len(up(s)) = Len(s) /\ Len(down(s)) = Len(s)
                            /\ \A i \in 1..Len(s) : /\ up(s)[i] = Positive(s[i])
                                                    /\ down(s)[i] = Positive(-s[i])
    <2> SUFFICES ASSUME NEW s \in Seq(Int)
                 PROVE  /\ Len(up(s)) = Len(s) /\ Len(down(s)) = Len(s)
                        /\ \A i \in 1..Len(s) : /\ up(s)[i] = Positive(s[i])
                                                /\ down(s)[i] = Positive(-s[i])
      OBVIOUS
    <2>1. DOMAIN s = 1..Len(s) /\ Len(s) \in Nat
      OBVIOUS
    <2>2. DOMAIN up(s) = 1..Len(s) /\ DOMAIN down(s) = 1..Len(s)
      BY <2>1
    <2>3. \A i \in 1..Len(s) : up(s)[i] = Positive(s[i]) /\ down(s)[i] = Positive(-s[i])
      BY <2>1
    <2>4. up(s) \in Seq(Int) /\ down(s) \in Seq(Int)
      BY <1>2
    <2> HIDE DEF up, down
    <2> QED BY <2>1, <2>2, <2>3, <2>4
  <1>4. Positive(v) = 0 /\ Positive(-v) = -v
    BY DEF Positive
  <1>5. (\A i \in DOMAIN p : p[i] \in Int) /\ (\A i \in DOMAIN q : q[i] \in Int)
    OBVIOUS
  <1>6. /\ m.closed = Len(p) /\ m.wins = wins(p) /\ m.gains = Total(up(p))
        /\ m.losses = Total(down(p)) /\ m.net = Total(p)
        /\ m.drawdown = calculate_max_drawdown(p)
    BY DEF MetricsOf
  <1>7. /\ w.closed = Len(q) /\ w.wins = wins(q) /\ w.gains = Total(up(q))
        /\ w.losses = Total(down(q)) /\ w.net = Total(q)
        /\ w.drawdown = calculate_max_drawdown(q)
    BY DEF MetricsOf
  <1>8. /\ m.gains \in Nat /\ m.losses \in Nat /\ m.closed \in Nat /\ m.wins \in Nat
        /\ w.wins \in Nat
    BY NetIsGainsLessLosses
  <1> HIDE DEF up, down, m, w, wins
  <1>9. Total(up(q)) = Total(up(p)) + 0
    <2> DEFINE f == [i \in Int |-> Positive(i)]
    <2>1. f \in [Int -> Int] /\ \A i \in Int : f[i] = Positive(i)
      BY <1>1
    <2> HIDE DEF f
    <2>2. up(p) = Values(p, f) /\ up(q) = Values(q, f)
      <3>1. /\ \A i \in DOMAIN p : Positive(p[i]) = f[p[i]]
            /\ \A i \in DOMAIN q : Positive(q[i]) = f[q[i]]
        BY ONLY <1>5, <2>1, Zenon
      <3> QED BY <3>1, Zenon DEF up, Values
    <2>3. Inserted(up(q), up(p), j, 0)
      <3>1. Inserted(Values(q, f), Values(p, f), j, f[v])
        BY <2>1, ValuesInserted
      <3> QED BY <1>4, <2>1, <2>2, <3>1
    <2> QED BY <1>2, <2>3, TotalInserted
  <1>10. Total(down(q)) = Total(down(p)) + (-v)
    <2> DEFINE f == [i \in Int |-> Positive(-i)]
    <2>1. f \in [Int -> Int] /\ \A i \in Int : f[i] = Positive(-i)
      BY <1>1
    <2> HIDE DEF f
    <2>2. down(p) = Values(p, f) /\ down(q) = Values(q, f)
      <3>1. /\ \A i \in DOMAIN p : Positive(-p[i]) = f[p[i]]
            /\ \A i \in DOMAIN q : Positive(-q[i]) = f[q[i]]
        BY ONLY <1>5, <2>1, Zenon
      <3> QED BY <3>1, Zenon DEF down, Values
    <2>3. Inserted(down(q), down(p), j, -v) /\ -v \in Int
      <3>1. Inserted(Values(q, f), Values(p, f), j, f[v])
        BY <2>1, ValuesInserted
      <3> QED BY <1>4, <2>1, <2>2, <3>1
    <2> QED BY <1>2, <2>3, TotalInserted
  <1>11. Total(q) = Total(p) + v
    BY TotalInserted
  <1>12. Total(p) \in Int
    <2>1. PICK R : Runs(R, p)
      BY RunsExist
    <2> QED BY <2>1, TotalIs
  <1>13. /\ calculate_max_drawdown(p) <= calculate_max_drawdown(q)
         /\ calculate_max_drawdown(p) \in Int /\ calculate_max_drawdown(q) \in Int
    BY FallsInserted
  <1>14. wins(q) <= wins(p)
    BY WinsInserted DEF wins
  <1>15. Len(q) = Len(p) + 1
    BY DEF Inserted
  <1>16. m.closed = 0 => m.gains = 0
    <2> SUFFICES ASSUME Len(p) = 0 PROVE Total(up(p)) = 0
      BY <1>6
    <2>1. PICK R : Runs(R, up(p)) /\ R[Len(up(p))] = Total(up(p))
      BY <1>2, RunsExist
    <2>2. R[0] = 0
      BY <2>1 DEF Runs
    <2> QED BY <1>3, <2>1, <2>2
  <1>17. Worse(w, m, v)
    <2>1. w.gains = m.gains /\ w.losses = m.losses - v
      BY <1>6, <1>7, <1>8, <1>9, <1>10
    <2>2. w.drawdown >= m.drawdown /\ w.drawdown \in Int /\ m.drawdown \in Int
      BY <1>6, <1>7, <1>13
    <2>3. w.wins <= m.wins /\ w.closed = m.closed + 1 /\ w.net = m.net + v /\ m.net \in Int
      BY <1>6, <1>7, <1>11, <1>12, <1>14, <1>15
    <2> QED BY <1>8, <1>16, <2>1, <2>2, <2>3 DEF Worse
  <1> QED BY <1>17 DEF m, w

(* A profile that worse metrics meet is met.                                *)
LEMMA WorseMeetsLess ==
    ASSUME NEW profile \in Profile, NEW m, NEW w, NEW v \in Int, v < 0, Worse(w, m, v),
           m.closed >= profile.min_closed_trades, _evaluate_profile(w, profile)
    PROVE  _evaluate_profile(m, profile)
  <1>1. /\ profile.min_win_rate \in {<<0, 1>>, <<1, 2>>}
        /\ profile.min_profit_factor \in {<<1, 1>>, <<3, 2>>}
        /\ profile.max_drawdown \in Int
    BY DEF Profile
  <1>2. /\ w.closed > 0 /\ ratio_at_least(w.wins, w.closed, profile.min_win_rate)
        /\ \/ w.losses = 0 /\ w.gains > 0
           \/ w.losses > 0 /\ ratio_at_least(w.gains, w.losses, profile.min_profit_factor)
        /\ profile.require_positive_expectancy => w.net > 0
        /\ w.drawdown <= profile.max_drawdown
    BY DEF _evaluate_profile
  <1>3. /\ w.closed = m.closed + 1 /\ m.closed \in Nat
        /\ w.wins <= m.wins /\ w.wins \in Nat /\ m.wins \in Nat
        /\ w.gains = m.gains /\ m.gains \in Nat
        /\ w.losses = m.losses - v /\ m.losses \in Nat
        /\ w.net = m.net + v /\ m.net \in Int
        /\ w.drawdown >= m.drawdown /\ w.drawdown \in Int /\ m.drawdown \in Int
        /\ m.closed = 0 => m.gains = 0
    BY DEF Worse
  <1>4. ratio_at_least(m.gains, m.losses - v, profile.min_profit_factor) /\ m.losses - v > 0
    BY <1>2, <1>3
  <1>5. m.gains > 0 /\ ratio_at_least(m.gains, m.losses, profile.min_profit_factor)
    <2>1. CASE profile.min_profit_factor = <<1, 1>>
      BY <1>3, <1>4, <2>1 DEF ratio_at_least
    <2>2. CASE profile.min_profit_factor = <<3, 2>>
      BY <1>3, <1>4, <2>2 DEF ratio_at_least
    <2> QED BY <1>1, <2>1, <2>2
  <1>6. m.closed > 0
    BY <1>3, <1>5
  <1>7. ratio_at_least(m.wins, m.closed, profile.min_win_rate)
    <2>1. CASE profile.min_win_rate = <<0, 1>>
      BY <1>3, <2>1 DEF ratio_at_least
    <2>2. CASE profile.min_win_rate = <<1, 2>>
      BY <1>2, <1>3, <2>2 DEF ratio_at_least
    <2> QED BY <1>1, <2>1, <2>2
  <1>8. \/ m.losses = 0 /\ m.gains > 0
        \/ m.losses > 0 /\ ratio_at_least(m.gains, m.losses, profile.min_profit_factor)
    BY <1>3, <1>5
  <1>9. profile.require_positive_expectancy => m.net > 0
    BY <1>2, <1>3
  <1>10. m.drawdown <= profile.max_drawdown
    BY <1>1, <1>2, <1>3
  <1> QED BY <1>6, <1>7, <1>8, <1>9, <1>10 DEF _evaluate_profile

LEMMA ExecutionTypes ==
    ASSUME NEW e \in Execution
    PROVE  /\ e.gross \in Int /\ e.fees \in Nat /\ e.month \in Months
           /\ Net(e) \in Int /\ Net(e) <= e.gross
  <1>1. Gross \subseteq Int /\ Fees \subseteq Nat /\ Months # {} /\ Months \subseteq Nat
    BY GateAssumption
  <1>2. PICK m \in Months : \A x \in Months : m <= x
    BY <1>1, LeastNumber
  <1>3. Min(Months) \in Months
    BY <1>2 DEF Min
  <1>4. e.gross \in Int /\ e.fees \in Nat /\ e.month \in Months
    <2>1. CASE e \in [status : {"closed"}, gross : Gross, fees : Fees, month : Months]
      BY <1>1, <2>1
    <2>2. CASE e \in [status : {"skipped"}, gross : {0}, fees : {0}, month : {Min(Months)}]
      BY <1>3, <2>2
    <2> QED BY <2>1, <2>2 DEF Execution
  <1> QED BY <1>4 DEF Net

(* What the executions of a list earn, one by one.                          *)
Nets(xs) == [i \in DOMAIN xs |-> Net(xs[i])]

Grosses(xs) == [i \in DOMAIN xs |-> xs[i].gross]

LEMMA ListsOfResults ==
    ASSUME NEW xs \in Seq(Execution)
    PROVE  /\ Nets(xs) \in Seq(Int) /\ Grosses(xs) \in Seq(Int)
           /\ Len(Nets(xs)) = Len(xs) /\ Len(Grosses(xs)) = Len(xs)
           /\ \A i \in 1..Len(xs) : /\ Nets(xs)[i] = Net(xs[i]) /\ Grosses(xs)[i] = xs[i].gross
                                    /\ Nets(xs)[i] <= Grosses(xs)[i]
  <1> DEFINE n == Len(xs)
  <1>1. DOMAIN xs = 1..n /\ n \in Nat /\ \A i \in 1..n : xs[i] \in Execution
    OBVIOUS
  <1>2. \A i \in 1..n : Net(xs[i]) \in Int /\ xs[i].gross \in Int /\ Net(xs[i]) <= xs[i].gross
    BY <1>1, ExecutionTypes
  <1> HIDE DEF n
  <1>3. /\ Nets(xs) \in [1..n -> Int] /\ Grosses(xs) \in [1..n -> Int]
        /\ \A i \in 1..n : Nets(xs)[i] = Net(xs[i]) /\ Grosses(xs)[i] = xs[i].gross
    BY <1>1, <1>2 DEF Nets, Grosses
  <1>4. Nets(xs) \in Seq(Int) /\ Grosses(xs) \in Seq(Int)
    BY <1>1, <1>3, FunctionIsList
  <1>5. Len(Nets(xs)) = n /\ Len(Grosses(xs)) = n
    BY <1>1, <1>3, <1>4
  <1> QED BY <1>2, <1>3, <1>4, <1>5 DEF n

LEMMA OnlyIsList ==
    ASSUME NEW A, NEW s \in Seq(A), NEW K
    PROVE  Only(s, K) \in Seq(A)
  <1>1. PICK h : Sifts(h, s, K, A) /\ h[Len(s)] = Only(s, K)
    BY OnlySifts
  <1>2. Len(s) \in 0..Len(s)
    OBVIOUS
  <1> QED BY <1>1, <1>2 DEF Sifts

LEMMA MetricsOfNets ==
    ASSUME NEW xs
    PROVE  /\ _calculate_metrics(xs) = MetricsOf(Nets(Executed(xs)))
           /\ _build_report(xs) = MetricsOf(Grosses(Executed(xs)))
  BY DEF _calculate_metrics, _build_report, Nets, Grosses

(* A loss that is put somewhere into the executions makes the metrics       *)
(* worse, a signal that was skipped leaves them as they are.                *)
LEMMA MetricsInserted ==
    ASSUME NEW xs \in Seq(Execution), NEW at \in 1..(Len(xs) + 1), NEW e \in Execution
    PROVE  /\ e.status = "skipped" =>
                 _calculate_metrics(InsertAt(xs, at, e)) = _calculate_metrics(xs)
           /\ e \in Losers => Worse(_calculate_metrics(InsertAt(xs, at, e)),
                                    _calculate_metrics(xs), Net(e))
  <1> DEFINE u == InsertAt(xs, at, e)
             K == {x \in Execution : x.status # "skipped"}
  <1>1. u \in Seq(Execution) /\ Inserted(u, xs, at, e)
    BY InsertAtInserts
  <1> HIDE DEF u, K
  <1>2. /\ e \notin K => Only(u, K) = Only(xs, K)
        /\ e \in K => \E j : Inserted(Only(u, K), Only(xs, K), j, e)
    BY <1>1, OnlyInserted
  <1>3. Executed(u) = Only(u, K) /\ Executed(xs) = Only(xs, K)
    BY DEF Executed, K
  <1>4. ASSUME e.status = "skipped" PROVE _calculate_metrics(u) = _calculate_metrics(xs)
    <2>1. e \notin K
      BY <1>4 DEF K
    <2>2. Executed(u) = Executed(xs)
      BY <1>2, <1>3, <2>1
    <2> QED BY <2>2, MetricsOfNets
  <1>5. ASSUME e \in Losers PROVE Worse(_calculate_metrics(u), _calculate_metrics(xs), Net(e))
    <2>1. e \in K /\ Net(e) < 0 /\ Net(e) \in Int
      BY <1>5, ExecutionTypes DEF K, Losers
    <2>2. PICK j : Inserted(Only(u, K), Only(xs, K), j, e)
      BY <1>2, <2>1
    <2> DEFINE s == Only(xs, K)
               t == Only(u, K)
               f == [x \in Execution |-> Net(x)]
    <2>3. s \in Seq(Execution) /\ t \in Seq(Execution) /\ Inserted(t, s, j, e)
      BY <1>1, <2>2, OnlyIsList
    <2>4. f \in [Execution -> Int] /\ \A x \in Execution : f[x] = Net(x)
      BY ExecutionTypes
    <2> HIDE DEF s, t, f
    <2>5. /\ Nets(s) \in Seq(Int) /\ Len(Nets(s)) = Len(s)
          /\ Nets(t) \in Seq(Int) /\ Len(Nets(t)) = Len(t)
      BY <2>3, ListsOfResults
    <2>6. Nets(s) = Values(s, f) /\ Nets(t) = Values(t, f)
      <3>1. /\ \A i \in DOMAIN s : Net(s[i]) = f[s[i]]
            /\ \A i \in DOMAIN t : Net(t[i]) = f[t[i]]
        BY <2>3, <2>4
      <3> QED BY <3>1, Zenon DEF Nets, Values
    <2>7. Inserted(Values(t, f), Values(s, f), j, f[e])
      BY <2>3, <2>4, ValuesInserted
    <2>8. Inserted(Nets(t), Nets(s), j, Net(e))
      BY <2>4, <2>6, <2>7
    <2>9. Worse(MetricsOf(Nets(t)), MetricsOf(Nets(s)), Net(e))
      BY <2>1, <2>5, <2>8, LossInserted
    <2> QED BY <1>3, <2>9, MetricsOfNets DEF s, t
  <1> QED BY <1>4, <1>5 DEF u

(* The totals of the beginnings of a list.                                  *)
LEMMA TotalsOfBeginnings ==
    ASSUME NEW p \in Seq(Int)
    PROVE  /\ Total(SubSeq(p, 1, 0)) = 0
           /\ Total(SubSeq(p, 1, Len(p))) = Total(p)
           /\ \A k \in 0..Len(p) : Total(SubSeq(p, 1, k)) \in Int
           /\ \A k \in 1..Len(p) : Total(SubSeq(p, 1, k)) = Total(SubSeq(p, 1, k - 1)) + p[k]
  <1>1. PICK R : Runs(R, p) /\ R[Len(p)] = Total(p)
    BY RunsExist
  <1>2. \A k \in 0..Len(p) : R[k] = Total(SubSeq(p, 1, k))
    BY <1>1, TotalOfRuns
  <1>3. /\ 0 \in 0..Len(p) /\ Len(p) \in 0..Len(p)
        /\ \A k \in 1..Len(p) : k \in 0..Len(p) /\ k - 1 \in 0..Len(p)
    OBVIOUS
  <1>4. /\ R[0] = 0 /\ (\A k \in 0..Len(p) : R[k] \in Int)
        /\ \A k \in 1..Len(p) : R[k] = R[k - 1] + p[k]
    BY <1>1 DEF Runs
  <1>5. Total(SubSeq(p, 1, 0)) = 0 /\ Total(SubSeq(p, 1, Len(p))) = Total(p)
    BY <1>1, <1>2, <1>3, <1>4, Zenon
  <1>6. \A k \in 0..Len(p) : Total(SubSeq(p, 1, k)) \in Int
    BY <1>2, <1>4, Zenon
  <1>7. ASSUME NEW k \in 1..Len(p)
        PROVE  Total(SubSeq(p, 1, k)) = Total(SubSeq(p, 1, k - 1)) + p[k]
    <2>1. R[k] = Total(SubSeq(p, 1, k)) /\ R[k - 1] = Total(SubSeq(p, 1, k - 1))
      BY <1>2, <1>3
    <2>2. R[k] = R[k - 1] + p[k]
      BY <1>4
    <2> QED BY <2>1, <2>2, Zenon
  <1> QED BY <1>5, <1>6, <1>7

(* What is left of a list is worth as much as the list where the others     *)
(* are worth nothing.                                                       *)
LEMMA TotalOfOnly ==
    ASSUME NEW A, NEW s \in Seq(A), NEW K, NEW W \in [A -> Int]
    PROVE  Total(Values(Only(s, K), W)) =
              Total(Values(s, [x \in A |-> IF x \in K THEN W[x] ELSE 0]))
  <1> DEFINE n == Len(s)
             M == [x \in A |-> IF x \in K THEN W[x] ELSE 0]
             q == Values(s, M)
  <1>1. PICK h : Sifts(h, s, K, A) /\ h[Len(s)] = Only(s, K)
    BY OnlySifts
  <1>2. /\ n \in Nat /\ h[0] = <<>> /\ (\A k \in 0..n : h[k] \in Seq(A))
        /\ \A k \in 1..n : h[k] = IF s[k] \in K THEN Append(h[k - 1], s[k]) ELSE h[k - 1]
    <2>1. n \in Nat
      OBVIOUS
    <2> QED BY <1>1, <2>1 DEF Sifts
  <1>3. M \in [A -> Int] /\ \A x \in A : M[x] = IF x \in K THEN W[x] ELSE 0
    OBVIOUS
  <1>4. \A k \in 1..n : s[k] \in A /\ k \in 0..n /\ k - 1 \in 0..n
    OBVIOUS
  <1> DEFINE z == [k \in 0..n |-> Total(Values(h[k], W))]
  <1> HIDE DEF M
  <1>5. q \in Seq(Int) /\ Len(q) = n /\ \A k \in 1..n : q[k] = M[s[k]]
    BY <1>3, ListOfValues
  <1> HIDE DEF q, n
  <1>6. \A k \in 0..n : Total(Values(h[k], W)) \in Int
    <2> SUFFICES ASSUME NEW k \in 0..n PROVE Total(Values(h[k], W)) \in Int
      OBVIOUS
    <2>1. Values(h[k], W) \in Seq(Int)
      BY <1>2, ListOfValues
    <2>2. PICK R : Runs(R, Values(h[k], W))
      BY <2>1, RunsExist
    <2> QED BY <2>1, <2>2, TotalIs
  <1>7. z \in [0..n -> Int] /\ \A k \in 0..n : z[k] = Total(Values(h[k], W))
    BY <1>6
  <1> HIDE DEF z
  <1>8. z[0] = 0
    <2>1. 0 \in 0..n /\ Values(h[0], W) \in Seq(Int) /\ Len(Values(h[0], W)) = 0
      <3>1. 0 \in 0..n /\ h[0] \in Seq(A) /\ Len(h[0]) = 0
        BY <1>2
      <3> QED BY <3>1, ListOfValues
    <2>2. PICK R : Runs(R, Values(h[0], W)) /\ R[Len(Values(h[0], W))] = Total(Values(h[0], W))
      BY <2>1, RunsExist
    <2>3. R[0] = 0
      BY <2>2 DEF Runs
    <2> QED BY <1>7, <2>1, <2>2, <2>3
  <1>9. ASSUME NEW k \in 1..n PROVE z[k] = z[k - 1] + q[k]
    <2>1. /\ k \in 0..n /\ k - 1 \in 0..n /\ s[k] \in A /\ q[k] = M[s[k]]
          /\ h[k - 1] \in Seq(A) /\ z[k - 1] \in Int
          /\ h[k] = IF s[k] \in K THEN Append(h[k - 1], s[k]) ELSE h[k - 1]
          /\ z[k] = Total(Values(h[k], W)) /\ z[k - 1] = Total(Values(h[k - 1], W))
      BY <1>2, <1>4, <1>5, <1>7
    <2>2. CASE s[k] \in K
      <3> DEFINE t == h[k - 1]
                 e == s[k]
                 u == Append(t, e)
      <3>1. t \in Seq(A) /\ u \in Seq(A) /\ e \in A /\ W[e] \in Int /\ h[k] = u
        BY <2>1, <2>2
      <3> DEFINE j == Len(t) + 1
      <3>2. Inserted(u, t, j, e)
        BY <2>1, InsertedLast
      <3> HIDE DEF u, t, e, j
      <3>3. /\ Values(t, W) \in Seq(Int) /\ Len(Values(t, W)) = Len(t)
            /\ \A i \in 1..Len(t) : Values(t, W)[i] = W[t[i]]
        BY <3>1, ListOfValues
      <3>4. /\ Values(u, W) \in Seq(Int) /\ Len(Values(u, W)) = Len(u)
            /\ \A i \in 1..Len(u) : Values(u, W)[i] = W[u[i]]
        BY <3>1, ListOfValues
      <3>5. Inserted(Values(u, W), Values(t, W), j, W[e])
        BY <3>1, <3>2, ValuesInserted
      <3>6. Total(Values(u, W)) = Total(Values(t, W)) + W[e]
        BY <3>1, <3>3, <3>4, <3>5, TotalInserted
      <3>7. q[k] = W[e]
        BY <1>3, <2>1, <2>2 DEF e
      <3> QED BY <2>1, <3>1, <3>6, <3>7 DEF t
    <2>3. CASE s[k] \notin K
      <3>1. q[k] = 0 /\ z[k] = z[k - 1]
        BY <1>3, <2>1, <2>3
      <3> QED BY <2>1, <3>1
    <2> QED BY <2>2, <2>3
  <1>10. Runs(z, q)
    BY <1>5, <1>7, <1>8, <1>9 DEF Runs
  <1>11. z[n] = Total(q)
    BY <1>5, <1>10, TotalIs
  <1>12. z[n] = Total(Values(Only(s, K), W))
    <2>1. n \in 0..n /\ h[n] = Only(s, K)
      BY <1>1, <1>2 DEF n
    <2> QED BY <1>7, <2>1
  <1> QED BY <1>11, <1>12 DEF q, M

(* What the elements of a class, and of every class, are worth.             *)
OfClass(A, W, C, d) == [x \in A |-> IF C[x] = d THEN W[x] ELSE 0]

Worth(s, A, W, C, D) == [d \in D |-> Total(Values(s, OfClass(A, W, C, d)))]

(* What a list is worth is the sum, over the classes of its elements, of    *)
(* what the elements of a class are worth.                                  *)
LEMMA ClassesAddUp ==
    ASSUME NEW A, NEW s \in Seq(A), NEW W \in [A -> Int],
           NEW D, IsFiniteSet(D), NEW C \in [A -> D]
    PROVE  Sum(Worth(s, A, W, C, D)) = Total(Values(s, W))
  <1> DEFINE n == Len(s)
             F(d) == OfClass(A, W, C, d)
             P(d, k) == Total(SubSeq(Values(s, F(d)), 1, k))
             Q(k) == Total(SubSeq(Values(s, W), 1, k))
  <1>1. n \in Nat /\ \A k \in 1..n : s[k] \in A /\ C[s[k]] \in D /\ W[s[k]] \in Int
    OBVIOUS
  <1>2. \A d \in D : F(d) \in [A -> Int] /\ \A x \in A : F(d)[x] = IF C[x] = d THEN W[x] ELSE 0
    BY DEF OfClass
  <1> HIDE DEF F
  <1>3. ASSUME NEW d \in D
        PROVE  /\ P(d, 0) = 0 /\ P(d, n) = Total(Values(s, F(d)))
               /\ (\A k \in 0..n : P(d, k) \in Int)
               /\ \A k \in 1..n : P(d, k) = P(d, k - 1) + IF C[s[k]] = d THEN W[s[k]] ELSE 0
    <2> DEFINE p == Values(s, F(d))
    <2>1. p \in Seq(Int) /\ Len(p) = n /\ \A k \in 1..n : p[k] = F(d)[s[k]]
      <3> DEFINE G == F(d)
      <3>1. G \in [A -> Int]
        BY <1>2
      <3> HIDE DEF G
      <3>2. /\ Values(s, G) \in Seq(Int) /\ Len(Values(s, G)) = n
            /\ \A k \in 1..n : Values(s, G)[k] = G[s[k]]
        BY <3>1, ListOfValues
      <3> QED BY <3>2 DEF G
    <2> HIDE DEF p, n
    <2>2. /\ Total(SubSeq(p, 1, 0)) = 0
          /\ Total(SubSeq(p, 1, n)) = Total(p)
          /\ \A k \in 0..n : Total(SubSeq(p, 1, k)) \in Int
          /\ \A k \in 1..n : Total(SubSeq(p, 1, k)) = Total(SubSeq(p, 1, k - 1)) + p[k]
      BY <2>1, TotalsOfBeginnings
    <2>3. \A k \in 1..n : p[k] = IF C[s[k]] = d THEN W[s[k]] ELSE 0
      BY <1>1, <1>2, <2>1
    <2>4. \A k \in 1..n : Total(SubSeq(p, 1, k)) =
                             Total(SubSeq(p, 1, k - 1)) + IF C[s[k]] = d THEN W[s[k]] ELSE 0
      BY <2>2, <2>3
    <2> QED BY <2>2, <2>4 DEF p
  <1>4. /\ Q(0) = 0 /\ Q(n) = Total(Values(s, W)) /\ (\A k \in 0..n : Q(k) \in Int)
        /\ \A k \in 1..n : Q(k) = Q(k - 1) + W[s[k]]
    <2> DEFINE p == Values(s, W)
    <2>1. p \in Seq(Int) /\ Len(p) = n /\ \A k \in 1..n : p[k] = W[s[k]]
      BY ListOfValues
    <2> HIDE DEF p, n
    <2>2. /\ Total(SubSeq(p, 1, 0)) = 0
          /\ Total(SubSeq(p, 1, n)) = Total(p)
          /\ \A k \in 0..n : Total(SubSeq(p, 1, k)) \in Int
          /\ \A k \in 1..n : Total(SubSeq(p, 1, k)) = Total(SubSeq(p, 1, k - 1)) + p[k]
      BY <2>1, TotalsOfBeginnings
    <2>3. \A k \in 1..n : Total(SubSeq(p, 1, k)) = Total(SubSeq(p, 1, k - 1)) + W[s[k]]
      BY <2>1, <2>2
    <2> QED BY <2>2, <2>3 DEF p
  <1> HIDE DEF n, P, Q
  <1> DEFINE u(k) == [d \in D |-> P(d, k)]
  <1>5. \A k \in 0..n : u(k) \in [D -> Int] /\ \A d \in D : u(k)[d] = P(d, k)
    BY <1>3
  <1> HIDE DEF u
  <1>6. Sum(u(0)) = 0
    <2>1. 0 \in 0..n /\ 0 \in Int
      BY <1>1
    <2>2. \A d \in D : u(0)[d] = 0
      BY <1>3, <1>5, <2>1
    <2>3. Sum(u(0)) = 0 * Cardinality(D)
      BY <1>5, <2>1, <2>2, SumConstant
    <2> QED BY <2>3, FS_CardinalityType
  <1>7. ASSUME NEW k \in 1..n PROVE Sum(u(k)) = Sum(u(k - 1)) + W[s[k]]
    <2> DEFINE e == C[s[k]]
               a == W[s[k]]
               w == [d \in {e} |-> a]
    <2>1. e \in D /\ a \in Int /\ k \in 0..n /\ k - 1 \in 0..n
      BY <1>1
    <2>2. \A d \in D : P(d, k) = P(d, k - 1) + IF e = d THEN a ELSE 0
      BY <1>3
    <2>3. \A d \in D : P(d, k - 1) \in Int
      BY <1>3, <2>1
    <2> HIDE DEF e, a
    <2>4. w \in [{e} -> Int] /\ \A d \in {e} : w[d] = a
      BY <2>1
    <2> HIDE DEF w
    <2>5. \A d \in D : u(k)[d] = IF d \in {e} THEN u(k - 1)[d] + w[d] ELSE u(k - 1)[d]
      BY <1>5, <2>1, <2>2, <2>3, <2>4
    <2>6. Grows(u(k), u(k - 1), D, {e}, w)
      BY <1>5, <2>1, <2>4, <2>5 DEF Grows
    <2>7. Sum(u(k)) = Sum(u(k - 1)) + Sum(w)
      BY <2>6, SumGrows
    <2>8. Sum(w) = a
      <3>1. IsFiniteSet({e}) /\ Cardinality({e}) = 1
        BY FS_Singleton
      <3>2. Sum(w) = a * Cardinality({e})
        BY <2>1, <2>4, <3>1, SumConstant
      <3> QED BY <2>1, <3>1, <3>2
    <2> QED BY <2>7, <2>8 DEF a
  <1>8. Sum(u(n)) = Q(n)
    <2> DEFINE Bad == {k \in 0..n : Sum(u(k)) # Q(k)}
    <2> SUFFICES ASSUME Bad # {} PROVE FALSE
      <3>1. n \in 0..n
        BY <1>1
      <3> QED BY <3>1
    <2>1. Bad \subseteq Nat
      BY <1>1
    <2>2. PICK k \in Bad : \A j \in Bad : k <= j
      BY <2>1, LeastNumber
    <2>3. k # 0
      BY <1>4, <1>6, <2>2
    <2>4. k \in 1..n /\ k - 1 \in 0..n /\ ~(k <= k - 1)
      BY <1>1, <2>2, <2>3
    <2>5. Sum(u(k - 1)) = Q(k - 1)
      BY <2>2, <2>4
    <2>6. Sum(u(k)) = Sum(u(k - 1)) + W[s[k]] /\ Q(k) = Q(k - 1) + W[s[k]]
      BY <1>4, <1>7, <2>4
    <2> QED BY <2>2, <2>5, <2>6
  <1>9. u(n) = [d \in D |-> Total(Values(s, F(d)))]
    <2>1. \A d \in D : P(d, n) = Total(Values(s, F(d)))
      BY <1>3
    <2> QED BY <2>1, Zenon DEF u
  <1>10. Sum([d \in D |-> Total(Values(s, F(d)))]) = Total(Values(s, W))
    BY <1>4, <1>8, <1>9
  <1> QED BY <1>10 DEF F, Worth

LEMMA SumOfMonths ==
    ASSUME NEW monthly, \A m \in Months : monthly[m].net \in Int
    PROVE  MapThenSumSet(LAMBDA mo : monthly[mo].net, Months) =
              Sum([m \in Months |-> monthly[m].net])
  <1> DEFINE D == Months
             v == [m \in D |-> monthly[m].net]
             Def(it) == it = [s \in SUBSET D |->
                                IF s = {} THEN 0
                                ELSE LET x == CHOOSE x \in s : TRUE
                                     IN  monthly[x].net + it[s \ {x}]]
             iter == CHOOSE it : Def(it)
  <1>1. IsFiniteSet(D) /\ v \in [D -> Int] /\ \A x \in D : v[x] = monthly[x].net
    BY GateAssumption
  <1>2. PICK h : Totals(h, D, v) /\ Sum(v) = h[D]
    <2> HIDE DEF v, D
    <2> QED BY <1>1, SumIsTotal
  <1> HIDE DEF v
  <1>3. \A s \in SUBSET D : s # {} =>
           LET x == CHOOSE x \in s : TRUE IN h[s] = monthly[x].net + h[s \ {x}]
    <2> SUFFICES ASSUME NEW s \in SUBSET D, s # {}
                 PROVE  LET x == CHOOSE x \in s : TRUE IN h[s] = monthly[x].net + h[s \ {x}]
      OBVIOUS
    <2> DEFINE x == CHOOSE x \in s : TRUE
    <2>1. x \in s /\ x \in D
      OBVIOUS
    <2> HIDE DEF x
    <2>2. h[s] = v[x] + h[s \ {x}] /\ v[x] = monthly[x].net
      BY <1>1, <1>2, <2>1 DEF Totals
    <2> QED BY <2>2 DEF x
  <1>4. Def(h)
    <2>1. h = [s \in SUBSET D |-> h[s]] /\ h[{}] = 0
      BY <1>2 DEF Totals
    <2> QED BY <1>3, <2>1, Zenon
  <1>5. Def(iter)
    <2> HIDE DEF Def
    <2> QED BY <1>4
  <1>6. MapThenSumSet(LAMBDA mo : monthly[mo].net, Months) = iter[D]
    BY DEF MapThenSumSet, MapThenFoldSet
  <1>7. \A s \in SUBSET D : iter[s] = IF s = {} THEN 0
                               ELSE LET x == CHOOSE x \in s : TRUE
                                    IN  monthly[x].net + iter[s \ {x}]
    <2> HIDE DEF iter
    <2> QED BY <1>5, Zenon
  <1> HIDE DEF iter, D
  <1>8. \A s \in SUBSET D : iter[s] = h[s]
    <2> DEFINE B == {s \in SUBSET D : iter[s] # h[s]}
    <2> SUFFICES ASSUME B # {} PROVE FALSE
      OBVIOUS
    <2>1. B \subseteq SUBSET D
      OBVIOUS
    <2>2. PICK s \in B : \A x \in s : s \ {x} \notin B
      <3> HIDE DEF B
      <3> QED BY <1>1, <2>1, LeastSet
    <2>3. s # {}
      BY <1>2, <1>7, <2>2 DEF Totals
    <2> DEFINE x == CHOOSE x \in s : TRUE
    <2>4. x \in s
      BY <2>3
    <2>5. iter[s] = monthly[x].net + iter[s \ {x}] /\ h[s] = monthly[x].net + h[s \ {x}]
      BY <1>3, <1>7, <2>2, <2>3
    <2> HIDE DEF x
    <2>6. iter[s \ {x}] = h[s \ {x}]
      BY <2>2, <2>4
    <2> QED BY <2>2, <2>5, <2>6
  <1>9. iter[D] = Sum(v)
    BY <1>2, <1>8
  <1> QED BY <1>6, <1>9 DEF v, D

(* The months of a list earn what the list earns.                           *)
LEMMA MonthsAddUp ==
    ASSUME NEW xs \in Seq(Execution)
    PROVE  MapThenSumSet(LAMBDA mo : _build_monthly_pnl(xs)[mo].net, Months)
              = _calculate_metrics(xs).net
  <1> DEFINE A == Execution
             E == {e \in A : e.status # "skipped"}
             In(m) == {e \in A : e.month = m}
             W == [e \in A |-> Net(e)]
             G == [e \in A |-> IF e \in E THEN W[e] ELSE 0]
             C == [e \in A |-> e.month]
             F(m) == OfClass(A, G, C, m)
             monthly == _build_monthly_pnl(xs)
  <1>1. W \in [A -> Int] /\ \A e \in A : W[e] = Net(e)
    BY ExecutionTypes
  <1>2. G \in [A -> Int]
    <2> HIDE DEF W, A, E
    <2> QED BY <1>1
  <1>3. C \in [A -> Months] /\ \A e \in A : C[e] = e.month
    BY ExecutionTypes
  <1> HIDE DEF W
  <1>4. ASSUME NEW s \in Seq(A)
        PROVE  /\ _calculate_metrics(s).net = Total(Values(s, G))
               /\ _calculate_metrics(s).net \in Int
    <2> DEFINE t == Executed(s)
    <2>1. t = Only(s, E)
      BY DEF Executed
    <2>2. t \in Seq(A)
      <3> HIDE DEF A, E
      <3> QED BY <2>1, OnlyIsList
    <2>3. _calculate_metrics(s).net = Total(Nets(t))
      <3>1. _calculate_metrics(s) = MetricsOf(Nets(t))
        BY MetricsOfNets
      <3> QED BY <3>1 DEF MetricsOf
    <2> HIDE DEF t
    <2>4. Nets(t) = Values(t, W)
      <3>1. \A i \in DOMAIN t : t[i] \in A
        BY <2>2
      <3>2. \A i \in DOMAIN t : Net(t[i]) = W[t[i]]
        BY <1>1, <3>1
      <3> QED BY <3>2, Zenon DEF Nets, Values
    <2>5. Total(Values(t, W)) = Total(Values(s, G))
      <3> HIDE DEF A, E
      <3> QED BY <1>1, <2>1, TotalOfOnly
    <2>6. Total(Nets(t)) \in Int
      <3>1. Nets(t) \in Seq(Int)
        BY <2>2, ListsOfResults
      <3>2. PICK R : Runs(R, Nets(t))
        BY <3>1, RunsExist
      <3> QED BY <3>1, <3>2, TotalIs
    <2> QED BY <2>3, <2>4, <2>5, <2>6
  <1> HIDE DEF G, C
  <1>5. ASSUME NEW m \in Months
        PROVE  monthly[m].net = Total(Values(xs, F(m))) /\ monthly[m].net \in Int
    <2> DEFINE s == Only(xs, In(m))
    <2>1. s \in Seq(A)
      BY OnlyIsList
    <2>2. monthly[m] = _calculate_metrics(s)
      BY DEF _build_monthly_pnl
    <2>3. Total(Values(s, G)) = Total(Values(xs, [e \in A |-> IF e \in In(m) THEN G[e] ELSE 0]))
      <3> HIDE DEF In, A
      <3> QED BY <1>2, TotalOfOnly DEF A
    <2>4. [e \in A |-> IF e \in In(m) THEN G[e] ELSE 0] = F(m)
      <3>1. \A e \in A : e \in In(m) <=> C[e] = m
        BY <1>3
      <3> HIDE DEF In
      <3>2. \A e \in A : (IF e \in In(m) THEN G[e] ELSE 0) = (IF C[e] = m THEN G[e] ELSE 0)
        BY <3>1, Zenon
      <3> QED BY <3>2, Zenon DEF OfClass
    <2> HIDE DEF s
    <2>5. _calculate_metrics(s).net = Total(Values(s, G)) /\ _calculate_metrics(s).net \in Int
      BY <1>4, <2>1
    <2> HIDE DEF F, In, monthly
    <2>6. Total(Values(s, G)) = Total(Values(xs, F(m)))
      BY <2>3, <2>4, Zenon
    <2> QED BY <2>2, <2>5, <2>6, Zenon
  <1>6. MapThenSumSet(LAMBDA mo : monthly[mo].net, Months) = Sum([m \in Months |-> monthly[m].net])
    <2> HIDE DEF monthly
    <2> QED BY <1>5, SumOfMonths
  <1>7. [m \in Months |-> monthly[m].net] = Worth(xs, A, G, C, Months)
    <2> HIDE DEF monthly
    <2> QED BY <1>5, Zenon DEF Worth
  <1>8. Sum(Worth(xs, A, G, C, Months)) = Total(Values(xs, G))
    <2>1. IsFiniteSet(Months)
      BY GateAssumption
    <2> HIDE DEF A
    <2>2. xs \in Seq(A)
      BY DEF A
    <2> QED BY <1>2, <1>3, <2>1, <2>2, ClassesAddUp
  <1>9. Total(Values(xs, G)) = _calculate_metrics(xs).net
    BY <1>4
  <1> QED BY <1>6, <1>7, <1>8, <1>9

(* LossHelpsOnlyTheCount: the metrics of the gate agree with their          *)
(* definitions, fees only ever take away, and a loss put anywhere into a    *)
(* history turns a failure into a pass only where the history met all but   *)
(* the number of closed trades and lacked one, whatever was executed.       *)
THEOREM LossesOnlyCount == TrialInit => LossHelpsOnlyTheCount
  <1> SUFFICES ASSUME TrialInit PROVE LossHelpsOnlyTheCount
    OBVIOUS
  <1> DEFINE xs == trial.executions
             profile == trial.profile
             m == _calculate_metrics(xs)
             gross == _build_report(xs)
             ys == Executed(xs)
             pnls == Nets(ys)
  <1>1. xs \in Seq(Execution) /\ profile \in Profile
    <2>1. PICK n \in 0..MaxExecutions : trial \in [executions : [1..n -> Execution],
                                                   profile : Profile]
      BY DEF TrialInit
    <2>2. n \in Nat
      BY GateAssumption
    <2>3. xs \in [1..n -> Execution] /\ profile \in Profile
      BY <2>1
    <2> QED BY <2>2, <2>3, FunctionIsList
  <1> HIDE DEF xs, profile
  <1>2. ys \in Seq(Execution)
    BY <1>1, OnlyIsList DEF Executed
  <1>3. m = MetricsOf(pnls) /\ gross = MetricsOf(Grosses(ys))
    BY MetricsOfNets
  <1> HIDE DEF ys
  <1>4. /\ pnls \in Seq(Int) /\ Grosses(ys) \in Seq(Int) /\ Len(pnls) = Len(Grosses(ys))
        /\ \A i \in 1..Len(pnls) : pnls[i] <= Grosses(ys)[i]
    BY <1>2, ListsOfResults
  <1> HIDE DEF m, gross, pnls
  <1>5. ASSUME NEW at \in 1..(Len(xs) + 1), NEW e \in Losers,
               evaluate_scenario(InsertAt(xs, at, e), profile)
        PROVE  \/ evaluate_scenario(xs, profile)
               \/ /\ m.closed + 1 = profile.min_closed_trades
                  /\ evaluate_scenario(xs, Uncounted(profile))
    <2>1. e \in Execution
      BY DEF Losers
    <2>2. Net(e) \in Int /\ Net(e) < 0
      BY <2>1, ExecutionTypes DEF Losers
    <2> DEFINE w == _calculate_metrics(InsertAt(xs, at, e))
    <2>3. Worse(w, m, Net(e))
      BY <1>1, <2>1, MetricsInserted DEF m
    <2>4. _evaluate_profile(w, profile)
      BY <1>5 DEF evaluate_scenario
    <2> HIDE DEF w
    <2>5. /\ m.closed \in Nat /\ w.closed = m.closed + 1
          /\ profile.min_closed_trades \in Nat /\ w.closed >= profile.min_closed_trades
      BY <1>1, <2>3, <2>4 DEF Worse, Profile, _evaluate_profile
    <2>6. CASE m.closed >= profile.min_closed_trades
      <3>1. _evaluate_profile(m, profile)
        BY <1>1, <2>2, <2>3, <2>4, <2>6, WorseMeetsLess
      <3> QED BY <3>1 DEF evaluate_scenario, m
    <2>7. CASE ~(m.closed >= profile.min_closed_trades)
      <3>1. PICK q \in Profile : q = Uncounted(profile)
        BY <1>1 DEF Profile, Uncounted
      <3>2. /\ q.min_closed_trades = 0 /\ q.min_win_rate = profile.min_win_rate
            /\ q.min_profit_factor = profile.min_profit_factor
            /\ q.require_positive_expectancy = profile.require_positive_expectancy
            /\ q.max_drawdown = profile.max_drawdown
        BY <1>1, <3>1 DEF Profile, Uncounted
      <3>3. _evaluate_profile(w, q)
        BY <2>4, <2>5, <3>2 DEF _evaluate_profile
      <3>4. _evaluate_profile(m, q)
        BY <2>2, <2>3, <2>5, <3>2, <3>3, WorseMeetsLess
      <3>5. m.closed + 1 = profile.min_closed_trades
        BY <2>5, <2>7
      <3> QED BY <3>1, <3>4, <3>5 DEF evaluate_scenario, m
    <2> QED BY <2>6, <2>7
  <1>6. ASSUME NEW at \in 1..(Len(xs) + 1), NEW e \in Execution, e.status = "skipped"
        PROVE  _calculate_metrics(InsertAt(xs, at, e)) = m
    BY <1>1, <1>6, MetricsInserted DEF m
  <1>7. MapThenSumSet(LAMBDA mo : _build_monthly_pnl(xs)[mo].net, Months) = m.net
    BY <1>1, MonthsAddUp DEF m
  <1>8. gross.wins >= m.wins /\ gross.drawdown <= m.drawdown
    BY <1>3, <1>4, LowerResults DEF MetricsOf
  <1>9. m.net = m.gains - m.losses
    BY <1>3, <1>4, NetIsGainsLessLosses
  <1>10. m.drawdown = Max({Total(SubSeq(pnls, 1, p[1])) - Total(SubSeq(pnls, 1, p[2])) : p \in
                             {q \in (0..Len(pnls)) \X (0..Len(pnls)) : q[1] <= q[2]}})
    <2>1. m.drawdown = calculate_max_drawdown(pnls)
      BY <1>3 DEF MetricsOf
    <2> QED BY <1>4, <2>1, LargestFall
  <1> QED BY <1>5, <1>6, <1>7, <1>8, <1>9, <1>10
          DEF LossHelpsOnlyTheCount, xs, profile, m, gross, ys, pnls, Nets

=============================================================================
