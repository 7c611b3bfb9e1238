-------------------------- MODULE SignalLoopProofs --------------------------
(***************************************************************************)
(* What SignalLoop says of ticks and entries, proved for any symbols,      *)
(* permits, intervals and cooldowns.                                       *)
(*                                                                         *)
(* The cooldown is read when an evaluation begins and written when it      *)
(* ends; that it still holds in between is what CooledDown adds.  The      *)
(* sleep ends at the close of a candle that comes after the one of the     *)
(* last tick (SleepsPastCandle).                                           *)
(***************************************************************************)
EXTENDS SignalLoop, TLAPS

LoopTypes ==
    /\ clock \in Nat /\ wake \in Nat /\ gap \in Nat
    /\ phase \in {"tick", "asleep", "ended"} /\ stop \in BOOLEAN
    /\ task \in [Symbols -> [pc : {"waiting", "evaluating", "executing", "done"},
                             opened_at : Nat]]
    /\ last \in [Symbols -> Nat] /\ late \in [Symbols -> Nat]
    /\ ticks \in [candle : Nat, twice : BOOLEAN]

(* A symbol under evaluation has cooled down, and still has.                *)
CooledDown ==
    \A s \in Symbols :
        /\ last[s] <= clock
        /\ task[s].pc \in {"evaluating", "executing"} =>
              last[s] = 0 \/ clock - last[s] >= LoopCooldown

(* The symbol that had its entry after the stop event is done for good.     *)
LateIsLast ==
    \A s \in Symbols : late[s] = 0 \/ (late[s] = 1 /\ stop /\ task[s].pc = "done")

GapHolds == gap >= LoopCooldown \/ gap = MaxClock

(* The sleep ends after the candle of the last tick.                        *)
SleepsPastCandle ==
    /\ ~ticks.twice /\ ticks.candle <= clock \div Interval
    /\ phase = "asleep" =>
          \E k \in Nat : k > ticks.candle /\ wake = k * Interval

LoopInv == LoopTypes /\ CooledDown /\ LateIsLast /\ GapHolds /\ SleepsPastCandle

-----------------------------------------------------------------------------
(* Candles. *)

LEMMA Constants ==
    /\ Interval \in Nat \ {0} /\ MaxClock \in Nat /\ LoopCooldown \in Nat
  BY LoopAssumption

(* A candle that has closed is over, and time does not go back.             *)
LEMMA CandleOf ==
    ASSUME NEW n \in Nat, NEW i \in Nat \ {0}
    PROVE  /\ n \div i \in Nat
           /\ (n + 1) \div i >= n \div i
           /\ \A k \in Nat : n >= k * i => n \div i >= k
  <1>1. n \div i \in Nat /\ (n + 1) \div i >= n \div i
    OBVIOUS
  <1>2. ASSUME NEW k \in Nat, n >= k * i PROVE n \div i >= k
    BY <1>2
  <1> QED BY <1>1, <1>2

-----------------------------------------------------------------------------
LEMMA InitLoop == LoopInit => LoopInv
  <1> SUFFICES ASSUME LoopInit PROVE LoopInv
    OBVIOUS
  <1>1. clock \in Nat /\ clock \div Interval \in Nat
    BY Constants, CandleOf DEF LoopInit
  <1>2. LoopTypes
    BY <1>1, Constants DEF LoopInit, LoopTypes, Waiting
  <1>3. CooledDown
    BY <1>1 DEF LoopInit, CooledDown, Waiting
  <1>4. LateIsLast /\ GapHolds
    BY DEF LoopInit, LateIsLast, GapHolds
  <1>5. SleepsPastCandle
    BY <1>1 DEF LoopInit, SleepsPastCandle
  <1> QED BY <1>2, <1>3, <1>4, <1>5 DEF LoopInv

(* One symbol takes a step; the clock, the sleep and the tick are as they   *)
(* were.                                                                    *)
Evaluates(s) ==
    \/ SkipSymbol(s) \/ EvaluateSymbol(s) \/ NoSignal(s) \/ SignalFound(s)
    \/ EnterSymbol(s) \/ ExecutionFails(s) \/ GuardStops(s)

LEMMA EvaluationKeeps ==
    ASSUME LoopInv, NEW s \in Symbols, Evaluates(s)
    PROVE  LoopInv'
  <1>1. LoopTypes /\ CooledDown /\ LateIsLast /\ GapHolds /\ SleepsPastCandle
    BY DEF LoopInv
  <1>2. ASSUME Finish(s), UNCHANGED <<clock, phase, wake, last, ticks, gap, late>>,
               stop' \in BOOLEAN, stop => stop'
        PROVE  LoopInv'
    <2>1. task' = [task EXCEPT ![s] = [pc |-> "done", opened_at |-> 0]]
      BY <1>2 DEF Finish
    <2>2. LoopTypes'
      BY <1>1, <1>2, <2>1 DEF LoopTypes
    <2>3. CooledDown' /\ LateIsLast'
      BY <1>1, <1>2, <2>1 DEF LoopTypes, CooledDown, LateIsLast
    <2>4. GapHolds' /\ SleepsPastCandle'
      BY <1>1, <1>2 DEF GapHolds, SleepsPastCandle
    <2> QED BY <2>2, <2>3, <2>4 DEF LoopInv
  <1>3. CASE SkipSymbol(s)
    BY <1>1, <1>2, <1>3 DEF SkipSymbol, LoopTypes
  <1>4. CASE NoSignal(s) \/ ExecutionFails(s)
    BY <1>1, <1>2, <1>4 DEF NoSignal, ExecutionFails, LoopTypes
  <1>5. CASE GuardStops(s)
    BY <1>2, <1>5 DEF GuardStops
  <1>6. CASE EvaluateSymbol(s)
    <2> DEFINE opened == (clock \div Interval) * Interval
    <2>1. opened \in Nat
      <3>1. clock \div Interval \in Nat /\ Interval \in Nat
        BY <1>1, Constants, CandleOf DEF LoopTypes
      <3>2. \A m, n \in Nat : m * n \in Nat
        OBVIOUS
      <3> QED BY <3>1, <3>2
    <2>2. /\ task' = [task EXCEPT ![s] = [pc |-> "evaluating", opened_at |-> opened]]
          /\ UNCHANGED <<clock, phase, wake, stop, last, ticks, gap, late>>
          /\ task[s].pc = "waiting" /\ (last[s] = 0 \/ clock - last[s] >= LoopCooldown)
      BY <1>1, <1>6, Constants DEF EvaluateSymbol, Admitted, cooling, LoopTypes
    <2> HIDE DEF opened
    <2>3. LoopTypes' /\ CooledDown' /\ LateIsLast'
      BY <1>1, <2>1, <2>2 DEF LoopTypes, CooledDown, LateIsLast
    <2>4. GapHolds' /\ SleepsPastCandle'
      BY <1>1, <2>2 DEF GapHolds, SleepsPastCandle
    <2> QED BY <2>3, <2>4 DEF LoopInv
  <1>7. CASE SignalFound(s)
    <2>1. /\ task' = [task EXCEPT ![s].pc = "executing"] /\ task[s].pc = "evaluating"
          /\ UNCHANGED <<clock, phase, wake, stop, last, ticks, gap, late>>
      BY <1>7 DEF SignalFound
    <2>2. LoopTypes' /\ CooledDown' /\ LateIsLast'
      BY <1>1, <2>1 DEF LoopTypes, CooledDown, LateIsLast
    <2>3. GapHolds' /\ SleepsPastCandle'
      BY <1>1, <2>1 DEF GapHolds, SleepsPastCandle
    <2> QED BY <2>2, <2>3 DEF LoopInv
  <1>8. CASE EnterSymbol(s)
    <2>1. /\ task[s].pc = "executing"
          /\ task' = [task EXCEPT ![s] = [pc |-> "done", opened_at |-> 0]]
          /\ last' = [last EXCEPT ![s] = clock]
          /\ gap' = IF last[s] # 0 /\ clock - last[s] < gap THEN clock - last[s] ELSE gap
          /\ late' = [late EXCEPT ![s] = IF stop THEN @ + 1 ELSE @]
          /\ UNCHANGED <<clock, phase, wake, stop, ticks>>
      BY <1>8 DEF EnterSymbol, Finish
    <2>2. late[s] = 0 /\ (last[s] = 0 \/ clock - last[s] >= LoopCooldown) /\ last[s] <= clock
      BY <1>1, <2>1 DEF LateIsLast, CooledDown
    <2>3. gap' \in Nat /\ GapHolds'
      BY <1>1, <2>1, <2>2, Constants DEF LoopTypes, GapHolds
    <2>4. LoopTypes'
      BY <1>1, <2>1, <2>3 DEF LoopTypes
    <2>5. CooledDown' /\ LateIsLast'
      BY <1>1, <2>1, <2>2 DEF LoopTypes, CooledDown, LateIsLast
    <2>6. SleepsPastCandle'
      BY <1>1, <2>1 DEF SleepsPastCandle
    <2> QED BY <2>3, <2>4, <2>5, <2>6 DEF LoopInv
  <1> QED BY <1>3, <1>4, <1>5, <1>6, <1>7, <1>8 DEF Evaluates

LEMMA LoopKeeps == LoopInv /\ [LoopNext]_loopVars => LoopInv'
  <1> SUFFICES ASSUME LoopInv, [LoopNext]_loopVars PROVE LoopInv'
    OBVIOUS
  <1>1. LoopTypes /\ CooledDown /\ LateIsLast /\ GapHolds /\ SleepsPastCandle
    BY DEF LoopInv
  <1>2. CASE TimePasses
    <2>1. clock' = clock + 1 /\ UNCHANGED <<phase, wake, stop, task, last, ticks, gap, late>>
      BY <1>2 DEF TimePasses
    <2>2. LoopTypes' /\ CooledDown' /\ LateIsLast' /\ GapHolds'
      BY <1>1, <2>1, Constants DEF LoopTypes, CooledDown, LateIsLast, GapHolds
    <2>3. /\ clock \div Interval \in Nat /\ (clock + 1) \div Interval \in Nat
          /\ (clock + 1) \div Interval >= clock \div Interval
      <3>1. clock \in Nat /\ clock + 1 \in Nat /\ Interval \in Nat \ {0}
        BY <1>1, Constants DEF LoopTypes
      <3>2. clock \div Interval \in Nat /\ (clock + 1) \div Interval >= clock \div Interval
        BY <3>1, CandleOf
      <3>3. (clock + 1) \div Interval \in Nat
        BY <3>1, CandleOf
      <3> QED BY <3>2, <3>3
    <2>4. ticks.candle \in Nat /\ ticks.candle <= (clock + 1) \div Interval
      BY <1>1, <2>3 DEF LoopTypes, SleepsPastCandle
    <2>5. SleepsPastCandle'
      BY <1>1, <2>1, <2>4 DEF SleepsPastCandle
    <2> QED BY <2>2, <2>5 DEF LoopInv
  <1>3. CASE EndTick
    <2> DEFINE k == clock \div Interval + 1
    <2>1. k \in Nat /\ k > ticks.candle /\ k * Interval \in Nat
      BY <1>1, Constants, CandleOf DEF LoopTypes, SleepsPastCandle
    <2>2. /\ phase' = "asleep" /\ wake' = k * Interval
          /\ UNCHANGED <<clock, stop, task, last, ticks, gap, late>>
      BY <1>3 DEF EndTick, _sleep_until_next_candle_close
    <2>3. SleepsPastCandle'
      BY <1>1, <2>1, <2>2 DEF SleepsPastCandle
    <2> HIDE DEF k
    <2>4. LoopTypes' /\ CooledDown' /\ LateIsLast' /\ GapHolds'
      BY <1>1, <2>1, <2>2 DEF LoopTypes, CooledDown, LateIsLast, GapHolds
    <2> QED BY <2>3, <2>4 DEF LoopInv
  <1>4. CASE WakeUp
    <2> DEFINE now == clock \div Interval
    <2>1. /\ phase = "asleep" /\ ~stop /\ clock >= wake
          /\ phase' = "tick" /\ task' = [s \in Symbols |-> Waiting]
          /\ ticks' = [candle |-> now, twice |-> ticks.twice \/ now = ticks.candle]
          /\ UNCHANGED <<clock, wake, stop, last, gap, late>>
      BY <1>4 DEF WakeUp, Ticked
    <2>2. PICK k \in Nat : k > ticks.candle /\ wake = k * Interval
      BY <1>1, <2>1 DEF SleepsPastCandle
    <2>3. now \in Nat /\ now >= k
      BY <1>1, <2>1, <2>2, Constants, CandleOf DEF LoopTypes
    <2>4. now # ticks.candle
      BY <1>1, <2>2, <2>3 DEF LoopTypes
    <2>5. ticks' = [candle |-> now, twice |-> FALSE]
      BY <1>1, <2>1, <2>4 DEF SleepsPastCandle
    <2>6. SleepsPastCandle'
      BY <2>1, <2>3, <2>5 DEF SleepsPastCandle
    <2> HIDE DEF now
    <2>7. LoopTypes'
      BY <1>1, <2>1, <2>3, <2>5 DEF LoopTypes, Waiting
    <2>8. CooledDown' /\ LateIsLast' /\ GapHolds'
      BY <1>1, <2>1 DEF CooledDown, LateIsLast, GapHolds, Waiting
    <2> QED BY <2>6, <2>7, <2>8 DEF LoopInv
  <1>5. CASE EndLoop
    BY <1>1, <1>5
       DEF EndLoop, LoopInv, LoopTypes, CooledDown, LateIsLast, GapHolds, SleepsPastCandle
  <1>6. CASE StopRunner
    BY <1>1, <1>6
       DEF StopRunner, LoopInv, LoopTypes, CooledDown, LateIsLast, GapHolds, SleepsPastCandle
  <1>7. CASE UNCHANGED loopVars
    BY <1>1, <1>7
       DEF loopVars, LoopInv, LoopTypes, CooledDown, LateIsLast, GapHolds, SleepsPastCandle
  <1>8. CASE \E s \in Symbols : Evaluates(s)
    BY <1>8, EvaluationKeeps
  <1> QED BY <1>2, <1>3, <1>4, <1>5, <1>6, <1>7, <1>8 DEF LoopNext, Evaluates

-----------------------------------------------------------------------------
(* For every interval and however long ticks take: no candle is evaluated   *)
(* twice (_sleep_until_next_candle_close, run_forever).                     *)
THEOREM CandleEvaluatedOnce == LoopSpec => []OneTickPerCandle
  <1>1. LoopInv => OneTickPerCandle
    BY DEF LoopInv, SleepsPastCandle, OneTickPerCandle
  <1> QED BY <1>1, InitLoop, LoopKeeps, PTL DEF LoopSpec

(* For any symbols and permits: entries of a symbol are a cooldown apart,   *)
(* and after the stop event a symbol has one entry at most                  *)
(* (_evaluate_symbol, _is_in_cooldown, stop).                               *)
THEOREM EntriesAreApart == LoopSpec => []EntriesApart
  <1>1. LoopInv => EntriesApart
    BY DEF LoopInv, GapHolds, LateIsLast, EntriesApart
  <1> QED BY <1>1, InitLoop, LoopKeeps, PTL DEF LoopSpec

=============================================================================
