---------------------------- MODULE SignalLoop ----------------------------
(***************************************************************************)
(* The polling runner (SignalLoopRunner): two seconds after a candle       *)
(* closes it evaluates every symbol, a few at a time, and sleeps until the *)
(* next close.  A refusal of the safety guard, or the shutdown of the      *)
(* application, sets the stop event, which is looked at between ticks.     *)
(*                                                                         *)
(* Time is counted in steps of which an interval has Interval; a tick may  *)
(* take as long as it likes.                                               *)
(***************************************************************************)
EXTENDS Integers, FiniteSets

CONSTANTS
    Symbols,        \* signal_loop_symbols
    MaxConcurrent,  \* signal_loop_max_symbols_concurrent
    Interval,       \* steps of an interval
    LoopCooldown,   \* signal_loop_cooldown_seconds, in steps
    Staleness,      \* how old a snapshot may be, in steps
    MaxClock        \* bound: steps of time

ASSUME LoopAssumption ==
    /\ IsFiniteSet(Symbols) /\ Symbols # {}
    /\ {MaxConcurrent, Interval} \subseteq Nat \ {0}
    /\ {LoopCooldown, Staleness, MaxClock} \subseteq Nat

VARIABLES
    clock,
    phase,    \* run_forever: in a tick, asleep, ended
    wake,     \* when the sleep ends
    stop,     \* _stop_event
    task,     \* _evaluate_symbol of each symbol
    last,     \* _symbol_states: the last entry, 0 when there was none
    ticks,    \* history: the candle of the last tick, and whether one had two
    gap,      \* history: the shortest time between two entries of a symbol
    late      \* history: entries of each symbol since the stop event

loopVars == <<clock, phase, wake, stop, task, last, ticks, gap, late>>

Waiting == [pc |-> "waiting", opened_at |-> 0]

Running == {s \in Symbols : task[s].pc \in {"evaluating", "executing"}}

LoopInit ==
    /\ clock \in 1..Interval
    /\ phase = "tick" /\ wake = 0 /\ stop = FALSE
    /\ task = [s \in Symbols |-> Waiting]
    /\ last = [s \in Symbols |-> 0]
    /\ ticks = [candle |-> clock \div Interval, twice |-> FALSE]
    /\ gap = MaxClock
    /\ late = [s \in Symbols |-> 0]

TimePasses ==
    /\ clock < MaxClock
    /\ clock' = clock + 1
    /\ UNCHANGED <<phase, wake, stop, task, last, ticks, gap, late>>

-----------------------------------------------------------------------------
(* _evaluate_symbol, under a semaphore. *)

(* Mutant: the cooldown ends a step early. *)
CoolsTooShort(s) == last[s] # 0 /\ clock - last[s] < LoopCooldown - 1

cooling(s) == last[s] # 0 /\ clock - last[s] < LoopCooldown

Finish(s) == task' = [task EXCEPT ![s] = [pc |-> "done", opened_at |-> 0]]

(* Mutant: a symbol that is done keeps its permit. *)
PermitKept(s) ==
    /\ task[s].pc = "waiting"
    /\ Cardinality({x \in Symbols : task[x].pc # "waiting"}) < MaxConcurrent

Admitted(s) ==
    task[s].pc = "waiting" /\ Cardinality(Running) < MaxConcurrent

(* In cooldown, or blacklisted, which may happen to any symbol. *)
SkipSymbol(s) ==
    /\ Admitted(s)
    /\ Finish(s)
    /\ UNCHANGED <<clock, phase, wake, stop, last, ticks, gap, late>>

(* The snapshot is read; its last candle is the one in progress. *)
EvaluateSymbol(s) ==
    /\ Admitted(s) /\ ~cooling(s)
    /\ task' = [task EXCEPT ![s] = [pc |-> "evaluating",
                                    opened_at |-> (clock \div Interval) * Interval]]
    /\ UNCHANGED <<clock, phase, wake, stop, last, ticks, gap, late>>

(* The strategy fails or has no signal, or the snapshot is stale by now. *)
NoSignal(s) ==
    /\ task[s].pc = "evaluating"
    /\ Finish(s)
    /\ UNCHANGED <<clock, phase, wake, stop, last, ticks, gap, late>>

SignalFound(s) ==
    /\ task[s].pc = "evaluating"
    /\ clock - task[s].opened_at <= Staleness
    /\ task' = [task EXCEPT ![s].pc = "executing"]
    /\ UNCHANGED <<clock, phase, wake, stop, last, ticks, gap, late>>

(* The entry is recorded when its execution returns. *)
EnterSymbol(s) ==
    /\ task[s].pc = "executing"
    /\ last' = [last EXCEPT ![s] = clock]
    /\ gap' = IF last[s] # 0 /\ clock - last[s] < gap THEN clock - last[s] ELSE gap
    /\ late' = [late EXCEPT ![s] = IF stop THEN @ + 1 ELSE @]
    /\ Finish(s)
    /\ UNCHANGED <<clock, phase, wake, stop, ticks>>

ExecutionFails(s) ==
    /\ task[s].pc = "executing"
    /\ Finish(s)
    /\ UNCHANGED <<clock, phase, wake, stop, last, ticks, gap, late>>

(* SafetyGuardError: the tick goes on for the other symbols. *)
GuardStops(s) ==
    /\ task[s].pc = "executing"
    /\ stop' = TRUE
    /\ Finish(s)
    /\ UNCHANGED <<clock, phase, wake, last, ticks, gap, late>>

-----------------------------------------------------------------------------
(* run_forever. *)

(* Mutant: the sleep ends just before the close. *)
WakesEarly == (clock \div Interval + 1) * Interval - 1

_sleep_until_next_candle_close == (clock \div Interval + 1) * Interval

EndTick ==
    /\ phase = "tick" /\ \A s \in Symbols : task[s].pc = "done"
    /\ phase' = "asleep"
    /\ wake' = _sleep_until_next_candle_close
    /\ UNCHANGED <<clock, stop, task, last, ticks, gap, late>>

Ticked ==
    LET k == clock \div Interval
    IN  [candle |-> k, twice |-> ticks.twice \/ k = ticks.candle]

WakeUp ==
    /\ phase = "asleep" /\ ~stop /\ clock >= wake
    /\ phase' = "tick" /\ ticks' = Ticked
    /\ task' = [s \in Symbols |-> Waiting]
    /\ UNCHANGED <<clock, wake, stop, last, gap, late>>

EndLoop ==
    /\ phase = "asleep" /\ stop
    /\ phase' = "ended"
    /\ UNCHANGED <<clock, wake, stop, task, last, ticks, gap, late>>

(* The application shuts down. *)
StopRunner ==
    /\ ~stop
    /\ stop' = TRUE
    /\ UNCHANGED <<clock, phase, wake, task, last, ticks, gap, late>>

LoopNext ==
    \/ TimePasses \/ EndTick \/ WakeUp \/ EndLoop \/ StopRunner
    \/ \E s \in Symbols :
          \/ SkipSymbol(s) \/ EvaluateSymbol(s) \/ NoSignal(s) \/ SignalFound(s)
          \/ EnterSymbol(s) \/ ExecutionFails(s) \/ GuardStops(s)

(* Calls return or fail, and the event loop runs what is ready. *)
LoopFairness ==
    /\ WF_loopVars(EndTick) /\ WF_loopVars(EndLoop)
    /\ \A s \in Symbols :
          WF_loopVars(\/ SkipSymbol(s) \/ EvaluateSymbol(s) \/ NoSignal(s)
                      \/ SignalFound(s) \/ EnterSymbol(s) \/ ExecutionFails(s)
                      \/ GuardStops(s))

LoopSpec == LoopInit /\ [][LoopNext]_loopVars /\ LoopFairness

-----------------------------------------------------------------------------
(* Properties *)

LoopTypeOK ==
    /\ clock \in 1..MaxClock /\ wake \in 0..(MaxClock + Interval)
    /\ phase \in {"tick", "asleep", "ended"} /\ stop \in BOOLEAN
    /\ \A s \in Symbols :
          /\ task[s].pc \in {"waiting", "evaluating", "executing", "done"}
          /\ task[s].opened_at \in 0..MaxClock
    /\ last \in [Symbols -> 0..MaxClock]
    /\ Cardinality(Running) <= MaxConcurrent

(* However long ticks take and however they are cut by the clock, two      *)
(* ticks never fall into the same candle: no candle is evaluated twice.    *)
OneTickPerCandle == ~ticks.twice

(* Entries of a symbol are a cooldown apart, though the cooldown is read   *)
(* at the start of an evaluation and written at its end.  Once trading was *)
(* refused or the application stops, only the tick under way goes on: at   *)
(* most one more entry for each symbol.                                    *)
EntriesApart ==
    /\ gap >= LoopCooldown \/ gap = MaxClock
    /\ \A s \in Symbols : late[s] <= 1

(* The loop ends when it was told to, whoever holds the semaphore.         *)
LoopEnds == stop ~> phase = "ended"

=============================================================================
