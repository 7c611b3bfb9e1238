---------------------------- MODULE SafetyGuard ----------------------------
(***************************************************************************)
(* The limits on trading: trade outcomes are added to the day's statistics *)
(* (TradeJournalStore), every entry is checked against them first          *)
(* (KillSwitch.guard, CircuitBreaker.check), and a limit that is reached   *)
(* pauses trading until a cooldown ends or the operator resets it.         *)
(*                                                                         *)
(* Every caller is a database session of its own: it reads a row, decides  *)
(* on what it read, and writes the columns it changed (the ORM flushes the *)
(* columns that differ from the copy it loaded).  Nothing but the atomic   *)
(* increments is protected from what others wrote in between.              *)
(*                                                                         *)
(* The day is cut into Hours steps, and an outcome is a loss or a win of   *)
(* 1.  Left out: the columns that are written like these but limit nothing *)
(* (PnL, fees, symbol_stats) and the audit events.                         *)
(***************************************************************************)
EXTENDS Integers, FiniteSets

CONSTANTS
    Trades,      \* positions that will be closed
    Requests,    \* concurrent entries
    Hours,       \* steps of a day
    WeekDays,    \* days the weekly limit looks back on, today included (7)
    CooldownHours,      \* settings.cooldown_hours
    DailyLimit,         \* settings.max_daily_loss_pct, in losses
    WeeklyLimit,        \* settings.max_weekly_loss_pct
    MaxStreak,          \* settings.max_consecutive_losses
    HardStreak,         \* settings.hard_pause_consecutive_losses
    TradeCap,           \* settings.max_trades_per_day
    MaxTime      \* bound: steps of time

ASSUME LimitsAssumption ==
    /\ {Hours, WeekDays, CooldownHours, DailyLimit, WeeklyLimit, MaxStreak,
        HardStreak, TradeCap} \subseteq Nat \ {0}
    /\ MaxTime \in Nat
    /\ MaxStreak <= HardStreak
    /\ IsFiniteSet(Trades) /\ IsFiniteSet(Requests)

VARIABLES
    now,     \* the clock
    stat,    \* daily_stats, one row for each day
    safety,  \* the safety_state row
    trade,   \* outcomes and the sessions that apply them
    req,     \* entries and the sessions that check them
    raced,   \* history: an outcome was written over a newer row
    stale,   \* history: the safety row was written after outdated reads
    cools,   \* history: cooldowns that the statistics of a day caused
    run      \* history: losses of a day since its last win or reset

vars == <<now, stat, safety, trade, req, raced, stale, cools, run>>

-----------------------------------------------------------------------------
(* The rows. *)

Days == 1..(MaxTime \div Hours + 1)

Today == now \div Hours + 1

DailyStat == [total : Nat, wins : Nat, losses : Nat, streak : Nat, loss : Nat]

NewStat == [total |-> 0, wins |-> 0, losses |-> 0, streak |-> 0, loss |-> 0]

PauseReason == {"none", "daily_loss", "weekly_loss", "cooldown", "hard_loss_streak"}

(* until 0, day 0: no cooldown_until, never triggered. *)
SafetyState == [kill : BOOLEAN, reason : PauseReason, manual : BOOLEAN,
                until : 0..(MaxTime + CooldownHours), day : Days \cup {0}]

NoPause == [kill |-> FALSE, reason |-> "none", manual |-> FALSE, until |-> 0, day |-> 0]

(* What a flush writes: the columns that differ from the loaded copy. *)
Flush(loaded, new, current) ==
    [c \in DOMAIN current |-> IF new[c] # loaded[c] THEN new[c] ELSE current[c]]

Trade == [status : {"open", "reading", "closed"}, won : BOOLEAN,
          day : Days, read : DailyStat]

OpenTrade == [status |-> "open", won |-> FALSE, day |-> 1, read |-> NewStat]

Request == [pc : {"idle", "stat", "check", "admitted"}, stat : DailyStat,
            day : Days, safety : SafetyState, expired : BOOLEAN,
            blocked : BOOLEAN, until : 0..(MaxTime + CooldownHours), over : Days \cup {0},
            hard : Days \cup {0}]

(* A session that has cleared a pause holds its rows until it commits. *)
Unlocked == \A c \in Requests : ~(req[c].pc = "admitted" /\ req[c].expired)

-----------------------------------------------------------------------------
(* Outcomes: ExchangeSyncEngine and PositionManager. *)

(* An exit fills: the outcome is dated and the day's row is read. *)
ReadStat(t, won) ==
    /\ trade[t].status = "open"
    /\ trade' = [trade EXCEPT ![t] = [status |-> "reading", won |-> won,
                                      day |-> Today, read |-> stat[Today]]]
    /\ UNCHANGED <<now, stat, safety, req, raced, stale, cools, run>>

(* Every trade that is closed today also counts as a trade of today. *)
WithOutcome(x, won) ==
    [x EXCEPT !.total = IF @ <= x.wins + x.losses THEN @ + 1 ELSE @,
              !.wins = IF won THEN @ + 1 ELSE @,
              !.losses = IF won THEN @ ELSE @ + 1,
              !.streak = IF won THEN 0 ELSE @ + 1,
              !.loss = IF won THEN @ ELSE @ + 1]

apply_trade_outcome_analytics(t) ==
    LET d == trade[t].day
        x == trade[t].read
    IN  /\ trade[t].status = "reading" /\ Unlocked
        /\ stat' = [stat EXCEPT ![d] =
                       Flush(x, WithOutcome(x, trade[t].won), @)]
        /\ raced' = (raced \/ x # stat[d])
        /\ run' = [run EXCEPT ![d] = IF trade[t].won THEN 0 ELSE @ + 1]
        /\ trade' = [trade EXCEPT ![t].status = "closed", ![t].read = NewStat]
        /\ UNCHANGED <<now, safety, req, stale, cools>>

(* Mutant: what the session wrote survives its rollback. *)
KeepsPartialWrite(t) ==
    /\ trade[t].status = "reading"
    /\ stat' = [stat EXCEPT ![trade[t].day] =
                   WithOutcome(@, trade[t].won)]
    /\ trade' = [trade EXCEPT ![t] = OpenTrade]
    /\ UNCHANGED <<now, safety, req, raced, stale, cools, run>>

(* A failing statement, a deadlock victim or a restart: the session rolls  *)
(* back and the exit is seen again later.                                  *)
RollBackOutcome(t) ==
    /\ trade[t].status = "reading"
    /\ trade' = [trade EXCEPT ![t] = OpenTrade]
    /\ UNCHANGED <<now, stat, safety, req, raced, stale, cools, run>>

-----------------------------------------------------------------------------
(* The pause. *)

(* Mutant: any pause is cleared when its time has come. *)
ExpiresAnyPause(s) == s.reason # "none" /\ s.until <= now

Expired(s) == s.reason = "cooldown" /\ s.until # 0 /\ s.until <= now

Unpaused(s) == [s EXCEPT !.reason = "none", !.until = 0, !.manual = FALSE]

loss_streak_stat_date(s) == IF s.day = 0 THEN Today ELSE s.day

(* Mutant: the streak that led to a cooldown outlives it. *)
KeepsStreak(x) == x

ForgivenStreak(x) == [x EXCEPT !.streak = 0]

(* clear_pause_if_expired, committed with the copy it was decided on. *)
clear_pause_if_expired(loaded) ==
    IF Expired(loaded)
    THEN /\ Unlocked
         /\ LET d == loss_streak_stat_date(loaded)
            IN  stat' = [stat EXCEPT ![d] = ForgivenStreak(@)]
         /\ safety' = Flush(loaded, Unpaused(loaded), safety)
         /\ stale' = (stale \/ safety # loaded)
    ELSE UNCHANGED <<stat, safety, stale>>

Goto(c, pc) == req' = [req EXCEPT ![c].pc = pc]

Idle == [pc |-> "idle", stat |-> NewStat, day |-> 1, safety |-> NoPause,
         expired |-> FALSE, blocked |-> FALSE, until |-> 0, over |-> 0,
         hard |-> 0]

Refuse(c) == req' = [req EXCEPT ![c] = Idle]

-----------------------------------------------------------------------------
(* An entry: KillSwitch.guard, CircuitBreaker.check, then the order. *)

Losses(d) == Cardinality({t \in Trades : trade[t].status = "closed"
                                         /\ trade[t].day = d /\ ~trade[t].won})

Wins(d) == Cardinality({t \in Trades : trade[t].status = "closed"
                                       /\ trade[t].day = d /\ trade[t].won})

Week == {d \in Days : d > Today - WeekDays}

(* KillSwitch.guard reads the safety row, clears a cooldown that is over     *)
(* and commits; what stood against the request is remembered.               *)
guard(c) ==
    /\ req[c].pc = "idle"
    /\ clear_pause_if_expired(safety)
    /\ ~safety.kill
    /\ req' = [req EXCEPT ![c] =
          [Idle EXCEPT
              !.pc = "stat",
              !.blocked =
                  safety.reason \in {"daily_loss", "weekly_loss", "hard_loss_streak"},
              !.until = IF safety.reason = "cooldown" THEN safety.until ELSE 0,
              !.over = IF Losses(Today) >= DailyLimit THEN Today ELSE 0,
              !.hard = IF run[Today] >= HardStreak THEN Today ELSE 0]]
    /\ UNCHANGED <<now, trade, raced, cools, run>>

(* GET /safety/status, and a request that the kill switch refuses. *)
status ==
    /\ Expired(safety)
    /\ clear_pause_if_expired(safety)
    /\ UNCHANGED <<now, trade, req, raced, cools, run>>

get_or_create_daily_stat(c) ==
    /\ req[c].pc = "stat"
    /\ req' = [req EXCEPT ![c].pc = "check", ![c].day = Today, ![c].stat = stat[Today],
                          ![c].safety = safety]
    /\ UNCHANGED <<now, stat, safety, trade, raced, stale, cools, run>>

(* set_pause and the commit that goes with it. *)
set_pause(loaded, reason, manual, until) ==
    LET cleared == IF Expired(loaded) THEN Unpaused(loaded) ELSE loaded
        paused == [cleared EXCEPT !.reason = reason, !.manual = manual,
                                  !.until = until, !.day = Today]
        d == loss_streak_stat_date(loaded)
    IN  /\ Unlocked
        /\ safety' = [Flush(cleared, paused, Flush(loaded, cleared, safety))
                         EXCEPT !.day = Today]
        /\ stat' = IF Expired(loaded) THEN [stat EXCEPT ![d] = ForgivenStreak(@)]
                                      ELSE stat

WeeklyLoss ==
    LET Sum[d \in 0..(MaxTime \div Hours + 1)] ==
            IF d = 0 THEN 0 ELSE Sum[d - 1] + (IF d \in Week THEN stat[d].loss ELSE 0)
    IN  Sum[MaxTime \div Hours + 1]

Paused(c, reason, manual, until) ==
    /\ set_pause(req[c].safety, reason, manual, until)
    /\ stale' = (stale \/ safety # req[c].safety \/ stat[req[c].day] # req[c].stat)
    /\ Refuse(c)
    /\ UNCHANGED <<now, trade, raced, run>>

(* Mutant: only the pause says whether the limit of the day is reached. *)
TrustsThePause(s, x) ==
    IF s.reason # "none" THEN "paused"
    ELSE IF x.total >= TradeCap THEN "cap"
    ELSE IF x.streak >= HardStreak THEN "hard_loss_streak"
    ELSE IF x.streak >= MaxStreak THEN "cooldown"
    ELSE "admitted"

(* Mutant: only the statistics say whether a limit is reached. *)
TrustsTheStatistics(s, x) ==
    IF x.total >= TradeCap THEN "cap"
    ELSE IF x.loss >= DailyLimit THEN "daily_loss"
    ELSE IF x.streak >= HardStreak THEN "hard_loss_streak"
    ELSE IF x.streak >= MaxStreak THEN "cooldown"
    ELSE "admitted"

(* The first limit that is reached, in the order of the checks. *)
Verdict(s, x) ==
    IF s.reason # "none" THEN "paused"
    ELSE IF x.total >= TradeCap THEN "cap"
    ELSE IF x.loss >= DailyLimit THEN "daily_loss"
    ELSE IF WeeklyLoss >= WeeklyLimit THEN "weekly_loss"
    ELSE IF x.streak >= HardStreak THEN "hard_loss_streak"
    ELSE IF x.streak >= MaxStreak THEN "cooldown"
    ELSE "admitted"

check(c) ==
    LET s == req[c].safety
        cleared == IF Expired(s) THEN Unpaused(s) ELSE s
        own == Expired(s) /\ loss_streak_stat_date(s) = req[c].day
        x == IF own THEN ForgivenStreak(req[c].stat) ELSE req[c].stat
        verdict == Verdict(cleared, x)
    IN  /\ req[c].pc = "check"
        /\ \/ /\ verdict \in {"paused", "cap"}
              /\ Refuse(c)
              /\ UNCHANGED <<now, stat, safety, trade, raced, stale, cools, run>>
           \/ /\ verdict \in {"daily_loss", "weekly_loss", "hard_loss_streak"}
              /\ Paused(c, verdict, TRUE, 0)
              /\ UNCHANGED cools
           \/ /\ verdict = "cooldown"
              /\ Paused(c, "cooldown", FALSE, now + CooldownHours)
              /\ cools' = [cools EXCEPT ![req[c].day] = @ + 1]
           \/ /\ verdict = "admitted"
              /\ Expired(s) => Unlocked
              /\ req' = [req EXCEPT ![c].pc = "admitted", ![c].expired = Expired(s)]
              /\ UNCHANGED <<now, stat, safety, trade, raced, stale, cools, run>>

(* The order is sent: the trade is counted, and a cleared pause goes with   *)
(* it.                                                                      *)
increment_trade_count(c) ==
    LET s == req[c].safety
        d == loss_streak_stat_date(s)
        forgiven == IF req[c].expired
                    THEN [stat EXCEPT ![d] = ForgivenStreak(@)] ELSE stat
    IN  /\ req[c].pc = "admitted"
        /\ req[c].expired \/ Unlocked
        /\ stat' = [forgiven EXCEPT ![Today].total = @ + 1]
        /\ safety' = IF req[c].expired THEN Flush(s, Unpaused(s), safety) ELSE safety
        /\ stale' = (stale \/ (req[c].expired /\ safety # s))
        /\ Refuse(c)
        /\ UNCHANGED <<now, trade, raced, cools, run>>

(* A later guard refuses: everything since the last commit is undone. *)
RollBackEntry(c) ==
    /\ req[c].pc = "admitted"
    /\ Refuse(c)
    /\ UNCHANGED <<now, stat, safety, trade, raced, stale, cools, run>>

-----------------------------------------------------------------------------
(* The operator: POST /safety/kill and /safety/reset. *)

activate ==
    LET s == IF Expired(safety) THEN Unpaused(safety) ELSE safety
        d == loss_streak_stat_date(safety)
    IN  /\ ~safety.kill /\ Unlocked
        /\ stat' = IF Expired(safety) THEN [stat EXCEPT ![d] = ForgivenStreak(@)] ELSE stat
        /\ safety' = [s EXCEPT !.kill = TRUE, !.day = Today]
        /\ UNCHANGED <<now, trade, req, raced, stale, cools, run>>

reset ==
    LET d == loss_streak_stat_date(safety)
    IN  /\ Unlocked
        /\ IF safety.reason \in {"cooldown", "hard_loss_streak"}
           THEN /\ stat' = [stat EXCEPT ![d] = ForgivenStreak(@)]
                /\ run' = [run EXCEPT ![d] = 0]
           ELSE UNCHANGED <<stat, run>>
        /\ safety' = [Unpaused(safety) EXCEPT !.kill = FALSE]
        /\ req' = [c \in Requests |-> [req[c] EXCEPT !.blocked = FALSE, !.until = 0,
                                                    !.hard = 0]]
        /\ UNCHANGED <<now, trade, raced, stale, cools>>

Tick ==
    /\ now < MaxTime
    /\ now' = now + 1
    /\ UNCHANGED <<stat, safety, trade, req, raced, stale, cools, run>>

-----------------------------------------------------------------------------
Init ==
    /\ now = 0
    /\ stat = [d \in Days |-> NewStat]
    /\ safety = NoPause
    /\ trade = [t \in Trades |-> OpenTrade]
    /\ req = [c \in Requests |-> Idle]
    /\ raced = FALSE /\ stale = FALSE
    /\ cools = [d \in Days |-> 0]
    /\ run = [d \in Days |-> 0]

Next ==
    \/ \E t \in Trades : \/ \E won \in BOOLEAN : ReadStat(t, won)
                         \/ apply_trade_outcome_analytics(t)
                         \/ RollBackOutcome(t)
    \/ \E c \in Requests : \/ guard(c) \/ get_or_create_daily_stat(c)
                           \/ check(c) \/ increment_trade_count(c) \/ RollBackEntry(c)
    \/ status \/ activate \/ reset
    \/ Tick

Spec == Init /\ [][Next]_vars

-----------------------------------------------------------------------------
(* Properties. *)

(* The rows and the sessions keep their types. *)
TypeOK ==
    /\ now \in 0..MaxTime
    /\ stat \in [Days -> DailyStat]
    /\ safety \in SafetyState
    /\ trade \in [Trades -> Trade]
    /\ req \in [Requests -> Request]
    /\ raced \in BOOLEAN /\ stale \in BOOLEAN
    /\ cools \in [Days -> Nat] /\ run \in [Days -> Nat]

(* Unless two sessions wrote over each other, the row of a day is the sum   *)
(* of the outcomes dated that day, whatever was rolled back and tried again *)
(* (apply_trade_outcome_analytics).  However sessions interleave, no loss   *)
(* and no win is counted that did not happen: a write over a newer row      *)
(* loses outcomes and adds none.                                            *)
StatsAddUp ==
    \A d \in Days :
        LET x == stat[d]
        IN  /\ x.losses <= Losses(d) /\ x.loss <= Losses(d) /\ x.wins <= Wins(d)
            /\ ~raced => /\ x.wins = Wins(d) /\ x.losses = Losses(d) /\ x.loss = Losses(d)
                         /\ x.streak <= run[d]
                         /\ x.total >= x.wins + x.losses

(* Once the losses of the day have reached the limit no request that comes  *)
(* later gets through that day, whatever happens to the pause: another      *)
(* session may wipe it, the operator may reset it (check reads the          *)
(* statistics, not only the pause).                                         *)
NoEntryPastDailyLimit ==
    \A c \in Requests :
        req[c].pc = "admitted" /\ ~raced => req[c].over # req[c].day

(* A request that finds the kill switch or a manual pause up, or a cooldown *)
(* running, gets no order out before a reset or the end of the cooldown,    *)
(* as long as the row was never written from an outdated copy.              *)
NoEntryWhilePaused ==
    \A c \in Requests :
        req[c].pc = "admitted" /\ ~stale => ~req[c].blocked /\ req[c].until <= now

(* A pause that needs the operator ends with a reset and nothing else       *)
(* (check, guard and status clear expired cooldowns only), as long as the   *)
(* row was never written from an outdated copy.                             *)
ManualPauseKept ==
    [][/\ safety.reason \in {"daily_loss", "weekly_loss", "hard_loss_streak"}
       /\ safety'.reason # safety.reason
       /\ ~stale'
       => reset]_vars

(* Each cooldown is paid for by losses of its own: when one has been        *)
(* served, the streak that led to it is forgotten on the day it belongs to, *)
(* also over midnight and with the kill switch pressed in between           *)
(* (loss_streak_stat_date).                                                 *)
CooldownsPaidByLosses ==
    ~raced /\ ~stale => \A d \in Days : cools[d] * MaxStreak <= Losses(d)

-----------------------------------------------------------------------------
(* What the repository says of itself, and the code does not keep to. *)

(* src/backend/safety_guard/circuit_breaker.py, class docstring: a hard     *)
(* streak of losses is a manual hard pause.  A request that comes when the  *)
(* losses in a row, none of them reset by hand, have reached it is not      *)
(* admitted.                                                                *)
HardStreakStops ==
    \A c \in Requests :
        req[c].pc = "admitted" /\ ~raced /\ ~stale => req[c].hard # req[c].day

=============================================================================
