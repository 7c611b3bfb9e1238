------------------------- MODULE SafetyGuardProofs -------------------------
(***************************************************************************)
(* What SafetyGuard says of the pause and of the statistics, proved for    *)
(* every number of trades, requests, hours and limits.                     *)
(*                                                                         *)
(* The pause of the row, the pause of the copy that a request has read and *)
(* what stood against the request when it came are related step by step    *)
(* (Stands): a request that has passed the checks has nothing against it.  *)
(* In the same way the row of a day, the copies that sessions have read of *)
(* it and the outcomes that happened are related (Within, Exact), and from *)
(* that what a request reads once the limit is reached (LimitKnown).  The  *)
(* last part follows the streak of a day from the losses that made it to   *)
(* the cooldown they pay for (Paid).                                       *)
(***************************************************************************)
EXTENDS SafetyGuard, FiniteSetTheorems, TLAPS

ManualReasons == {"daily_loss", "weekly_loss", "hard_loss_streak"}

(* What stood against request r stands in the copy s, or is over at n.      *)
Stands(r, s, n) ==
    /\ r.blocked => s.reason \in ManualReasons
    /\ r.until <= n \/ (s.reason = "cooldown" /\ s.until = r.until)

(* Where a request is in its checks, and what it knows.                     *)
Knows(c) ==
    /\ req[c].pc = "stat" => Stands(req[c], safety, now)
    /\ req[c].pc = "check" => Stands(req[c], req[c].safety, now)
    /\ req[c].pc = "admitted" => ~req[c].blocked /\ req[c].until <= now

(* A request that has cleared a pause had read one that was over.           *)
ClearsExpired(c) ==
    req[c].pc = "admitted" /\ req[c].expired => Expired(req[c].safety)

PauseInv ==
    /\ TypeOK
    /\ \A c \in Requests : ClearsExpired(c) /\ (~stale => Knows(c))

-----------------------------------------------------------------------------
(* Types. *)

(* The clock never leaves the days there are rows for.                      *)
LEMMA TodayInDays ==
    ASSUME now \in 0..MaxTime
    PROVE  Today \in Days
  <1>1. Hours \in Nat \ {0} /\ MaxTime \in Nat
    BY LimitsAssumption
  <1>2. ASSUME NEW n \in Nat, NEW m \in Nat, NEW h \in Nat \ {0}, n <= m
        PROVE  n \div h <= m \div h /\ n \div h \in Nat
    BY <1>2
  <1>3. /\ MaxTime \div Hours \in Nat /\ now \div Hours \in Nat
        /\ now \div Hours <= MaxTime \div Hours
    BY <1>1, <1>2
  <1> QED BY <1>1, <1>3 DEF Today, Days

(* A day is a positive number.                                              *)
LEMMA DayIsNumber == Days \subseteq Nat \ {0}
  BY DEF Days

(* A flush of well-typed copies leaves a well-typed row.                    *)
LEMMA FlushTypes ==
    /\ \A l, n, x \in DailyStat : Flush(l, n, x) \in DailyStat
    /\ \A l, n, x \in SafetyState : Flush(l, n, x) \in SafetyState
  <1>1. ASSUME NEW l \in DailyStat, NEW n \in DailyStat, NEW x \in DailyStat
        PROVE  Flush(l, n, x) \in DailyStat
    <2>1. DOMAIN x = {"total", "wins", "losses", "streak", "loss"}
      BY DEF DailyStat
    <2>2. Flush(l, n, x) =
             [total |-> IF n.total # l.total THEN n.total ELSE x.total,
              wins |-> IF n.wins # l.wins THEN n.wins ELSE x.wins,
              losses |-> IF n.losses # l.losses THEN n.losses ELSE x.losses,
              streak |-> IF n.streak # l.streak THEN n.streak ELSE x.streak,
              loss |-> IF n.loss # l.loss THEN n.loss ELSE x.loss]
      BY <2>1 DEF Flush
    <2> QED BY <2>2 DEF DailyStat
  <1>2. ASSUME NEW l \in SafetyState, NEW n \in SafetyState, NEW x \in SafetyState
        PROVE  Flush(l, n, x) \in SafetyState
    <2>1. DOMAIN x = {"kill", "reason", "manual", "until", "day"}
      BY DEF SafetyState
    <2>2. Flush(l, n, x) =
             [kill |-> IF n.kill # l.kill THEN n.kill ELSE x.kill,
              reason |-> IF n.reason # l.reason THEN n.reason ELSE x.reason,
              manual |-> IF n.manual # l.manual THEN n.manual ELSE x.manual,
              until |-> IF n.until # l.until THEN n.until ELSE x.until,
              day |-> IF n.day # l.day THEN n.day ELSE x.day]
      BY <2>1 DEF Flush
    <2> QED BY <2>2 DEF SafetyState
  <1> QED BY <1>1, <1>2

(* A flush onto the row that was loaded writes what was computed.           *)
LEMMA FlushOfLoaded ==
    ASSUME NEW l \in SafetyState, NEW n \in SafetyState
    PROVE  Flush(l, n, l).reason = n.reason /\ Flush(l, n, l).until = n.until
  <1>1. DOMAIN l = {"kill", "reason", "manual", "until", "day"}
    BY DEF SafetyState
  <1> QED BY <1>1 DEF Flush

(* The rows that the operations compute.                                    *)
LEMMA ComputedTypes ==
    /\ NewStat \in DailyStat
    /\ \A x \in DailyStat : ForgivenStreak(x) \in DailyStat
    /\ \A x \in DailyStat, won \in BOOLEAN : WithOutcome(x, won) \in DailyStat
    /\ NoPause \in SafetyState
    /\ \A s \in SafetyState : /\ Unpaused(s) \in SafetyState
                              /\ Unpaused(s).reason = "none" /\ Unpaused(s).until = 0
                              /\ Unpaused(s).day = s.day
  <1>1. NewStat \in DailyStat
    BY DEF NewStat, DailyStat
  <1>2. ASSUME NEW x \in DailyStat PROVE ForgivenStreak(x) \in DailyStat
    BY DEF ForgivenStreak, DailyStat
  <1>3. ASSUME NEW x \in DailyStat, NEW won \in BOOLEAN
        PROVE  WithOutcome(x, won) \in DailyStat
    <2>1. /\ (IF won THEN x.wins + 1 ELSE x.wins) \in Nat
          /\ (IF won THEN x.losses ELSE x.losses + 1) \in Nat
          /\ (IF won THEN 0 ELSE x.streak + 1) \in Nat
          /\ (IF won THEN x.loss ELSE x.loss + 1) \in Nat
          /\ (IF x.total <= x.wins + x.losses THEN x.total + 1 ELSE x.total) \in Nat
      BY DEF DailyStat
    <2> QED BY <2>1 DEF WithOutcome, DailyStat
  <1>4. MaxTime + CooldownHours \in Nat
    BY LimitsAssumption
  <1>5. NoPause \in SafetyState
    BY <1>4 DEF NoPause, SafetyState, PauseReason
  <1>6. ASSUME NEW s \in SafetyState
        PROVE  /\ Unpaused(s) \in SafetyState
               /\ Unpaused(s).reason = "none" /\ Unpaused(s).until = 0
               /\ Unpaused(s).day = s.day
    <2> DEFINE Untils == 0..(MaxTime + CooldownHours)
    <2>1. 0 \in Untils /\ "none" \in PauseReason /\ FALSE \in BOOLEAN
      BY <1>4 DEF PauseReason
    <2>2. SafetyState = [kill : BOOLEAN, reason : PauseReason, manual : BOOLEAN,
                         until : Untils, day : Days \cup {0}]
      BY DEF SafetyState
    <2> HIDE DEF Untils
    <2>3. Unpaused(s) \in SafetyState
      BY <2>1, <2>2 DEF Unpaused
    <2> QED BY <2>3 DEF Unpaused, SafetyState
  <1> QED BY <1>1, <1>2, <1>3, <1>5, <1>6

(* A request that is not under way, and a trade that is open.               *)
LEMMA IdleTypes == Idle \in Request /\ Idle.pc = "idle" /\ OpenTrade \in Trade
  <1>1. 1 \in Days
    <2>1. Hours \in Nat \ {0} /\ MaxTime \in Nat
      BY LimitsAssumption
    <2>2. MaxTime \div Hours \in Nat
      BY <2>1
    <2> QED BY <2>2 DEF Days
  <1>2. Idle \in Request /\ Idle.pc = "idle"
    <2>1. MaxTime + CooldownHours \in Nat
      BY LimitsAssumption
    <2> QED BY <1>1, <2>1, ComputedTypes DEF Idle, Request
  <1>3. OpenTrade \in Trade
    BY <1>1, ComputedTypes DEF OpenTrade, Trade
  <1> QED BY <1>2, <1>3

(* The streak that a pause forgives is of a day that has a row.             *)
LEMMA StreakDay ==
    ASSUME now \in 0..MaxTime, NEW s \in SafetyState
    PROVE  loss_streak_stat_date(s) \in Days
  BY TodayInDays DEF loss_streak_stat_date, SafetyState

(* Clearing a pause.                                                        *)
LEMMA ClearTypes ==
    ASSUME TypeOK, NEW loaded \in SafetyState, clear_pause_if_expired(loaded)
    PROVE  stat' \in [Days -> DailyStat] /\ safety' \in SafetyState /\ stale' \in BOOLEAN
  <1>1. CASE ~Expired(loaded)
    BY <1>1 DEF TypeOK, clear_pause_if_expired
  <1>2. CASE Expired(loaded)
    <2> DEFINE d == loss_streak_stat_date(loaded)
    <2>1. /\ stat' = [stat EXCEPT ![d] = ForgivenStreak(@)]
          /\ safety' = Flush(loaded, Unpaused(loaded), safety)
          /\ stale' = (stale \/ safety # loaded)
      BY <1>2 DEF clear_pause_if_expired
    <2>2. d \in Days /\ Unpaused(loaded) \in SafetyState
      BY ComputedTypes, StreakDay DEF TypeOK
    <2>3. stat' \in [Days -> DailyStat]
      BY <2>1, <2>2, ComputedTypes DEF TypeOK
    <2>4. safety' \in SafetyState
      BY <2>1, <2>2, FlushTypes DEF TypeOK
    <2> QED BY <2>1, <2>3, <2>4
  <1> QED BY <1>1, <1>2

(* Refusing a request.                                                      *)
LEMMA RefuseTypes ==
    ASSUME TypeOK, NEW c \in Requests, Refuse(c)
    PROVE  req' \in [Requests -> Request]
  BY IdleTypes DEF TypeOK, Refuse

(* Setting a pause.                                                         *)
LEMMA PauseTypes ==
    ASSUME TypeOK, NEW loaded \in SafetyState, NEW reason \in PauseReason,
           NEW manual \in BOOLEAN, NEW until \in 0..(MaxTime + CooldownHours),
           set_pause(loaded, reason, manual, until)
    PROVE  stat' \in [Days -> DailyStat] /\ safety' \in SafetyState
  <1> DEFINE cleared == IF Expired(loaded) THEN Unpaused(loaded) ELSE loaded
             paused == [cleared EXCEPT !.reason = reason, !.manual = manual,
                                       !.until = until, !.day = Today]
             flushed == Flush(cleared, paused, Flush(loaded, cleared, safety))
             d == loss_streak_stat_date(loaded)
  <1>1. cleared \in SafetyState /\ Today \in Days /\ d \in Days
    BY ComputedTypes, TodayInDays, StreakDay DEF TypeOK
  <1>2. paused \in SafetyState
    BY <1>1 DEF SafetyState
  <1>3. Flush(loaded, cleared, safety) \in SafetyState
    BY <1>1, FlushTypes DEF TypeOK
  <1>4. flushed \in SafetyState
    BY <1>1, <1>2, <1>3, FlushTypes
  <1>5. safety' = [flushed EXCEPT !.day = Today]
    BY DEF set_pause
  <1>6. safety' \in SafetyState
    BY <1>1, <1>4, <1>5 DEF SafetyState
  <1>7. stat' = IF Expired(loaded) THEN [stat EXCEPT ![d] = ForgivenStreak(@)] ELSE stat
    BY DEF set_pause
  <1>8. stat' \in [Days -> DailyStat]
    BY <1>1, <1>7, ComputedTypes DEF TypeOK
  <1> QED BY <1>6, <1>8

-----------------------------------------------------------------------------
(* Every step keeps the types. *)

LEMMA InitTypes == Init => TypeOK
  <1> SUFFICES ASSUME Init PROVE TypeOK
    OBVIOUS
  <1>1. now \in 0..MaxTime
    BY LimitsAssumption DEF Init
  <1> QED BY <1>1, ComputedTypes, IdleTypes DEF Init, TypeOK

(* The outcome of a trade.                                                  *)
LEMMA OutcomeTypes ==
    ASSUME TypeOK, NEW t \in Trades,
           \/ \E won \in BOOLEAN : ReadStat(t, won)
           \/ apply_trade_outcome_analytics(t)
           \/ RollBackOutcome(t)
    PROVE  TypeOK'
  <1>1. Today \in Days
    BY TodayInDays DEF TypeOK
  <1>2. ASSUME NEW won \in BOOLEAN, ReadStat(t, won) PROVE TypeOK'
    BY <1>1, <1>2 DEF TypeOK, ReadStat, Trade
  <1>3. CASE apply_trade_outcome_analytics(t)
    <2> DEFINE d == trade[t].day
               x == trade[t].read
               new == WithOutcome(x, trade[t].won)
    <2>1. d \in Days /\ x \in DailyStat /\ trade[t].won \in BOOLEAN
      BY DEF TypeOK, Trade
    <2>2. new \in DailyStat
      BY <2>1, ComputedTypes
    <2>3. Flush(x, new, stat[d]) \in DailyStat
      BY <2>1, <2>2, FlushTypes DEF TypeOK
    <2>4. stat' = [stat EXCEPT ![d] = Flush(x, new, stat[d])]
      BY <1>3 DEF apply_trade_outcome_analytics
    <2>5. stat' \in [Days -> DailyStat]
      BY <2>3, <2>4 DEF TypeOK
    <2>6. run' \in [Days -> Nat]
      BY <1>3, <2>1 DEF TypeOK, apply_trade_outcome_analytics
    <2>7. trade' \in [Trades -> Trade]
      <3>1. "closed" \in {"open", "reading", "closed"} /\ NewStat \in DailyStat
        BY ComputedTypes
      <3> QED BY <1>3, <3>1 DEF TypeOK, apply_trade_outcome_analytics, Trade
    <2> QED BY <1>3, <2>5, <2>6, <2>7 DEF TypeOK, apply_trade_outcome_analytics
  <1>4. CASE RollBackOutcome(t)
    BY <1>4, IdleTypes DEF TypeOK, RollBackOutcome
  <1> QED BY <1>2, <1>3, <1>4

(* The pause of a request is set.                                           *)
LEMMA PausedTypes ==
    ASSUME TypeOK, NEW c \in Requests, NEW reason \in PauseReason,
           NEW manual \in BOOLEAN, NEW until \in 0..(MaxTime + CooldownHours),
           Paused(c, reason, manual, until)
    PROVE  /\ stat' \in [Days -> DailyStat] /\ safety' \in SafetyState
           /\ stale' \in BOOLEAN /\ req' \in [Requests -> Request]
  <1>1. req[c].safety \in SafetyState
    BY DEF TypeOK, Request
  <1>2. stat' \in [Days -> DailyStat] /\ safety' \in SafetyState
    BY <1>1, PauseTypes DEF Paused
  <1>3. req' \in [Requests -> Request]
    BY RefuseTypes DEF Paused
  <1> QED BY <1>2, <1>3 DEF Paused, TypeOK

(* A request passes the kill switch.                                        *)
LEMMA GuardTypes ==
    ASSUME TypeOK, NEW c \in Requests, guard(c)
    PROVE  TypeOK'
  <1>1. safety \in SafetyState /\ Today \in Days
    BY TodayInDays DEF TypeOK
  <1>2. stat' \in [Days -> DailyStat] /\ safety' \in SafetyState /\ stale' \in BOOLEAN
    BY <1>1, ClearTypes DEF guard
  <1>3. req' \in [Requests -> Request]
    <2> DEFINE Untils == 0..(MaxTime + CooldownHours)
               until == IF safety.reason = "cooldown" THEN safety.until ELSE 0
               over == IF Losses(Today) >= DailyLimit THEN Today ELSE 0
               hard == IF run[Today] >= HardStreak THEN Today ELSE 0
    <2>1. over \in Days \cup {0} /\ hard \in Days \cup {0}
      BY <1>1
    <2>2. until \in Untils
      BY <1>1, LimitsAssumption DEF SafetyState
    <2>3. Request = [pc : {"idle", "stat", "check", "admitted"}, stat : DailyStat,
                     day : Days, safety : SafetyState, expired : BOOLEAN,
                     blocked : BOOLEAN, until : Untils, over : Days \cup {0},
                     hard : Days \cup {0}]
      BY DEF Request
    <2> HIDE DEF Untils, until, over, hard
    <2>4. ASSUME NEW b \in BOOLEAN
          PROVE  [Idle EXCEPT !.pc = "stat", !.blocked = b, !.until = until,
                              !.over = over, !.hard = hard] \in Request
      BY <2>1, <2>2, <2>3, IdleTypes
    <2>5. (safety.reason \in ManualReasons) \in BOOLEAN
      OBVIOUS
    <2>6. req' = [req EXCEPT ![c] =
                    [Idle EXCEPT !.pc = "stat", !.blocked = (safety.reason \in ManualReasons),
                                 !.until = until, !.over = over, !.hard = hard]]
      BY DEF guard, ManualReasons, until, over, hard
    <2> QED BY <2>4, <2>5, <2>6 DEF TypeOK
  <1> QED BY <1>2, <1>3 DEF TypeOK, guard

(* The copy that a request decides on, without a cooldown that is over.     *)
Cleared(c) ==
    IF Expired(req[c].safety) THEN Unpaused(req[c].safety) ELSE req[c].safety

(* Without a verdict of their own the checks refuse a paused request only.  *)
LEMMA VerdictCases ==
    ASSUME NEW s, NEW x
    PROVE  /\ Verdict(s, x) \in {"paused", "cap", "daily_loss", "weekly_loss",
                                "hard_loss_streak", "cooldown", "admitted"}
           /\ Verdict(s, x) # "paused" => s.reason = "none"
           /\ Verdict(s, x) = "admitted" => ~(x.loss >= DailyLimit)
  BY DEF Verdict

(* How the checks of a request end: it is refused, it sets a pause, or it   *)
(* is admitted; the last two only without a pause in its copy.              *)
LEMMA CheckCases ==
    ASSUME TypeOK, NEW c \in Requests, check(c)
    PROVE  /\ req[c].pc = "check"
           /\ UNCHANGED <<now, trade, raced, run>>
           /\ \/ Refuse(c) /\ UNCHANGED <<stat, safety, stale, cools>>
              \/ /\ Cleared(c).reason = "none"
                 /\ cools' \in [Days -> Nat]
                 /\ \E reason \in PauseReason \ {"none"}, manual \in BOOLEAN,
                       until \in 0..(MaxTime + CooldownHours) :
                       Paused(c, reason, manual, until)
              \/ /\ Cleared(c).reason = "none" /\ ~(req[c].stat.loss >= DailyLimit)
                 /\ req' = [req EXCEPT ![c].pc = "admitted",
                                       ![c].expired = Expired(req[c].safety)]
                 /\ UNCHANGED <<stat, safety, stale, cools>>
  <1> DEFINE s == req[c].safety
             own == Expired(s) /\ loss_streak_stat_date(s) = req[c].day
             x == IF own THEN ForgivenStreak(req[c].stat) ELSE req[c].stat
             verdict == Verdict(Cleared(c), x)
  <1>1. req[c].day \in Days
    BY DEF TypeOK, Request
  <1>2. verdict # "paused" => Cleared(c).reason = "none"
    BY VerdictCases
  <1>3. CASE verdict \in {"paused", "cap"}
    <2>1. Refuse(c) /\ UNCHANGED <<now, stat, safety, trade, raced, stale, cools, run>>
      BY <1>3 DEF check, Cleared
    <2> QED BY <2>1 DEF check
  <1>4. CASE verdict \in {"daily_loss", "weekly_loss", "hard_loss_streak"}
    <2>1. Paused(c, verdict, TRUE, 0) /\ UNCHANGED cools
      BY <1>4 DEF check, Cleared
    <2>2. 0 \in 0..(MaxTime + CooldownHours) /\ verdict \in PauseReason \ {"none"}
      BY <1>4, LimitsAssumption DEF PauseReason
    <2>3. req[c].pc = "check" /\ UNCHANGED <<now, trade, raced, run>>
      BY <2>1 DEF check, Paused
    <2> QED BY <1>2, <1>4, <2>1, <2>2, <2>3 DEF TypeOK
  <1>5. CASE verdict = "cooldown"
    <2>1. /\ Paused(c, "cooldown", FALSE, now + CooldownHours)
          /\ cools' = [cools EXCEPT ![req[c].day] = @ + 1]
      BY <1>5 DEF check, Cleared
    <2>2. now + CooldownHours \in 0..(MaxTime + CooldownHours)
      BY LimitsAssumption DEF TypeOK
    <2>3. cools' \in [Days -> Nat]
      BY <1>1, <2>1 DEF TypeOK
    <2>4. req[c].pc = "check" /\ UNCHANGED <<now, trade, raced, run>>
      BY <2>1 DEF check, Paused
    <2>5. "cooldown" \in PauseReason \ {"none"}
      BY DEF PauseReason
    <2> QED BY <1>2, <1>5, <2>1, <2>2, <2>3, <2>4, <2>5
  <1>6. CASE verdict = "admitted"
    <2>1. /\ req' = [req EXCEPT ![c].pc = "admitted", ![c].expired = Expired(s)]
          /\ UNCHANGED <<now, stat, safety, trade, raced, stale, cools, run>>
      BY <1>6 DEF check, Cleared
    <2>2. ~(x.loss >= DailyLimit)
      BY <1>6, VerdictCases
    <2>3. x.loss = req[c].stat.loss
      BY DEF TypeOK, Request, DailyStat, ForgivenStreak
    <2> QED BY <1>2, <1>6, <2>1, <2>2, <2>3 DEF check
  <1> QED BY <1>3, <1>4, <1>5, <1>6, VerdictCases

(* A request stays one when it moves on or is freed of what stood against   *)
(* it.                                                                      *)
LEMMA MarkedRequest ==
    /\ \A r \in Request, b \in BOOLEAN :
          [r EXCEPT !.pc = "admitted", !.expired = b] \in Request
    /\ \A r \in Request :
          [r EXCEPT !.blocked = FALSE, !.until = 0, !.hard = 0] \in Request
  <1> DEFINE Untils == 0..(MaxTime + CooldownHours)
             Pcs == {"idle", "stat", "check", "admitted"}
             Zeros == Days \cup {0}
  <1>1. 0 \in Untils /\ "admitted" \in Pcs /\ 0 \in Zeros /\ FALSE \in BOOLEAN
    BY LimitsAssumption
  <1>2. Request = [pc : Pcs, stat : DailyStat, day : Days, safety : SafetyState,
                   expired : BOOLEAN, blocked : BOOLEAN, until : Untils,
                   over : Zeros, hard : Zeros]
    BY DEF Request
  <1> HIDE DEF Untils, Pcs, Zeros
  <1> QED BY <1>1, <1>2

(* A request reads, decides, sends its order or is rolled back.             *)
LEMMA RequestTypes ==
    ASSUME TypeOK, NEW c \in Requests,
           \/ get_or_create_daily_stat(c) \/ check(c)
           \/ increment_trade_count(c) \/ RollBackEntry(c)
    PROVE  TypeOK'
  <1>1. Today \in Days /\ req[c] \in Request /\ req[c].safety \in SafetyState
    BY TodayInDays DEF TypeOK, Request
  <1>2. CASE get_or_create_daily_stat(c)
    <2>1. stat[Today] \in DailyStat /\ safety \in SafetyState
      BY <1>1 DEF TypeOK
    <2>2. req' \in [Requests -> Request]
      BY <1>1, <1>2, <2>1 DEF TypeOK, get_or_create_daily_stat, Request
    <2> QED BY <1>2, <2>2 DEF TypeOK, get_or_create_daily_stat
  <1>3. CASE check(c)
    <2>1. CASE Refuse(c) /\ UNCHANGED <<stat, safety, stale, cools>>
      <3>1. UNCHANGED <<now, trade, raced, run>>
        BY <1>3, CheckCases
      <3>2. req' \in [Requests -> Request]
        BY <2>1, RefuseTypes
      <3> QED BY <2>1, <3>1, <3>2 DEF TypeOK
    <2>2. ASSUME NEW reason \in PauseReason, NEW manual \in BOOLEAN,
                 NEW until \in 0..(MaxTime + CooldownHours),
                 Paused(c, reason, manual, until), cools' \in [Days -> Nat]
          PROVE  TypeOK'
      <3>1. UNCHANGED <<now, trade, raced, run>>
        BY <1>3, CheckCases
      <3>2. /\ stat' \in [Days -> DailyStat] /\ safety' \in SafetyState
            /\ stale' \in BOOLEAN /\ req' \in [Requests -> Request]
        BY <2>2, PausedTypes
      <3> QED BY <2>2, <3>1, <3>2 DEF TypeOK
    <2>3. ASSUME req' = [req EXCEPT ![c].pc = "admitted",
                                    ![c].expired = Expired(req[c].safety)],
                 UNCHANGED <<stat, safety, stale, cools>>
          PROVE  TypeOK'
      <3>1. Expired(req[c].safety) \in BOOLEAN
        BY DEF Expired
      <3>2. req' \in [Requests -> Request]
        BY <1>1, <2>3, <3>1, MarkedRequest DEF TypeOK
      <3> QED BY <1>3, <2>3, <3>2, CheckCases DEF TypeOK
    <2> QED BY <1>3, <2>1, <2>2, <2>3, CheckCases
  <1>4. CASE increment_trade_count(c)
    <2> DEFINE s == req[c].safety
               d == loss_streak_stat_date(s)
               forgiven == IF req[c].expired
                           THEN [stat EXCEPT ![d] = ForgivenStreak(@)] ELSE stat
    <2>1. d \in Days /\ Unpaused(s) \in SafetyState
      BY <1>1, StreakDay, ComputedTypes DEF TypeOK
    <2>2. forgiven \in [Days -> DailyStat]
      BY <2>1, ComputedTypes DEF TypeOK
    <2>3. stat' = [forgiven EXCEPT ![Today].total = @ + 1]
      BY <1>4 DEF increment_trade_count
    <2>4. stat' \in [Days -> DailyStat]
      <3> HIDE DEF forgiven
      <3> QED BY <1>1, <2>2, <2>3 DEF DailyStat
    <2>5. safety' \in SafetyState
      BY <1>1, <1>4, <2>1, FlushTypes DEF TypeOK, increment_trade_count
    <2>6. req' \in [Requests -> Request]
      BY <1>4, RefuseTypes DEF increment_trade_count
    <2> QED BY <1>4, <2>4, <2>5, <2>6 DEF TypeOK, increment_trade_count
  <1>5. CASE RollBackEntry(c)
    BY <1>5, RefuseTypes DEF TypeOK, RollBackEntry
  <1> QED BY <1>2, <1>3, <1>4, <1>5

(* The operator.                                                            *)
LEMMA OperatorTypes ==
    ASSUME TypeOK, status \/ activate \/ reset
    PROVE  TypeOK'
  <1> DEFINE d == loss_streak_stat_date(safety)
  <1>1. safety \in SafetyState /\ Today \in Days /\ d \in Days
    BY TodayInDays, StreakDay DEF TypeOK
  <1>2. Unpaused(safety) \in SafetyState
    BY <1>1, ComputedTypes
  <1>3. CASE status
    BY <1>1, <1>3, ClearTypes DEF TypeOK, status
  <1>4. CASE activate
    <2>1. safety' \in SafetyState
      BY <1>1, <1>2, <1>4 DEF activate, SafetyState
    <2>2. stat' \in [Days -> DailyStat]
      BY <1>1, <1>4, ComputedTypes DEF TypeOK, activate
    <2> QED BY <1>4, <2>1, <2>2 DEF TypeOK, activate
  <1>5. CASE reset
    <2>1. safety' \in SafetyState
      BY <1>2, <1>5 DEF reset, SafetyState
    <2>2. stat' = [stat EXCEPT ![d] = ForgivenStreak(@)] \/ stat' = stat
      BY <1>5 DEF reset
    <2>3. stat' \in [Days -> DailyStat]
      BY <1>1, <2>2, ComputedTypes DEF TypeOK
    <2>4. run' = [run EXCEPT ![d] = 0] \/ run' = run
      BY <1>5 DEF reset
    <2>5. run' \in [Days -> Nat]
      BY <1>1, <2>4 DEF TypeOK
    <2>6. req' = [r \in Requests |-> [req[r] EXCEPT !.blocked = FALSE, !.until = 0, !.hard = 0]]
      BY <1>5 DEF reset
    <2>7. req' \in [Requests -> Request]
      BY <2>6, MarkedRequest DEF TypeOK
    <2> QED BY <1>5, <2>1, <2>3, <2>5, <2>7 DEF TypeOK, reset
  <1> QED BY <1>3, <1>4, <1>5

LEMMA TypeKeeps == TypeOK /\ [Next]_vars => TypeOK'
  <1> SUFFICES ASSUME TypeOK, [Next]_vars PROVE TypeOK'
    OBVIOUS
  <1>1. CASE Tick
    BY <1>1, LimitsAssumption DEF TypeOK, Tick
  <1>2. CASE UNCHANGED vars
    BY <1>2 DEF TypeOK, vars
  <1> QED BY <1>1, <1>2, OutcomeTypes, GuardTypes, RequestTypes, OperatorTypes DEF Next

-----------------------------------------------------------------------------
(* The pause. *)

(* Nothing stands in a row whose pause is over or was none.                 *)
Over(s) == s.reason = "none" \/ Expired(s)

SamePause == safety'.reason = safety.reason /\ safety'.until = safety.until

LEMMA OverStands ==
    ASSUME TypeOK, NEW r \in Request, NEW s \in SafetyState, Over(s), Stands(r, s, now)
    PROVE  ~r.blocked /\ r.until <= now
  BY DEF Over, Stands, Expired, ManualReasons

(* As long as nobody writes from an outdated copy, only the operator ends a *)
(* pause that is not over.                                                  *)
LEMMA PauseChanges ==
    ASSUME PauseInv, Next, ~stale', ~reset
    PROVE  SamePause \/ Over(safety)
  <1>1. TypeOK /\ safety \in SafetyState /\ stale \in BOOLEAN
    BY DEF PauseInv, TypeOK
  <1>2. ASSUME NEW s \in SafetyState, clear_pause_if_expired(s)
        PROVE  SamePause \/ Over(safety)
    BY <1>2 DEF clear_pause_if_expired, SamePause, Over
  <1>3. ASSUME NEW t \in Trades,
               \/ \E won \in BOOLEAN : ReadStat(t, won)
               \/ apply_trade_outcome_analytics(t)
               \/ RollBackOutcome(t)
        PROVE  SamePause
    BY <1>3 DEF ReadStat, apply_trade_outcome_analytics, RollBackOutcome, SamePause
  <1>4. ASSUME NEW c \in Requests, guard(c) PROVE SamePause \/ Over(safety)
    BY <1>1, <1>2, <1>4 DEF guard
  <1>5. ASSUME NEW c \in Requests, get_or_create_daily_stat(c) PROVE SamePause
    BY <1>5 DEF get_or_create_daily_stat, SamePause
  <1>6. ASSUME NEW c \in Requests, check(c) PROVE SamePause \/ Over(safety)
    <2>1. CASE UNCHANGED safety
      BY <2>1 DEF SamePause
    <2>2. ASSUME NEW reason, NEW manual, NEW until, Paused(c, reason, manual, until),
                 Cleared(c).reason = "none"
          PROVE  Over(safety)
      <3>1. safety = req[c].safety
        BY <2>2 DEF Paused
      <3> QED BY <2>2, <3>1 DEF Over, Cleared
    <2> QED BY <1>1, <1>6, <2>1, <2>2, CheckCases
  <1>7. ASSUME NEW c \in Requests, increment_trade_count(c) PROVE SamePause \/ Over(safety)
    <2>1. CASE ~req[c].expired
      BY <1>7, <2>1 DEF increment_trade_count, SamePause
    <2>2. CASE req[c].expired
      <3>1. safety = req[c].safety /\ req[c].pc = "admitted"
        BY <1>7, <2>2 DEF increment_trade_count
      <3> QED BY <2>2, <3>1 DEF PauseInv, ClearsExpired, Over
    <2> QED BY <2>1, <2>2
  <1>8. ASSUME NEW c \in Requests, RollBackEntry(c) PROVE SamePause
    BY <1>8 DEF RollBackEntry, SamePause
  <1>9. CASE status
    BY <1>1, <1>2, <1>9 DEF status
  <1>10. CASE activate
    <2>1. CASE Expired(safety)
      BY <2>1 DEF Over
    <2>2. CASE ~Expired(safety)
      BY <1>1, <1>10, <2>2 DEF activate, SafetyState, SamePause
    <2> QED BY <2>1, <2>2
  <1>11. CASE Tick
    BY <1>11 DEF Tick, SamePause
  <1> QED BY <1>3, <1>4, <1>5, <1>6, <1>7, <1>8, <1>9, <1>10, <1>11 DEF Next

(* What a request knows survives the steps of everybody else.               *)
LEMMA OthersKnow ==
    ASSUME PauseInv, Next, NEW c \in Requests, req'[c] = req[c], ~stale', ~stale,
           ~reset, now' >= now, now' \in Nat
    PROVE  Knows(c)'
  <1>1. TypeOK /\ req[c] \in Request /\ safety \in SafetyState /\ now \in Nat
    BY DEF PauseInv, TypeOK
  <1>2. req[c].until \in Nat /\ Knows(c)
    BY <1>1 DEF Request, PauseInv
  <1>3. ASSUME req[c].pc = "stat" PROVE Stands(req[c], safety', now')
    <2>1. Stands(req[c], safety, now)
      BY <1>2, <1>3 DEF Knows
    <2>2. CASE SamePause
      BY <1>1, <1>2, <2>1, <2>2 DEF Stands, SamePause
    <2>3. CASE Over(safety)
      BY <1>1, <1>2, <2>1, <2>3, OverStands DEF Stands
    <2> QED BY <2>2, <2>3, PauseChanges
  <1>4. ASSUME req[c].pc = "check" PROVE Stands(req[c], req[c].safety, now')
    BY <1>1, <1>2, <1>4 DEF Knows, Stands
  <1>5. req[c].pc = "admitted" => ~req[c].blocked /\ req[c].until <= now'
    BY <1>1, <1>2 DEF Knows
  <1> QED BY <1>3, <1>4, <1>5 DEF Knows

(* A request takes its next step.                                           *)
Checks(c) ==
    \/ guard(c) \/ get_or_create_daily_stat(c) \/ check(c)
    \/ increment_trade_count(c) \/ RollBackEntry(c)

(* What a request learns from its own steps.                                *)
LEMMA OwnStepKnows ==
    ASSUME PauseInv, NEW c \in Requests, ~stale, ~stale', Checks(c)
    PROVE  Knows(c)'
  <1>1. /\ TypeOK /\ req \in [Requests -> Request] /\ req[c] \in Request
        /\ safety \in SafetyState /\ now \in Nat /\ Knows(c)
    BY DEF PauseInv, TypeOK
  <1>2. ASSUME Refuse(c) PROVE Knows(c)'
    <2>1. req'[c].pc = "idle"
      BY <1>1, <1>2, IdleTypes DEF Refuse
    <2> QED BY <2>1 DEF Knows
  <1>3. CASE guard(c)
    <2>1. /\ req'[c].pc = "stat"
          /\ req'[c].blocked <=> safety.reason \in ManualReasons
          /\ req'[c].until = IF safety.reason = "cooldown" THEN safety.until ELSE 0
      BY <1>1, <1>3, IdleTypes DEF guard, ManualReasons, Request
    <2>2. now' = now /\ (Expired(safety) \/ safety' = safety)
      BY <1>3 DEF guard, clear_pause_if_expired
    <2>3. CASE Expired(safety)
      BY <1>1, <2>1, <2>2, <2>3 DEF Expired, ManualReasons, Knows, Stands
    <2>4. CASE safety' = safety
      BY <1>1, <2>1, <2>2, <2>4 DEF Knows, Stands
    <2> QED BY <2>2, <2>3, <2>4
  <1>4. CASE get_or_create_daily_stat(c)
    <2>1. /\ req[c].pc = "stat" /\ now' = now
          /\ req'[c].pc = "check" /\ req'[c].safety = safety
          /\ req'[c].blocked = req[c].blocked /\ req'[c].until = req[c].until
      BY <1>1, <1>4 DEF get_or_create_daily_stat, Request
    <2> QED BY <1>1, <2>1 DEF Knows, Stands
  <1>5. CASE check(c)
    <2>1. req[c].pc = "check" /\ now' = now
      BY <1>1, <1>5, CheckCases
    <2>2. ASSUME NEW reason, NEW manual, NEW until, Paused(c, reason, manual, until)
          PROVE  Knows(c)'
      BY <1>2, <2>2 DEF Paused
    <2>3. ASSUME Cleared(c).reason = "none",
                 req' = [req EXCEPT ![c].pc = "admitted",
                                    ![c].expired = Expired(req[c].safety)]
          PROVE  Knows(c)'
      <3>1. Over(req[c].safety) /\ req[c].safety \in SafetyState
        BY <1>1, <2>3 DEF Cleared, Over, Request
      <3>2. ~req[c].blocked /\ req[c].until <= now
        BY <1>1, <2>1, <3>1, OverStands DEF Knows
      <3>3. /\ req'[c].pc = "admitted"
            /\ req'[c].blocked = req[c].blocked /\ req'[c].until = req[c].until
        BY <1>1, <2>3 DEF Request
      <3> QED BY <2>1, <3>2, <3>3 DEF Knows
    <2> QED BY <1>1, <1>2, <1>5, <2>2, <2>3, CheckCases
  <1>6. CASE increment_trade_count(c)
    BY <1>2, <1>6 DEF increment_trade_count
  <1>7. CASE RollBackEntry(c)
    BY <1>2, <1>7 DEF RollBackEntry
  <1> QED BY <1>3, <1>4, <1>5, <1>6, <1>7 DEF Checks

(* A request steps, or all are freed by a reset, or none changes; outdated  *)
(* writes are never forgotten and time goes forward.                        *)
LEMMA StepShape ==
    ASSUME PauseInv, Next
    PROVE  /\ now \in Nat /\ now' \in Nat /\ now' >= now
           /\ ~stale' => ~stale
           /\ \/ reset
              \/ req' = req
              \/ \E c \in Requests :
                    /\ Checks(c)
                    /\ \A o \in Requests \ {c} : req'[o] = req[o]
  <1>1. TypeOK /\ now \in Nat /\ req \in [Requests -> Request]
    BY DEF PauseInv, TypeOK
  <1>2. ASSUME NEW s, clear_pause_if_expired(s) PROVE ~stale' => ~stale
    BY <1>2 DEF clear_pause_if_expired
  <1>3. ASSUME NEW t \in Trades,
               \/ \E won \in BOOLEAN : ReadStat(t, won)
               \/ apply_trade_outcome_analytics(t)
               \/ RollBackOutcome(t)
        PROVE  req' = req /\ now' = now /\ stale' = stale
    BY <1>3 DEF ReadStat, apply_trade_outcome_analytics, RollBackOutcome
  <1>4. ASSUME NEW c \in Requests, guard(c)
        PROVE  now' = now /\ (~stale' => ~stale) /\ \A o \in Requests \ {c} : req'[o] = req[o]
    BY <1>1, <1>2, <1>4 DEF guard
  <1>5. ASSUME NEW c \in Requests, get_or_create_daily_stat(c)
        PROVE  now' = now /\ (~stale' => ~stale) /\ \A o \in Requests \ {c} : req'[o] = req[o]
    BY <1>1, <1>5 DEF get_or_create_daily_stat
  <1>6. ASSUME NEW c \in Requests, check(c)
        PROVE  now' = now /\ (~stale' => ~stale) /\ \A o \in Requests \ {c} : req'[o] = req[o]
    <2>1. ASSUME NEW reason, NEW manual, NEW until, Paused(c, reason, manual, until)
          PROVE  (~stale' => ~stale) /\ \A o \in Requests \ {c} : req'[o] = req[o]
      BY <1>1, <2>1 DEF Paused, Refuse
    <2> QED BY <1>1, <1>6, <2>1, CheckCases DEF Refuse
  <1>7. ASSUME NEW c \in Requests, increment_trade_count(c)
        PROVE  now' = now /\ (~stale' => ~stale) /\ \A o \in Requests \ {c} : req'[o] = req[o]
    BY <1>1, <1>7 DEF increment_trade_count, Refuse
  <1>8. ASSUME NEW c \in Requests, RollBackEntry(c)
        PROVE  now' = now /\ (~stale' => ~stale) /\ \A o \in Requests \ {c} : req'[o] = req[o]
    BY <1>1, <1>8 DEF RollBackEntry, Refuse
  <1>9. ASSUME NEW c \in Requests, Checks(c)
        PROVE  now' = now /\ (~stale' => ~stale) /\ \A o \in Requests \ {c} : req'[o] = req[o]
    BY <1>4, <1>5, <1>6, <1>7, <1>8, <1>9 DEF Checks
  <1>10. CASE status
    BY <1>1, <1>2, <1>10 DEF status
  <1>11. CASE activate
    BY <1>1, <1>11 DEF activate
  <1>12. CASE reset
    <2>1. now' = now /\ stale' = stale
      BY <1>12 DEF reset
    <2> QED BY <1>1, <1>12, <2>1
  <1>13. CASE Tick
    <2>1. now' = now + 1 /\ req' = req /\ stale' = stale
      BY <1>13 DEF Tick
    <2> QED BY <1>1, <2>1
  <1>14. CASE \E c \in Requests : Checks(c)
    BY <1>1, <1>9, <1>14
  <1>15. CASE \E t \in Trades : \/ \E won \in BOOLEAN : ReadStat(t, won)
                                \/ apply_trade_outcome_analytics(t)
                                \/ RollBackOutcome(t)
    BY <1>1, <1>3, <1>15
  <1> QED BY <1>10, <1>11, <1>12, <1>13, <1>14, <1>15 DEF Next, Checks

(* A request that sends its order with a cleared pause has read one that is *)
(* over, and time does not make it less so.                                 *)
LEMMA ClearsKeeps ==
    ASSUME PauseInv, Next, NEW c \in Requests
    PROVE  ClearsExpired(c)'
  <1>1. /\ TypeOK /\ req \in [Requests -> Request] /\ req[c] \in Request
        /\ req[c].safety \in SafetyState /\ ClearsExpired(c)
    BY DEF PauseInv, TypeOK, Request
  <1>2. now \in Nat /\ now' \in Nat /\ now' >= now /\ req[c].safety.until \in Nat
    BY <1>1, StepShape DEF SafetyState
  <1>3. ASSUME Refuse(c) PROVE ClearsExpired(c)'
    <2>1. req'[c].pc = "idle"
      BY <1>1, <1>3, IdleTypes DEF Refuse
    <2> QED BY <2>1 DEF ClearsExpired
  <1>4. ASSUME req'[c].pc = req[c].pc, req'[c].expired = req[c].expired,
               req'[c].safety = req[c].safety
        PROVE  ClearsExpired(c)'
    BY <1>1, <1>2, <1>4 DEF ClearsExpired, Expired
  <1>5. CASE reset
    BY <1>1, <1>4, <1>5 DEF reset, Request
  <1>6. CASE req'[c] = req[c]
    BY <1>4, <1>6
  <1>7. CASE Checks(c)
    <2>1. CASE guard(c)
      <3>1. req'[c].pc = "stat"
        BY <1>1, <2>1, IdleTypes DEF guard, Request
      <3> QED BY <3>1 DEF ClearsExpired
    <2>2. CASE get_or_create_daily_stat(c)
      <3>1. req'[c].pc = "check"
        BY <1>1, <2>2 DEF get_or_create_daily_stat, Request
      <3> QED BY <3>1 DEF ClearsExpired
    <2>3. CASE check(c)
      <3>1. ASSUME NEW reason, NEW manual, NEW until, Paused(c, reason, manual, until)
            PROVE  ClearsExpired(c)'
        BY <1>3, <3>1 DEF Paused
      <3>2. ASSUME req' = [req EXCEPT ![c].pc = "admitted",
                                      ![c].expired = Expired(req[c].safety)]
            PROVE  ClearsExpired(c)'
        <4>1. req'[c].expired = Expired(req[c].safety) /\ req'[c].safety = req[c].safety
          BY <1>1, <3>2 DEF Request
        <4>2. now' = now
          BY <1>1, <2>3, CheckCases
        <4> QED BY <4>1, <4>2 DEF ClearsExpired, Expired
      <3> QED BY <1>1, <1>3, <2>3, <3>1, <3>2, CheckCases
    <2>4. CASE increment_trade_count(c)
      BY <1>3, <2>4 DEF increment_trade_count
    <2>5. CASE RollBackEntry(c)
      BY <1>3, <2>5 DEF RollBackEntry
    <2> QED BY <1>7, <2>1, <2>2, <2>3, <2>4, <2>5 DEF Checks
  <1> QED BY <1>5, <1>6, <1>7, StepShape

LEMMA PauseKeeps == PauseInv /\ [Next]_vars => PauseInv'
  <1> SUFFICES ASSUME PauseInv, [Next]_vars PROVE PauseInv'
    OBVIOUS
  <1>1. TypeOK /\ TypeOK'
    BY TypeKeeps DEF PauseInv
  <1>2. CASE UNCHANGED vars
    <2>1. ASSUME NEW c \in Requests PROVE ClearsExpired(c)' /\ (~stale' => Knows(c)')
      BY <1>2 DEF PauseInv, vars, ClearsExpired, Expired, Knows, Stands
    <2> QED BY <1>1, <2>1 DEF PauseInv
  <1>3. ASSUME Next, NEW c \in Requests, ~stale' PROVE Knows(c)'
    <2>1. now \in Nat /\ now' \in Nat /\ now' >= now /\ ~stale
      BY <1>3, StepShape
    <2>2. CASE reset
      <3>1. req[c] \in Request /\ req'[c] = [req[c] EXCEPT !.blocked = FALSE, !.until = 0,
                                                           !.hard = 0]
        BY <1>1, <2>2 DEF reset, TypeOK
      <3>2. ~req'[c].blocked /\ req'[c].until = 0
        BY <3>1 DEF Request
      <3> QED BY <2>1, <3>2 DEF Knows, Stands
    <2>3. CASE ~reset /\ req'[c] = req[c]
      BY <1>3, <2>1, <2>3, OthersKnow
    <2>4. CASE Checks(c)
      BY <1>3, <2>1, <2>4, OwnStepKnows
    <2> QED BY <1>3, <2>2, <2>3, <2>4, StepShape
  <1>4. CASE Next
    BY <1>1, <1>3, <1>4, ClearsKeeps DEF PauseInv
  <1> QED BY <1>2, <1>4

LEMMA InitPause == Init => PauseInv
  <1> SUFFICES ASSUME Init PROVE PauseInv
    OBVIOUS
  <1>1. \A c \in Requests : req[c].pc = "idle"
    BY IdleTypes DEF Init
  <1> QED BY <1>1, InitTypes DEF PauseInv, ClearsExpired, Knows

-----------------------------------------------------------------------------
(* The rows and the requests keep their types, whatever the limits are:     *)
(* every day that is written has a row (get_or_create_daily_stat).          *)
THEOREM TypeCorrect == Spec => []TypeOK
  BY InitTypes, TypeKeeps, PTL DEF Spec

(* For every number of requests and trades and every limit: a request that  *)
(* found a pause up gets no order out before a reset or the end of the      *)
(* cooldown, unless the row was written from an outdated copy               *)
(* (KillSwitch.guard, CircuitBreaker.check, clear_pause_if_expired).        *)
THEOREM PauseHolds == Spec => []NoEntryWhilePaused
  <1>1. PauseInv => NoEntryWhilePaused
    BY DEF PauseInv, Knows, NoEntryWhilePaused
  <1> QED BY <1>1, InitPause, PauseKeeps, PTL DEF Spec

(* For every number of requests and trades and every limit: a manual pause  *)
(* ends with a reset by the operator and nothing else, unless the row was   *)
(* written from an outdated copy (set_pause, clear_pause_if_expired, reset).*)
THEOREM ManualPauseEndsByReset == Spec => ManualPauseKept
  <1>1. PauseInv /\ [Next]_vars =>
           [/\ safety.reason \in {"daily_loss", "weekly_loss", "hard_loss_streak"}
            /\ safety'.reason # safety.reason
            /\ ~stale'
            => reset]_vars
    <2> SUFFICES ASSUME PauseInv, Next, ~stale', ~reset,
                        safety.reason \in {"daily_loss", "weekly_loss", "hard_loss_streak"}
                 PROVE  safety'.reason = safety.reason
      BY DEF vars
    <2> QED BY PauseChanges DEF SamePause, Over, Expired
  <1> QED BY <1>1, InitPause, PauseKeeps, PTL DEF Spec, ManualPauseKept

-----------------------------------------------------------------------------
(* The statistics of a day. *)

(* A row, or an outdated copy of one, counts nothing that did not happen.   *)
Within(x, losses, wins) == x.losses <= losses /\ x.loss <= losses /\ x.wins <= wins

(* A row that no session has written over counts all of it.                 *)
Exact(x, losses, wins, r) ==
    /\ x.wins = wins /\ x.losses = losses /\ x.loss = losses
    /\ x.streak <= r
    /\ x.total >= x.wins + x.losses

CountInv ==
    /\ \A d \in Days : /\ Within(stat[d], Losses(d), Wins(d))
                       /\ ~raced => Exact(stat[d], Losses(d), Wins(d), run[d])
    /\ \A t \in Trades, d \in Days : trade[t].status = "reading" /\ trade[t].day = d =>
          Within(trade[t].read, Losses(d), Wins(d))

Closed(d, won) ==
    {t \in Trades : trade[t].status = "closed" /\ trade[t].day = d /\ trade[t].won = won}

LEMMA ClosedTrades ==
    ASSUME TypeOK, NEW d
    PROVE  /\ Losses(d) = Cardinality(Closed(d, FALSE)) /\ Losses(d) \in Nat
           /\ Wins(d) = Cardinality(Closed(d, TRUE)) /\ Wins(d) \in Nat
           /\ IsFiniteSet(Closed(d, FALSE)) /\ IsFiniteSet(Closed(d, TRUE))
  <1>1. \A t \in Trades : trade[t].won \in BOOLEAN
    BY DEF TypeOK, Trade
  <1>2. /\ Closed(d, FALSE) = {t \in Trades : trade[t].status = "closed"
                                             /\ trade[t].day = d /\ ~trade[t].won}
        /\ Closed(d, TRUE) = {t \in Trades : trade[t].status = "closed"
                                            /\ trade[t].day = d /\ trade[t].won}
    BY <1>1 DEF Closed
  <1>3. IsFiniteSet(Closed(d, FALSE)) /\ IsFiniteSet(Closed(d, TRUE))
    BY FS_Subset, LimitsAssumption DEF Closed
  <1> QED BY <1>2, <1>3, FS_CardinalityType DEF Losses, Wins

(* Trades that are closed stay so; without a new one nothing changes.       *)
SameClosed ==
    \A t \in Trades :
        \/ trade'[t] = trade[t]
        \/ trade[t].status # "closed" /\ trade'[t].status # "closed"

LEMMA SameCounts ==
    ASSUME SameClosed, NEW d
    PROVE  Losses(d)' = Losses(d) /\ Wins(d)' = Wins(d)
  <1>1. /\ {t \in Trades : trade'[t].status = "closed" /\ trade'[t].day = d /\ ~trade'[t].won}
           = {t \in Trades : trade[t].status = "closed" /\ trade[t].day = d /\ ~trade[t].won}
        /\ {t \in Trades : trade'[t].status = "closed" /\ trade'[t].day = d /\ trade'[t].won}
           = {t \in Trades : trade[t].status = "closed" /\ trade[t].day = d /\ trade[t].won}
    BY DEF SameClosed
  <1> QED BY <1>1 DEF Losses, Wins

(* A trade that is closed counts once, on its day.                          *)
LEMMA OneMore ==
    ASSUME TypeOK, TypeOK', NEW t \in Trades, apply_trade_outcome_analytics(t), NEW d
    PROVE  /\ Losses(d)' = IF d = trade[t].day /\ ~trade[t].won
                            THEN Losses(d) + 1 ELSE Losses(d)
           /\ Wins(d)' = IF d = trade[t].day /\ trade[t].won
                          THEN Wins(d) + 1 ELSE Wins(d)
  <1>1. /\ trade[t].status = "reading" /\ trade[t].won \in BOOLEAN
        /\ trade'[t].status = "closed" /\ trade'[t].day = trade[t].day
        /\ trade'[t].won = trade[t].won
        /\ \A u \in Trades \ {t} : trade'[u] = trade[u]
    BY DEF TypeOK, apply_trade_outcome_analytics, Trade
  <1>2. ASSUME NEW won \in BOOLEAN
        PROVE  Closed(d, won)' = IF d = trade[t].day /\ won = trade[t].won
                                 THEN Closed(d, won) \cup {t} ELSE Closed(d, won)
    BY <1>1 DEF Closed
  <1>3. ASSUME NEW won \in BOOLEAN
        PROVE  Cardinality(Closed(d, won) \cup {t}) = Cardinality(Closed(d, won)) + 1
    <2>1. t \notin Closed(d, won)
      BY <1>1 DEF Closed
    <2>2. IsFiniteSet(Closed(d, FALSE)) /\ IsFiniteSet(Closed(d, TRUE))
      BY ClosedTrades
    <2>3. won = TRUE \/ won = FALSE
      OBVIOUS
    <2>4. IsFiniteSet(Closed(d, won))
      BY <2>2, <2>3
    <2> QED BY <2>1, <2>4, FS_AddElement
  <1>4. /\ Losses(d)' = Cardinality(Closed(d, FALSE)')
        /\ Wins(d)' = Cardinality(Closed(d, TRUE)')
    <2>1. \A u \in Trades : trade'[u].won \in BOOLEAN
      BY DEF TypeOK, Trade
    <2>2. /\ Closed(d, FALSE)' = {u \in Trades : trade'[u].status = "closed"
                                                /\ trade'[u].day = d /\ ~trade'[u].won}
          /\ Closed(d, TRUE)' = {u \in Trades : trade'[u].status = "closed"
                                               /\ trade'[u].day = d /\ trade'[u].won}
      BY <2>1 DEF Closed
    <2> QED BY <2>2 DEF Losses, Wins
  <1>5. /\ Losses(d) = Cardinality(Closed(d, FALSE)) /\ Losses(d) \in Nat
        /\ Wins(d) = Cardinality(Closed(d, TRUE)) /\ Wins(d) \in Nat
    BY ClosedTrades
  <1>6. Cardinality(Closed(d, FALSE)') =
           IF d = trade[t].day /\ ~trade[t].won THEN Losses(d) + 1 ELSE Losses(d)
    <2>1. FALSE \in BOOLEAN /\ (FALSE = trade[t].won <=> ~trade[t].won)
      BY <1>1
    <2>2. CASE d = trade[t].day /\ ~trade[t].won
      <3>1. Closed(d, FALSE)' = Closed(d, FALSE) \cup {t}
        BY <1>2, <2>1, <2>2
      <3>2. Cardinality(Closed(d, FALSE) \cup {t}) = Cardinality(Closed(d, FALSE)) + 1
        BY <1>3, <2>1
      <3>3. Cardinality(Closed(d, FALSE)') = Losses(d) + 1
        BY <1>5, <3>1, <3>2, Zenon
      <3> QED BY <2>2, <3>3
    <2>3. CASE ~(d = trade[t].day /\ ~trade[t].won)
      <3>1. Closed(d, FALSE)' = Closed(d, FALSE)
        BY <1>2, <2>1, <2>3
      <3> QED BY <1>5, <2>3, <3>1
    <2> QED BY <2>2, <2>3
  <1>7. Cardinality(Closed(d, TRUE)') =
           IF d = trade[t].day /\ trade[t].won THEN Wins(d) + 1 ELSE Wins(d)
    <2>1. TRUE \in BOOLEAN /\ (TRUE = trade[t].won <=> trade[t].won)
      BY <1>1
    <2>2. CASE d = trade[t].day /\ trade[t].won
      <3>1. Closed(d, TRUE)' = Closed(d, TRUE) \cup {t}
        BY <1>2, <2>1, <2>2
      <3>2. Cardinality(Closed(d, TRUE) \cup {t}) = Cardinality(Closed(d, TRUE)) + 1
        BY <1>3, <2>1
      <3>3. Cardinality(Closed(d, TRUE)') = Wins(d) + 1
        BY <1>5, <3>1, <3>2, Zenon
      <3> QED BY <2>2, <3>3
    <2>3. CASE ~(d = trade[t].day /\ trade[t].won)
      <3>1. Closed(d, TRUE)' = Closed(d, TRUE)
        BY <1>2, <2>1, <2>3
      <3> QED BY <1>5, <2>3, <3>1
    <2> QED BY <2>2, <2>3
  <1> QED BY <1>4, <1>6, <1>7

(* What is written beside the outcomes touches the streak, downwards, and   *)
(* the number of trades, upwards.                                           *)
Beside(x, y) ==
    /\ y.wins = x.wins /\ y.losses = x.losses /\ y.loss = x.loss
    /\ y.streak \in {0, x.streak} /\ y.total >= x.total

LEMMA BesideCounts ==
    ASSUME TypeOK, CountInv, SameClosed, raced' = raced,
           stat' \in [Days -> DailyStat], \A d \in Days : Beside(stat[d], stat'[d]),
           \A d \in Days : run'[d] = run[d] \/ (run'[d] = 0 /\ stat'[d].streak = 0),
           \A t \in Trades : trade'[t].status = "reading" =>
               \/ trade'[t] = trade[t]
               \/ trade'[t].day \in Days /\ trade'[t].read = stat[trade'[t].day]
    PROVE  CountInv'
  <1>1. ASSUME NEW d \in Days
        PROVE  /\ Within(stat'[d], Losses(d)', Wins(d)')
               /\ ~raced' => Exact(stat'[d], Losses(d)', Wins(d)', run'[d])
    <2>1. Losses(d)' = Losses(d) /\ Wins(d)' = Wins(d)
      BY SameCounts
    <2>2. /\ stat[d] \in DailyStat /\ stat'[d] \in DailyStat /\ run[d] \in Nat
          /\ Beside(stat[d], stat'[d])
          /\ run'[d] = run[d] \/ (run'[d] = 0 /\ stat'[d].streak = 0)
          /\ Within(stat[d], Losses(d), Wins(d))
          /\ ~raced => Exact(stat[d], Losses(d), Wins(d), run[d])
      BY DEF TypeOK, CountInv
    <2> QED BY <2>1, <2>2 DEF Within, Exact, Beside, DailyStat
  <1>2. ASSUME NEW t \in Trades, NEW d \in Days,
               trade'[t].status = "reading", trade'[t].day = d
        PROVE  Within(trade'[t].read, Losses(d)', Wins(d)')
    <2>1. Losses(d)' = Losses(d) /\ Wins(d)' = Wins(d)
      BY SameCounts
    <2> QED BY <1>2, <2>1 DEF CountInv
  <1> QED BY <1>1, <1>2 DEF CountInv

LEMMA ForgivenIsBeside ==
    ASSUME TypeOK, NEW d \in Days, NEW new,
           new = [stat EXCEPT ![d] = ForgivenStreak(@)] \/ new = stat
    PROVE  new \in [Days -> DailyStat] /\ \A e \in Days : Beside(stat[e], new[e])
  <1>1. ASSUME NEW x \in DailyStat PROVE Beside(x, x) /\ Beside(x, ForgivenStreak(x))
    BY DEF Beside, ForgivenStreak, DailyStat
  <1> QED BY <1>1, ComputedTypes DEF TypeOK

(* What a session adds to the row of the day, old or new.                   *)
LEMMA AppliedCounts ==
    ASSUME TypeOK, TypeOK', CountInv, NEW t \in Trades, apply_trade_outcome_analytics(t)
    PROVE  CountInv'
  <1>0. PICK d \in Days : d = trade[t].day
    BY DEF TypeOK, Trade
  <1> DEFINE x == trade[t].read
             won == trade[t].won
             new == WithOutcome(x, won)
  <1>1. /\ d = trade[t].day /\ x \in DailyStat /\ won \in BOOLEAN /\ stat[d] \in DailyStat
        /\ run[d] \in Nat /\ trade[t].status = "reading" /\ raced \in BOOLEAN
    BY <1>0 DEF TypeOK, Trade, apply_trade_outcome_analytics
  <1>2. /\ new.losses = IF won THEN x.losses ELSE x.losses + 1
        /\ new.loss = IF won THEN x.loss ELSE x.loss + 1
        /\ new.wins = IF won THEN x.wins + 1 ELSE x.wins
        /\ new.streak = IF won THEN 0 ELSE x.streak + 1
        /\ new.total = IF x.total <= x.wins + x.losses THEN x.total + 1 ELSE x.total
    BY <1>1 DEF WithOutcome, DailyStat
  <1>3. /\ stat'[d].losses = IF new.losses # x.losses THEN new.losses ELSE stat[d].losses
        /\ stat'[d].loss = IF new.loss # x.loss THEN new.loss ELSE stat[d].loss
        /\ stat'[d].wins = IF new.wins # x.wins THEN new.wins ELSE stat[d].wins
        /\ stat'[d].streak = IF new.streak # x.streak THEN new.streak ELSE stat[d].streak
        /\ stat'[d].total = IF new.total # x.total THEN new.total ELSE stat[d].total
    <2>1. DOMAIN stat[d] = {"total", "wins", "losses", "streak", "loss"}
      BY <1>1 DEF DailyStat
    <2>2. stat'[d] = Flush(x, new, stat[d])
      BY <1>1 DEF apply_trade_outcome_analytics, TypeOK
    <2> QED BY <2>1, <2>2 DEF Flush
  <1>4. /\ \A e \in Days \ {d} : stat'[e] = stat[e] /\ run'[e] = run[e]
        /\ run'[d] = IF won THEN 0 ELSE run[d] + 1
        /\ ~raced' => ~raced /\ x = stat[d]
        /\ trade'[t].status = "closed" /\ \A u \in Trades \ {t} : trade'[u] = trade[u]
    BY <1>1 DEF apply_trade_outcome_analytics, TypeOK, Trade
  <1>5. ASSUME NEW e \in Days
        PROVE  /\ Losses(e) \in Nat /\ Wins(e) \in Nat
               /\ Losses(e)' = IF e = d /\ ~won THEN Losses(e) + 1 ELSE Losses(e)
               /\ Wins(e)' = IF e = d /\ won THEN Wins(e) + 1 ELSE Wins(e)
    BY <1>0, ClosedTrades, OneMore
  <1>6. Within(x, Losses(d), Wins(d)) /\ Within(stat[d], Losses(d), Wins(d))
        /\ (~raced => Exact(stat[d], Losses(d), Wins(d), run[d]))
    BY <1>1 DEF CountInv
  <1>7. /\ x.losses \in Nat /\ x.loss \in Nat /\ x.wins \in Nat /\ x.streak \in Nat
        /\ x.total \in Nat
        /\ stat[d].losses \in Nat /\ stat[d].loss \in Nat /\ stat[d].wins \in Nat
        /\ stat[d].streak \in Nat /\ stat[d].total \in Nat
        /\ Losses(d) \in Nat /\ Wins(d) \in Nat
    BY <1>1, <1>5 DEF DailyStat
  <1>8. /\ Losses(d)' = IF ~won THEN Losses(d) + 1 ELSE Losses(d)
        /\ Wins(d)' = IF won THEN Wins(d) + 1 ELSE Wins(d)
    BY <1>1, OneMore
  <1>9. stat'[d].losses = IF won THEN stat[d].losses ELSE x.losses + 1
    BY <1>2, <1>3, <1>7
  <1>10. stat'[d].loss = IF won THEN stat[d].loss ELSE x.loss + 1
    BY <1>2, <1>3, <1>7
  <1>11. stat'[d].wins = IF won THEN x.wins + 1 ELSE stat[d].wins
    BY <1>2, <1>3, <1>7
  <1>12. Within(stat'[d], Losses(d)', Wins(d)')
    BY <1>6, <1>7, <1>8, <1>9, <1>10, <1>11 DEF Within
  <1>13. ASSUME ~raced' PROVE Exact(stat'[d], Losses(d)', Wins(d)', run'[d])
    <2>1. x = stat[d] /\ Exact(stat[d], Losses(d), Wins(d), run[d])
      BY <1>4, <1>6, <1>13
    <2>2. stat'[d].streak = IF won THEN 0 ELSE stat[d].streak + 1
      BY <1>2, <1>3, <1>7, <2>1
    <2>3. stat'[d].total = IF stat[d].total <= stat[d].wins + stat[d].losses
                           THEN stat[d].total + 1 ELSE stat[d].total
      BY <1>2, <1>3, <1>7, <2>1
    <2> QED BY <1>1, <1>4, <1>7, <1>8, <1>9, <1>10, <1>11, <2>1, <2>2, <2>3 DEF Exact
  <1>14. ASSUME NEW e \in Days, e # d
        PROVE  /\ Within(stat'[e], Losses(e)', Wins(e)')
               /\ ~raced' => Exact(stat'[e], Losses(e)', Wins(e)', run'[e])
    BY <1>4, <1>5, <1>14 DEF CountInv
  <1>15. ASSUME NEW u \in Trades, NEW e \in Days,
                trade'[u].status = "reading", trade'[u].day = e
         PROVE  Within(trade'[u].read, Losses(e)', Wins(e)')
    <2>1. trade'[u] = trade[u]
      BY <1>4, <1>15
    <2>2. trade[u].read \in DailyStat /\ Within(trade[u].read, Losses(e), Wins(e))
      BY <1>15, <2>1 DEF CountInv, TypeOK, Trade
    <2> QED BY <1>5, <2>1, <2>2 DEF Within, DailyStat
  <1>16. ASSUME NEW e \in Days
         PROVE  /\ Within(stat'[e], Losses(e)', Wins(e)')
                /\ ~raced' => Exact(stat'[e], Losses(e)', Wins(e)', run'[e])
    <2>1. CASE e # d
      BY <1>14, <2>1
    <2>2. CASE e = d
      <3> DEFINE Counted(f) == /\ Within(stat'[f], Losses(f)', Wins(f)')
                               /\ ~raced' => Exact(stat'[f], Losses(f)', Wins(f)', run'[f])
      <3>1. Counted(d)
        BY <1>12, <1>13
      <3> HIDE DEF Counted
      <3>2. Counted(e)
        BY <3>1, <2>2
      <3> QED BY <3>2 DEF Counted
    <2> QED BY <2>1, <2>2
  <1> QED BY <1>15, <1>16 DEF CountInv

(* A step that closes no trade and forgives a streak at most.               *)
LEMMA ForgivenCounts ==
    ASSUME TypeOK, CountInv, UNCHANGED <<trade, raced, run>>, NEW d \in Days,
           stat' = [stat EXCEPT ![d] = ForgivenStreak(@)] \/ stat' = stat
    PROVE  CountInv'
  <1>1. stat' \in [Days -> DailyStat] /\ \A e \in Days : Beside(stat[e], stat'[e])
    BY ForgivenIsBeside
  <1>2. SameClosed
    BY DEF SameClosed
  <1> QED BY <1>1, <1>2, BesideCounts

(* A session that rolls back, or an exit that is read, closes no trade.     *)
LEMMA ReadCounts ==
    ASSUME TypeOK, CountInv, NEW t \in Trades, NEW won \in BOOLEAN,
           ReadStat(t, won) \/ RollBackOutcome(t)
    PROVE  CountInv'
  <1>1. UNCHANGED <<stat, raced, run>> /\ \A e \in Days : Beside(stat[e], stat'[e])
    <2>1. UNCHANGED <<stat, raced, run>>
      BY DEF ReadStat, RollBackOutcome
    <2> QED BY <2>1 DEF Beside, TypeOK, DailyStat
  <1>2. /\ trade[t].status # "closed" /\ trade'[t].status # "closed"
        /\ trade'[t].status = "reading" =>
              trade'[t].day \in Days /\ trade'[t].read = stat[trade'[t].day]
        /\ \A u \in Trades \ {t} : trade'[u] = trade[u]
    <2>1. CASE ReadStat(t, won)
      BY <2>1, TodayInDays DEF ReadStat, TypeOK
    <2>2. CASE RollBackOutcome(t)
      BY <2>2 DEF RollBackOutcome, TypeOK, OpenTrade
    <2> QED BY <2>1, <2>2
  <1>3. SameClosed
    BY <1>2 DEF SameClosed
  <1>4. \A u \in Trades : trade'[u].status = "reading" =>
           \/ trade'[u] = trade[u]
           \/ trade'[u].day \in Days /\ trade'[u].read = stat[trade'[u].day]
    BY <1>2
  <1> QED BY <1>1, <1>3, <1>4, BesideCounts DEF TypeOK

(* An entry that is counted, with the pause it has cleared.                 *)
LEMMA EntryCounts ==
    ASSUME TypeOK, CountInv, NEW c \in Requests, increment_trade_count(c)
    PROVE  CountInv'
  <1>1. PICK d \in Days : d = loss_streak_stat_date(req[c].safety)
    BY StreakDay DEF TypeOK, Request
  <1>2. PICK n \in Days : n = Today
    BY TodayInDays DEF TypeOK
  <1> DEFINE forgiven == IF req[c].expired
                         THEN [stat EXCEPT ![d] = ForgivenStreak(@)] ELSE stat
  <1>3. /\ forgiven \in [Days -> DailyStat]
        /\ \A e \in Days : Beside(stat[e], forgiven[e])
    BY ForgivenIsBeside
  <1>4. /\ stat' = [forgiven EXCEPT ![n].total = @ + 1]
        /\ UNCHANGED <<trade, raced, run>>
    BY <1>1, <1>2 DEF increment_trade_count
  <1> HIDE DEF forgiven
  <1>5. ASSUME NEW x \in DailyStat, NEW y \in DailyStat, Beside(x, y)
        PROVE  /\ [y EXCEPT !.total = @ + 1] \in DailyStat
               /\ Beside(x, [y EXCEPT !.total = @ + 1])
    BY <1>5 DEF Beside, DailyStat
  <1>6. ASSUME NEW e \in Days PROVE stat'[e] \in DailyStat /\ Beside(stat[e], stat'[e])
    <2>1. forgiven[e] \in DailyStat /\ stat[e] \in DailyStat /\ Beside(stat[e], forgiven[e])
      BY <1>3 DEF TypeOK
    <2>2. stat'[e] = IF e = n THEN [forgiven[e] EXCEPT !.total = @ + 1] ELSE forgiven[e]
      BY <1>3, <1>4
    <2> QED BY <1>5, <2>1, <2>2
  <1>7. stat' \in [Days -> DailyStat]
    <2>1. stat' = [e \in Days |-> stat'[e]]
      BY <1>3, <1>4
    <2> QED BY <1>6, <2>1
  <1>8. SameClosed
    BY <1>4 DEF SameClosed
  <1> QED BY <1>4, <1>6, <1>7, <1>8, BesideCounts

(* The operator forgives a streak for good.                                 *)
LEMMA ResetCounts ==
    ASSUME TypeOK, CountInv, reset
    PROVE  CountInv'
  <1>1. PICK d \in Days : d = loss_streak_stat_date(safety)
    BY StreakDay DEF TypeOK
  <1>2. UNCHANGED <<trade, raced>>
    BY DEF reset
  <1>3. SameClosed
    BY <1>2 DEF SameClosed
  <1>4. CASE UNCHANGED <<stat, run>>
    BY <1>1, <1>2, <1>4, ForgivenCounts
  <1>5. CASE /\ stat' = [stat EXCEPT ![d] = ForgivenStreak(@)]
             /\ run' = [run EXCEPT ![d] = 0]
    <2>1. stat' \in [Days -> DailyStat] /\ \A e \in Days : Beside(stat[e], stat'[e])
      BY <1>5, ForgivenIsBeside
    <2>2. \A e \in Days : run'[e] = run[e] \/ (run'[e] = 0 /\ stat'[e].streak = 0)
      BY <1>5 DEF TypeOK, ForgivenStreak, DailyStat
    <2> QED BY <1>2, <1>3, <2>1, <2>2, BesideCounts
  <1> QED BY <1>1, <1>4, <1>5 DEF reset

(* The sessions of a request before its entry is counted.                   *)
LEMMA RequestCounts ==
    ASSUME TypeOK, CountInv, NEW c \in Requests, Checks(c), ~increment_trade_count(c)
    PROVE  CountInv'
  <1>1. /\ loss_streak_stat_date(safety) \in Days
        /\ loss_streak_stat_date(req[c].safety) \in Days
    BY StreakDay DEF TypeOK, Request
  <1>2. CASE guard(c)
    BY <1>1, <1>2, ForgivenCounts DEF guard, clear_pause_if_expired
  <1>3. CASE get_or_create_daily_stat(c)
    BY <1>1, <1>3, ForgivenCounts DEF get_or_create_daily_stat
  <1>4. CASE check(c)
    <2>1. UNCHANGED <<trade, raced, run>>
      BY <1>4, CheckCases
    <2>2. ASSUME NEW reason, NEW manual, NEW until, Paused(c, reason, manual, until)
          PROVE  CountInv'
      BY <1>1, <2>1, <2>2, ForgivenCounts DEF Paused, set_pause
    <2>3. CASE UNCHANGED stat
      BY <1>1, <2>1, <2>3, ForgivenCounts
    <2> QED BY <1>4, <2>2, <2>3, CheckCases
  <1>5. CASE RollBackEntry(c)
    BY <1>1, <1>5, ForgivenCounts DEF RollBackEntry
  <1> QED BY <1>2, <1>3, <1>4, <1>5 DEF Checks

LEMMA CountKeeps ==
    ASSUME TypeOK, TypeOK', CountInv, [Next]_vars
    PROVE  CountInv'
  <1>1. loss_streak_stat_date(safety) \in Days
    BY StreakDay DEF TypeOK
  <1>2. ASSUME UNCHANGED <<trade, raced, run>>, UNCHANGED stat PROVE CountInv'
    BY <1>1, <1>2, ForgivenCounts
  <1>3. CASE UNCHANGED vars
    BY <1>2, <1>3 DEF vars
  <1>4. CASE status
    BY <1>1, <1>4, ForgivenCounts DEF status, clear_pause_if_expired
  <1>5. CASE activate
    BY <1>1, <1>5, ForgivenCounts DEF activate
  <1>6. CASE Tick
    BY <1>2, <1>6 DEF Tick
  <1>7. ASSUME NEW t \in Trades,
               \/ \E won \in BOOLEAN : ReadStat(t, won)
               \/ apply_trade_outcome_analytics(t)
               \/ RollBackOutcome(t)
        PROVE  CountInv'
    BY <1>7, ReadCounts, AppliedCounts
  <1>8. ASSUME NEW c \in Requests, Checks(c) PROVE CountInv'
    BY <1>8, EntryCounts, RequestCounts
  <1> QED BY <1>3, <1>4, <1>5, <1>6, <1>7, <1>8, ResetCounts DEF Next, Checks

LEMMA InitCounts == Init => CountInv
  <1> SUFFICES ASSUME Init PROVE CountInv
    OBVIOUS
  <1>1. TypeOK
    BY InitTypes
  <1>2. \A t \in Trades : trade[t].status = "open"
    BY DEF Init, OpenTrade
  <1>3. ASSUME NEW d \in Days PROVE Losses(d) = 0 /\ Wins(d) = 0
    <2>1. Closed(d, FALSE) = {} /\ Closed(d, TRUE) = {}
      BY <1>2 DEF Closed
    <2> QED BY <1>1, <2>1, ClosedTrades, FS_EmptySet
  <1>4. ASSUME NEW d \in Days
        PROVE  stat[d] = NewStat /\ run[d] = 0
    BY DEF Init
  <1> QED BY <1>2, <1>3, <1>4 DEF CountInv, Within, Exact, NewStat

(* The row of a day never counts an outcome that did not happen, and unless *)
(* two sessions wrote over each other it counts all of them                 *)
(* (apply_trade_outcome_analytics), for every number of trades and days.    *)
THEOREM StatsCount == Spec => []StatsAddUp
  <1>1. Init => CountInv
    BY InitCounts
  <1>2. TypeOK /\ TypeOK' /\ CountInv /\ [Next]_vars => CountInv'
    BY CountKeeps
  <1>3. CountInv => StatsAddUp
    BY DEF CountInv, Within, Exact, StatsAddUp
  <1> QED BY <1>1, <1>2, <1>3, TypeCorrect, PTL DEF Spec

-----------------------------------------------------------------------------
(* The limit of the day. *)

(* What a request that came when the limit of a day was reached carries.    *)
LimitKnown(c) ==
    /\ req[c].pc = "stat" => \A d \in Days : req[c].over = d => Losses(d) >= DailyLimit
    /\ req[c].pc = "check" /\ req[c].over = req[c].day => req[c].stat.loss >= DailyLimit
    /\ req[c].pc = "admitted" => req[c].over # req[c].day

LimitInv == /\ TypeOK /\ CountInv
            /\ ~raced => \A c \in Requests : LimitKnown(c)

(* Losses are never taken back, nor is a write over a newer row forgotten.  *)
LEMMA LossesGrow ==
    ASSUME TypeOK, TypeOK', Next, NEW d \in Days
    PROVE  /\ Losses(d)' >= Losses(d) /\ Losses(d) \in Nat /\ Losses(d)' \in Nat
           /\ ~raced' => ~raced
  <1>1. Losses(d) \in Nat
    BY ClosedTrades
  <1>2. ASSUME SameClosed, raced' = raced
        PROVE  Losses(d)' >= Losses(d) /\ Losses(d)' \in Nat /\ (~raced' => ~raced)
    BY <1>1, <1>2, SameCounts
  <1>3. ASSUME UNCHANGED <<trade, raced>>
        PROVE  Losses(d)' >= Losses(d) /\ Losses(d)' \in Nat /\ (~raced' => ~raced)
    BY <1>2, <1>3 DEF SameClosed
  <1>4. ASSUME NEW t \in Trades, apply_trade_outcome_analytics(t)
        PROVE  Losses(d)' >= Losses(d) /\ Losses(d)' \in Nat /\ (~raced' => ~raced)
    <2>1. Losses(d)' = Losses(d) + 1 \/ Losses(d)' = Losses(d)
      BY <1>4, OneMore
    <2>2. ~raced' => ~raced
      BY <1>4 DEF apply_trade_outcome_analytics, TypeOK
    <2> QED BY <1>1, <2>1, <2>2
  <1>5. ASSUME NEW t \in Trades, NEW won \in BOOLEAN, ReadStat(t, won) \/ RollBackOutcome(t)
        PROVE  SameClosed /\ raced' = raced
    BY <1>5 DEF ReadStat, RollBackOutcome, SameClosed, OpenTrade, TypeOK
  <1>6. ASSUME NEW c \in Requests, Checks(c) PROVE UNCHANGED <<trade, raced>>
    BY <1>6, CheckCases
       DEF Checks, guard, get_or_create_daily_stat, increment_trade_count, RollBackEntry
  <1>7. CASE status \/ activate \/ reset \/ Tick
    <2>1. UNCHANGED <<trade, raced>>
      BY <1>7 DEF status, activate, reset, Tick
    <2> QED BY <1>1, <1>3, <2>1
  <1> QED BY <1>1, <1>2, <1>3, <1>4, <1>5, <1>6, <1>7 DEF Next, Checks

(* A request that does not move knows what it knew.                         *)
LEMMA SameRequestKnows ==
    ASSUME TypeOK, TypeOK', Next, NEW c \in Requests, LimitKnown(c),
           req'[c].pc = req[c].pc, req'[c].over = req[c].over,
           req'[c].day = req[c].day, req'[c].stat = req[c].stat
    PROVE  LimitKnown(c)'
  <1>1. ASSUME NEW d \in Days, req'[c].pc = "stat", req'[c].over = d
        PROVE  Losses(d)' >= DailyLimit
    <2>1. Losses(d) >= DailyLimit
      BY <1>1 DEF LimitKnown
    <2>2. DailyLimit \in Nat
      BY LimitsAssumption
    <2> QED BY <2>1, <2>2, LossesGrow
  <1> QED BY <1>1 DEF LimitKnown

(* What a request learns about the limit from its own steps: what it reads  *)
(* is at least what was lost when it came.                                  *)
LEMMA OwnStepKnowsLimit ==
    ASSUME TypeOK, TypeOK', CountInv, ~raced, NEW c \in Requests, LimitKnown(c), Checks(c)
    PROVE  LimitKnown(c)'
  <1>1. req \in [Requests -> Request] /\ req[c] \in Request /\ req'[c] \in Request
    BY DEF TypeOK
  <1>2. ASSUME Refuse(c) PROVE LimitKnown(c)'
    <2>1. req'[c].pc = "idle"
      BY <1>1, <1>2, IdleTypes DEF Refuse
    <2> QED BY <2>1 DEF LimitKnown
  <1>3. CASE guard(c)
    <2>1. /\ req'[c].pc = "stat"
          /\ req'[c].over = IF Losses(Today) >= DailyLimit THEN Today ELSE 0
      BY <1>1, <1>3, IdleTypes DEF guard, Request
    <2>2. ASSUME NEW d \in Days, req'[c].over = d PROVE Losses(d)' >= DailyLimit
      <3>1. d # 0
        BY DayIsNumber
      <3>2. d = Today /\ Losses(Today) >= DailyLimit
        BY <2>1, <2>2, <3>1
      <3>3. Losses(d) >= DailyLimit
        BY <3>2
      <3>4. SameClosed
        BY <1>3 DEF guard, SameClosed
      <3>5. Losses(d)' = Losses(d)
        BY <3>4, SameCounts
      <3> QED BY <3>3, <3>5
    <2> QED BY <2>1, <2>2 DEF LimitKnown
  <1>4. CASE get_or_create_daily_stat(c)
    <2>1. PICK n \in Days : n = Today
      BY TodayInDays DEF TypeOK
    <2>2. /\ req'[c].pc = "check" /\ req'[c].day = n /\ req'[c].stat = stat[n]
          /\ req'[c].over = req[c].over /\ req[c].pc = "stat"
      BY <1>1, <1>4, <2>1 DEF get_or_create_daily_stat, Request
    <2>3. ASSUME req[c].over = n PROVE stat[n].loss >= DailyLimit
      <3>1. Losses(n) >= DailyLimit
        BY <2>2, <2>3 DEF LimitKnown
      <3>2. stat[n].loss = Losses(n)
        BY DEF CountInv, Exact
      <3> QED BY <3>1, <3>2
    <2> QED BY <2>2, <2>3 DEF LimitKnown
  <1>5. CASE check(c)
    <2>1. ASSUME NEW reason, NEW manual, NEW until, Paused(c, reason, manual, until)
          PROVE  LimitKnown(c)'
      BY <1>2, <2>1 DEF Paused
    <2>2. ASSUME ~(req[c].stat.loss >= DailyLimit),
                 req' = [req EXCEPT ![c].pc = "admitted",
                                    ![c].expired = Expired(req[c].safety)]
          PROVE  LimitKnown(c)'
      <3>1. req[c].pc = "check"
        BY <1>5, CheckCases
      <3>2. req'[c].pc = "admitted" /\ req'[c].over = req[c].over /\ req'[c].day = req[c].day
        BY <1>1, <2>2 DEF Request
      <3> QED BY <2>2, <3>1, <3>2 DEF LimitKnown
    <2> QED BY <1>2, <1>5, <2>1, <2>2, CheckCases
  <1>6. CASE increment_trade_count(c) \/ RollBackEntry(c)
    BY <1>2, <1>6 DEF increment_trade_count, RollBackEntry
  <1> QED BY <1>3, <1>4, <1>5, <1>6 DEF Checks

LEMMA LimitKeeps == PauseInv /\ LimitInv /\ [Next]_vars => LimitInv'
  <1> SUFFICES ASSUME PauseInv, LimitInv, [Next]_vars PROVE LimitInv'
    OBVIOUS
  <1>1. TypeOK /\ TypeOK' /\ CountInv /\ CountInv'
    BY TypeKeeps, CountKeeps DEF LimitInv
  <1>2. CASE UNCHANGED vars
    <2>1. SameClosed
      BY <1>2 DEF vars, SameClosed
    <2>2. ASSUME NEW c \in Requests, LimitKnown(c) PROVE LimitKnown(c)'
      BY <1>2, <2>1, <2>2, SameCounts DEF vars, LimitKnown
    <2> QED BY <1>1, <1>2, <2>2 DEF LimitInv, vars
  <1>3. ASSUME Next, ~raced', NEW c \in Requests PROVE LimitKnown(c)'
    <2>1. 1 \in Days
      BY IdleTypes DEF Idle, Request
    <2>2. ~raced /\ LimitKnown(c)
      BY <1>1, <1>3, <2>1, LossesGrow DEF LimitInv
    <2>3. CASE Checks(c)
      BY <1>1, <2>2, <2>3, OwnStepKnowsLimit
    <2>4. CASE reset
      <3>1. req'[c] = [req[c] EXCEPT !.blocked = FALSE, !.until = 0, !.hard = 0]
        BY <2>4 DEF reset
      <3>2. /\ req'[c].pc = req[c].pc /\ req'[c].over = req[c].over
            /\ req'[c].day = req[c].day /\ req'[c].stat = req[c].stat
        BY <1>1, <3>1 DEF TypeOK, Request
      <3> QED BY <1>1, <1>3, <2>2, <3>2, SameRequestKnows
    <2>5. CASE req'[c] = req[c]
      BY <1>1, <1>3, <2>2, <2>5, SameRequestKnows
    <2> QED BY <1>3, <2>3, <2>4, <2>5, StepShape
  <1> QED BY <1>1, <1>2, <1>3 DEF LimitInv

(* Once the losses of a day have reached the limit, no request that comes   *)
(* later that day gets through to an order, whatever the operator and the   *)
(* other sessions do to the pause (check reads the statistics), for every   *)
(* number of sessions, as long as none wrote over a newer row.              *)
THEOREM DailyLimitHolds == Spec => []NoEntryPastDailyLimit
  <1>1. Init => PauseInv /\ LimitInv
    <2> SUFFICES ASSUME Init PROVE PauseInv /\ LimitInv
      OBVIOUS
    <2>1. \A c \in Requests : req[c].pc = "idle"
      BY IdleTypes DEF Init
    <2> QED BY <2>1, InitPause, InitTypes, InitCounts DEF LimitInv, LimitKnown
  <1>2. (PauseInv /\ LimitInv) /\ [Next]_vars => (PauseInv /\ LimitInv)'
    BY PauseKeeps, LimitKeeps
  <1>3. PauseInv /\ LimitInv => NoEntryPastDailyLimit
    BY DEF LimitInv, LimitKnown, NoEntryPastDailyLimit
  <1> QED BY <1>1, <1>2, <1>3, PTL DEF Spec

-----------------------------------------------------------------------------
(* The cooldowns of a day. *)

(* The losses of day d cover its cooldowns, and either the streak of the    *)
(* row as well, or no cooldown of d can follow: the row knows of a later    *)
(* pause, or the cooldown that will forgive the streak is still there.      *)
Paid(d) ==
    \/ cools[d] * MaxStreak + stat[d].streak <= Losses(d)
    \/ /\ cools[d] * MaxStreak <= Losses(d)
       /\ \/ safety.day > d
          \/ safety.reason = "cooldown" /\ safety.day = d

(* Rows and copies are dated by the clock.                                  *)
DatesInv ==
    /\ safety.day <= Today
    /\ \A c \in Requests : req[c].pc = "check" =>
          req[c].safety.day <= req[c].day /\ req[c].day <= Today

CooldownInv ==
    /\ DatesInv
    /\ ~raced /\ ~stale => \A d \in Days : Paid(d)

(* Days are numbers, and time goes forward.                                 *)
LEMMA DaysPass ==
    ASSUME TypeOK, TypeOK', now' >= now
    PROVE  Today \in Days /\ Today' \in Days /\ Today <= Today'
  <1>1. Today \in Days /\ Today' \in Days
    <2>1. Today \in Days
      BY TodayInDays DEF TypeOK
    <2>2. MaxTime \in Nat /\ now' \in 0..MaxTime /\ Hours \in Nat \ {0}
      BY LimitsAssumption DEF TypeOK
    <2>3. ASSUME NEW n \in Nat, NEW m \in Nat, NEW h \in Nat \ {0}, n <= m
          PROVE  n \div h <= m \div h /\ n \div h \in Nat
      BY <2>3
    <2>4. now' \in Nat /\ now' <= MaxTime
      BY <2>2
    <2>5. PICK n \in Nat : n = now' /\ n <= MaxTime
      BY <2>4
    <2>6. n \div Hours <= MaxTime \div Hours /\ n \div Hours \in Nat
      BY <2>2, <2>3, <2>5
    <2>7. MaxTime \div Hours \in Nat
      BY <2>2, <2>3
    <2>8. n \div Hours + 1 \in 1..(MaxTime \div Hours + 1)
      BY <2>6, <2>7
    <2> QED BY <2>1, <2>5, <2>8 DEF Today, Days
  <1>2. now \in Nat /\ now' \in Nat /\ Hours \in Nat \ {0}
    BY LimitsAssumption DEF TypeOK
  <1>3. ASSUME NEW n \in Nat, NEW m \in Nat, NEW h \in Nat \ {0}, n <= m
        PROVE  n \div h + 1 <= m \div h + 1
    BY <1>3
  <1> QED BY <1>1, <1>2, <1>3 DEF Today

(* A flush that clears a pause leaves the day it was triggered on alone.    *)
LEMMA FlushKeepsDay ==
    ASSUME NEW l \in SafetyState, NEW x \in SafetyState
    PROVE  Flush(l, Unpaused(l), x).day = x.day
  <1>1. DOMAIN x = {"kill", "reason", "manual", "until", "day"}
    BY DEF SafetyState
  <1>2. Unpaused(l).day = l.day
    BY ComputedTypes
  <1> QED BY <1>1, <1>2 DEF Flush

(* A step that counts no outcome: a streak stays or goes down to 0, the day *)
(* of the last pause goes forward, and a cooldown that is gone without a    *)
(* later pause has had its streak forgiven.                                 *)
Settles ==
    /\ SameClosed
    /\ \A d \in Days : Beside(stat[d], stat'[d])
    /\ safety'.day >= safety.day
    /\ safety.reason = "cooldown" =>
          \/ safety'.reason = "cooldown"
          \/ safety'.day > safety.day
          \/ \A d \in Days : d = safety.day => stat'[d].streak = 0

LEMMA SettlesKeeps ==
    ASSUME TypeOK, TypeOK', Settles, NEW d \in Days, Paid(d), cools'[d] = cools[d]
    PROVE  Paid(d)'
  <1>1. /\ Losses(d)' = Losses(d) /\ Losses(d) \in Nat
        /\ cools'[d] = cools[d] /\ cools[d] \in Nat /\ d \in Nat
        /\ stat[d].streak \in Nat /\ stat'[d].streak \in {0, stat[d].streak}
        /\ safety.day \in Nat /\ safety'.day \in Nat /\ safety'.day >= safety.day
    <2>1. Losses(d)' = Losses(d) /\ Losses(d) \in Nat
      BY SameCounts, ClosedTrades DEF Settles
    <2>2. cools'[d] = cools[d] /\ cools[d] \in Nat /\ d \in Nat
      BY DayIsNumber DEF TypeOK, Settles
    <2>3. stat[d].streak \in Nat /\ stat'[d].streak \in {0, stat[d].streak}
      BY DEF TypeOK, DailyStat, Settles, Beside
    <2>4. safety.day \in Days \cup {0} /\ safety'.day \in Days \cup {0}
      BY DEF TypeOK, SafetyState
    <2>5. \A n \in Days \cup {0} : n \in Nat
      BY DayIsNumber
    <2>6. safety.day \in Nat /\ safety'.day \in Nat
      BY <2>4, <2>5, Zenon
    <2>7. safety'.day >= safety.day
      BY DEF Settles
    <2> QED BY <2>1, <2>2, <2>3, <2>6, <2>7
  <1>2. PICK owed \in Nat : owed = cools[d] * MaxStreak
    BY <1>1, LimitsAssumption
  <1>3. Paid(d)' <=> \/ owed + stat'[d].streak <= Losses(d)
                     \/ /\ owed <= Losses(d)
                        /\ \/ safety'.day > d
                           \/ safety'.reason = "cooldown" /\ safety'.day = d
    BY <1>1, <1>2 DEF Paid
  <1>4. CASE owed + stat[d].streak <= Losses(d)
    BY <1>1, <1>3, <1>4
  <1>5. CASE owed <= Losses(d) /\ safety.day > d
    BY <1>1, <1>3, <1>5
  <1>6. CASE owed <= Losses(d) /\ safety.reason = "cooldown" /\ safety.day = d
    <2>1. \/ safety'.reason = "cooldown" \/ safety'.day > d \/ stat'[d].streak = 0
      BY <1>6 DEF Settles
    <2> QED BY <1>1, <1>3, <1>6, <2>1
  <1> QED BY <1>2, <1>4, <1>5, <1>6 DEF Paid

(* A streak that is forgiven on the day of the pause settles it.            *)
LEMMA ForgivenSettles ==
    ASSUME TypeOK, TypeOK', SameClosed, safety'.day >= safety.day,
           stat' = [stat EXCEPT ![loss_streak_stat_date(safety)] = ForgivenStreak(@)]
    PROVE  Settles
  <1>1. PICK e \in Days : e = loss_streak_stat_date(safety)
    BY StreakDay DEF TypeOK
  <1>2. \A d \in Days : Beside(stat[d], stat'[d])
    BY <1>1, ForgivenIsBeside
  <1>3. ASSUME NEW d \in Days, d = safety.day PROVE stat'[d].streak = 0
    <2>1. d = e
      BY <1>1, <1>3, DayIsNumber DEF loss_streak_stat_date
    <2> QED BY <1>1, <2>1 DEF TypeOK, ForgivenStreak, DailyStat
  <1> QED BY <1>2, <1>3 DEF Settles

(* Without a streak forgiven the pause must stay, or a later one follow it. *)
LEMMA SameStatSettles ==
    ASSUME TypeOK, SameClosed, stat' = stat, safety'.day >= safety.day,
           safety.reason = "cooldown" => safety'.reason = "cooldown"
    PROVE  Settles
  <1>1. \A d \in Days : Beside(stat[d], stat'[d])
    BY DEF Beside, TypeOK, DailyStat
  <1> QED BY <1>1 DEF Settles

LEMMA ClearingSettles ==
    ASSUME TypeOK, TypeOK', SameClosed, ~stale',
           clear_pause_if_expired(safety)
    PROVE  Settles
  <1>1. safety \in SafetyState /\ safety'.day \in Nat /\ safety.day \in Nat
    <2>1. \A n \in Days \cup {0} : n \in Nat
      BY DayIsNumber
    <2>2. safety.day \in Days \cup {0} /\ safety'.day \in Days \cup {0}
      BY DEF TypeOK, SafetyState
    <2> QED BY <2>1, <2>2, Zenon DEF TypeOK
  <1>2. CASE ~Expired(safety)
    <2>1. stat' = stat /\ safety' = safety
      BY <1>2 DEF clear_pause_if_expired
    <2> QED BY <1>1, <2>1, SameStatSettles
  <1>3. CASE Expired(safety)
    <2>1. /\ stat' = [stat EXCEPT ![loss_streak_stat_date(safety)] = ForgivenStreak(@)]
          /\ safety' = Flush(safety, Unpaused(safety), safety)
      BY <1>3 DEF clear_pause_if_expired
    <2>2. safety'.day = safety.day
      BY <1>1, <2>1, FlushKeepsDay
    <2>3. safety'.day >= safety.day
      BY <1>1, <2>2
    <2> QED BY <2>1, <2>3, ForgivenSettles
  <1> QED BY <1>2, <1>3

(* A pause that is set on rows that are up to date is dated today, and the  *)
(* streak of a pause that was over is forgiven with it.                     *)
LEMMA PausingWrites ==
    ASSUME TypeOK, NEW c \in Requests, Cleared(c).reason = "none", ~stale',
           NEW reason \in PauseReason \ {"none"}, NEW manual, NEW until,
           Paused(c, reason, manual, until)
    PROVE  /\ req[c].safety = safety /\ req[c].stat = stat[req[c].day]
           /\ safety'.day = Today /\ safety'.reason = reason
           /\ stat' = IF Expired(safety)
                      THEN [stat EXCEPT ![loss_streak_stat_date(safety)] = ForgivenStreak(@)]
                      ELSE stat
  <1> DEFINE cleared == IF Expired(safety) THEN Unpaused(safety) ELSE safety
             paused == [cleared EXCEPT !.reason = reason, !.manual = manual,
                                       !.until = until, !.day = Today]
             first == Flush(safety, cleared, safety)
             flushed == Flush(cleared, paused, first)
  <1>1. req[c].safety = safety /\ req[c].stat = stat[req[c].day]
    BY DEF Paused
  <1>2. /\ safety' = [flushed EXCEPT !.day = Today]
        /\ stat' = IF Expired(safety)
                   THEN [stat EXCEPT ![loss_streak_stat_date(safety)] = ForgivenStreak(@)]
                   ELSE stat
    BY <1>1 DEF Paused, set_pause
  <1>3. DOMAIN flushed = {"kill", "reason", "manual", "until", "day"}
    <2>1. DOMAIN safety = {"kill", "reason", "manual", "until", "day"}
      BY DEF TypeOK, SafetyState
    <2>2. DOMAIN flushed = DOMAIN first /\ DOMAIN first = DOMAIN safety
      BY DEF Flush
    <2> QED BY <2>1, <2>2
  <1>4. flushed.reason = reason
    <2>1. cleared.reason = "none" /\ cleared \in SafetyState
      BY <1>1, ComputedTypes DEF Cleared, TypeOK
    <2>2. paused.reason = reason
      BY <2>1 DEF SafetyState
    <2>3. DOMAIN first = DOMAIN flushed
      BY DEF Flush
    <2>4. flushed.reason = IF paused.reason # cleared.reason THEN paused.reason
                                                             ELSE first.reason
      BY <1>3, <2>3 DEF Flush
    <2> QED BY <2>1, <2>2, <2>4
  <1> HIDE DEF flushed
  <1>5. safety'.day = Today /\ safety'.reason = reason
    BY <1>2, <1>3, <1>4
  <1> QED BY <1>1, <1>2, <1>5

LEMMA PausingSettles ==
    ASSUME TypeOK, TypeOK', safety.day <= Today, NEW c \in Requests,
           Cleared(c).reason = "none", ~stale',
           NEW reason \in PauseReason \ {"none"}, NEW manual, NEW until,
           Paused(c, reason, manual, until)
    PROVE  Settles
  <1>1. /\ req[c].safety = safety /\ SameClosed /\ safety'.day = Today
        /\ stat' = IF Expired(safety)
                   THEN [stat EXCEPT ![loss_streak_stat_date(safety)] = ForgivenStreak(@)]
                   ELSE stat
    BY PausingWrites DEF Paused, SameClosed
  <1>2. safety'.day >= safety.day
    <2>1. \A n \in Days \cup {0} : n \in Nat
      BY DayIsNumber
    <2>2. safety.day \in Days \cup {0} /\ safety'.day \in Days \cup {0}
      BY DEF TypeOK, SafetyState
    <2>3. safety.day \in Nat /\ safety'.day \in Nat
      BY <2>1, <2>2, Zenon
    <2> QED BY <1>1, <2>3
  <1>3. CASE Expired(safety)
    BY <1>1, <1>2, <1>3, ForgivenSettles
  <1>4. CASE ~Expired(safety)
    <2>1. safety.reason = "none"
      BY <1>1, <1>4 DEF Cleared
    <2> QED BY <1>1, <1>2, <1>4, <2>1, SameStatSettles
  <1> QED BY <1>3, <1>4

(* A cooldown is set for a streak that is long enough, and that the cleared *)
(* pause was not about.                                                     *)
Cools(c) ==
    /\ req[c].pc = "check"
    /\ Paused(c, "cooldown", FALSE, now + CooldownHours)
    /\ cools' = [cools EXCEPT ![req[c].day] = @ + 1]
    /\ Cleared(c).reason = "none"
    /\ req[c].stat.streak >= MaxStreak
    /\ ~(Expired(req[c].safety) /\ loss_streak_stat_date(req[c].safety) = req[c].day)

LEMMA CoolsOrNot ==
    ASSUME TypeOK, NEW c \in Requests, check(c)
    PROVE  Cools(c) \/ cools' = cools
  <1> DEFINE s == req[c].safety
             own == Expired(s) /\ loss_streak_stat_date(s) = req[c].day
             x == IF own THEN ForgivenStreak(req[c].stat) ELSE req[c].stat
             verdict == Verdict(Cleared(c), x)
  <1>1. CASE verdict # "cooldown"
    BY <1>1, VerdictCases DEF check, Cleared
  <1>2. CASE verdict = "cooldown"
    <2>1. /\ req[c].pc = "check"
          /\ Paused(c, "cooldown", FALSE, now + CooldownHours)
          /\ cools' = [cools EXCEPT ![req[c].day] = @ + 1]
      BY <1>2 DEF check, Cleared
    <2>2. Cleared(c).reason = "none" /\ x.streak >= MaxStreak
      BY <1>2 DEF Verdict
    <2>3. ~own
      <3>1. ASSUME own PROVE x.streak = 0
        BY <3>1 DEF TypeOK, Request, DailyStat, ForgivenStreak
      <3>2. ~(0 >= MaxStreak)
        BY LimitsAssumption
      <3> QED BY <2>2, <3>1, <3>2
    <2> QED BY <2>1, <2>2, <2>3 DEF Cools
  <1> QED BY <1>1, <1>2

(* A cooldown is paid for by the streak that led to it, which no cooldown   *)
(* had been paid with before: the row is the one the request has read.      *)
LEMMA CooldownIsPaid ==
    ASSUME TypeOK, TypeOK', DatesInv, NEW c \in Requests, Cools(c), ~stale',
           NEW d \in Days, Paid(d)
    PROVE  Paid(d)'
  <1>1. /\ req[c].day \in Days /\ req[c].pc = "check"
        /\ Paused(c, "cooldown", FALSE, now + CooldownHours)
        /\ cools' = [cools EXCEPT ![req[c].day] = @ + 1]
        /\ Cleared(c).reason = "none" /\ req[c].stat.streak >= MaxStreak
    BY DEF TypeOK, Request, Cools
  <1>2. "cooldown" \in PauseReason \ {"none"}
    BY DEF PauseReason
  <1>3. /\ req[c].safety = safety /\ req[c].stat = stat[req[c].day]
        /\ safety'.day = Today /\ safety'.reason = "cooldown"
    BY <1>1, <1>2, PausingWrites
  <1>4. safety.day <= Today /\ safety.day <= req[c].day /\ req[c].day <= Today
    BY <1>1, <1>3 DEF DatesInv
  <1>5. CASE d # req[c].day
    <2>1. cools'[d] = cools[d]
      BY <1>1, <1>5 DEF TypeOK
    <2>2. Settles
      BY <1>1, <1>2, <1>4, PausingSettles
    <2> QED BY <2>1, <2>2, SettlesKeeps
  <1>6. CASE d = req[c].day
    <2>1. /\ Losses(d)' = Losses(d) /\ Losses(d) \in Nat /\ d \in Nat
          /\ cools[d] \in Nat /\ cools'[d] = cools[d] + 1
          /\ stat[d].streak \in Nat /\ stat[d].streak >= MaxStreak
      <3>1. SameClosed
        BY <1>1 DEF Paused, SameClosed
      <3>2. Losses(d)' = Losses(d) /\ Losses(d) \in Nat
        BY <3>1, SameCounts, ClosedTrades
      <3>3. stat[d].streak \in Nat
        BY DEF TypeOK, DailyStat
      <3> QED BY <1>1, <1>3, <1>6, <3>2, <3>3, DayIsNumber DEF TypeOK
    <2>2. Today \in Nat /\ safety.day \in Nat
      <3>1. \A n \in Days \cup {0} : n \in Nat
        BY DayIsNumber
      <3>2. Today \in Days \cup {0} /\ safety.day \in Days \cup {0}
        BY TodayInDays DEF TypeOK, SafetyState
      <3> QED BY <3>1, <3>2, Zenon
    <2>3. ~(safety.day > d)
      BY <1>4, <1>6, <2>1, <2>2
    <2>4. ~(safety.reason = "cooldown" /\ safety.day = d)
      <3>1. SUFFICES ASSUME safety.reason = "cooldown", safety.day = d PROVE FALSE
        OBVIOUS
      <3>2. Expired(safety)
        BY <1>1, <1>3, <3>1 DEF Cleared
      <3>3. loss_streak_stat_date(safety) = d
        BY <3>1, DayIsNumber DEF loss_streak_stat_date
      <3> QED BY <1>3, <1>6, <3>2, <3>3 DEF Cools
    <2>5. cools[d] * MaxStreak + stat[d].streak <= Losses(d)
      BY <2>3, <2>4 DEF Paid
    <2>6. PICK owed \in Nat : owed = cools[d] * MaxStreak
      BY <2>1, LimitsAssumption
    <2>7. cools'[d] * MaxStreak = owed + MaxStreak
      <3>1. ASSUME NEW n \in Nat, NEW m \in Nat PROVE (n + 1) * m = n * m + m
        BY <3>1
      <3> QED BY <2>1, <2>6, <3>1, LimitsAssumption
    <2>8. cools'[d] * MaxStreak <= Losses(d)'
      BY <2>1, <2>5, <2>6, <2>7, LimitsAssumption
    <2>9. safety'.day > d \/ (safety'.reason = "cooldown" /\ safety'.day = d)
      BY <1>3, <1>4, <1>6, <2>1, <2>2
    <2> QED BY <2>8, <2>9 DEF Paid
  <1> QED BY <1>5, <1>6

(* A loss lengthens the streak by what it adds to the losses of the day.    *)
LEMMA OutcomeIsPaid ==
    ASSUME TypeOK, TypeOK', NEW t \in Trades, apply_trade_outcome_analytics(t), ~raced',
           NEW d \in Days, Paid(d)
    PROVE  Paid(d)'
  <1>1. /\ trade[t].day \in Days /\ trade[t].won \in BOOLEAN
        /\ trade[t].read = stat[trade[t].day] /\ stat[d] \in DailyStat
        /\ safety' = safety /\ cools' = cools
    BY DEF TypeOK, Trade, apply_trade_outcome_analytics
  <1>2. /\ cools[d] \in Nat /\ Losses(d) \in Nat /\ stat[d].streak \in Nat
        /\ Losses(d)' = IF d = trade[t].day /\ ~trade[t].won
                        THEN Losses(d) + 1 ELSE Losses(d)
    BY <1>1, ClosedTrades, OneMore DEF TypeOK, DailyStat
  <1>3. stat'[d].streak = IF d # trade[t].day THEN stat[d].streak
                          ELSE IF trade[t].won THEN 0 ELSE stat[d].streak + 1
    <2> DEFINE new == WithOutcome(stat[d], trade[t].won)
    <2>1. CASE d # trade[t].day
      BY <1>1, <2>1 DEF TypeOK, apply_trade_outcome_analytics
    <2>2. CASE d = trade[t].day
      <3>1. stat'[d] = Flush(stat[d], new, stat[d])
        BY <1>1, <2>2 DEF TypeOK, apply_trade_outcome_analytics
      <3>2. DOMAIN stat[d] = {"total", "wins", "losses", "streak", "loss"}
        BY <1>1 DEF DailyStat
      <3>3. stat'[d].streak = new.streak
        BY <3>1, <3>2 DEF Flush
      <3>4. new.streak = IF trade[t].won THEN 0 ELSE stat[d].streak + 1
        BY <1>1 DEF WithOutcome, DailyStat
      <3> QED BY <2>2, <3>3, <3>4
    <2> QED BY <2>1, <2>2
  <1>4. PICK owed \in Nat : owed = cools[d] * MaxStreak
    BY <1>2, LimitsAssumption
  <1>5. Paid(d)' <=> \/ owed + stat'[d].streak <= Losses(d)'
                     \/ /\ owed <= Losses(d)'
                        /\ \/ safety.day > d
                           \/ safety.reason = "cooldown" /\ safety.day = d
    BY <1>1, <1>4 DEF Paid
  <1>6. CASE owed + stat[d].streak <= Losses(d)
    BY <1>1, <1>2, <1>3, <1>5, <1>6
  <1>7. CASE /\ owed <= Losses(d)
             /\ safety.day > d \/ (safety.reason = "cooldown" /\ safety.day = d)
    BY <1>2, <1>5, <1>7
  <1> QED BY <1>4, <1>6, <1>7 DEF Paid

(* The day of the last pause is what it was, or today.                      *)
LEMMA SafetyDates ==
    ASSUME TypeOK, Next
    PROVE  safety'.day \in {safety.day, Today}
  <1>1. safety \in SafetyState /\ \A c \in Requests : req[c].safety \in SafetyState
    BY DEF TypeOK, Request
  <1>2. ASSUME NEW l \in SafetyState, safety' = Flush(l, Unpaused(l), safety)
        PROVE  safety'.day = safety.day
    BY <1>1, <1>2, FlushKeepsDay
  <1>3. ASSUME NEW l \in SafetyState, clear_pause_if_expired(l)
        PROVE  safety'.day = safety.day
    <2>1. CASE Expired(l)
      <3>1. safety' = Flush(l, Unpaused(l), safety)
        BY <1>3, <2>1 DEF clear_pause_if_expired
      <3> QED BY <1>2, <3>1
    <2>2. CASE ~Expired(l)
      BY <1>3, <2>2 DEF clear_pause_if_expired
    <2> QED BY <2>1, <2>2
  <1>4. ASSUME NEW l \in SafetyState, NEW reason, NEW manual, NEW until,
               set_pause(l, reason, manual, until)
        PROVE  safety'.day = Today
    <2> DEFINE cleared == IF Expired(l) THEN Unpaused(l) ELSE l
               paused == [cleared EXCEPT !.reason = reason, !.manual = manual,
                                         !.until = until, !.day = Today]
               flushed == Flush(cleared, paused, Flush(l, cleared, safety))
    <2>1. safety' = [flushed EXCEPT !.day = Today]
      BY <1>4 DEF set_pause
    <2>2. "day" \in DOMAIN flushed
      <3>1. DOMAIN safety = {"kill", "reason", "manual", "until", "day"}
        BY <1>1 DEF SafetyState
      <3>2. DOMAIN flushed = DOMAIN safety
        BY DEF Flush
      <3> QED BY <3>1, <3>2
    <2> HIDE DEF flushed
    <2> QED BY <2>1, <2>2
  <1>5. ASSUME NEW c \in Requests, Checks(c) PROVE safety'.day \in {safety.day, Today}
    <2>1. CASE guard(c)
      BY <1>1, <1>3, <2>1 DEF guard
    <2>2. CASE get_or_create_daily_stat(c) \/ RollBackEntry(c)
      BY <2>2 DEF get_or_create_daily_stat, RollBackEntry
    <2>3. CASE check(c)
      <3>1. ASSUME NEW reason, NEW manual, NEW until, Paused(c, reason, manual, until)
            PROVE  safety'.day = Today
        BY <1>1, <1>4, <3>1 DEF Paused
      <3> QED BY <2>3, <3>1, CheckCases
    <2>4. CASE increment_trade_count(c)
      <3>1. \/ safety' = safety
            \/ safety' = Flush(req[c].safety, Unpaused(req[c].safety), safety)
        BY <2>4 DEF increment_trade_count
      <3> QED BY <1>1, <1>2, <3>1
    <2> QED BY <1>5, <2>1, <2>2, <2>3, <2>4 DEF Checks
  <1>6. CASE status
    BY <1>1, <1>3, <1>6 DEF status
  <1>7. CASE activate
    <2>1. safety' = [(IF Expired(safety) THEN Unpaused(safety) ELSE safety)
                        EXCEPT !.kill = TRUE, !.day = Today]
      BY <1>7 DEF activate
    <2>2. (IF Expired(safety) THEN Unpaused(safety) ELSE safety) \in SafetyState
      BY <1>1, ComputedTypes
    <2> QED BY <2>1, <2>2 DEF SafetyState
  <1>8. CASE reset
    <2>1. safety' = [Unpaused(safety) EXCEPT !.kill = FALSE]
      BY <1>8 DEF reset
    <2>2. Unpaused(safety) \in SafetyState /\ Unpaused(safety).day = safety.day
      BY <1>1, ComputedTypes
    <2> QED BY <2>1, <2>2 DEF SafetyState
  <1>9. CASE Tick
    BY <1>9 DEF Tick
  <1>10. ASSUME NEW t \in Trades,
                \/ \E won \in BOOLEAN : ReadStat(t, won)
                \/ apply_trade_outcome_analytics(t)
                \/ RollBackOutcome(t)
         PROVE  safety'.day = safety.day
    BY <1>10 DEF ReadStat, apply_trade_outcome_analytics, RollBackOutcome
  <1> QED BY <1>5, <1>6, <1>7, <1>8, <1>9, <1>10 DEF Next, Checks

(* A request that checks has its copies from before, or reads them now.     *)
LEMMA RequestDates ==
    ASSUME PauseInv, Next, NEW c \in Requests, req'[c].pc = "check"
    PROVE  \/ /\ req[c].pc = "check"
              /\ req'[c].safety = req[c].safety /\ req'[c].day = req[c].day
           \/ req'[c].safety = safety /\ req'[c].day = Today
  <1>1. TypeOK /\ req \in [Requests -> Request] /\ req[c] \in Request
    BY DEF PauseInv, TypeOK
  <1>2. ASSUME Refuse(c) PROVE FALSE
    BY <1>1, <1>2, IdleTypes DEF Refuse
  <1>3. CASE reset
    BY <1>1, <1>3 DEF reset, Request
  <1>4. CASE guard(c)
    <2>1. req'[c].pc = "stat"
      BY <1>1, <1>4, IdleTypes DEF guard, Request
    <2> QED BY <2>1
  <1>5. CASE get_or_create_daily_stat(c)
    BY <1>1, <1>5 DEF get_or_create_daily_stat, Request
  <1>6. CASE check(c)
    <2>1. ASSUME NEW reason, NEW manual, NEW until, Paused(c, reason, manual, until)
          PROVE  FALSE
      BY <1>2, <2>1 DEF Paused
    <2>2. ASSUME req' = [req EXCEPT ![c].pc = "admitted",
                                    ![c].expired = Expired(req[c].safety)]
          PROVE  FALSE
      BY <1>1, <2>2 DEF Request
    <2> QED BY <1>1, <1>2, <1>6, <2>1, <2>2, CheckCases
  <1>7. CASE increment_trade_count(c)
    BY <1>2, <1>7 DEF increment_trade_count
  <1>8. CASE RollBackEntry(c)
    BY <1>2, <1>8 DEF RollBackEntry
  <1>9. CASE req'[c] = req[c]
    BY <1>9
  <1>10. CASE Checks(c)
    BY <1>4, <1>5, <1>6, <1>7, <1>8, <1>10 DEF Checks
  <1> QED BY <1>3, <1>9, <1>10, StepShape

LEMMA DatesKeep ==
    ASSUME PauseInv, TypeOK', DatesInv, Next
    PROVE  DatesInv'
  <1>1. TypeOK /\ now' >= now
    BY StepShape DEF PauseInv
  <1>2. \A n \in Days \cup {0} : n \in Nat
    BY DayIsNumber
  <1>3. Today \in Nat /\ Today' \in Nat /\ Today <= Today'
    <2>1. Today \in Days /\ Today' \in Days /\ Today <= Today'
      BY <1>1, DaysPass
    <2> QED BY <1>2, <2>1
  <1>4. safety.day \in Nat
    <2>1. safety.day \in Days \cup {0}
      BY <1>1 DEF TypeOK, SafetyState
    <2> QED BY <1>2, <2>1, Zenon
  <1>5. safety'.day <= Today'
    <2>1. safety'.day = safety.day \/ safety'.day = Today
      BY <1>1, SafetyDates
    <2> QED BY <1>3, <1>4, <2>1 DEF DatesInv
  <1>6. ASSUME NEW c \in Requests, req'[c].pc = "check"
        PROVE  req'[c].safety.day <= req'[c].day /\ req'[c].day <= Today'
    <2>1. CASE /\ req[c].pc = "check"
               /\ req'[c].safety = req[c].safety /\ req'[c].day = req[c].day
      <3>1. req[c].day \in Nat
        BY <1>1, DayIsNumber DEF TypeOK, Request
      <3> QED BY <1>3, <2>1, <3>1 DEF DatesInv
    <2>2. CASE req'[c].safety = safety /\ req'[c].day = Today
      BY <1>3, <2>2 DEF DatesInv
    <2> QED BY <1>6, <2>1, <2>2, RequestDates
  <1> QED BY <1>5, <1>6 DEF DatesInv

(* The order that goes with a cleared pause forgives its streak.            *)
LEMMA EntrySettles ==
    ASSUME PauseInv, TypeOK', NEW c \in Requests, increment_trade_count(c), ~stale'
    PROVE  Settles
  <1>1. TypeOK /\ SameClosed /\ req[c].safety \in SafetyState
    BY DEF PauseInv, TypeOK, Request, increment_trade_count, SameClosed
  <1>2. PICK n \in Days : n = Today
    BY <1>1, TodayInDays DEF TypeOK
  <1>3. PICK e \in Days : e = loss_streak_stat_date(req[c].safety)
    BY <1>1, StreakDay DEF TypeOK
  <1>4. ASSUME NEW x \in DailyStat
        PROVE  Beside(x, [x EXCEPT !.total = @ + 1])
    BY DEF Beside, DailyStat
  <1>5. CASE ~req[c].expired
    <2>1. stat' = [stat EXCEPT ![n].total = @ + 1] /\ safety' = safety
      BY <1>2, <1>5 DEF increment_trade_count
    <2>2. \A x \in DailyStat : Beside(x, x)
      BY DEF Beside, DailyStat
    <2>3. \A d \in Days : Beside(stat[d], stat'[d])
      BY <1>1, <1>4, <2>1, <2>2 DEF TypeOK
    <2>4. safety'.day >= safety.day
      <3>1. \A i \in Days \cup {0} : i \in Nat
        BY DayIsNumber
      <3>2. safety.day \in Days \cup {0}
        BY <1>1 DEF TypeOK, SafetyState
      <3>3. safety.day \in Nat
        BY <3>1, <3>2, Zenon
      <3> QED BY <2>1, <3>3
    <2> QED BY <1>1, <2>1, <2>3, <2>4 DEF Settles
  <1>6. CASE req[c].expired
    <2>1. req[c].safety = safety
      BY <1>6 DEF increment_trade_count
    <2> DEFINE forgiven == [stat EXCEPT ![e] = ForgivenStreak(@)]
    <2>2. stat' = [forgiven EXCEPT ![n].total = @ + 1]
          /\ safety' = Flush(safety, Unpaused(safety), safety)
      BY <1>2, <1>3, <1>6, <2>1 DEF increment_trade_count
    <2>3. safety'.day = safety.day
      BY <1>1, <2>1, <2>2, FlushKeepsDay
    <2>4. /\ forgiven \in [Days -> DailyStat]
          /\ \A d \in Days : Beside(stat[d], forgiven[d])
      BY <1>1, ForgivenIsBeside
    <2>5. forgiven[e].streak = 0
      BY <1>1 DEF TypeOK, ForgivenStreak, DailyStat
    <2> HIDE DEF forgiven
    <2>6. ASSUME NEW d \in Days
          PROVE  /\ Beside(stat[d], stat'[d])
                 /\ stat'[d].streak = forgiven[d].streak
      <3>1. stat[d] \in DailyStat /\ forgiven[d] \in DailyStat /\ Beside(stat[d], forgiven[d])
        BY <1>1, <2>4 DEF TypeOK
      <3>2. stat'[d] = IF d = n THEN [forgiven[d] EXCEPT !.total = @ + 1] ELSE forgiven[d]
        BY <2>2, <2>4
      <3> QED BY <3>1, <3>2 DEF Beside, DailyStat
    <2>7. ASSUME NEW d \in Days, d = safety.day PROVE stat'[d].streak = 0
      <3>1. d = e
        BY <1>3, <2>1, <2>7, DayIsNumber DEF loss_streak_stat_date
      <3> QED BY <2>5, <2>6, <3>1
    <2>8. safety'.day >= safety.day
      <3>1. \A i \in Days \cup {0} : i \in Nat
        BY DayIsNumber
      <3>2. safety.day \in Days \cup {0}
        BY <1>1 DEF TypeOK, SafetyState
      <3>3. safety.day \in Nat
        BY <3>1, <3>2, Zenon
      <3> QED BY <2>3, <3>3
    <2> QED BY <1>1, <2>6, <2>7, <2>8 DEF Settles
  <1> QED BY <1>5, <1>6

(* The operator: the kill switch keeps a cooldown that is still running, a  *)
(* reset forgives the streak of the one it lifts.                           *)
LEMMA OperatorSettles ==
    ASSUME TypeOK, TypeOK', DatesInv, activate \/ reset
    PROVE  Settles
  <1>1. SameClosed /\ safety \in SafetyState
    BY DEF activate, reset, SameClosed, TypeOK
  <1>2. \A i \in Days \cup {0} : i \in Nat
    BY DayIsNumber
  <1>3. safety.day \in Nat /\ Today \in Nat /\ safety.day <= Today
    <2>1. safety.day \in Days \cup {0} /\ Today \in Days \cup {0}
      BY TodayInDays DEF TypeOK, SafetyState
    <2>2. safety.day \in Nat /\ Today \in Nat
      BY <1>2, <2>1, Zenon
    <2> QED BY <2>2 DEF DatesInv
  <1>4. CASE activate
    <2> DEFINE s == IF Expired(safety) THEN Unpaused(safety) ELSE safety
    <2>1. safety' = [s EXCEPT !.kill = TRUE, !.day = Today]
      BY <1>4 DEF activate
    <2>2. s \in SafetyState
      BY <1>1, ComputedTypes
    <2>3. safety'.day = Today /\ safety'.reason = s.reason
      BY <2>1, <2>2 DEF SafetyState
    <2>4. CASE Expired(safety)
      BY <1>1, <1>3, <1>4, <2>3, <2>4, ForgivenSettles DEF activate
    <2>5. CASE ~Expired(safety)
      BY <1>1, <1>3, <1>4, <2>3, <2>5, SameStatSettles DEF activate
    <2> QED BY <2>4, <2>5
  <1>5. CASE reset
    <2>1. safety' = [Unpaused(safety) EXCEPT !.kill = FALSE]
      BY <1>5 DEF reset
    <2>2. Unpaused(safety) \in SafetyState /\ Unpaused(safety).day = safety.day
      BY <1>1, ComputedTypes
    <2>3. safety'.day >= safety.day
      BY <1>3, <2>1, <2>2 DEF SafetyState
    <2>4. CASE safety.reason \in {"cooldown", "hard_loss_streak"}
      BY <1>1, <1>5, <2>3, <2>4, ForgivenSettles DEF reset
    <2>5. CASE safety.reason \notin {"cooldown", "hard_loss_streak"}
      BY <1>1, <1>5, <2>3, <2>5, SameStatSettles DEF reset
    <2> QED BY <2>4, <2>5
  <1> QED BY <1>4, <1>5

LEMMA PaidKeeps ==
    ASSUME PauseInv, TypeOK', CooldownInv, Next, ~raced', ~stale', NEW d \in Days
    PROVE  Paid(d)'
  <1>1. TypeOK /\ DatesInv /\ ~stale
    BY StepShape DEF PauseInv, CooldownInv
  <1>2. safety.day \in Nat /\ safety.day <= Today
    <2>1. \A i \in Days \cup {0} : i \in Nat
      BY DayIsNumber
    <2>2. safety.day \in Days \cup {0}
      BY <1>1 DEF TypeOK, SafetyState
    <2> QED BY <1>1, <2>1, <2>2, Zenon DEF DatesInv
  <1>3. ASSUME Settles, cools' = cools, raced' = raced PROVE Paid(d)'
    BY <1>1, <1>3, SettlesKeeps DEF CooldownInv
  <1>4. ASSUME UNCHANGED <<stat, safety, cools, raced>>, SameClosed PROVE Paid(d)'
    <2>1. safety'.day >= safety.day
      BY <1>2, <1>4
    <2> QED BY <1>1, <1>3, <1>4, <2>1, SameStatSettles
  <1>5. ASSUME NEW t \in Trades,
               (\E won \in BOOLEAN : ReadStat(t, won)) \/ RollBackOutcome(t)
        PROVE  Paid(d)'
    <2>1. UNCHANGED <<stat, safety, cools, raced>> /\ SameClosed
      BY <1>1, <1>5 DEF ReadStat, RollBackOutcome, SameClosed, OpenTrade, TypeOK
    <2> QED BY <1>4, <2>1
  <1>6. ASSUME NEW t \in Trades, apply_trade_outcome_analytics(t) PROVE Paid(d)'
    <2>1. ~raced
      BY <1>6 DEF apply_trade_outcome_analytics
    <2> QED BY <1>1, <1>6, <2>1, OutcomeIsPaid DEF CooldownInv
  <1>7. ASSUME NEW c \in Requests, Checks(c) PROVE Paid(d)'
    <2>1. CASE guard(c)
      <3>1. /\ SameClosed /\ cools' = cools /\ raced' = raced
            /\ clear_pause_if_expired(safety)
        BY <2>1 DEF guard, SameClosed
      <3> QED BY <1>1, <1>3, <3>1, ClearingSettles
    <2>2. CASE get_or_create_daily_stat(c) \/ RollBackEntry(c)
      BY <1>4, <2>2 DEF get_or_create_daily_stat, RollBackEntry, SameClosed
    <2>3. CASE check(c)
      <3>1. raced' = raced /\ trade' = trade
        BY <1>1, <2>3, CheckCases
      <3>2. CASE Cools(c)
        BY <1>1, <3>1, <3>2, CooldownIsPaid DEF CooldownInv
      <3>3. CASE cools' = cools
        <4>1. ASSUME Cleared(c).reason = "none",
                     NEW reason \in PauseReason \ {"none"}, NEW manual, NEW until,
                     Paused(c, reason, manual, until)
              PROVE  Paid(d)'
          BY <1>1, <1>2, <1>3, <3>1, <3>3, <4>1, PausingSettles
        <4>2. CASE UNCHANGED <<stat, safety>>
          BY <1>4, <3>1, <3>3, <4>2 DEF SameClosed
        <4> QED BY <1>1, <2>3, <4>1, <4>2, CheckCases
      <3> QED BY <1>1, <2>3, <3>2, <3>3, CoolsOrNot
    <2>4. CASE increment_trade_count(c)
      <3>1. cools' = cools /\ raced' = raced
        BY <2>4 DEF increment_trade_count
      <3> QED BY <1>3, <2>4, <3>1, EntrySettles
    <2> QED BY <1>7, <2>1, <2>2, <2>3, <2>4 DEF Checks
  <1>8. CASE status
    <2>1. /\ SameClosed /\ cools' = cools /\ raced' = raced
          /\ clear_pause_if_expired(safety)
      BY <1>8 DEF status, SameClosed
    <2> QED BY <1>1, <1>3, <2>1, ClearingSettles
  <1>9. CASE activate \/ reset
    <2>1. cools' = cools /\ raced' = raced
      BY <1>9 DEF activate, reset
    <2> QED BY <1>1, <1>3, <1>9, <2>1, OperatorSettles
  <1>10. CASE Tick
    BY <1>4, <1>10 DEF Tick, SameClosed
  <1> QED BY <1>5, <1>6, <1>7, <1>8, <1>9, <1>10 DEF Next, Checks

LEMMA CooldownKeeps ==
    ASSUME PauseInv, TypeOK', CooldownInv, [Next]_vars
    PROVE  CooldownInv'
  <1>1. CASE UNCHANGED vars
    <2>1. \A d \in Days : Paid(d)' <=> Paid(d)
      <3>1. SameClosed
        BY <1>1 DEF vars, SameClosed
      <3> QED BY <1>1, <3>1, SameCounts DEF vars, Paid
    <2>2. DatesInv'
      BY <1>1 DEF vars, CooldownInv, DatesInv, Today
    <2> QED BY <1>1, <2>1, <2>2 DEF vars, CooldownInv
  <1>2. CASE Next
    <2>1. DatesInv'
      BY <1>2, DatesKeep DEF CooldownInv
    <2>2. ~raced' /\ ~stale' => \A d \in Days : Paid(d)'
      BY <1>2, PaidKeeps
    <2> QED BY <2>1, <2>2 DEF CooldownInv
  <1> QED BY <1>1, <1>2

LEMMA InitCooldowns == Init => CooldownInv
  <1> SUFFICES ASSUME Init PROVE CooldownInv
    OBVIOUS
  <1>1. TypeOK
    BY InitTypes
  <1>2. \A c \in Requests : req[c].pc = "idle"
    BY IdleTypes DEF Init
  <1>3. safety.day <= Today
    <2>1. Today \in Nat
      BY <1>1, TodayInDays, DayIsNumber DEF TypeOK
    <2> QED BY <2>1 DEF Init, NoPause
  <1>4. ASSUME NEW d \in Days PROVE Paid(d)
    <2>1. Losses(d) \in Nat
      BY <1>1, ClosedTrades
    <2>2. cools[d] = 0 /\ stat[d].streak = 0
      BY DEF Init, NewStat
    <2> QED BY <2>1, <2>2, LimitsAssumption DEF Paid
  <1> QED BY <1>2, <1>3, <1>4 DEF CooldownInv, DatesInv

(* For every number of requests, trades and hours and every limit: each     *)
(* cooldown of a day is paid for by MaxStreak losses of that day which no   *)
(* other cooldown counts, unless a row was written from an outdated copy    *)
(* (set_pause, clear_pause_if_expired, loss_streak_stat_date).              *)
THEOREM CooldownsPaid == Spec => []CooldownsPaidByLosses
  <1>1. PauseInv /\ TypeOK' /\ CooldownInv /\ [Next]_vars => CooldownInv'
    BY CooldownKeeps
  <1>2. TypeOK /\ CooldownInv => CooldownsPaidByLosses
    <2> SUFFICES ASSUME TypeOK, CooldownInv, ~raced, ~stale, NEW d \in Days
                 PROVE  cools[d] * MaxStreak <= Losses(d)
      BY DEF CooldownsPaidByLosses
    <2>1. Losses(d) \in Nat /\ stat[d].streak \in Nat /\ cools[d] \in Nat
      BY ClosedTrades DEF TypeOK, DailyStat
    <2>2. PICK owed \in Nat : owed = cools[d] * MaxStreak
      BY <2>1, LimitsAssumption
    <2> QED BY <2>1, <2>2 DEF CooldownInv, Paid
  <1> QED BY <1>1, <1>2, TypeCorrect, InitPause, InitCooldowns, PauseKeeps, PTL DEF Spec

=============================================================================
