-------------------------- MODULE MarketFeedProofs --------------------------
(***************************************************************************)
(* What MarketFeed promises of its windows and of the candles that are     *)
(* traded, proved for every size of the window and the queue, every number *)
(* of recoveries, and however candles and answers are lost or late.        *)
(*                                                                         *)
(* The holes of a window are bounded by what a refill still has to append  *)
(* (KlinesInv, FillInv).  What is traded on follows the copies of a window *)
(* from the thread through the queue to the runner (WarmInv, CopyInv,      *)
(* QueueInv, RunnerInv), and the candles of the entries behind it.         *)
(***************************************************************************)
EXTENDS MarketFeed, SequenceTheorems, TLAPS

(* The widest hole: a gap that is not noticed, or a candle as late as it    *)
(* may be among those of a refill.                                          *)
Hole == IF MaxLag <= 1 THEN 2 ELSE MaxLag + 1

ClockInv == ws.next <= now /\ now <= ws.next + MaxLag + 1

(* What a recovery still has to append.                                     *)
KlinesInv ==
    \A r \in Recoveries : LET k == recovery[r].klines IN
        /\ \A i \in 1..Len(k) : k[i].at <= now
        /\ \A i \in 1..(Len(k) - 1) : k[i + 1].at = k[i].at + 1

FillInv ==
    /\ \A r, s \in Recoveries :
          recovery[r].pc = "filling" /\ recovery[s].pc = "filling" => r = s
    /\ \A r \in Recoveries :
          recovery[r].pc = "filling" /\ recovery[r].klines # <<>> /\ window # <<>> =>
             Head(recovery[r].klines).at <= Last(window).at + Hole

HolesInv ==
    \A i \in 1..(Len(window) - 1) :
       window[i + 1].unchecked \/ window[i + 1].at <= window[i].at + Hole

(* What the gap check found, unless a refill came after it.                 *)
CheckInv ==
    ws.pc = "checked" => ws.unchecked \/ window = <<>> \/ ws.next <= Last(window).at + 2

WarmInv == warmed /\ ~Refilling => Len(window) = WindowSize

-----------------------------------------------------------------------------
(* Snapshots that may be traded on. *)
Fresh(s) == ~s.torn /\ ~s.gap_recovered

At(s) == Last(s.candles).at

Whole(w) == Len(w) = WindowSize /\ Last(w).closed

(* The number of the newest candle that was not copied yet. *)
Pending == IF ws.pc \in {"idle", "checked"} THEN ws.next ELSE ws.next - 1

CopyInv ==
    /\ ~ws.copy.gap_recovered
    /\ ws.pc = "appended" /\ ~ws.copy.torn =>
          ~Refilling /\ Whole(window) /\ Last(window).at = Pending
    /\ ws.pc = "copied" /\ ~ws.copy.torn =>
          Whole(ws.copy.candles) /\ At(ws.copy) = Pending

(* A snapshot that may be traded on is whole and older than p; of two, the  *)
(* first is the older one.                                                  *)
Ready(s, p) == Fresh(s) => Whole(s.candles) /\ At(s) < p

Before(s, t) == Fresh(s) /\ Fresh(t) => At(s) < At(t)

QueueInv ==
    /\ \A i \in 1..Len(queue) : Ready(queue[i], Pending)
    /\ \A i, j \in 1..Len(queue) : i < j => Before(queue[i], queue[j])

RunnerInv ==
    runner.pc = "deciding" =>
        /\ ~runner.snapshot.gap_recovered
        /\ Ready(runner.snapshot, Pending)
        /\ \A i \in 1..Len(queue) : Before(runner.snapshot, queue[i])

EntriesInv ==
    /\ \A i \in 1..Len(entries) :
          /\ ~entries[i].gap_recovered
          /\ Ready(entries[i], Pending)
          /\ \A j \in 1..Len(queue) : Before(entries[i], queue[j])
          /\ runner.pc = "deciding" => Before(entries[i], runner.snapshot)
    /\ \A i, j \in 1..Len(entries) : i < j => Before(entries[i], entries[j])

-----------------------------------------------------------------------------
(* Candles and windows. *)

LEMMA Sizes ==
    /\ WindowSize \in Nat \ {0} /\ QueueSize \in Nat \ {0}
    /\ MaxTime \in Nat /\ MaxLag \in Nat /\ WindowSize < MaxTime
    /\ Hole \in Nat /\ Hole >= 2 /\ Hole >= MaxLag + 1
  <1>1. /\ WindowSize \in Nat \ {0} /\ QueueSize \in Nat \ {0}
        /\ MaxTime \in Nat /\ MaxLag \in Nat /\ WindowSize < MaxTime
    BY FeedAssumption
  <1> QED BY <1>1 DEF Hole

LEMMA KlinesAre ==
    ASSUME NEW t \in 1..MaxTime
    PROVE  /\ sorted_klines(t) \in Window /\ sorted_klines(t) # <<>>
           /\ Len(sorted_klines(t)) = (IF t < WindowSize THEN t ELSE WindowSize)
           /\ \A i \in 1..Len(sorted_klines(t)) : sorted_klines(t)[i].at <= t
           /\ \A i \in 1..(Len(sorted_klines(t)) - 1) :
                 sorted_klines(t)[i + 1].at = sorted_klines(t)[i].at + 1
  <1>1. PICK n : n = IF t < WindowSize THEN t ELSE WindowSize
    OBVIOUS
  <1>2. n \in Nat /\ n >= 1 /\ n <= t /\ t \in Nat /\ t <= MaxTime /\ MaxTime \in Nat
    BY <1>1, Sizes
  <1>3. PICK k : k = [i \in 1..n |-> [at |-> t - n + i, closed |-> i < n, unchecked |-> FALSE]]
    OBVIOUS
  <1>4. sorted_klines(t) = k
    BY <1>1, <1>3 DEF sorted_klines, get_klines
  <1>5. ASSUME NEW i \in 1..n PROVE k[i] \in Candle /\ k[i].at = t - n + i
    <2>1. k[i] = [at |-> t - n + i, closed |-> i < n, unchecked |-> FALSE]
      BY <1>3
    <2>2. t - n + i \in 1..MaxTime
      BY <1>2
    <2> QED BY <2>1, <2>2 DEF Candle
  <1>6. k \in [1..n -> Candle]
    BY <1>3, <1>5
  <1>7. k \in Window /\ Len(k) = n
    BY <1>2, <1>6 DEF Window
  <1>8. k # <<>>
    BY <1>2, <1>7
  <1>9. \A i \in 1..Len(k) : k[i].at <= t
    BY <1>2, <1>5, <1>7
  <1>10. ASSUME NEW i \in 1..(Len(k) - 1) PROVE k[i + 1].at = k[i].at + 1
    <2>1. i \in 1..n /\ i + 1 \in 1..n
      BY <1>2, <1>7
    <2>2. k[i].at = t - n + i /\ k[i + 1].at = t - n + (i + 1)
      BY <1>5, <2>1
    <2> QED BY <1>2, <2>1, <2>2
  <1> QED BY <1>1, <1>4, <1>7, <1>8, <1>9, <1>10

(* The candles of a window move up by one place when it is full. *)
LEMMA Pushed ==
    ASSUME NEW w \in Window, Len(w) <= WindowSize, NEW c \in Candle
    PROVE  /\ Push(w, c) \in Window /\ Push(w, c) # <<>>
           /\ Len(Push(w, c)) = (IF Len(w) < WindowSize THEN Len(w) + 1 ELSE WindowSize)
           /\ Last(Push(w, c)) = c
           /\ \E d \in {0, 1} :
                 /\ Len(Push(w, c)) - 1 + d = Len(w)
                 /\ \A i \in 1..(Len(Push(w, c)) - 1) : Push(w, c)[i] = w[i + d]
  <1>1. Len(w) \in Nat /\ w \in Seq(Candle) /\ WindowSize \in Nat \ {0}
    BY Sizes DEF Window
  <1>2. CASE Len(w) < WindowSize
    <2>1. PICK v : v = Append(w, c)
      OBVIOUS
    <2>2. /\ v \in Seq(Candle) /\ v # <<>> /\ Len(v) = Len(w) + 1
          /\ \A i \in 1..Len(w) : v[i] = w[i]
          /\ v[Len(w) + 1] = c
      BY <1>1, <2>1, AppendProperties
    <2>3. Push(w, c) = v
      BY <1>2, <2>1 DEF Push
    <2>4. Len(v) - 1 + 0 = Len(w) /\ \A i \in 1..(Len(v) - 1) : v[i] = w[i + 0]
      BY <1>1, <2>2
    <2> QED BY <1>1, <1>2, <2>2, <2>3, <2>4 DEF Window, Last
  <1>3. CASE ~(Len(w) < WindowSize)
    <2>1. Len(w) = WindowSize /\ w # <<>>
      BY <1>1, <1>3
    <2>2. PICK x : x = Tail(w)
      OBVIOUS
    <2>3. /\ x \in Seq(Candle) /\ Len(x) = Len(w) - 1
          /\ \A i \in 1..Len(x) : x[i] = w[i + 1]
      BY <1>1, <2>1, <2>2, HeadTailProperties
    <2>4. PICK v : v = Append(x, c)
      OBVIOUS
    <2>5. /\ v \in Seq(Candle) /\ v # <<>> /\ Len(v) = Len(x) + 1
          /\ \A i \in 1..Len(x) : v[i] = x[i]
          /\ v[Len(x) + 1] = c
      BY <2>3, <2>4, AppendProperties
    <2>6. Push(w, c) = v
      BY <1>3, <2>2, <2>4 DEF Push
    <2>7. Len(x) \in Nat /\ Len(v) = WindowSize
      BY <1>1, <2>1, <2>3, <2>5
    <2>8. Len(v) - 1 + 1 = Len(w) /\ \A i \in 1..(Len(v) - 1) : v[i] = w[i + 1]
      BY <1>1, <2>1, <2>3, <2>5, <2>7
    <2> QED BY <1>3, <2>5, <2>6, <2>7, <2>8 DEF Window, Last
  <1> QED BY <1>2, <1>3

LEMMA LastIsIn ==
    ASSUME NEW w \in Window, w # <<>>
    PROVE  Last(w) \in Candle /\ Last(w).at \in Nat /\ Head(w) \in Candle /\ Head(w).at \in Nat
           /\ Last(w) = w[Len(w)] /\ Head(w) = w[1] /\ Len(w) \in Nat /\ Len(w) >= 1
  <1>1. w \in Seq(Candle) /\ Len(w) \in Nat /\ Len(w) >= 1
    BY DEF Window
  <1>2. w[1] \in Candle /\ w[Len(w)] \in Candle /\ Head(w) = w[1]
    BY <1>1
  <1>3. \A c \in Candle : c.at \in Nat
    BY Sizes DEF Candle
  <1> QED BY <1>1, <1>2, <1>3 DEF Last

LEMMA NoSnapshotIs ==
    /\ NoSnapshot \in Snapshot /\ NoSnapshot.candles = <<>>
    /\ ~NoSnapshot.gap_recovered /\ ~NoSnapshot.torn
  BY DEF NoSnapshot, Snapshot, Window

-----------------------------------------------------------------------------
(* Types. *)

LEMMA QueueTypes ==
    ASSUME queue \in Seq(Snapshot), Len(queue) <= QueueSize, NEW s \in Snapshot,
           _queue_snapshot_nowait(s)
    PROVE  queue' \in Seq(Snapshot) /\ Len(queue') <= QueueSize
  <1>1. CASE Len(queue) < QueueSize
    <2>1. queue' = Append(queue, s)
      BY <1>1 DEF _queue_snapshot_nowait
    <2>2. Append(queue, s) \in Seq(Snapshot) /\ Len(Append(queue, s)) = Len(queue) + 1
      BY AppendProperties
    <2> QED BY <1>1, <2>1, <2>2, Sizes, LenProperties
  <1>2. CASE ~(Len(queue) < QueueSize)
    BY <1>2 DEF _queue_snapshot_nowait
  <1> QED BY <1>1, <1>2

LEMMA TailTypes ==
    ASSUME queue \in Seq(Snapshot), Len(queue) <= QueueSize, queue # <<>>
    PROVE  /\ Tail(queue) \in Seq(Snapshot) /\ Len(Tail(queue)) <= QueueSize
           /\ Head(queue) \in Snapshot
  <1>1. /\ Tail(queue) \in Seq(Snapshot) /\ Len(Tail(queue)) = Len(queue) - 1
        /\ Head(queue) \in Snapshot
    BY HeadTailProperties
  <1> QED BY <1>1, Sizes, LenProperties

RecoveryType == [pc : {"idle", "asked", "answered", "filling"}, gap : 0..MaxTime,
                 klines : Window]

WsType == [pc : {"idle", "checked", "appended", "copied"}, next : 1..MaxTime,
           unchecked : BOOLEAN, copy : Snapshot]

LEMMA EmptyTypes ==
    /\ <<>> \in Window /\ NoRecovery \in RecoveryType
    /\ NoRecovery.pc = "idle" /\ NoRecovery.klines = <<>>
  <1>1. <<>> \in Window
    BY DEF Window
  <1> QED BY <1>1, Sizes DEF NoRecovery, RecoveryType

LEMMA InitTypes == FeedInit => FeedTypeOK
  <1> SUFFICES ASSUME FeedInit PROVE FeedTypeOK
    OBVIOUS
  <1>1. now \in 1..MaxTime
    BY Sizes DEF FeedInit
  <1>2. window \in Window /\ Len(window) <= WindowSize
    BY <1>1, KlinesAre, Sizes DEF FeedInit
  <1>3. ws \in WsType /\ ws.pc = "idle"
    BY <1>1, NoSnapshotIs DEF FeedInit, WsType
  <1>4. recovery \in [Recoveries -> RecoveryType]
    BY EmptyTypes DEF FeedInit
  <1>5. /\ queue \in Seq(Snapshot) /\ Len(queue) <= QueueSize /\ entries \in Seq(Snapshot)
    BY Sizes DEF FeedInit
  <1>6. runner \in [pc : {"idle", "deciding", "stopped", "dead"}, snapshot : Snapshot,
                    last_entry_at : 0..MaxTime]
    BY NoSnapshotIs, Sizes DEF FeedInit
  <1>7. warmed \in BOOLEAN
    BY DEF FeedInit
  <1> QED BY <1>1, <1>2, <1>3, <1>4, <1>5, <1>6, <1>7 DEF FeedTypeOK, WsType, RecoveryType

LEMMA ThreadTypes ==
    ASSUME FeedTypeOK, \/ LoseCandle \/ NoticeGap \/ CheckCandle
                       \/ AppendCandle \/ CopyWindow \/ EnqueueCopy
    PROVE  FeedTypeOK'
  <1>1. /\ ws \in WsType /\ recovery \in [Recoveries -> RecoveryType] /\ now \in 1..MaxTime
        /\ MaxTime \in Nat /\ ws.next \in 1..MaxTime
        /\ ws.pc = "checked" => ws.next < now
    BY Sizes DEF FeedTypeOK, WsType, RecoveryType
  <1>2. Listening \/ ws.pc = "checked" => ws.next + 1 \in 1..MaxTime /\ Confirmed \in Candle
    BY <1>1 DEF Listening, Confirmed, Candle, WsType
  <1>3. CASE LoseCandle
    <2>1. ws' \in WsType /\ ws'.pc = "idle"
      BY <1>1, <1>2, <1>3 DEF LoseCandle, Listening, WsType
    <2> QED BY <1>3, <2>1 DEF LoseCandle, FeedTypeOK, WsType
  <1>4. CASE NoticeGap
    <2>1. ws' \in WsType /\ ws'.pc = "idle"
      BY <1>1, <1>2, <1>4 DEF NoticeGap, Listening, WsType
    <2>2. recovery' \in [Recoveries -> RecoveryType]
      <3>1. ws.next \in 0..MaxTime
        BY <1>1
      <3>2. [pc |-> "asked", gap |-> ws.next, klines |-> <<>>] \in RecoveryType
        BY <3>1, EmptyTypes DEF RecoveryType
      <3> QED BY <1>1, <1>4, <3>2 DEF NoticeGap
    <2> QED BY <1>4, <2>1, <2>2 DEF NoticeGap, FeedTypeOK, WsType, RecoveryType
  <1>5. CASE AppendCandle
    <2>1. window' \in Window /\ Len(window') <= WindowSize
      <3>1. /\ Push(window, Confirmed) \in Window
            /\ Len(Push(window, Confirmed)) = (IF Len(window) < WindowSize
                                               THEN Len(window) + 1 ELSE WindowSize)
        BY <1>2, <1>5, Pushed DEF AppendCandle, FeedTypeOK
      <3>2. Len(window) \in Nat
        BY DEF FeedTypeOK, Window
      <3> QED BY <1>5, <3>1, <3>2, Sizes DEF AppendCandle
    <2>2. warmed' \in BOOLEAN
      BY <1>5 DEF AppendCandle, FeedTypeOK
    <2>3. ws' \in WsType /\ ws'.pc # "checked"
      <3>1. ws.copy \in Snapshot /\ Refilling \in BOOLEAN
        BY <1>1 DEF WsType, Refilling
      <3>2. [ws.copy EXCEPT !.torn = Refilling] \in Snapshot
        BY <3>1 DEF Snapshot
      <3>3. ws' = [ws EXCEPT !.next = ws.next + 1,
                             !.pc = IF warmed' THEN "appended" ELSE "idle",
                             !.unchecked = FALSE,
                             !.copy = [ws.copy EXCEPT !.torn = Refilling]]
        BY <1>1, <1>5 DEF AppendCandle, WsType
      <3> QED BY <1>1, <1>2, <1>5, <3>2, <3>3 DEF WsType, AppendCandle
    <2> QED BY <1>5, <2>1, <2>2, <2>3 DEF AppendCandle, FeedTypeOK, WsType
  <1>6. CASE CopyWindow
    <2>1. ws' \in WsType /\ ws'.pc = "copied"
      <3>1. ws.copy \in Snapshot /\ (ws.copy.torn \/ Refilling) \in BOOLEAN
        BY <1>1 DEF WsType, Refilling
      <3>2. [ws.copy EXCEPT !.candles = window, !.torn = @ \/ Refilling] \in Snapshot
        BY <3>1 DEF Snapshot, FeedTypeOK
      <3>3. ws' = [ws EXCEPT !.pc = "copied",
                             !.copy = [ws.copy EXCEPT !.candles = window,
                                                      !.torn = @ \/ Refilling]]
        BY <1>1, <1>6 DEF CopyWindow, WsType
      <3> QED BY <1>1, <3>2, <3>3 DEF WsType
    <2> QED BY <1>6, <2>1 DEF CopyWindow, FeedTypeOK, WsType
  <1>7. CASE EnqueueCopy
    <2>1. ws' \in WsType /\ ws'.pc = "idle"
      BY <1>1, <1>7, NoSnapshotIs DEF EnqueueCopy, WsType
    <2>2. queue' \in Seq(Snapshot) /\ Len(queue') <= QueueSize
      <3>1. ws.copy \in Snapshot
        BY <1>1 DEF WsType
      <3> QED BY <1>7, <3>1, QueueTypes DEF EnqueueCopy, FeedTypeOK
    <2> QED BY <1>7, <2>1, <2>2 DEF EnqueueCopy, FeedTypeOK, WsType
  <1>8. CASE CheckCandle
    <2>1. ws' \in WsType /\ ws'.next = ws.next
      BY <1>1, <1>8 DEF CheckCandle, WsType
    <2>2. ws'.next < now
      BY <1>8, <2>1 DEF CheckCandle, Listening
    <2> QED BY <1>8, <2>1, <2>2 DEF CheckCandle, FeedTypeOK, WsType
  <1> QED BY <1>3, <1>4, <1>5, <1>6, <1>7, <1>8

LEMMA RecoveryTypes ==
    ASSUME FeedTypeOK, NEW r \in Recoveries,
           \/ RestAnswers(r) \/ RestFails(r)
           \/ ClearWindow(r) \/ RefillWindow(r) \/ EndRefill(r)
    PROVE  FeedTypeOK'
  <1>1. /\ ws \in WsType /\ recovery \in [Recoveries -> RecoveryType] /\ now \in 1..MaxTime
        /\ recovery[r] \in RecoveryType
    BY DEF FeedTypeOK, WsType, RecoveryType
  <1>2. CASE RestAnswers(r)
    <2>1. sorted_klines(now) \in Window
      BY <1>1, KlinesAre
    <2>2. recovery' \in [Recoveries -> RecoveryType]
      BY <1>1, <1>2, <2>1 DEF RestAnswers, RecoveryType
    <2> QED BY <1>2, <2>2 DEF RestAnswers, FeedTypeOK, RecoveryType
  <1>3. CASE RestFails(r)
    <2>1. recovery' \in [Recoveries -> RecoveryType]
      BY <1>1, <1>3, EmptyTypes DEF RestFails
    <2> QED BY <1>3, <2>1 DEF RestFails, FeedTypeOK, RecoveryType
  <1>4. ASSUME Outdate
        PROVE  ws' \in WsType /\ ws'.pc = ws.pc /\ ws'.next = ws.next
    <2>1. ws.copy \in Snapshot
      BY <1>1 DEF WsType
    <2>2. [ws.copy EXCEPT !.torn = @ \/ ws.pc = "appended"] \in Snapshot
      BY <2>1 DEF Snapshot
    <2>3. ws' = [ws EXCEPT !.unchecked = ws.unchecked \/ ws.pc = "checked",
                           !.copy = [ws.copy EXCEPT !.torn = @ \/ ws.pc = "appended"]]
      BY <1>1, <1>4 DEF WsType, Outdate
    <2>4. (ws.unchecked \/ ws.pc = "checked") \in BOOLEAN
      BY <1>1 DEF WsType
    <2> QED BY <1>1, <2>2, <2>3, <2>4 DEF WsType
  <1>5. CASE ClearWindow(r)
    <2>1. recovery' \in [Recoveries -> RecoveryType]
      BY <1>1, <1>5 DEF ClearWindow, RecoveryType
    <2>2. window' \in Window /\ Len(window') <= WindowSize
      BY <1>5, EmptyTypes, Sizes DEF ClearWindow
    <2>3. ws' \in WsType /\ ws'.pc = ws.pc /\ ws'.next = ws.next
      BY <1>4, <1>5 DEF ClearWindow
    <2> QED BY <1>5, <2>1, <2>2, <2>3 DEF ClearWindow, FeedTypeOK, WsType, RecoveryType
  <1>6. CASE RefillWindow(r)
    <2>1. PICK k \in Seq(Candle) : k = recovery[r].klines
      BY <1>1 DEF RecoveryType, Window
    <2>2. Head(k) \in Candle /\ Tail(k) \in Window
      BY <1>6, <2>1, HeadTailProperties DEF RefillWindow, Window
    <2>3. recovery' \in [Recoveries -> RecoveryType]
      BY <1>1, <1>6, <2>1, <2>2 DEF RefillWindow, RecoveryType
    <2>4. window' \in Window /\ Len(window') <= WindowSize
      <3>1. /\ Push(window, Head(k)) \in Window
            /\ Len(Push(window, Head(k))) = (IF Len(window) < WindowSize
                                             THEN Len(window) + 1 ELSE WindowSize)
        BY <2>2, Pushed DEF FeedTypeOK
      <3>2. Len(window) \in Nat
        BY DEF FeedTypeOK, Window
      <3> QED BY <1>6, <2>1, <3>1, <3>2, Sizes DEF RefillWindow
    <2>5. ws' \in WsType /\ ws'.pc = ws.pc /\ ws'.next = ws.next
      BY <1>4, <1>6 DEF RefillWindow
    <2> QED BY <1>6, <2>3, <2>4, <2>5 DEF RefillWindow, FeedTypeOK, WsType, RecoveryType
  <1>7. CASE EndRefill(r)
    <2>1. recovery' \in [Recoveries -> RecoveryType]
      BY <1>1, <1>7, EmptyTypes DEF EndRefill
    <2>2. queue' \in Seq(Snapshot) /\ Len(queue') <= QueueSize
      <3>1. PICK s : s = [candles |-> window, gap_recovered |-> TRUE, torn |-> FALSE]
        OBVIOUS
      <3>2. s \in Snapshot
        BY <3>1 DEF Snapshot, FeedTypeOK
      <3>3. queue' = queue \/ _queue_snapshot_nowait(s)
        BY <1>7, <3>1 DEF EndRefill
      <3> QED BY <3>2, <3>3, QueueTypes DEF FeedTypeOK
    <2>3. warmed' \in BOOLEAN
      BY <1>7 DEF EndRefill
    <2> QED BY <1>7, <2>1, <2>2, <2>3 DEF EndRefill, FeedTypeOK, RecoveryType
  <1> QED BY <1>2, <1>3, <1>5, <1>6, <1>7

RunnerType == [pc : {"idle", "deciding", "stopped", "dead"}, snapshot : Snapshot,
               last_entry_at : 0..MaxTime]

LEMMA RunnerTypes ==
    ASSUME FeedTypeOK,
           \/ SkipSnapshot \/ TakeSnapshot \/ EmptySnapshotRaises
           \/ NoEntry \/ ExecuteSignal \/ GuardRefuses
    PROVE  FeedTypeOK'
  <1>1. runner \in RunnerType /\ now \in 0..MaxTime /\ runner.snapshot \in Snapshot
    BY Sizes DEF FeedTypeOK, RunnerType
  <1>2. CASE SkipSnapshot \/ TakeSnapshot \/ EmptySnapshotRaises
    <2>1. queue # <<>> /\ queue' = Tail(queue)
      BY <1>2 DEF SkipSnapshot, TakeSnapshot, EmptySnapshotRaises
    <2>2. /\ queue' \in Seq(Snapshot) /\ Len(queue') <= QueueSize /\ Head(queue) \in Snapshot
      BY <2>1, TailTypes DEF FeedTypeOK
    <2>3. runner' \in RunnerType
      BY <1>1, <1>2, <2>2 DEF SkipSnapshot, TakeSnapshot, EmptySnapshotRaises, RunnerType
    <2> QED BY <1>2, <2>2, <2>3
            DEF SkipSnapshot, TakeSnapshot, EmptySnapshotRaises, FeedTypeOK, RunnerType
  <1>3. CASE NoEntry \/ GuardRefuses
    <2>1. runner' \in RunnerType
      BY <1>1, <1>3, NoSnapshotIs DEF NoEntry, GuardRefuses, RunnerType
    <2> QED BY <1>3, <2>1 DEF NoEntry, GuardRefuses, FeedTypeOK, RunnerType
  <1>4. CASE ExecuteSignal
    <2>1. runner' \in RunnerType
      BY <1>1, <1>4, NoSnapshotIs DEF ExecuteSignal, RunnerType
    <2>2. entries' \in Seq(Snapshot)
      <3>1. entries \in Seq(Snapshot) /\ entries' = Append(entries, runner.snapshot)
        BY <1>4 DEF ExecuteSignal, FeedTypeOK
      <3> QED BY <1>1, <3>1, AppendProperties
    <2> QED BY <1>4, <2>1, <2>2 DEF ExecuteSignal, FeedTypeOK, RunnerType
  <1> QED BY <1>2, <1>3, <1>4

LEMMA TypesKeep == FeedTypeOK /\ [FeedNext]_feedVars => FeedTypeOK'
  <1> SUFFICES ASSUME FeedTypeOK, [FeedNext]_feedVars PROVE FeedTypeOK'
    OBVIOUS
  <1>1. CASE Tick
    <2>1. now' \in 1..MaxTime /\ (ws.pc = "checked" => ws.next < now')
      <3>1. now \in Nat /\ ws.next \in Nat
        BY Sizes DEF FeedTypeOK
      <3> QED BY <1>1, <3>1, Sizes DEF Tick, FeedTypeOK
    <2> QED BY <1>1, <2>1 DEF Tick, FeedTypeOK
  <1>2. CASE UNCHANGED feedVars
    BY <1>2 DEF feedVars, FeedTypeOK
  <1> QED BY <1>1, <1>2, ThreadTypes, RecoveryTypes, RunnerTypes DEF FeedNext

-----------------------------------------------------------------------------
(* Holes. *)

HoleInv == FeedTypeOK /\ ClockInv /\ KlinesInv /\ FillInv /\ HolesInv /\ CheckInv

LEMMA InitHoles == FeedInit => HoleInv
  <1> SUFFICES ASSUME FeedInit PROVE HoleInv
    OBVIOUS
  <1>1. FeedTypeOK /\ now \in Nat /\ now \in 1..MaxTime
    BY InitTypes, Sizes DEF FeedTypeOK
  <1>2. ClockInv
    BY <1>1, Sizes DEF FeedInit, ClockInv
  <1>3. \A r \in Recoveries : recovery[r] = NoRecovery
    BY DEF FeedInit
  <1>4. KlinesInv /\ FillInv
    <2>1. Len(<<>>) = 0
      OBVIOUS
    <2> QED BY <1>3, <2>1, EmptyTypes DEF KlinesInv, FillInv
  <1>5. HolesInv
    <2>1. \A i \in 1..(Len(window) - 1) : window[i + 1].at = window[i].at + 1
      BY <1>1, KlinesAre DEF FeedInit
    <2>2. ASSUME NEW i \in 1..(Len(window) - 1) PROVE window[i].at \in Nat
      <3>1. i \in 1..Len(window) /\ window \in Seq(Candle)
        BY <1>1 DEF FeedTypeOK, Window
      <3>2. window[i] \in Candle
        BY <3>1, ElementOfSeq
      <3> QED BY <3>2, Sizes DEF Candle
    <2> QED BY <2>1, <2>2, Sizes DEF HolesInv
  <1>6. CheckInv
    BY DEF FeedInit, CheckInv
  <1> QED BY <1>1, <1>2, <1>4, <1>5, <1>6 DEF HoleInv

(* A candle that leaves no hole after the last one, or was checked against *)
(* another window.                                                        *)
LEMMA PushedHoles ==
    ASSUME FeedTypeOK, HolesInv, NEW c \in Candle, window' = Push(window, c),
           c.unchecked \/ window = <<>> \/ c.at <= Last(window).at + Hole
    PROVE  HolesInv' /\ window' # <<>> /\ Last(window') = c
  <1>1. window \in Window /\ Len(window) <= WindowSize /\ Len(window) \in Nat
    BY DEF FeedTypeOK, Window
  <1>2. /\ window' # <<>> /\ Last(window') = c /\ window' \in Window
        /\ Len(window') = (IF Len(window) < WindowSize THEN Len(window) + 1 ELSE WindowSize)
    BY <1>1, Pushed
  <1>3. PICK d \in {0, 1} :
             /\ Len(window') - 1 + d = Len(window)
             /\ \A i \in 1..(Len(window') - 1) : window'[i] = window[i + d]
    BY <1>1, Pushed
  <1>4. Len(window') \in Nat /\ Len(window') >= 1 /\ window'[Len(window')] = c
    BY <1>2, LastIsIn
  <1>5. ASSUME NEW i \in 1..(Len(window') - 1)
        PROVE  window'[i + 1].unchecked \/ window'[i + 1].at <= window'[i].at + Hole
    <2>1. window'[i] = window[i + d] /\ i \in Nat /\ i >= 1
      BY <1>3
    <2>2. CASE i = Len(window') - 1
      <3>1. i + d = Len(window) /\ i + 1 = Len(window')
        BY <1>1, <1>3, <1>4, <2>1, <2>2
      <3>2. window # <<>>
        BY <1>1, <2>1, <3>1
      <3>3. Last(window) = window[Len(window)] /\ (c.unchecked \/ c.at <= Last(window).at + Hole)
        BY <1>1, <3>2, LastIsIn
      <3> QED BY <1>4, <2>1, <3>1, <3>3
    <2>3. CASE i # Len(window') - 1
      <3>1. i + 1 \in 1..(Len(window') - 1)
        BY <1>4, <2>3
      <3>2. window'[i + 1] = window[(i + 1) + d]
        BY <1>3, <3>1
      <3>3. i + d \in 1..(Len(window) - 1) /\ (i + 1) + d = (i + d) + 1
        BY <1>1, <1>3, <1>4, <2>3
      <3> QED BY <2>1, <3>2, <3>3 DEF HolesInv
    <2> QED BY <2>2, <2>3
  <1> QED BY <1>2, <1>5 DEF HolesInv

LEMMA HolesKeep == HoleInv /\ [FeedNext]_feedVars => HoleInv'
  <1> SUFFICES ASSUME HoleInv, [FeedNext]_feedVars PROVE HoleInv'
    OBVIOUS
  <1>1. FeedTypeOK /\ FeedTypeOK' /\ ClockInv /\ KlinesInv /\ FillInv /\ HolesInv /\ CheckInv
    BY TypesKeep DEF HoleInv
  <1>2. /\ now \in Nat /\ now' \in Nat /\ ws.next \in Nat /\ ws'.next \in Nat /\ MaxLag \in Nat
        /\ recovery \in [Recoveries -> RecoveryType] /\ ws \in WsType
    BY <1>1, Sizes DEF FeedTypeOK, WsType, RecoveryType
  <1>3. ASSUME NEW r \in Recoveries, NEW k, k = recovery[r].klines
        PROVE  /\ k \in Window /\ Len(k) \in Nat
               /\ \A i \in 1..Len(k) : k[i] \in Candle /\ k[i].at \in Nat
    <2>1. k \in Window
      BY <1>2, <1>3 DEF RecoveryType
    <2>2. k \in Seq(Candle) /\ Len(k) \in Nat
      BY <2>1 DEF Window
    <2>3. \A i \in 1..Len(k) : k[i] \in Candle
      BY <2>2, ElementOfSeq
    <2> QED BY <2>1, <2>2, <2>3, Sizes DEF Candle
  <1>4. ASSUME UNCHANGED <<window, recovery>>, now' >= now, ClockInv', CheckInv' PROVE HoleInv'
    <2>1. KlinesInv'
      <3>1. ASSUME NEW r \in Recoveries, NEW k, k = recovery'[r].klines, NEW i \in 1..Len(k)
            PROVE  k[i].at <= now'
        <4>1. k[i].at <= now /\ k[i].at \in Nat
          BY <1>1, <1>3, <1>4, <3>1 DEF KlinesInv
        <4> QED BY <1>2, <1>4, <4>1
      <3> QED BY <1>1, <1>4, <3>1 DEF KlinesInv
    <2> QED BY <1>1, <1>4, <2>1 DEF HoleInv, FillInv, HolesInv
  <1>5. CASE Tick
    BY <1>1, <1>2, <1>4, <1>5 DEF Tick, ClockInv, CheckInv
  <1>6. CASE LoseCandle \/ CheckCandle \/ CopyWindow \/ EnqueueCopy
    <2>1. /\ ws'.next = ws.next \/ (ws'.next = ws.next + 1 /\ ws.next < now)
          /\ CheckInv'
      <3>1. CASE LoseCandle
        BY <1>2, <3>1 DEF LoseCandle, Listening, WsType, CheckInv
      <3>4. CASE CheckCandle
        <4>1. /\ ws'.next = ws.next /\ window' = window
              /\ window # <<>> => ~(ws.next > Last(window).at + 2)
          BY <1>2, <3>4 DEF CheckCandle, WsType, GapSeen, _is_gap, Confirmed
        <4>2. window # <<>> => Last(window).at \in Nat
          BY <1>1, LastIsIn DEF FeedTypeOK
        <4> QED BY <1>2, <4>1, <4>2 DEF CheckInv
      <3>2. CASE CopyWindow
        <4>1. ws' = [ws EXCEPT !.pc = "copied", !.copy.candles = window,
                               !.copy.torn = ws.copy.torn \/ Refilling]
          BY <3>2 DEF CopyWindow
        <4> QED BY <1>2, <4>1 DEF WsType, CheckInv
      <3>3. CASE EnqueueCopy
        BY <1>2, <3>3 DEF EnqueueCopy, WsType, CheckInv
      <3> QED BY <1>6, <3>1, <3>2, <3>3, <3>4
    <2>2. UNCHANGED <<now, window, recovery>>
      BY <1>6 DEF LoseCandle, CheckCandle, CopyWindow, EnqueueCopy
    <2>3. ClockInv'
      BY <1>1, <1>2, <2>1, <2>2 DEF ClockInv
    <2> QED BY <1>2, <1>4, <2>1, <2>2, <2>3
  <1>7. ASSUME NEW r \in Recoveries, NEW q \in RecoveryType, recovery[r].pc # "filling",
               recovery' = [recovery EXCEPT ![r] = q],
               q.pc # "filling", UNCHANGED <<now, window>>, ClockInv', CheckInv',
               \/ q.klines = <<>> \/ q.klines = sorted_klines(now)
        PROVE  HoleInv'
    <2>1. recovery'[r] = q /\ \A s \in Recoveries \ {r} : recovery'[s] = recovery[s]
      BY <1>2, <1>7
    <2>2. /\ \A i \in 1..Len(q.klines) : q.klines[i].at <= now
          /\ \A i \in 1..(Len(q.klines) - 1) : q.klines[i + 1].at = q.klines[i].at + 1
      <3>1. CASE q.klines = <<>>
        BY <3>1
      <3>2. CASE q.klines = sorted_klines(now)
        <4>1. now \in 1..MaxTime
          BY <1>1 DEF FeedTypeOK
        <4> QED BY <3>2, <4>1, KlinesAre
      <3> QED BY <1>7, <3>1, <3>2
    <2>3. KlinesInv'
      BY <1>1, <1>7, <2>1, <2>2 DEF KlinesInv
    <2>4. FillInv'
      BY <1>1, <1>7, <2>1 DEF FillInv
    <2> QED BY <1>1, <1>7, <2>3, <2>4 DEF HoleInv, HolesInv
  <1>8. CASE NoticeGap
    <2>1. PICK r \in Recoveries :
             /\ recovery[r].pc = "idle"
             /\ recovery' = [recovery EXCEPT ![r] = [pc |-> "asked", gap |-> ws.next,
                                                     klines |-> <<>>]]
      BY <1>8 DEF NoticeGap
    <2>2. /\ ws'.next = ws.next + 1 /\ ws.next < now /\ ws'.pc = "idle"
          /\ UNCHANGED <<now, window>>
      BY <1>2, <1>8 DEF NoticeGap, Listening, WsType
    <2>3. ClockInv' /\ CheckInv'
      BY <1>1, <1>2, <2>2 DEF ClockInv, CheckInv
    <2>4. [pc |-> "asked", gap |-> ws.next, klines |-> <<>>] \in RecoveryType
      BY <1>2, EmptyTypes DEF RecoveryType, WsType
    <2> QED BY <1>7, <2>1, <2>2, <2>3, <2>4
  <1>9. CASE AppendCandle
    <2>1. /\ Confirmed \in Candle /\ window' = Push(window, Confirmed)
          /\ ws'.next = ws.next + 1 /\ ws.next < now /\ UNCHANGED <<now, recovery>>
          /\ Confirmed.at = ws.next /\ Confirmed.unchecked = ws.unchecked
          /\ ws.pc = "checked" /\ ws'.pc # "checked"
      <3>1. ws.pc = "checked" /\ ws.next < now /\ ws.next \in 1..MaxTime
        BY <1>1, <1>2, <1>9 DEF AppendCandle, FeedTypeOK, WsType
      <3> QED BY <1>2, <1>9, <3>1 DEF AppendCandle, Confirmed, Candle, WsType
    <2>2. window # <<>> => /\ Confirmed.unchecked \/ Confirmed.at <= Last(window).at + 2
                           /\ Last(window).at \in Nat
      <3>1. window # <<>> => Last(window).at \in Nat
        BY <1>1, LastIsIn DEF FeedTypeOK
      <3> QED BY <1>1, <2>1, <3>1 DEF CheckInv
    <2>3. HolesInv' /\ window' # <<>> /\ Last(window').at = ws.next
      BY <1>1, <1>2, <2>1, <2>2, PushedHoles, Sizes
    <2>4. ClockInv' /\ CheckInv'
      BY <1>1, <1>2, <2>1 DEF ClockInv, CheckInv
    <2>5. FillInv'
      <3>1. ASSUME NEW r \in Recoveries, recovery[r].klines # <<>>
            PROVE  Head(recovery[r].klines).at <= ws.next + Hole
        <4>1. PICK k : k = recovery[r].klines
          OBVIOUS
        <4>2. Head(k) = k[1] /\ 1 \in 1..Len(k)
          BY <1>3, <3>1, <4>1, LastIsIn
        <4>3. k[1].at <= now /\ k[1].at \in Nat
          BY <1>1, <1>3, <4>1, <4>2 DEF KlinesInv
        <4> QED BY <1>1, <1>2, <4>1, <4>2, <4>3, Sizes DEF ClockInv
      <3> QED BY <1>1, <2>1, <2>3, <3>1 DEF FillInv
    <2> QED BY <1>1, <2>1, <2>3, <2>4, <2>5 DEF HoleInv, KlinesInv
  <1>10. ASSUME NEW r \in Recoveries, RestAnswers(r) \/ RestFails(r) \/ EndRefill(r)
         PROVE  HoleInv'
    <2>1. UNCHANGED <<now, window, ws>> /\ ClockInv' /\ CheckInv'
      BY <1>1, <1>10 DEF RestAnswers, RestFails, EndRefill, ClockInv, CheckInv
    <2>2. CASE RestAnswers(r)
      <3>1. PICK q : q = [recovery[r] EXCEPT !.pc = "answered", !.klines = sorted_klines(now)]
        OBVIOUS
      <3>2. /\ recovery' = [recovery EXCEPT ![r] = q] /\ q.pc = "answered"
            /\ q.klines = sorted_klines(now) /\ recovery[r].pc # "filling"
        BY <1>2, <2>2, <3>1 DEF RestAnswers, RecoveryType
      <3>3. q \in RecoveryType
        <4>1. sorted_klines(now) \in Window
          BY <1>1, KlinesAre DEF FeedTypeOK
        <4> QED BY <1>2, <3>1, <4>1 DEF RecoveryType
      <3> QED BY <1>7, <2>1, <3>2, <3>3
    <2>3. CASE RestFails(r)
      BY <1>7, <2>1, <2>3, EmptyTypes DEF RestFails
    <2>4. CASE EndRefill(r)
      <3>1. /\ recovery'[r] = NoRecovery
            /\ \A s \in Recoveries \ {r} : recovery'[s] = recovery[s]
        BY <1>2, <2>4 DEF EndRefill
      <3>2. KlinesInv'
        <4>1. Len(NoRecovery.klines) = 0
          BY EmptyTypes
        <4> QED BY <1>1, <2>1, <3>1, <4>1 DEF KlinesInv
      <3>3. FillInv'
        BY <1>1, <2>1, <3>1, EmptyTypes DEF FillInv
      <3> QED BY <1>1, <2>1, <3>2, <3>3 DEF HoleInv, HolesInv
    <2> QED BY <1>10, <2>2, <2>3, <2>4
  <1>11. ASSUME NEW r \in Recoveries, ClearWindow(r) PROVE HoleInv'
    <2>1. /\ window' = <<>> /\ now' = now /\ ws'.next = ws.next
          /\ recovery'[r].pc = "filling" /\ recovery'[r].klines = recovery[r].klines
          /\ \A s \in Recoveries \ {r} : recovery'[s] = recovery[s]
          /\ \A s \in Recoveries : recovery[s].pc # "filling"
      BY <1>2, <1>11 DEF ClearWindow, Outdate, Refilling, RecoveryType, WsType
    <2>2. KlinesInv'
      BY <1>1, <2>1 DEF KlinesInv
    <2>3. FillInv'
      BY <2>1 DEF FillInv
    <2>4. HolesInv' /\ CheckInv'
      BY <2>1 DEF HolesInv, CheckInv
    <2> QED BY <1>1, <2>1, <2>2, <2>3, <2>4 DEF HoleInv, ClockInv
  <1>12. ASSUME NEW r \in Recoveries, RefillWindow(r) PROVE HoleInv'
    <2>1. PICK k : k = recovery[r].klines
      OBVIOUS
    <2>2. /\ recovery[r].pc = "filling" /\ k # <<>> /\ window' = Push(window, Head(k))
          /\ now' = now /\ ws'.next = ws.next
          /\ recovery'[r].pc = "filling" /\ recovery'[r].klines = Tail(k)
          /\ \A s \in Recoveries \ {r} : recovery'[s] = recovery[s]
      BY <1>2, <1>12, <2>1 DEF RefillWindow, Outdate, RecoveryType, WsType
    <2>3. k \in Seq(Candle) /\ Len(k) \in Nat /\ Len(k) >= 1 /\ Head(k) = k[1]
          /\ Head(k) \in Candle /\ Head(k).at \in Nat
      BY <1>3, <2>1, <2>2, LastIsIn DEF Window
    <2>4. PICK v : v = Tail(k)
      OBVIOUS
    <2>5. v \in Seq(Candle) /\ Len(v) = Len(k) - 1 /\ \A i \in 1..Len(v) : v[i] = k[i + 1]
      BY <2>2, <2>3, <2>4, HeadTailProperties
    <2>6. /\ \A i \in 1..Len(k) : k[i].at <= now
          /\ \A i \in 1..(Len(k) - 1) : k[i + 1].at = k[i].at + 1
      BY <1>1, <2>1 DEF KlinesInv
    <2>7. /\ \A i \in 1..Len(v) : v[i].at <= now
          /\ \A i \in 1..(Len(v) - 1) : v[i + 1].at = v[i].at + 1
      <3>1. ASSUME NEW i \in 1..Len(v) PROVE v[i].at <= now
        <4>1. i + 1 \in 1..Len(k)
          BY <2>3, <2>5
        <4> QED BY <2>5, <2>6, <4>1
      <3>2. ASSUME NEW i \in 1..(Len(v) - 1) PROVE v[i + 1].at = v[i].at + 1
        <4>1. i + 1 \in 1..(Len(k) - 1) /\ i \in 1..Len(v) /\ i + 1 \in 1..Len(v)
          BY <2>3, <2>5
        <4> QED BY <2>5, <2>6, <4>1
      <3> QED BY <3>1, <3>2
    <2>8. KlinesInv'
      <3>1. ASSUME NEW s \in Recoveries, NEW q, q = recovery'[s].klines
            PROVE  /\ \A i \in 1..Len(q) : q[i].at <= now
                   /\ \A i \in 1..(Len(q) - 1) : q[i + 1].at = q[i].at + 1
        <4>1. CASE s = r
          <5>1. q = v
            BY <2>2, <2>4, <3>1, <4>1
          <5> QED BY <2>7, <5>1
        <4>2. CASE s # r
          <5>1. q = recovery[s].klines
            BY <2>2, <3>1, <4>2
          <5> QED BY <1>1, <5>1 DEF KlinesInv
        <4> QED BY <4>1, <4>2
      <3> QED BY <2>2, <3>1 DEF KlinesInv
    <2>9. HolesInv' /\ window' # <<>> /\ Last(window') = Head(k)
      <3>1. window = <<>> \/ Head(k).at <= Last(window).at + Hole
        BY <1>1, <2>1, <2>2 DEF FillInv
      <3> QED BY <1>1, <2>2, <2>3, <3>1, PushedHoles
    <2>10. v # <<>> => Head(v).at <= Head(k).at + Hole
      <3>1. SUFFICES ASSUME v # <<>> PROVE Head(v).at <= Head(k).at + Hole
        OBVIOUS
      <3>2. Head(v) = v[1] /\ Len(v) >= 1 /\ 1 \in 1..(Len(k) - 1) /\ 1 \in 1..Len(v)
        BY <2>3, <2>5, <3>1
      <3>3. v[1] = k[1 + 1] /\ k[1 + 1].at = k[1].at + 1
        BY <2>5, <2>6, <3>2
      <3> QED BY <2>3, <3>2, <3>3, Sizes
    <2>11. FillInv'
      BY <1>1, <2>2, <2>4, <2>9, <2>10 DEF FillInv
    <2>12. CheckInv'
      BY <1>2, <1>12 DEF RefillWindow, Outdate, WsType, CheckInv
    <2> QED BY <1>1, <2>2, <2>8, <2>9, <2>11, <2>12 DEF HoleInv, ClockInv
  <1>13. CASE \/ SkipSnapshot \/ TakeSnapshot \/ EmptySnapshotRaises
              \/ NoEntry \/ ExecuteSignal \/ GuardRefuses
    <2>1. UNCHANGED <<now, window, ws, recovery>>
      BY <1>13 DEF SkipSnapshot, TakeSnapshot, EmptySnapshotRaises, NoEntry, ExecuteSignal,
                   GuardRefuses
    <2> QED BY <1>1, <1>2, <1>4, <2>1 DEF ClockInv, CheckInv
  <1>14. CASE UNCHANGED feedVars
    BY <1>1, <1>2, <1>4, <1>14 DEF feedVars, ClockInv, CheckInv
  <1> QED BY <1>5, <1>6, <1>8, <1>9, <1>10, <1>11, <1>12, <1>13, <1>14 DEF FeedNext

-----------------------------------------------------------------------------
(* FeedTypeOK: clock, window, thread, recoveries, queue and runner have     *)
(* their types; neither the window nor the queue outgrows its limit.        *)
THEOREM FeedTypes == FeedSpec => []FeedTypeOK
  <1>1. FeedInit => FeedTypeOK
    BY InitTypes
  <1>2. FeedTypeOK /\ [FeedNext]_feedVars => FeedTypeOK'
    BY TypesKeep
  <1> QED BY <1>1, <1>2, PTL DEF FeedSpec

(* Two neighbours of a window, torn or not, are at most Hole apart, unless  *)
(* the later one was checked against another window: a refill takes no      *)
(* lock, and came between its check and its append.                         *)
THEOREM HolesBounded == FeedSpec => []HoleInv
  <1>1. FeedInit => HoleInv
    BY InitHoles
  <1>2. HoleInv /\ [FeedNext]_feedVars => HoleInv'
    BY HolesKeep
  <1> QED BY <1>1, <1>2, PTL DEF FeedSpec

(* HolesAreShort: as long as a closed candle comes before the next one      *)
(* closes, no window skips more than one candle between two neighbours,     *)
(* whatever the appends of the thread and those of a refill do to each      *)
(* other, but before a candle whose check a refill outdated: that one may   *)
(* come after any hole.                                                     *)
THEOREM ShortHoles ==
    ASSUME MaxLag <= 1
    PROVE  FeedSpec => []HolesAreShort
  <1>1. HoleInv => HolesAreShort
    <2> SUFFICES ASSUME HoleInv, NEW i \in 1..(Len(window) - 1)
                 PROVE  window[i + 1].unchecked \/ window[i + 1].at - window[i].at <= 2
      BY DEF HolesAreShort
    <2>1. FeedTypeOK /\ HolesInv /\ Hole = 2
      BY DEF HoleInv, Hole
    <2>2. window \in Seq(Candle) /\ Len(window) \in Nat
      BY <2>1 DEF FeedTypeOK, Window
    <2>3. i \in 1..Len(window) /\ i + 1 \in 1..Len(window)
      BY <2>2
    <2>4. window[i] \in Candle /\ window[i + 1] \in Candle
      BY <2>2, <2>3, ElementOfSeq
    <2>5. window[i].at \in Nat /\ window[i + 1].at \in Nat
      BY <2>4, Sizes DEF Candle
    <2> QED BY <2>1, <2>5 DEF HolesInv
  <1> QED BY <1>1, HolesBounded, PTL

-----------------------------------------------------------------------------
(* What reaches the strategy. *)

TradeInv == FeedTypeOK /\ WarmInv /\ CopyInv /\ QueueInv /\ RunnerInv /\ EntriesInv

LEMMA WholeAt ==
    ASSUME NEW s \in Snapshot, Whole(s.candles)
    PROVE  At(s) \in Nat /\ s.candles # <<>>
  <1>1. s.candles \in Window /\ s.candles # <<>>
    BY Sizes DEF Whole, Snapshot
  <1> QED BY <1>1, LastIsIn DEF At

LEMMA PendingIs ==
    ASSUME FeedTypeOK
    PROVE  Pending \in Int /\ ws.next \in Nat
  BY Sizes DEF FeedTypeOK, Pending

LEMMA ReadyLater ==
    ASSUME NEW s \in Snapshot, NEW p \in Int, NEW q \in Int, p <= q, Ready(s, p)
    PROVE  Ready(s, q)
  <1> SUFFICES ASSUME Fresh(s) PROVE Whole(s.candles) /\ At(s) < q
    BY DEF Ready
  <1>1. Whole(s.candles) /\ At(s) < p
    BY DEF Ready
  <1>2. At(s) \in Nat
    BY <1>1, WholeAt
  <1> QED BY <1>1, <1>2

LEMMA ReadyBefore ==
    ASSUME NEW s \in Snapshot, NEW t \in Snapshot, NEW p \in Int,
           Ready(s, p), Fresh(t) => Whole(t.candles) /\ p <= At(t)
    PROVE  Before(s, t)
  <1> SUFFICES ASSUME Fresh(s), Fresh(t) PROVE At(s) < At(t)
    BY DEF Before
  <1>1. Whole(s.candles) /\ At(s) < p /\ Whole(t.candles) /\ p <= At(t)
    BY DEF Ready
  <1>2. At(s) \in Nat /\ At(t) \in Nat
    BY <1>1, WholeAt
  <1> QED BY <1>1, <1>2

LineInv == QueueInv /\ RunnerInv /\ EntriesInv

LEMMA SnapshotsAre ==
    ASSUME FeedTypeOK
    PROVE  /\ queue \in Seq(Snapshot) /\ Len(queue) \in Nat
           /\ entries \in Seq(Snapshot) /\ Len(entries) \in Nat
           /\ \A i \in 1..Len(queue) : queue[i] \in Snapshot
           /\ \A i \in 1..Len(entries) : entries[i] \in Snapshot
           /\ runner.snapshot \in Snapshot
  <1>1. queue \in Seq(Snapshot) /\ entries \in Seq(Snapshot) /\ runner \in RunnerType
    BY DEF FeedTypeOK, RunnerType
  <1> QED BY <1>1, ElementOfSeq, LenProperties DEF RunnerType

LEMMA ReadyStays ==
    ASSUME FeedTypeOK, FeedTypeOK', Pending <= Pending', NEW s \in Snapshot, Ready(s, Pending)
    PROVE  Ready(s, Pending')
  <1>1. Pending \in Int /\ Pending' \in Int
    BY Sizes DEF FeedTypeOK, Pending
  <1>2. PICK p : p = Pending
    OBVIOUS
  <1>3. PICK q : q = Pending'
    OBVIOUS
  <1>4. Ready(s, q)
    BY <1>1, <1>2, <1>3, ReadyLater
  <1> QED BY <1>3, <1>4

(* Nothing is queued or taken, and the thread does not go back. *)
LEMMA LineStays ==
    ASSUME FeedTypeOK, FeedTypeOK', LineInv, UNCHANGED <<queue, runner, entries>>,
           Pending <= Pending'
    PROVE  LineInv'
  <1>1. QueueInv /\ RunnerInv /\ EntriesInv
    BY DEF LineInv
  <1>2. \A s \in Snapshot : Ready(s, Pending) => Ready(s, Pending')
    BY ReadyStays
  <1>3. QueueInv'
    BY <1>1, <1>2, SnapshotsAre DEF QueueInv
  <1>4. RunnerInv'
    BY <1>1, <1>2, SnapshotsAre DEF RunnerInv
  <1>5. EntriesInv'
    BY <1>1, <1>2, SnapshotsAre DEF EntriesInv
  <1> QED BY <1>3, <1>4, <1>5 DEF LineInv

(* A snapshot is queued, unless the queue is full. *)
LEMMA LinePushed ==
    ASSUME FeedTypeOK, FeedTypeOK', LineInv, UNCHANGED <<runner, entries>>,
           Pending <= Pending', NEW s \in Snapshot, _queue_snapshot_nowait(s),
           Fresh(s) => Whole(s.candles) /\ Pending <= At(s) /\ At(s) < Pending'
    PROVE  LineInv'
  <1>1. QueueInv /\ RunnerInv /\ EntriesInv
    BY DEF LineInv
  <1>2. \A t \in Snapshot : Ready(t, Pending) => Ready(t, Pending') /\ Before(t, s)
    BY ReadyStays, ReadyBefore, PendingIs
  <1>3. CASE queue' = queue
    BY <1>3, LineStays
  <1>4. CASE queue' = Append(queue, s)
    <2>1. /\ Len(queue') = Len(queue) + 1 /\ Len(queue) \in Nat
          /\ \A i \in 1..Len(queue) : queue'[i] = queue[i]
          /\ queue'[Len(queue) + 1] = s
      BY <1>4, SnapshotsAre, AppendProperties
    <2>2. \A i \in 1..Len(queue') : i \in 1..Len(queue) \/ i = Len(queue) + 1
      BY <2>1
    <2>3. Ready(s, Pending')
      BY DEF Ready
    <2>4. \A i \in 1..Len(queue) : Ready(queue[i], Pending') /\ Before(queue[i], s)
      BY <1>1, <1>2, SnapshotsAre DEF QueueInv
    <2>5. QueueInv'
      <3>1. ASSUME NEW i \in 1..Len(queue') PROVE Ready(queue'[i], Pending')
        BY <2>1, <2>2, <2>3, <2>4, <3>1
      <3>2. ASSUME NEW i \in 1..Len(queue'), NEW j \in 1..Len(queue'), i < j
            PROVE  Before(queue'[i], queue'[j])
        <4>1. i \in 1..Len(queue)
          BY <2>1, <3>2
        <4>2. CASE j \in 1..Len(queue)
          BY <1>1, <2>1, <3>2, <4>1, <4>2 DEF QueueInv
        <4>3. CASE j = Len(queue) + 1
          BY <2>1, <2>4, <4>1, <4>3
        <4> QED BY <2>2, <3>2, <4>2, <4>3
      <3> QED BY <3>1, <3>2 DEF QueueInv
    <2>6. RunnerInv'
      <3>1. SUFFICES ASSUME runner.pc = "deciding"
                     PROVE  /\ ~runner.snapshot.gap_recovered
                            /\ Ready(runner.snapshot, Pending')
                            /\ \A i \in 1..Len(queue') : Before(runner.snapshot, queue'[i])
        BY DEF RunnerInv
      <3>2. /\ ~runner.snapshot.gap_recovered /\ Ready(runner.snapshot, Pending)
            /\ \A i \in 1..Len(queue) : Before(runner.snapshot, queue[i])
        BY <1>1, <3>1 DEF RunnerInv
      <3>3. Ready(runner.snapshot, Pending') /\ Before(runner.snapshot, s)
        BY <1>2, <3>2, SnapshotsAre
      <3> QED BY <2>1, <2>2, <3>2, <3>3
    <2>7. EntriesInv'
      <3>1. ASSUME NEW i \in 1..Len(entries)
            PROVE  /\ Ready(entries[i], Pending')
                   /\ \A j \in 1..Len(queue') : Before(entries[i], queue'[j])
        <4>1. /\ Ready(entries[i], Pending)
              /\ \A j \in 1..Len(queue) : Before(entries[i], queue[j])
          BY <1>1, <3>1 DEF EntriesInv
        <4>2. Ready(entries[i], Pending') /\ Before(entries[i], s)
          BY <1>2, <3>1, <4>1, SnapshotsAre
        <4> QED BY <2>1, <2>2, <4>1, <4>2
      <3> QED BY <1>1, <3>1 DEF EntriesInv
    <2> QED BY <2>5, <2>6, <2>7 DEF LineInv
  <1> QED BY <1>3, <1>4 DEF _queue_snapshot_nowait

(* The runner takes a snapshot from the queue, to decide on it or not. *)
LEMMA LineTaken ==
    ASSUME FeedTypeOK, LineInv, UNCHANGED <<ws, entries>>, queue # <<>>, queue' = Tail(queue),
           runner'.pc = "deciding" =>
              runner'.snapshot = Head(queue) /\ ~Head(queue).gap_recovered
    PROVE  LineInv'
  <1>1. QueueInv /\ RunnerInv /\ EntriesInv /\ Pending' = Pending
    BY DEF LineInv, Pending
  <1>2. /\ Len(queue') = Len(queue) - 1 /\ Len(queue) \in Nat /\ Len(queue) >= 1
        /\ \A i \in 1..Len(queue') : queue'[i] = queue[i + 1]
        /\ Head(queue) = queue[1]
    BY SnapshotsAre, HeadTailProperties
  <1>3. /\ \A i \in 1..Len(queue') : i + 1 \in 1..Len(queue) /\ 1 < i + 1
        /\ 1 \in 1..Len(queue)
    BY <1>2
  <1>4. QueueInv'
    <2>1. ASSUME NEW i \in 1..Len(queue') PROVE Ready(queue'[i], Pending')
      BY <1>1, <1>2, <1>3, <2>1 DEF QueueInv
    <2>2. ASSUME NEW i \in 1..Len(queue'), NEW j \in 1..Len(queue'), i < j
          PROVE  Before(queue'[i], queue'[j])
      <3>1. i + 1 \in 1..Len(queue) /\ j + 1 \in 1..Len(queue) /\ i + 1 < j + 1
        BY <1>2, <1>3, <2>2
      <3> QED BY <1>1, <1>2, <2>2, <3>1 DEF QueueInv
    <2> QED BY <2>1, <2>2 DEF QueueInv
  <1>5. RunnerInv'
    <2>1. ASSUME NEW i \in 1..Len(queue') PROVE Before(Head(queue), queue'[i])
      BY <1>1, <1>2, <1>3, <2>1 DEF QueueInv
    <2>2. Ready(Head(queue), Pending')
      BY <1>1, <1>2, <1>3 DEF QueueInv
    <2> QED BY <2>1, <2>2 DEF RunnerInv
  <1>6. EntriesInv'
    <2>1. ASSUME NEW i \in 1..Len(entries)
          PROVE  /\ \A j \in 1..Len(queue') : Before(entries[i], queue'[j])
                 /\ Before(entries[i], Head(queue))
      BY <1>1, <1>2, <1>3, <2>1 DEF EntriesInv
    <2> QED BY <1>1, <2>1 DEF EntriesInv
  <1> QED BY <1>4, <1>5, <1>6 DEF LineInv

(* The runner is done with its snapshot, which it may have traded on. *)
LEMMA LineDone ==
    ASSUME FeedTypeOK, LineInv, UNCHANGED <<ws, queue>>, runner.pc = "deciding",
           runner'.pc # "deciding",
           entries' = entries \/ entries' = Append(entries, runner.snapshot)
    PROVE  LineInv'
  <1>1. QueueInv /\ RunnerInv /\ EntriesInv /\ Pending' = Pending
    BY DEF LineInv, Pending
  <1>2. QueueInv' /\ RunnerInv'
    BY <1>1 DEF QueueInv, RunnerInv
  <1>3. EntriesInv'
    <2>1. CASE entries' = entries
      BY <1>1, <2>1 DEF EntriesInv
    <2>2. CASE entries' = Append(entries, runner.snapshot)
      <3>1. PICK s \in Snapshot : s = runner.snapshot
        BY SnapshotsAre
      <3>2. /\ ~s.gap_recovered /\ Ready(s, Pending)
            /\ \A i \in 1..Len(queue) : Before(s, queue[i])
        BY <1>1, <3>1 DEF RunnerInv
      <3>3. /\ Len(entries') = Len(entries) + 1 /\ Len(entries) \in Nat
            /\ \A i \in 1..Len(entries) : entries'[i] = entries[i]
            /\ entries'[Len(entries) + 1] = s
        BY <2>2, <3>1, SnapshotsAre, AppendProperties
      <3>4. \A i \in 1..Len(entries') : i \in 1..Len(entries) \/ i = Len(entries) + 1
        BY <3>3
      <3>5. ASSUME NEW i \in 1..Len(entries')
            PROVE  /\ ~entries'[i].gap_recovered /\ Ready(entries'[i], Pending)
                   /\ \A j \in 1..Len(queue) : Before(entries'[i], queue[j])
        <4>1. CASE i \in 1..Len(entries)
          BY <1>1, <3>3, <4>1 DEF EntriesInv
        <4>2. CASE i = Len(entries) + 1
          BY <3>2, <3>3, <4>2
        <4> QED BY <3>4, <3>5, <4>1, <4>2
      <3>6. ASSUME NEW i \in 1..Len(entries'), NEW j \in 1..Len(entries'), i < j
            PROVE  Before(entries'[i], entries'[j])
        <4>1. i \in 1..Len(entries)
          BY <3>3, <3>6
        <4>2. CASE j \in 1..Len(entries)
          BY <1>1, <3>3, <3>6, <4>1, <4>2 DEF EntriesInv
        <4>3. CASE j = Len(entries) + 1
          BY <1>1, <3>1, <3>3, <4>1, <4>3 DEF EntriesInv
        <4> QED BY <3>4, <3>6, <4>2, <4>3
      <3> QED BY <1>1, <3>5, <3>6 DEF EntriesInv
    <2> QED BY <2>1, <2>2
  <1> QED BY <1>2, <1>3 DEF LineInv

LEMMA InitTrade == FeedInit => TradeInv
  <1> SUFFICES ASSUME FeedInit PROVE TradeInv
    OBVIOUS
  <1>1. FeedTypeOK
    BY InitTypes
  <1>2. WarmInv
    <2>1. Len(window) \in Nat /\ Len(window) <= WindowSize /\ WindowSize \in Nat
      BY <1>1, Sizes DEF FeedTypeOK, Window
    <2>2. warmed => Len(window) >= WindowSize
      BY DEF FeedInit
    <2>3. warmed => Len(window) = WindowSize
      BY <2>1, <2>2
    <2> QED BY <2>3 DEF WarmInv
  <1>3. CopyInv
    BY NoSnapshotIs DEF FeedInit, CopyInv
  <1>4. QueueInv /\ RunnerInv /\ EntriesInv
    <2>1. queue = <<>> /\ entries = <<>> /\ runner.pc = "idle"
      BY DEF FeedInit
    <2> QED BY <2>1 DEF QueueInv, RunnerInv, EntriesInv
  <1> QED BY <1>1, <1>2, <1>3, <1>4 DEF TradeInv

(* The thread appends, copies and queues; what it copies is the window that *)
(* it appended to, unless a refill comes between.                           *)
LEMMA ThreadTrade ==
    ASSUME TradeInv, FeedTypeOK',
           \/ LoseCandle \/ NoticeGap \/ CheckCandle
           \/ AppendCandle \/ CopyWindow \/ EnqueueCopy
    PROVE  TradeInv'
  <1>1. FeedTypeOK /\ WarmInv /\ CopyInv /\ LineInv
    BY DEF TradeInv, LineInv
  <1>2. /\ ws \in WsType /\ ws.copy \in Snapshot /\ ws.next \in Nat /\ Pending \in Int
        /\ window \in Window /\ window' \in Window /\ Len(window) \in Nat /\ Len(window') \in Nat
        /\ Len(window) <= WindowSize /\ Len(window') <= WindowSize /\ WindowSize \in Nat \ {0}
        /\ warmed \in BOOLEAN
    <2>1. ws \in WsType /\ window \in Window /\ window' \in Window
          /\ Len(window) <= WindowSize /\ Len(window') <= WindowSize /\ warmed \in BOOLEAN
      BY <1>1 DEF FeedTypeOK, WsType
    <2> QED BY <1>1, <2>1, PendingIs, Sizes DEF WsType, Window
  <1>3. ASSUME WarmInv', CopyInv', LineInv' PROVE TradeInv'
    BY <1>3 DEF TradeInv, LineInv
  <1>4. CASE LoseCandle \/ NoticeGap
    <2>1. /\ ws.pc = "idle" /\ ws'.pc = "idle" /\ ws'.next = ws.next + 1 /\ ws'.copy = ws.copy
          /\ UNCHANGED <<window, warmed, queue, runner, entries>>
      BY <1>2, <1>4 DEF LoseCandle, NoticeGap, Listening, WsType
    <2>2. Refilling' <=> Refilling
      <3>1. CASE LoseCandle
        BY <3>1 DEF LoseCandle, Refilling
      <3>2. CASE NoticeGap
        <4>1. PICK r \in Recoveries :
                 /\ recovery[r].pc = "idle"
                 /\ recovery' = [recovery EXCEPT ![r] = [pc |-> "asked", gap |-> ws.next,
                                                         klines |-> <<>>]]
          BY <3>2 DEF NoticeGap
        <4>2. /\ recovery'[r].pc = "asked"
              /\ \A s \in Recoveries \ {r} : recovery'[s] = recovery[s]
          BY <1>1, <4>1 DEF FeedTypeOK
        <4> QED BY <4>1, <4>2 DEF Refilling
      <3> QED BY <1>4, <3>1, <3>2
    <2>3. WarmInv'
      BY <1>1, <2>1, <2>2 DEF WarmInv
    <2>4. CopyInv'
      BY <1>1, <2>1 DEF CopyInv
    <2>5. Pending <= Pending'
      BY <1>2, <2>1 DEF Pending
    <2> QED BY <1>1, <1>3, <2>1, <2>3, <2>4, <2>5, LineStays
  <1>5. CASE AppendCandle
    <2>1. /\ ws.pc = "checked" /\ window' = Push(window, Confirmed) /\ Confirmed \in Candle
          /\ warmed' = (warmed \/ Len(window') >= WindowSize)
          /\ Refilling' = Refilling
          /\ ws' = [ws EXCEPT !.next = ws.next + 1,
                              !.pc = IF warmed' THEN "appended" ELSE "idle",
                              !.unchecked = FALSE,
                              !.copy = [ws.copy EXCEPT !.torn = Refilling]]
          /\ UNCHANGED <<queue, runner, entries>>
      <3>1. Confirmed \in Candle
        BY <1>1, <1>2, <1>5, Sizes
           DEF AppendCandle, Confirmed, Candle, FeedTypeOK, WsType
      <3>2. Refilling' = Refilling
        BY <1>5 DEF AppendCandle, Refilling
      <3> QED BY <1>2, <1>5, <3>1, <3>2 DEF AppendCandle, WsType
    <2>2. /\ ws'.next = ws.next + 1 /\ ws'.pc = (IF warmed' THEN "appended" ELSE "idle")
          /\ ws'.copy.torn = Refilling /\ ws'.copy.gap_recovered = ws.copy.gap_recovered
      BY <1>2, <2>1 DEF WsType, Snapshot
    <2>3. /\ Last(window') = Confirmed
          /\ Len(window') = (IF Len(window) < WindowSize THEN Len(window) + 1 ELSE WindowSize)
      BY <1>2, <2>1, Pushed
    <2>4. WarmInv'
      BY <1>1, <1>2, <2>1, <2>3 DEF WarmInv
    <2>5. Pending' = ws.next + (IF warmed' THEN 0 ELSE 1) /\ Pending = ws.next
      BY <1>2, <2>1, <2>2 DEF Pending
    <2>6. CopyInv'
      <3>1. ~ws'.copy.gap_recovered /\ ws'.pc # "copied"
        BY <1>1, <2>2 DEF CopyInv
      <3>2. ASSUME ws'.pc = "appended", ~ws'.copy.torn
            PROVE  ~Refilling' /\ Whole(window') /\ Last(window').at = Pending'
        <4>1. warmed' /\ ~Refilling'
          BY <2>1, <2>2, <3>2
        <4>2. Len(window') = WindowSize
          BY <2>4, <4>1 DEF WarmInv
        <4>3. Confirmed.closed /\ Confirmed.at = ws.next /\ Pending' = ws.next
          BY <1>2, <2>5, <4>1 DEF Confirmed
        <4> QED BY <2>3, <4>1, <4>2, <4>3 DEF Whole
      <3> QED BY <3>1, <3>2 DEF CopyInv
    <2>7. Pending <= Pending'
      BY <1>2, <2>5
    <2> QED BY <1>1, <1>3, <2>1, <2>4, <2>6, <2>7, LineStays
  <1>6. CASE CopyWindow
    <2>1. /\ ws.pc = "appended"
          /\ ws' = [ws EXCEPT !.pc = "copied",
                              !.copy = [ws.copy EXCEPT !.candles = window,
                                                       !.torn = ws.copy.torn \/ Refilling]]
          /\ Refilling' = Refilling
          /\ UNCHANGED <<window, warmed, queue, runner, entries>>
      BY <1>2, <1>6 DEF CopyWindow, WsType, Snapshot, Refilling
    <2>2. /\ ws'.next = ws.next /\ ws'.pc = "copied" /\ ws'.copy.candles = window
          /\ ws'.copy.torn = (ws.copy.torn \/ Refilling)
          /\ ws'.copy.gap_recovered = ws.copy.gap_recovered
      BY <1>2, <2>1 DEF WsType, Snapshot
    <2>3. Pending' = Pending
      BY <2>1, <2>2 DEF Pending
    <2>4. WarmInv'
      BY <1>1, <2>1 DEF WarmInv
    <2>5. CopyInv'
      BY <1>1, <2>1, <2>2, <2>3 DEF CopyInv, At
    <2>6. Pending <= Pending'
      BY <1>2, <2>3
    <2> QED BY <1>1, <1>3, <2>1, <2>4, <2>5, <2>6, LineStays
  <1>7. CASE EnqueueCopy
    <2>1. /\ ws.pc = "copied" /\ _queue_snapshot_nowait(ws.copy)
          /\ ws'.pc = "idle" /\ ws'.next = ws.next /\ ws'.copy = NoSnapshot
          /\ Refilling' = Refilling
          /\ UNCHANGED <<window, warmed, runner, entries>>
      BY <1>2, <1>7 DEF EnqueueCopy, WsType, Refilling
    <2>2. Pending = ws.next - 1 /\ Pending' = ws.next
      BY <2>1 DEF Pending
    <2>3. WarmInv'
      BY <1>1, <2>1 DEF WarmInv
    <2>4. CopyInv'
      BY <2>1, NoSnapshotIs DEF CopyInv
    <2>5. Fresh(ws.copy) => /\ Whole(ws.copy.candles)
                            /\ Pending <= At(ws.copy) /\ At(ws.copy) < Pending'
      <3>1. SUFFICES ASSUME Fresh(ws.copy)
                     PROVE  /\ Whole(ws.copy.candles)
                            /\ Pending <= At(ws.copy) /\ At(ws.copy) < Pending'
        OBVIOUS
      <3>2. Whole(ws.copy.candles) /\ At(ws.copy) = Pending
        BY <1>1, <2>1, <3>1 DEF CopyInv, Fresh
      <3> QED BY <1>2, <2>2, <3>2
    <2>6. Pending <= Pending'
      BY <1>2, <2>2
    <2> QED BY <1>1, <1>2, <1>3, <2>1, <2>3, <2>4, <2>5, <2>6, LinePushed
  <1>8. CASE CheckCandle
    <2>1. /\ ws.pc = "idle" /\ ws'.pc = "checked" /\ ws'.next = ws.next /\ ws'.copy = ws.copy
          /\ UNCHANGED <<window, warmed, recovery, queue, runner, entries>>
      BY <1>2, <1>8 DEF CheckCandle, Listening, WsType
    <2>2. WarmInv' /\ CopyInv'
      BY <1>1, <2>1 DEF WarmInv, CopyInv, Refilling
    <2>3. Pending <= Pending'
      BY <1>2, <2>1 DEF Pending
    <2> QED BY <1>1, <1>3, <2>1, <2>2, <2>3, LineStays
  <1> QED BY <1>4, <1>5, <1>6, <1>7, <1>8

(* A refill marks the copy that the thread is about to make, and its own    *)
(* snapshot as recovered.                                                   *)
LEMMA RecoveryTrade ==
    ASSUME TradeInv, FeedTypeOK', NEW r \in Recoveries,
           \/ RestAnswers(r) \/ RestFails(r)
           \/ ClearWindow(r) \/ RefillWindow(r) \/ EndRefill(r)
    PROVE  TradeInv'
  <1>1. FeedTypeOK /\ WarmInv /\ CopyInv /\ LineInv
    BY DEF TradeInv, LineInv
  <1>2. /\ ws \in WsType /\ ws.copy \in Snapshot /\ Pending \in Int
        /\ recovery \in [Recoveries -> RecoveryType]
        /\ Len(window) \in Nat /\ Len(window) <= WindowSize /\ WindowSize \in Nat
    <2>1. /\ ws \in WsType /\ window \in Window /\ Len(window) <= WindowSize
          /\ recovery \in [Recoveries -> RecoveryType]
      BY <1>1 DEF FeedTypeOK, WsType, RecoveryType
    <2> QED BY <1>1, <2>1, PendingIs, Sizes DEF WsType, Window
  <1>3. ASSUME WarmInv', CopyInv', LineInv' PROVE TradeInv'
    BY <1>3 DEF TradeInv, LineInv
  <1>4. CASE RestAnswers(r) \/ RestFails(r)
    <2>1. UNCHANGED <<window, warmed, ws, queue, runner, entries>>
      BY <1>4 DEF RestAnswers, RestFails
    <2>2. Refilling' <=> Refilling
      <3>1. /\ recovery[r].pc # "filling" /\ recovery'[r].pc # "filling"
            /\ \A s \in Recoveries \ {r} : recovery'[s] = recovery[s]
        BY <1>2, <1>4, EmptyTypes DEF RestAnswers, RestFails, RecoveryType
      <3> QED BY <3>1 DEF Refilling
    <2>3. WarmInv' /\ CopyInv'
      BY <1>1, <2>1, <2>2 DEF WarmInv, CopyInv, Pending
    <2>4. Pending <= Pending'
      BY <1>2, <2>1 DEF Pending
    <2> QED BY <1>1, <1>3, <2>1, <2>3, <2>4, LineStays
  <1>5. CASE ClearWindow(r) \/ RefillWindow(r)
    <2>1. /\ ws' = [ws EXCEPT !.unchecked = ws.unchecked \/ ws.pc = "checked",
                              !.copy = [ws.copy EXCEPT !.torn = ws.copy.torn \/ ws.pc = "appended"]]
          /\ UNCHANGED <<warmed, queue, runner, entries>>
      BY <1>2, <1>5 DEF ClearWindow, RefillWindow, Outdate, WsType, Snapshot
    <2>2. /\ ws'.next = ws.next /\ ws'.pc = ws.pc /\ ws'.copy.candles = ws.copy.candles
          /\ ws'.copy.torn = (ws.copy.torn \/ ws.pc = "appended")
          /\ ws'.copy.gap_recovered = ws.copy.gap_recovered
      BY <1>2, <2>1 DEF WsType, Snapshot
    <2>3. Refilling'
      <3>1. recovery'[r].pc = "filling"
        BY <1>2, <1>5 DEF ClearWindow, RefillWindow, RecoveryType
      <3> QED BY <3>1 DEF Refilling
    <2>4. WarmInv'
      BY <2>3 DEF WarmInv
    <2>5. Pending' = Pending
      BY <2>2 DEF Pending
    <2>6. CopyInv'
      BY <1>1, <2>2, <2>5 DEF CopyInv, At
    <2>7. Pending <= Pending'
      BY <1>2, <2>5
    <2> QED BY <1>1, <1>3, <2>1, <2>4, <2>6, <2>7, LineStays
  <1>6. CASE EndRefill(r)
    <2>1. /\ recovery[r].pc = "filling" /\ warmed' = (Len(window) >= WindowSize)
          /\ UNCHANGED <<window, ws, runner, entries>>
      BY <1>6 DEF EndRefill
    <2>2. WarmInv'
      <3>1. warmed' => Len(window) >= WindowSize
        BY <2>1
      <3>2. warmed' => Len(window') = WindowSize
        BY <1>2, <2>1, <3>1
      <3> QED BY <3>2 DEF WarmInv
    <2>3. Refilling
      BY <2>1 DEF Refilling
    <2>4. CopyInv' /\ Pending' = Pending
      BY <1>1, <2>1, <2>3 DEF CopyInv, Pending
    <2>5. Pending <= Pending'
      BY <1>2, <2>4
    <2>6. LineInv'
      <3>1. PICK s : s = [candles |-> window, gap_recovered |-> TRUE, torn |-> FALSE]
        OBVIOUS
      <3>2. s \in Snapshot /\ ~Fresh(s)
        BY <1>1, <3>1 DEF Snapshot, FeedTypeOK, Fresh
      <3>3. queue' = queue \/ _queue_snapshot_nowait(s)
        BY <1>6, <3>1 DEF EndRefill
      <3>4. CASE queue' = queue
        BY <1>1, <2>1, <2>5, <3>4, LineStays
      <3>5. CASE _queue_snapshot_nowait(s)
        BY <1>1, <2>1, <2>5, <3>2, <3>5, LinePushed
      <3> QED BY <3>3, <3>4, <3>5
    <2> QED BY <1>3, <2>2, <2>4, <2>6
  <1> QED BY <1>4, <1>5, <1>6

LEMMA RunnerTrade ==
    ASSUME TradeInv, FeedTypeOK',
           \/ SkipSnapshot \/ TakeSnapshot \/ EmptySnapshotRaises
           \/ NoEntry \/ ExecuteSignal \/ GuardRefuses
    PROVE  TradeInv'
  <1>1. FeedTypeOK /\ WarmInv /\ CopyInv /\ LineInv
    BY DEF TradeInv, LineInv
  <1>2. UNCHANGED <<window, warmed, ws, recovery>>
    BY DEF SkipSnapshot, TakeSnapshot, EmptySnapshotRaises, NoEntry, ExecuteSignal, GuardRefuses
  <1>3. WarmInv' /\ CopyInv'
    BY <1>1, <1>2 DEF WarmInv, CopyInv, Refilling, Pending
  <1>4. runner \in RunnerType
    BY <1>1 DEF FeedTypeOK, RunnerType
  <1>5. LineInv'
    <2>1. CASE SkipSnapshot \/ TakeSnapshot \/ EmptySnapshotRaises
      <3>1. /\ queue # <<>> /\ queue' = Tail(queue) /\ entries' = entries
            /\ runner'.pc = "deciding" =>
                  runner'.snapshot = Head(queue) /\ ~Head(queue).gap_recovered
        BY <1>4, <2>1 DEF SkipSnapshot, TakeSnapshot, EmptySnapshotRaises, SkipReason, RunnerType
      <3> QED BY <1>1, <1>2, <3>1, LineTaken
    <2>2. CASE NoEntry \/ ExecuteSignal \/ GuardRefuses
      <3>1. /\ runner.pc = "deciding" /\ runner'.pc # "deciding" /\ queue' = queue
            /\ entries' = entries \/ entries' = Append(entries, runner.snapshot)
        <4>1. CASE NoEntry \/ GuardRefuses
          BY <1>4, <4>1 DEF NoEntry, GuardRefuses, RunnerType
        <4>2. CASE ExecuteSignal
          BY <4>2 DEF ExecuteSignal
        <4> QED BY <2>2, <4>1, <4>2
      <3> QED BY <1>1, <1>2, <3>1, LineDone
    <2> QED BY <2>1, <2>2
  <1> QED BY <1>3, <1>5 DEF TradeInv, LineInv

LEMMA TradeKeeps == TradeInv /\ [FeedNext]_feedVars => TradeInv'
  <1> SUFFICES ASSUME TradeInv, [FeedNext]_feedVars PROVE TradeInv'
    OBVIOUS
  <1>1. FeedTypeOK'
    BY TypesKeep DEF TradeInv
  <1>2. CASE Tick \/ UNCHANGED feedVars
    <2>1. UNCHANGED <<window, warmed, ws, recovery, queue, runner, entries>>
      BY <1>2 DEF Tick, feedVars
    <2>2. Pending' = Pending /\ (Refilling' <=> Refilling)
      BY <2>1 DEF Pending, Refilling
    <2>3. WarmInv' /\ CopyInv'
      BY <2>1, <2>2 DEF TradeInv, WarmInv, CopyInv
    <2>4. QueueInv' /\ RunnerInv' /\ EntriesInv'
      BY <2>1, <2>2 DEF TradeInv, QueueInv, RunnerInv, EntriesInv
    <2> QED BY <1>1, <2>3, <2>4 DEF TradeInv
  <1>3. CASE \/ LoseCandle \/ NoticeGap \/ CheckCandle
             \/ AppendCandle \/ CopyWindow \/ EnqueueCopy
    BY <1>1, <1>3, ThreadTrade
  <1>4. CASE \E r \in Recoveries : \/ RestAnswers(r) \/ RestFails(r)
                                   \/ ClearWindow(r) \/ RefillWindow(r) \/ EndRefill(r)
    BY <1>1, <1>4, RecoveryTrade
  <1>5. CASE \/ SkipSnapshot \/ TakeSnapshot \/ EmptySnapshotRaises
             \/ NoEntry \/ ExecuteSignal \/ GuardRefuses
    BY <1>1, <1>5, RunnerTrade
  <1> QED BY <1>2, <1>3, <1>4, <1>5 DEF FeedNext

(* What the copies, the queue, the runner and the history have in common:   *)
(* snapshots that may be traded on are whole, and the older one is first.   *)
THEOREM TradesInductive == FeedSpec => []TradeInv
  <1>1. FeedInit => TradeInv
    BY InitTrade
  <1>2. TradeInv /\ [FeedNext]_feedVars => TradeInv'
    BY TradeKeeps
  <1> QED BY <1>1, <1>2, PTL DEF FeedSpec

(* EntriesSeeClosedCandles: a signal that was executed was computed on a    *)
(* full window that ends in a closed candle, unless the copy was made       *)
(* during a refill.                                                         *)
THEOREM EntriesClosed == FeedSpec => []EntriesSeeClosedCandles
  <1>1. TradeInv => EntriesSeeClosedCandles
    BY DEF TradeInv, EntriesInv, Ready, Fresh, Whole, EntriesSeeClosedCandles
  <1> QED BY <1>1, TradesInductive, PTL

(* OneEntryPerCandle: no two executed signals stand on the same newest      *)
(* candle, though recoveries and the thread deliver the same candles.       *)
THEOREM CandlesTradedOnce == FeedSpec => []OneEntryPerCandle
  <1>1. TradeInv => OneEntryPerCandle
    <2> SUFFICES ASSUME TradeInv, NEW i \in 1..Len(entries), NEW j \in 1..Len(entries),
                        i # j, ~entries[i].torn, ~entries[j].torn
                 PROVE  Last(entries[i].candles).at # Last(entries[j].candles).at
      BY DEF OneEntryPerCandle
    <2>1. FeedTypeOK /\ EntriesInv
      BY DEF TradeInv
    <2>2. Fresh(entries[i]) /\ Fresh(entries[j])
      BY <2>1 DEF EntriesInv, Fresh
    <2>3. At(entries[i]) \in Nat /\ At(entries[j]) \in Nat
      BY <2>1, <2>2, SnapshotsAre, WholeAt DEF EntriesInv, Ready
    <2>4. i < j \/ j < i
      OBVIOUS
    <2>5. At(entries[i]) < At(entries[j]) \/ At(entries[j]) < At(entries[i])
      BY <2>1, <2>2, <2>4 DEF EntriesInv, Before
    <2> QED BY <2>3, <2>5 DEF At
  <1> QED BY <1>1, TradesInductive, PTL

=============================================================================
