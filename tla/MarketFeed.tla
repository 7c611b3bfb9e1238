---------------------------- MODULE MarketFeed ----------------------------
(***************************************************************************)
(* The candle feed of one symbol (BybitCandleFeed) and the runner that     *)
(* trades on it (WebSocketSignalRunner).                                   *)
(*                                                                         *)
(* A thread of the WebSocket library checks every confirmed candle against *)
(* the last of a window, appends it and queues a copy of the window for    *)
(* the runner.  The event loop refills the same window from REST when      *)
(* candles were missed, and it does so without the lock that the thread    *)
(* holds: the two interleave between the check and the append, and at      *)
(* every append.  The runner shares the event loop with the refills.       *)
(*                                                                         *)
(* Time is counted in intervals: candle k opens at time k and is closed,   *)
(* and confirmed, from k + 1 on.  A candle is its number and whether it    *)
(* had closed when it was read.                                            *)
(***************************************************************************)
EXTENDS Integers, Sequences, SequencesExt

CONSTANTS
    WindowSize,    \* scalping_ws_window_size
    QueueSize,     \* maxsize of the queue (500)
    MaxStaleness,  \* market_data_max_staleness_intervals
    Cooldown,      \* scalping_cooldown_seconds, in intervals
    Recoveries,    \* bound: recoveries at a time
    MaxTime,       \* bound: candles
    MaxLag,        \* intervals that a closed candle may be late
    MaxLost,       \* bound: candles that are not delivered
    MaxFailed      \* bound: failing REST calls

ASSUME FeedAssumption ==
    /\ {WindowSize, QueueSize} \subseteq Nat \ {0}
    /\ {MaxStaleness, Cooldown, MaxTime, MaxLag, MaxLost, MaxFailed} \subseteq Nat
    /\ WindowSize < MaxTime

VARIABLES
    now,      \* the clock, the number of the candle in progress
    window,   \* _windows[symbol]
    warmed,   \* _warmed_up[symbol]
    ws,       \* the WebSocket thread: the next candle, and the copy it makes
    recovery, \* the _recover_gap coroutines
    queue,    \* snapshots for the runner
    runner,   \* the runner: what it works on, its last entry
    entries,  \* history: the executed signals
    lost,     \* candles lost so far
    failed    \* REST calls failed so far

feedVars == <<now, window, warmed, ws, recovery, queue, runner, entries, lost, failed>>

-----------------------------------------------------------------------------
(* Candles and snapshots. *)

(* unchecked, a history flag: a refill changed the window between the      *)
(* check of this candle and its append.                                    *)
Candle == [at : 1..MaxTime, closed : BOOLEAN, unchecked : BOOLEAN]

Window == Seq(Candle)

(* torn, a history flag: the copy was made while a refill was under way. *)
Snapshot == [candles : Window, gap_recovered : BOOLEAN, torn : BOOLEAN]

NoSnapshot == [candles |-> <<>>, gap_recovered |-> FALSE, torn |-> FALSE]

(* What REST answers at time t, sorted: the last candle is in progress. *)
get_klines(t) ==
    LET n == IF t < WindowSize THEN t ELSE WindowSize
    IN  [i \in 1..n |-> [at |-> t - n + i, closed |-> i < n, unchecked |-> FALSE]]

(* Mutant: the answer is used as it comes, the newest candle first. *)
Unsorted(t) == Reverse(get_klines(t))

sorted_klines(t) == get_klines(t)

(* A deque with a maximal length drops its oldest candle. *)
Push(w, c) == Append(IF Len(w) < WindowSize THEN w ELSE Tail(w), c)

(* Mutant: one more missed candle goes unnoticed. *)
IsWideGap(last, c) == c.at > last.at + 3

(* One interval and a half beyond the expected candle: 2.5 in whole ones. *)
_is_gap(last, c) == c.at > last.at + 2

is_snapshot_stale(s) == now - Last(s.candles).at > MaxStaleness

Refilling == \E r \in Recoveries : recovery[r].pc = "filling"

NoRecovery == [pc |-> "idle", gap |-> 0, klines |-> <<>>]

_queue_snapshot_nowait(s) ==
    queue' = IF Len(queue) < QueueSize THEN Append(queue, s) ELSE queue

FeedInit ==
    /\ now \in 1..WindowSize
    /\ window = sorted_klines(now)
    /\ warmed = (Len(window) >= WindowSize)
    /\ ws = [pc |-> "idle", next |-> now, unchecked |-> FALSE, copy |-> NoSnapshot]
    /\ recovery = [r \in Recoveries |-> NoRecovery]
    /\ queue = <<>>
    /\ runner = [pc |-> "idle", snapshot |-> NoSnapshot, last_entry_at |-> 0]
    /\ entries = <<>>
    /\ lost = 0 /\ failed = 0

Tick ==
    /\ now < MaxTime /\ now - ws.next <= MaxLag
    /\ now' = now + 1
    /\ UNCHANGED <<window, warmed, ws, recovery, queue, runner, entries, lost, failed>>

-----------------------------------------------------------------------------
(* The WebSocket thread.  It runs until the runner stops the feed. *)

Listening == ws.pc = "idle" /\ ws.next < now /\ runner.pc # "stopped"

Confirmed == [at |-> ws.next, closed |-> TRUE, unchecked |-> ws.unchecked]

GapSeen == window # <<>> /\ _is_gap(Last(window), Confirmed)

(* The connection was down, the payload is malformed, or a refill empties  *)
(* the window just before its last candle is looked at, which raises.      *)
LoseCandle ==
    /\ Listening /\ lost < MaxLost
    /\ ws' = [ws EXCEPT !.next = @ + 1]
    /\ lost' = lost + 1
    /\ UNCHANGED <<now, window, warmed, recovery, queue, runner, entries, failed>>

(* Candles are missing: recover, without this one. *)
NoticeGap ==
    /\ Listening /\ GapSeen
    /\ \E r \in Recoveries :
          /\ recovery[r].pc = "idle"
          /\ recovery' = [recovery EXCEPT ![r] =
                             [pc |-> "asked", gap |-> ws.next, klines |-> <<>>]]
    /\ ws' = [ws EXCEPT !.next = @ + 1]
    /\ UNCHANGED <<now, window, warmed, queue, runner, entries, lost, failed>>

CheckCandle ==
    /\ Listening /\ ~GapSeen
    /\ ws' = [ws EXCEPT !.pc = "checked"]
    /\ UNCHANGED <<now, window, warmed, recovery, queue, runner, entries, lost, failed>>

AppendCandle ==
    /\ ws.pc = "checked"
    /\ window' = Push(window, Confirmed)
    /\ warmed' = (warmed \/ Len(window') >= WindowSize)
    /\ ws' = [ws EXCEPT !.next = @ + 1,
                        !.pc = IF warmed' THEN "appended" ELSE "idle",
                        !.unchecked = FALSE,
                        !.copy.torn = Refilling]
    /\ UNCHANGED <<now, recovery, queue, runner, entries, lost, failed>>

CopyWindow ==
    /\ ws.pc = "appended"
    /\ ws' = [ws EXCEPT !.pc = "copied", !.copy.candles = window,
                        !.copy.torn = @ \/ Refilling]
    /\ UNCHANGED <<now, window, warmed, recovery, queue, runner, entries, lost, failed>>

EnqueueCopy ==
    /\ ws.pc = "copied"
    /\ _queue_snapshot_nowait(ws.copy)
    /\ ws' = [ws EXCEPT !.pc = "idle", !.copy = NoSnapshot]
    /\ UNCHANGED <<now, window, warmed, recovery, runner, entries, lost, failed>>

-----------------------------------------------------------------------------
(* _recover_gap, on the event loop. *)

RestAnswers(r) ==
    /\ recovery[r].pc = "asked"
    /\ recovery' = [recovery EXCEPT ![r].pc = "answered",
                                    ![r].klines = sorted_klines(now)]
    /\ UNCHANGED <<now, window, warmed, ws, queue, runner, entries, lost, failed>>

(* The exception ends in a future nobody reads. *)
RestFails(r) ==
    /\ recovery[r].pc = "asked" /\ failed < MaxFailed
    /\ recovery' = [recovery EXCEPT ![r] = NoRecovery]
    /\ failed' = failed + 1
    /\ UNCHANGED <<now, window, warmed, ws, queue, runner, entries, lost>>

(* What the thread is in the middle of becomes outdated. *)
Outdate ==
    ws' = [ws EXCEPT !.unchecked = @ \/ ws.pc = "checked",
                     !.copy.torn = @ \/ ws.pc = "appended"]

ClearWindow(r) ==
    /\ recovery[r].pc = "answered" /\ ~Refilling
    /\ window' = <<>>
    /\ recovery' = [recovery EXCEPT ![r].pc = "filling"]
    /\ Outdate
    /\ UNCHANGED <<now, warmed, queue, runner, entries, lost, failed>>

RefillWindow(r) ==
    /\ recovery[r].pc = "filling" /\ recovery[r].klines # <<>>
    /\ window' = Push(window, Head(recovery[r].klines))
    /\ recovery' = [recovery EXCEPT ![r].klines = Tail(@)]
    /\ Outdate
    /\ UNCHANGED <<now, warmed, queue, runner, entries, lost, failed>>

(* Mutant: a recovered window is handed on as any other. *)
EndRefillUnmarked(r) ==
    /\ recovery[r].pc = "filling" /\ recovery[r].klines = <<>>
    /\ warmed' = (Len(window) >= WindowSize)
    /\ IF warmed' THEN _queue_snapshot_nowait([NoSnapshot EXCEPT !.candles = window])
                  ELSE queue' = queue
    /\ recovery' = [recovery EXCEPT ![r] = NoRecovery]
    /\ UNCHANGED <<now, window, ws, runner, entries, lost, failed>>

EndRefill(r) ==
    /\ recovery[r].pc = "filling" /\ recovery[r].klines = <<>>
    /\ warmed' = (Len(window) >= WindowSize)
    /\ IF warmed'
       THEN _queue_snapshot_nowait([candles |-> window, gap_recovered |-> TRUE,
                                    torn |-> FALSE])
       ELSE queue' = queue
    /\ recovery' = [recovery EXCEPT ![r] = NoRecovery]
    /\ UNCHANGED <<now, window, ws, runner, entries, lost, failed>>

-----------------------------------------------------------------------------
(* WebSocketSignalRunner: one snapshot after the other, on the event loop. *)

is_in_cooldown == runner.last_entry_at # 0 /\ now - runner.last_entry_at < Cooldown

(* Mutant: a recovered window is traded on. *)
TradesRecovered(s) == is_snapshot_stale(s) \/ is_in_cooldown

(* The reasons to skip that are decided here. *)
SkipReason(s) == s.gap_recovered \/ is_snapshot_stale(s) \/ is_in_cooldown

(* The symbol may be blacklisted: any snapshot may be skipped. *)
SkipSnapshot ==
    /\ runner.pc = "idle" /\ queue # <<>> /\ ~Refilling
    /\ Head(queue).candles # <<>>
    /\ queue' = Tail(queue)
    /\ UNCHANGED <<now, window, warmed, ws, recovery, runner, entries, lost, failed>>

TakeSnapshot ==
    /\ runner.pc = "idle" /\ queue # <<>> /\ ~Refilling
    /\ Head(queue).candles # <<>> /\ ~SkipReason(Head(queue))
    /\ queue' = Tail(queue)
    /\ runner' = [runner EXCEPT !.pc = "deciding", !.snapshot = Head(queue)]
    /\ UNCHANGED <<now, window, warmed, ws, recovery, entries, lost, failed>>

(* The age of a snapshot without candles raises outside of every handler:  *)
(* the task of the runner ends, the feed goes on.                          *)
EmptySnapshotRaises ==
    /\ runner.pc = "idle" /\ queue # <<>> /\ ~Refilling
    /\ Head(queue).candles = <<>>
    /\ queue' = Tail(queue)
    /\ runner' = [runner EXCEPT !.pc = "dead"]
    /\ UNCHANGED <<now, window, warmed, ws, recovery, entries, lost, failed>>

(* No signal, an unsupported one, too little balance, or a failure. *)
NoEntry ==
    /\ runner.pc = "deciding" /\ ~Refilling
    /\ runner' = [runner EXCEPT !.pc = "idle", !.snapshot = NoSnapshot]
    /\ UNCHANGED <<now, window, warmed, ws, recovery, queue, entries, lost, failed>>

ExecuteSignal ==
    /\ runner.pc = "deciding" /\ ~Refilling
    /\ entries' = Append(entries, runner.snapshot)
    /\ runner' = [pc |-> "idle", snapshot |-> NoSnapshot, last_entry_at |-> now]
    /\ UNCHANGED <<now, window, warmed, ws, recovery, queue, lost, failed>>

(* SafetyGuardError: the runner stops, and the feed with it. *)
GuardRefuses ==
    /\ runner.pc = "deciding" /\ ~Refilling
    /\ runner' = [runner EXCEPT !.pc = "stopped", !.snapshot = NoSnapshot]
    /\ UNCHANGED <<now, window, warmed, ws, recovery, queue, entries, lost, failed>>

-----------------------------------------------------------------------------
FeedNext ==
    \/ Tick
    \/ LoseCandle \/ NoticeGap \/ CheckCandle \/ AppendCandle \/ CopyWindow \/ EnqueueCopy
    \/ \E r \in Recoveries :
          \/ RestAnswers(r) \/ RestFails(r)
          \/ ClearWindow(r) \/ RefillWindow(r) \/ EndRefill(r)
    \/ SkipSnapshot \/ TakeSnapshot \/ EmptySnapshotRaises
    \/ NoEntry \/ ExecuteSignal \/ GuardRefuses

(* A REST call returns or fails, and the event loop runs what is ready. *)
FeedFairness ==
    \A r \in Recoveries : WF_feedVars(\/ RestAnswers(r) \/ RestFails(r)
                                      \/ ClearWindow(r) \/ RefillWindow(r)
                                      \/ EndRefill(r))

FeedSpec == FeedInit /\ [][FeedNext]_feedVars /\ FeedFairness

-----------------------------------------------------------------------------
(* Properties *)

FeedTypeOK ==
    /\ now \in 1..MaxTime
    /\ window \in Window /\ Len(window) <= WindowSize
    /\ warmed \in BOOLEAN
    /\ ws \in [pc : {"idle", "checked", "appended", "copied"}, next : 1..MaxTime,
               unchecked : BOOLEAN, copy : Snapshot]
    /\ ws.pc = "checked" => ws.next < now
    /\ recovery \in [Recoveries -> [pc : {"idle", "asked", "answered", "filling"},
                                    gap : 0..MaxTime, klines : Window]]
    /\ queue \in Seq(Snapshot) /\ Len(queue) <= QueueSize
    /\ runner \in [pc : {"idle", "deciding", "stopped", "dead"}, snapshot : Snapshot,
                   last_entry_at : 0..MaxTime]
    /\ entries \in Seq(Snapshot)

(* The threshold of the gap detection keeps its promise whatever the two   *)
(* threads do: no window, torn or not, skips more than one candle between  *)
(* two neighbours, but before a candle that was checked against another    *)
(* window than the one it was appended to.                                 *)
HolesAreShort ==
    \A i \in 1..(Len(window) - 1) :
       window[i + 1].unchecked \/ window[i + 1].at - window[i].at <= 2

(* A signal that was executed was computed on a full window that ends in a *)
(* closed candle, unless the thread made the copy during a refill: neither *)
(* the recovered window nor one that was too short reaches the strategy.   *)
EntriesSeeClosedCandles ==
    \A i \in 1..Len(entries) :
       entries[i].torn \/ /\ Len(entries[i].candles) = WindowSize
                          /\ Last(entries[i].candles).closed

(* No candle is traded twice, though a recovery reads from REST candles    *)
(* that the WebSocket thread delivers again.                               *)
OneEntryPerCandle ==
    \A i, j \in 1..Len(entries) :
       i # j /\ ~entries[i].torn /\ ~entries[j].torn
          => Last(entries[i].candles).at # Last(entries[j].candles).at

(* Violated: the description of the feed says that only a full window is   *)
(* delivered, but a copy made during a refill is short.                    *)
OnlyFullWindows == \A i \in 1..Len(queue) : Len(queue[i].candles) = WindowSize

(* Every gap that was noticed is closed by a window that reaches the       *)
(* candle that showed it, unless a REST call fails: recoveries that        *)
(* overlap do not undo each other.                                         *)
GapsAreClosed ==
    \A k \in 1..MaxTime :
       (\E r \in Recoveries : recovery[r].gap = k)
          ~> \/ failed > 0
             \/ window # <<>> /\ Last(window).at >= k

=============================================================================
