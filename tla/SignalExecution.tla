-------------------------- MODULE SignalExecution --------------------------
(***************************************************************************)
(* From a signal request to a persisted trade: ExecutionService looks the  *)
(* request up by its fingerprint and replays or executes it, OrderExecutor *)
(* passes the guards, creates the trade, sends the entry order and         *)
(* resolves an uncertain submission; the kill switch may go up meanwhile.  *)
(*                                                                         *)
(* One request is one database session with several commits.  The first is *)
(* inside the kill switch guard, before there is a trade; the trade itself *)
(* is only flushed while its order is being sent, and the lock it holds on *)
(* the day's statistics row keeps other requests out of that part (out of  *)
(* all that follows the cap, if it had to insert the row).  The action     *)
(* names follow that sequence.                                             *)
(*                                                                         *)
(* A signal is new on every execution and gets at most one trade, so trade *)
(* and signal share an id.  Link id k of trade s is order <<s, k>>; the    *)
(* second is the market order sent after a post-only refusal.              *)
(*                                                                         *)
(* Left out: sizes, prices and balances (a request may be refused for them *)
(* at any time), partial fills (as live as a working order here) and the   *)
(* shadow mode, which commits without sending anything.                    *)
(***************************************************************************)
EXTENDS Integers, FiniteSets

CONSTANTS
    Requests,      \* concurrent callers of POST /signals/execute
    Closers,       \* sessions of exchange_sync that record an outcome
    Fingerprints,  \* normalised request bodies
    OrderMode,     \* settings.order_mode
    MaxTradesPerDay,   \* settings.max_trades_per_day
    MaxOpenPositions,  \* settings.max_open_positions
    MaxSignals,    \* bound: signals ever persisted
    Endings,       \* bound: the ways an order may end
    MaxOutcomes,   \* bound: outcomes counted on the day
    MaxFaults,     \* bound: crashes and failed status queries
    None           \* no session, no fingerprint

ASSUME SettingsAssumption ==
    /\ OrderMode \in {"taker_allowed", "maker_preferred", "maker_only"}
    /\ MaxTradesPerDay \in Nat \ {0}
    /\ MaxOpenPositions \in Nat \ {0}
    /\ MaxSignals \in Nat \ {0}
    /\ Endings \subseteq {"filled", "cancelled", "rejected"}
    /\ MaxOutcomes \in Nat
    /\ MaxFaults \in Nat
    /\ IsFiniteSet(Requests)
    /\ Requests \cap Closers = {}
    /\ None \notin Requests \cup Closers \cup Fingerprints

Signals == 1..MaxSignals
Links == 1..2

VARIABLES
    sub,      \* signal_submissions: signal and trade of each fingerprint (0: NULL)
    trade,    \* committed trades
    ord,      \* entry orders as the exchange knows them (external)
    last,     \* last signal id given out
    req,      \* requests in flight
    holder,   \* who has inserted or updated that row and not committed
    today,    \* today's daily_stats row has been committed
    total,    \* its total_trades, committed
    closed,   \* its winning_trades and losing_trades, committed
    closer,   \* outcomes being recorded
    switch,   \* the kill switch: off, being activated, on
    overlap,  \* history: two requests of a fingerprint overlapped
    revived,  \* history: trades that lived again after they had ended
    entered,  \* history: trades committed today
    lost,     \* history: of these, counts an outcome has written over
    faults    \* history: faults so far

closing == <<closed, closer, revived, entered, lost>>

vars == <<sub, trade, ord, last, req, holder, today, total, closing, switch,
          overlap, faults>>

-----------------------------------------------------------------------------
(* The tables. *)

TradeStatus ==
    {"NONE", "ORDER_SUBMITTED", "ORDER_PENDING_UNKNOWN", "ORDER_CONFIRMED",
     "ORDER_REJECTED", "ORDER_CANCELLED", "POSITION_OPEN",
     "POSITION_CLOSE_PENDING", "POSITION_CLOSE_FAILED", "PNL_RECORDED"}

(* What the row of a filled entry says until its outcome is recorded. *)
FilledStatus == {"ORDER_CONFIRMED", "POSITION_OPEN", "POSITION_CLOSE_PENDING",
                 "POSITION_CLOSE_FAILED"}

(* "transit": sent, the answer lost, and not known to the exchange (yet). *)
OrderState == {"none", "transit", "working", "filled", "cancelled", "rejected"}

OrderType == {"Limit", "Market"}

(* status "NONE": not committed. *)
Trade == [status : TradeStatus, type : OrderType, link : Links,
          fp : Fingerprints \cup {None}]

Submission == [signal : 0..MaxSignals, trade : 0..MaxSignals]

NoSubmission == [signal |-> 0, trade |-> 0]

(* Mutant of is_trade_terminal: an uncertain submission is given up. *)
UnknownIsTerminal(status) ==
    status \in {"ORDER_REJECTED", "ORDER_CANCELLED", "POSITION_CLOSE_FAILED",
                "PNL_RECORDED", "ORDER_PENDING_UNKNOWN"}

is_trade_terminal(status) ==
    status \in {"ORDER_REJECTED", "ORDER_CANCELLED", "POSITION_CLOSE_FAILED",
                "PNL_RECORDED"}

(* Mutant: only the trade the submission names is looked up. *)
ByTradeIdOnly(x) == x.trade

(* The trade a submission names or, if it names none, that of its signal. *)
get_trade_for_submission(x) ==
    IF x.trade # 0 THEN x.trade
    ELSE IF x.signal # 0 /\ trade[x.signal].status # "NONE" THEN x.signal ELSE 0

(* Mutant: the exchange's word is kept. *)
RawRemoteStatus(o) == o

map_remote_order_status(o) ==
    CASE o = "filled" -> "ORDER_CONFIRMED"
      [] o = "cancelled" -> "ORDER_CANCELLED"
      [] o = "rejected" -> "ORDER_REJECTED"
      [] OTHER -> "ORDER_PENDING_UNKNOWN"

Known(o) == o \in {"working", "filled", "cancelled", "rejected"}

Steps == {"idle", "recheck", "register", "limits", "exposure", "create",
          "submit", "resolve", "commit", "link"}

Request ==
    [pc : Steps, fp : Fingerprints \cup {None}, loaded : Submission, signal : 0..MaxSignals,
     status : TradeStatus, type : OrderType, link : Links]

(* A caller without a request in flight. *)
Idle == [pc |-> "idle", fp |-> None, loaded |-> NoSubmission, signal |-> 0,
         status |-> "NONE", type |-> "Limit", link |-> 1]

Outcomes == {"won", "lost"}

(* An outcome being recorded: its trade (0: one of an earlier day) and what *)
(* its session has read of the statistics row.                              *)
Closer == [busy : BOOLEAN, trade : 0..MaxSignals, total : Nat,
           closed : [Outcomes -> Nat]]

NoOutcomes == [k \in Outcomes |-> 0]

NotClosing == [busy |-> FALSE, trade |-> 0, total |-> 0, closed |-> NoOutcomes]

(* Its update of the trade is flushed, which locks that row too. *)
ClosedBy(c, s) == closer[c].busy /\ closer[c].trade = s

Active(f) == {r \in Requests : req[r].fp = f}

Goto(r, pc) == req' = [req EXCEPT ![r].pc = pc]

End(r) == req' = [req EXCEPT ![r] = Idle]

-----------------------------------------------------------------------------
(* ExecutionService.execute_signal, first part: replay or execute. *)

Begin(r, f) ==
    /\ req[r].pc = "idle"
    /\ last + Cardinality({q \in Requests : req[q].pc # "idle"}) < MaxSignals
    /\ LET x == sub[f]
           t == get_trade_for_submission(x)
           q == [Idle EXCEPT !.fp = f, !.loaded = x]
       IN req' = [req EXCEPT ![r] =
                    IF t = 0 \/ is_trade_terminal(trade[t].status)
                    THEN [q EXCEPT !.pc = "register"]
                    ELSE IF trade[t].status = "ORDER_PENDING_UNKNOWN"
                    THEN [q EXCEPT !.pc = "recheck"]
                    ELSE Idle]
    /\ overlap' = [overlap EXCEPT ![f] = @ \/ Active(f) # {}]
    /\ UNCHANGED <<sub, trade, ord, last, holder, today, total, closing, switch, faults>>

(* reconcile_pending_unknown of a replayed request, and its commit.  What  *)
(* is found replaces whatever status the row has by now; a trade that has  *)
(* ended lets the request fall through to a new one.  Not answered or not  *)
(* found: replayed as it is.                                               *)
Recheck(r) ==
    /\ req[r].pc = "recheck"
    /\ LET t == get_trade_for_submission(req[r].loaded)
           found == map_remote_order_status(ord[t][trade[t].link])
       IN \/ /\ found # "ORDER_PENDING_UNKNOWN"
             /\ \A c \in Closers : ~ClosedBy(c, t)
             /\ trade' = [trade EXCEPT ![t].status = found]
             /\ IF is_trade_terminal(found) THEN Goto(r, "register") ELSE End(r)
          \/ End(r) /\ UNCHANGED trade
    /\ UNCHANGED <<sub, ord, last, holder, today, total, closing, switch, overlap, faults>>

(* The submission and a new signal are written and committed by the kill   *)
(* switch guard.  A submission that was not there and is there now         *)
(* violates the unique fingerprint.  trade_id is only written if the       *)
(* loaded submission had one.                                              *)
Register(r) ==
    /\ req[r].pc = "register"
    /\ LET f == req[r].fp
           x == req[r].loaded
           taken == x.signal = 0 /\ sub[f].signal # 0
       IN \/ /\ taken
             /\ End(r)
             /\ UNCHANGED <<sub, last>>
          \/ /\ ~taken
             /\ last' = last + 1
             /\ sub' = [sub EXCEPT ![f] =
                          [signal |-> last + 1,
                           trade |-> IF x.trade # 0 THEN 0 ELSE @.trade]]
             /\ IF switch = "on" THEN End(r)
                ELSE req' = [req EXCEPT ![r].pc = "limits",
                                        ![r].signal = last + 1]
    /\ UNCHANGED <<trade, ord, holder, today, total, closing, switch, overlap, faults>>

-----------------------------------------------------------------------------
(* OrderExecutor.execute: the guards. *)

(* Mutant: off by one. *)
OneOverDailyCap == total <= MaxTradesPerDay

BelowDailyCap == total < MaxTradesPerDay

(* ensure_daily_stat: the first session of a day inserts the row and keeps  *)
(* everybody else waiting until it commits or rolls back.                   *)
DayRowReadable(p) == today \/ holder \in {None, p}

(* circuit_breaker.check *)
CheckLimits(r) ==
    /\ req[r].pc = "limits"
    /\ DayRowReadable(r)
    /\ BelowDailyCap
    /\ holder' = IF today THEN holder ELSE r
    /\ Goto(r, "exposure")
    /\ UNCHANGED <<sub, trade, ord, last, today, total, closing, switch, overlap, faults>>

OpenPositions == {s \in Signals : trade[s].status = "POSITION_OPEN"}

(* The wallet is read, the position sized, and open positions counted. *)
CheckExposure(r) ==
    /\ req[r].pc = "exposure"
    /\ Cardinality(OpenPositions) < MaxOpenPositions
    /\ Goto(r, "create")
    /\ UNCHANGED <<sub, trade, ord, last, holder, today, total, closing, switch, overlap, faults>>

(* A pause, a limit, the risk manager or a failed REST query stops the     *)
(* request.  What the guard has committed stays, and so does the day's row *)
(* if the circuit breaker commits a new pause.                             *)
Refuse(r) ==
    /\ \/ req[r].pc = "limits" /\ DayRowReadable(r) /\ today' \in {today, TRUE}
       \/ req[r].pc = "exposure" /\ UNCHANGED today
    /\ holder' = IF holder = r THEN None ELSE holder
    /\ End(r)
    /\ UNCHANGED <<sub, trade, ord, last, total, closing, switch, overlap, faults>>

-----------------------------------------------------------------------------
(* ... creation and submission, uncommitted. *)

(* The trade is flushed and total_trades incremented: from here to the     *)
(* commit the statistics row is locked.                                    *)
Create(r) ==
    /\ req[r].pc = "create"
    /\ holder \in {None, r}
    /\ holder' = r
    /\ Goto(r, "submit")
    /\ UNCHANGED <<sub, trade, ord, last, today, total, closing, switch, overlap, faults>>

EntryType(k) == IF OrderMode = "taker_allowed" \/ k = 2 THEN "Market" ELSE "Limit"

(* submit_order: the exchange takes the order and answers ... *)
SubmitAccepted(r) ==
    LET s == req[r].signal
        k == req[r].link
    IN  /\ req[r].pc = "submit"
        /\ ord' = [ord EXCEPT ![s][k] = "working"]
        /\ req' = [req EXCEPT ![r].pc = "commit", ![r].status = "ORDER_SUBMITTED",
                              ![r].type = EntryType(k)]
        /\ UNCHANGED <<sub, trade, last, holder, today, total, closing, switch, overlap, faults>>

(* ... or refuses it ... *)
SubmitRefused(r) ==
    /\ req[r].pc = "submit"
    /\ req' = [req EXCEPT ![r].pc = "commit", ![r].status = "ORDER_REJECTED"]
    /\ UNCHANGED <<sub, trade, ord, last, holder, today, total, closing, switch, overlap, faults>>

(* ... or refuses it as post-only, and a market order is sent under a new  *)
(* link id ...                                                             *)
PostOnlyRefused(r) ==
    /\ req[r].pc = "submit"
    /\ OrderMode = "maker_preferred"
    /\ req[r].link = 1
    /\ req' = [req EXCEPT ![r].link = 2]
    /\ UNCHANGED <<sub, trade, ord, last, holder, today, total, closing, switch, overlap, faults>>

(* Mutant: a lost answer is taken for a refusal. *)
LostIsRefused(r, fate) ==
    /\ req[r].pc = "submit"
    /\ ord' = [ord EXCEPT ![req[r].signal][req[r].link] = fate]
    /\ req' = [req EXCEPT ![r].pc = "commit", ![r].status = "ORDER_REJECTED"]
    /\ UNCHANGED <<sub, trade, last, holder, today, total, closing, switch, overlap, faults>>

(* ... or the answer is lost, and with it perhaps the order.  The recorded *)
(* type stays "Limit" whatever was sent.                                   *)
SubmitLost(r, fate) ==
    LET s == req[r].signal
        k == req[r].link
    IN  /\ req[r].pc = "submit"
        /\ ord' = [ord EXCEPT ![s][k] = fate]
        /\ req' = [req EXCEPT ![r].pc = "resolve",
                              ![r].status = "ORDER_PENDING_UNKNOWN"]
        /\ UNCHANGED <<sub, trade, last, holder, today, total, closing, switch, overlap, faults>>

(* Mutant: a submission that cannot be resolved is rolled back. *)
DropsUnresolved(r) ==
    /\ req[r].pc = "resolve"
    /\ LET o == ord[req[r].signal][req[r].link]
       IN \/ /\ Known(o)
             /\ req' = [req EXCEPT ![r].pc = "commit",
                                   ![r].status = map_remote_order_status(o)]
             /\ UNCHANGED holder
          \/ End(r) /\ holder' = None
    /\ UNCHANGED <<sub, trade, ord, last, today, total, closing, switch, overlap, faults>>

(* handle_submit_uncertainty: the exchange is asked at once; no answer, or *)
(* an order it does not know, leaves ORDER_PENDING_UNKNOWN.                *)
Resolve(r) ==
    /\ req[r].pc = "resolve"
    /\ LET o == ord[req[r].signal][req[r].link]
       IN \/ /\ Known(o)
             /\ req' = [req EXCEPT ![r].pc = "commit",
                                   ![r].status = map_remote_order_status(o)]
          \/ Goto(r, "commit")
    /\ UNCHANGED <<sub, trade, ord, last, holder, today, total, closing, switch, overlap, faults>>

(* The status query is refused: the error ends the session uncommitted. *)
ResolveFails(r) ==
    /\ req[r].pc = "resolve"
    /\ faults < MaxFaults
    /\ faults' = faults + 1
    /\ holder' = None
    /\ End(r)
    /\ UNCHANGED <<sub, trade, ord, last, today, total, closing, switch, overlap>>

-----------------------------------------------------------------------------
(* ... and the last two commits. *)

NewTrade(q) == [status |-> q.status, type |-> q.type, link |-> q.link, fp |-> q.fp]

(* Mutant: the session of a refused order is not closed. *)
KeepsLockWhenRefused(r) ==
    IF req[r].status = "ORDER_REJECTED" THEN r ELSE None

Released(r) == None

(* A refused order is committed as ORDER_REJECTED and the error raised. *)
Commit(r) ==
    /\ req[r].pc = "commit"
    /\ trade' = [trade EXCEPT ![req[r].signal] = NewTrade(req[r])]
    /\ today' = TRUE
    /\ total' = total + 1
    /\ entered' = entered + 1
    /\ holder' = Released(r)
    /\ IF req[r].status = "ORDER_REJECTED" THEN End(r) ELSE Goto(r, "link")
    /\ UNCHANGED <<sub, ord, last, closed, closer, revived, lost, switch, overlap,
                   faults>>

Link(r) ==
    /\ req[r].pc = "link"
    /\ sub' = [sub EXCEPT ![req[r].fp].trade = req[r].signal]
    /\ End(r)
    /\ UNCHANGED <<trade, ord, last, holder, today, total, closing, switch, overlap, faults>>

-----------------------------------------------------------------------------
(* The rest of the system. *)

(* The exchange (external): a delayed request arrives; an order fills, is  *)
(* cancelled or is rejected after all.                                     *)
Exchange(s, k) ==
    /\ \/ /\ ord[s][k] = "transit"
          /\ ord' = [ord EXCEPT ![s][k] = "working"]
       \/ /\ ord[s][k] = "working"
          /\ \E o \in Endings : ord' = [ord EXCEPT ![s][k] = o]
    /\ UNCHANGED <<sub, trade, last, req, holder, today, total, closing, switch, overlap, faults>>

(* What exchange_sync and position_manager commit for a trade, in outline   *)
(* (the detail is in TradeLifecycle).  An entry that ended unfilled ends    *)
(* its row.  The row of a filled one takes these statuses in any order: a   *)
(* failed close is retried, and a reconciliation pass writes what it made   *)
(* of a copy that it loaded before its REST calls.                          *)
Sync(s) ==
    LET o == ord[s][trade[s].link]
    IN  /\ trade[s].status # "NONE"
        /\ \A c \in Closers : ~ClosedBy(c, s)
        /\ \E status \in TradeStatus :
              /\ \/ o \in {"cancelled", "rejected"}
                    /\ status = map_remote_order_status(o)
                 \/ o = "filled" /\ status \in FilledStatus
              /\ trade' = [trade EXCEPT ![s].status = status]
              /\ revived' = IF /\ trade[s].status \in {"POSITION_CLOSE_FAILED",
                                                       "PNL_RECORDED"}
                               /\ status # "POSITION_CLOSE_FAILED"
                            THEN revived \cup {s} ELSE revived
        /\ UNCHANGED <<sub, ord, last, req, holder, today, total, closed, closer,
                       entered, lost, switch, overlap, faults>>

(* A filled exit is recorded: the session has flushed the trade and reads   *)
(* the statistics row (apply_trade_outcome_analytics) ...                   *)
BeginOutcome(c, s) ==
    /\ ~closer[c].busy
    /\ closed["won"] + closed["lost"] < MaxOutcomes
    /\ s # 0 => /\ trade[s].status \in FilledStatus \cup {"PNL_RECORDED"}
                /\ ord[s][trade[s].link] = "filled"
                /\ \A d \in Closers : ~ClosedBy(d, s)
    /\ DayRowReadable(c)
    /\ closer' = [closer EXCEPT ![c] = [busy |-> TRUE, trade |-> s, total |-> total,
                                       closed |-> closed]]
    /\ holder' = IF today THEN holder ELSE c
    /\ UNCHANGED <<sub, trade, ord, last, req, today, total, closed, revived, entered,
                   lost, switch, overlap, faults>>

(* ... and writes back what it made of it, once it has the row's lock:      *)
(* total_trades only if more trades have closed than were counted, one of   *)
(* the other two in any case.  It commits with both rows locked.            *)
EndOutcome(c) ==
    LET x == closer[c]
        total_trades == IF x.total <= x.closed["won"] + x.closed["lost"]
                        THEN x.total + 1 ELSE total
    IN  /\ x.busy
        /\ holder \in {None, c}
        /\ total' = total_trades
        /\ lost' = IF total_trades < total THEN lost + total - total_trades ELSE lost
        /\ \E k \in Outcomes : closed' = [closed EXCEPT ![k] = x.closed[k] + 1]
        /\ trade' = IF x.trade = 0 THEN trade
                    ELSE [trade EXCEPT ![x.trade].status = "PNL_RECORDED"]
        /\ closer' = [closer EXCEPT ![c] = NotClosing]
        /\ today' = TRUE
        /\ holder' = None
        /\ UNCHANGED <<sub, ord, last, req, revived, entered, switch, overlap, faults>>

Cancellable ==
    {s \in Signals : trade[s].status \in {"ORDER_SUBMITTED",
                                          "ORDER_PENDING_UNKNOWN"}}

(* KillSwitch.activate: pending orders of committed trades are cancelled,  *)
(* some of them in vain, before the switch is committed ...                *)
ActivateKillSwitch(S) ==
    /\ switch = "off"
    /\ S \subseteq Cancellable
    /\ switch' = "activating"
    /\ ord' = [s \in Signals |-> [k \in Links |->
                 IF s \in S /\ k = trade[s].link /\ ord[s][k] = "working"
                 THEN "cancelled" ELSE ord[s][k]]]
    /\ UNCHANGED <<sub, trade, last, req, holder, today, total, closing, overlap, faults>>

(* ... and reset. *)
KillSwitchOn ==
    /\ switch = "activating"
    /\ switch' = "on"
    /\ UNCHANGED <<sub, trade, ord, last, req, holder, today, total, closing, overlap, faults>>

ResetKillSwitch ==
    /\ switch = "on"
    /\ switch' = "off"
    /\ UNCHANGED <<sub, trade, ord, last, req, holder, today, total, closing, overlap, faults>>

(* The process dies: open transactions are rolled back. *)
Crash ==
    /\ faults < MaxFaults
    /\ \/ \E r \in Requests : req[r].pc # "idle"
       \/ \E c \in Closers : closer[c].busy
    /\ faults' = faults + 1
    /\ req' = [r \in Requests |-> Idle]
    /\ closer' = [c \in Closers |-> NotClosing]
    /\ holder' = None
    /\ switch' = IF switch = "activating" THEN "off" ELSE switch
    /\ UNCHANGED <<sub, trade, ord, last, today, total, closed, revived, entered, lost,
                   overlap>>

-----------------------------------------------------------------------------
Init ==
    /\ sub = [f \in Fingerprints |-> NoSubmission]
    /\ trade = [s \in Signals |-> [status |-> "NONE", type |-> "Limit", link |-> 1,
                                   fp |-> None]]
    /\ ord = [s \in Signals |-> [k \in Links |-> "none"]]
    /\ last = 0
    /\ req = [r \in Requests |-> Idle]
    /\ holder = None
    /\ today = FALSE
    /\ total = 0
    /\ closed = NoOutcomes
    /\ closer = [c \in Closers |-> NotClosing]
    /\ switch = "off"
    /\ overlap = [f \in Fingerprints |-> FALSE]
    /\ revived = {}
    /\ entered = 0
    /\ lost = 0
    /\ faults = 0

(* One step of a request. *)
Serve(r) ==
    \/ Recheck(r)
    \/ Register(r)
    \/ CheckLimits(r)
    \/ CheckExposure(r)
    \/ Refuse(r)
    \/ Create(r)
    \/ SubmitAccepted(r)
    \/ SubmitRefused(r)
    \/ PostOnlyRefused(r)
    \/ \E fate \in {"transit", "working"} : SubmitLost(r, fate)
    \/ Resolve(r)
    \/ ResolveFails(r)
    \/ Commit(r)
    \/ Link(r)

Next ==
    \/ \E r \in Requests, f \in Fingerprints : Begin(r, f)
    \/ \E r \in Requests : Serve(r)
    \/ \E s \in Signals, k \in Links : Exchange(s, k)
    \/ \E s \in Signals : Sync(s)
    \/ \E c \in Closers, s \in Signals \cup {0} : BeginOutcome(c, s)
    \/ \E c \in Closers : EndOutcome(c)
    \/ \E S \in SUBSET Signals : ActivateKillSwitch(S)
    \/ KillSwitchOn
    \/ ResetKillSwitch
    \/ Crash

Spec == Init /\ [][Next]_vars

(* A request or an outcome that has begun goes on, and waits for the        *)
(* statistics row no longer than for the sessions before it: row locks are  *)
(* granted in order.                                                        *)
FairSpec ==
    /\ Spec
    /\ \A r \in Requests : SF_vars(Serve(r))
    /\ \A c \in Closers : SF_vars(EndOutcome(c))

-----------------------------------------------------------------------------
(* Properties. *)

(* The tables, the orders and the requests keep their types. *)
TypeOK ==
    /\ sub \in [Fingerprints -> Submission]
    /\ trade \in [Signals -> Trade]
    /\ ord \in [Signals -> [Links -> OrderState]]
    /\ last \in 0..MaxSignals
    /\ req \in [Requests -> Request]
    /\ holder \in Requests \cup Closers \cup {None}
    /\ today \in BOOLEAN
    /\ total \in Nat
    /\ closed \in [Outcomes -> Nat]
    /\ closer \in [Closers -> Closer]
    /\ switch \in {"off", "activating", "on"}
    /\ overlap \in [Fingerprints -> BOOLEAN]
    /\ revived \subseteq Signals
    /\ entered \in Nat
    /\ lost \in Nat
    /\ faults \in 0..MaxFaults

Live(s) == trade[s].status # "NONE" /\ ~is_trade_terminal(trade[s].status)

(* A trade that ended, gave way to a newer signal of its fingerprint and    *)
(* lives again: position_manager retries a failed close, or a pass writes   *)
(* an outdated copy.                                                        *)
Superseded(s, f) == s \in revived /\ sub[f].signal # s

(* As long as requests with the same body do not overlap, the submission    *)
(* leads to every live trade of its fingerprint, so that the next request   *)
(* replays it, whatever commit a crash came after (get_trade_for_submission *)
(* with its fallback to the signal).  Only trades that live again after a   *)
(* newer signal are out of its reach.                                       *)
LiveTradeIsFound ==
    \A s \in Signals :
        LET f == trade[s].fp
        IN  Live(s) /\ ~overlap[f] /\ ~Superseded(s, f) =>
                get_trade_for_submission(sub[f]) = s

(* An order sent for s by a request that is still working on it. *)
InHand(s, k) ==
    \E r \in Requests : /\ req[r].pc \in {"submit", "resolve", "commit"}
                        /\ req[r].signal = s /\ req[r].link = k

(* Every order the exchange has received for a signal is named by the       *)
(* committed trade or is in the hands of its request, unless a fault came   *)
(* between: refusals, post-only retries and lost answers strand no order    *)
(* (_submit_order, _handle_submit_uncertainty).                             *)
NoStrandedOrder ==
    \A s \in Signals, k \in Links :
        ord[s][k] # "none" =>
            \/ trade[s].status # "NONE" /\ trade[s].link = k
            \/ InHand(s, k)
            \/ faults > 0

(* A committed trade says of its order what the exchange could have told:   *)
(* ORDER_REJECTED only if no order of it was taken or the one that was has  *)
(* been rejected since, ORDER_SUBMITTED only if one was, ORDER_CANCELLED    *)
(* only if it was cancelled, and a position only if it was filled.          *)
RowAgreesWithExchange ==
    \A s \in Signals :
        LET o == ord[s][trade[s].link]
        IN  /\ trade[s].status = "ORDER_REJECTED" =>
                  \A k \in Links : ord[s][k] \in {"none", "rejected"}
            /\ trade[s].status = "ORDER_SUBMITTED" => Known(o)
            /\ trade[s].status = "ORDER_CANCELLED" => o = "cancelled"
            /\ trade[s].status \in FilledStatus \cup {"PNL_RECORDED"} => o = "filled"

(* The daily cap is checked before and counted after the order is sent; the *)
(* trades of the day exceed it by at most the requests that were in         *)
(* between, never by one more, and by the counts that a recorded outcome    *)
(* has written over with its older reading (apply_trade_outcome_analytics). *)
CapOverrunBounded ==
    entered <= MaxTradesPerDay + Cardinality(Requests) - 1 + lost

(* Without overlapping requests and faults a fingerprint has at most one    *)
(* order that may still become or be a position, but for trades that live   *)
(* again after a newer signal.                                              *)
OneLiveOrder ==
    \A f \in Fingerprints : ~overlap[f] /\ faults = 0 =>
        Cardinality({s \in Signals :
            /\ trade[s].fp = f \/ \E r \in Active(f) : req[r].signal = s
            /\ \E k \in Links : ord[s][k] \in {"transit", "working", "filled"}
            /\ ~is_trade_terminal(trade[s].status)
            /\ ~Superseded(s, f)}) <= 1

(* Every request is answered: none waits for ever for the statistics row.   *)
EveryRequestEnds == \A r \in Requests : req[r].pc # "idle" ~> req[r].pc = "idle"

-----------------------------------------------------------------------------
(* The inductive invariant behind TypeOK and CapOverrunBounded: requests    *)
(* that will persist a signal have one reserved, the trades of the day are  *)
(* counted or written over, and requests that passed the daily cap and have *)
(* not counted their trade are the possible overrun.                        *)

Unregistered == {r \in Requests : req[r].pc \in {"recheck", "register"}}

Uncounted == {r \in Requests : req[r].pc \in {"exposure", "create", "submit",
                                              "resolve", "commit"}}

CountsInv ==
    /\ last + Cardinality(Unregistered) <= MaxSignals
    /\ entered <= total + lost
    /\ entered + Cardinality(Uncounted)
          <= MaxTradesPerDay - 1 + Cardinality(Requests) + lost

IndInv == TypeOK /\ CountsInv

-----------------------------------------------------------------------------
(* What the repository says of itself, and the code does not keep to. *)

(* docs/en/api.md: an equivalent request replayed while its linked trade is *)
(* still non-terminal returns that trade.  So a fingerprint never has two.  *)
OneLiveTradePerFingerprint ==
    \A s, t \in Signals :
        Live(s) /\ Live(t) /\ trade[s].fp = trade[t].fp => s = t

(* tests/order_executor/test_executor.py: the persisted order type is the   *)
(* one that was sent.  Only "Market" trades get a stop when they fill.      *)
SentTypeIsRecorded ==
    \A s \in Signals :
        LET k == trade[s].link
        IN  trade[s].status # "NONE" /\ ord[s][k] # "none" =>
                trade[s].type = EntryType(k)

=============================================================================
