--------------------------- MODULE TradeLifecycle ---------------------------
(***************************************************************************)
(* The life of a persisted trade once the order executor has handed it     *)
(* over: the exchange (external), the WebSocket handler and the REST       *)
(* reconciliation worker of ExchangeSyncEngine, the close requests and the *)
(* spot exit monitor of PositionManagerService, and the replayed signal    *)
(* requests that re-check an ORDER_PENDING_UNKNOWN trade.                  *)
(*                                                                         *)
(* Every one of those runs in a database session of its own.  Only the     *)
(* WebSocket handler works on a row it has locked and read afresh.  All    *)
(* the others load the trade without a lock, await a REST call, and then   *)
(* write the columns they changed: the model keeps the copy they loaded    *)
(* (loaded) apart from the committed row, and Flush is what SQLAlchemy     *)
(* writes.  From its first UPDATE to its commit a session holds the row    *)
(* lock, so that part is one step; a session that is rolled back, or whose *)
(* process dies, leaves its exchange orders and nothing else.              *)
(*                                                                         *)
(* Left out: prices, quantities, fees, exit reasons and timestamps (no     *)
(* property here tells them apart), and the shadow mode, which never       *)
(* places an order.                                                        *)
(***************************************************************************)
EXTENDS Integers

CONSTANTS
    NTrades,    \* trades are 1..NTrades; trade t's entry order is order t
    MaxOrders,  \* bound: orders ever placed at the exchange
    Reserve,    \* bound: how many of those close requests may not use
    MaxFaults,  \* bound: REST replies lost, transactions rolled back, crashes
    CanReport,  \* bound: what the exchange may report of an order, by kind
    Clients,    \* concurrent callers of the close endpoint
    Monitor     \* the spot exit monitor, which closes trades as well

(* Order statuses the exchange reports and _ORDER_STATUS_MAP knows. *)
Reports == {"PartiallyFilled", "Filled", "Cancelled", "Rejected"}

ASSUME BoundsAssumption ==
    /\ NTrades \in Nat \ {0}
    /\ MaxOrders \in Nat
    /\ MaxOrders >= NTrades
    /\ Reserve \in Nat
    /\ MaxFaults \in Nat
    /\ CanReport \in [{"entry", "stop", "tp", "close"} -> SUBSET Reports]
    /\ Monitor \notin Clients

Trades == 1..NTrades
OrderIds == 1..MaxOrders
NoOrder == 0
Closers == Clients \cup {Monitor}

VARIABLES
    row,      \* the committed row of each trade
    ord,      \* the exchange's view of each order (external)
    last,     \* the last order link id given out
    rec,      \* the reconciliation worker: pass, trades left, loaded copies
    closing,  \* each close request in flight and the copy it loaded
    decided,  \* trades the spot exit monitor has decided to close
    replay,   \* a replayed signal request re-checking a trade
    raised,   \* history: the kill switch was raised here (SafetyGuard resets it)
    outcomes, \* times apply_trade_outcome_analytics counted a trade
    stale,    \* history: some session wrote this trade from an outdated copy
    faults    \* history: faults so far

vars == <<row, ord, last, rec, closing, decided, replay, raised, outcomes,
          stale, faults>>

-----------------------------------------------------------------------------
(* trade_journal/models.py: the statuses a trade has after submission. *)

Status ==
    {"ORDER_SUBMITTED", "ORDER_PENDING_UNKNOWN", "ORDER_CONFIRMED",
     "ORDER_REJECTED", "ORDER_CANCELLED", "ORDER_PARTIALLY_FILLED",
     "POSITION_OPEN", "POSITION_CLOSE_PENDING", "POSITION_CLOSE_FAILED",
     "PNL_RECORDED"}

Row == [status : Status, type : {"Limit", "Market"}, filled : BOOLEAN,
        stop : 0..MaxOrders, tp : 0..MaxOrders, close : 0..MaxOrders]

(* Mutant of OrderStatusMap: a partial fill keeps the exchange's word. *)
RawPartialFill ==
    [s \in Reports |->
        CASE s = "Filled"    -> "ORDER_CONFIRMED"
          [] s = "Rejected"  -> "ORDER_REJECTED"
          [] s = "Cancelled" -> "ORDER_CANCELLED"
          [] OTHER           -> s]

OrderStatusMap ==
    [s \in Reports |->
        CASE s = "Filled"          -> "ORDER_CONFIRMED"
          [] s = "Rejected"        -> "ORDER_REJECTED"
          [] s = "Cancelled"       -> "ORDER_CANCELLED"
          [] s = "PartiallyFilled" -> "ORDER_PARTIALLY_FILLED"]

(* An order: what it is for, whose it is, and every status it has reported. *)
(* Kind "none": the exchange does not know the order.                      *)
Order == [kind : {"none", "entry", "stop", "tp", "close"}, trade : Trades,
          hist : SUBSET Reports]

NewOrder(k, t) == [kind |-> k, trade |-> t, hist |-> {}]

(* The status the exchange gives for an order with history h. *)
Current(h) ==
    CASE "Filled" \in h    -> "Filled"
      [] "Cancelled" \in h -> "Cancelled"
      [] "Rejected" \in h  -> "Rejected"
      [] h = {"PartiallyFilled"} -> "PartiallyFilled"
      [] OTHER -> "New"

Final(h) == h \cap {"Filled", "Cancelled", "Rejected"} # {}

-----------------------------------------------------------------------------
(* exchange_sync/engine.py: what an update does to a loaded trade.         *)
(*                                                                         *)
(* An effect is the changed copy, the orders placed on the way and what    *)
(* else the transaction writes.  A stop order takes link id n+1; the       *)
(* take-profit or emergency close takes the next.  exit = "void" is a      *)
(* close link that was recorded although the exchange never took the       *)
(* order.  lost counts the calls whose answer was lost.                    *)

Effect(obj) == [obj |-> obj, stop |-> FALSE, exit |-> "none", kill |-> FALSE,
                ready |-> TRUE, counted |-> FALSE, lost |-> 0]

One(b) == IF b THEN 1 ELSE 0

(* How a place_order call ends: accepted; accepted but the answer was lost *)
(* and the caller sees an exception; refused.                              *)
Replies == {"accepted", "lost", "refused"}
CallReplies == [stop : Replies, exit : Replies]

(* An emergency close under the next link id.  raise: whether the kill     *)
(* switch is activated first.                                              *)
EmergencyClose(obj, n, r, raise) ==
    LET sent == r.stop = "lost"
        link == n + 1 + One(sent)
    IN [obj |-> [obj EXCEPT !.close = link,
                            !.status = IF r.exit = "accepted"
                                       THEN "POSITION_CLOSE_PENDING"
                                       ELSE "POSITION_CLOSE_FAILED"],
        stop |-> sent,
        exit |-> IF r.exit = "refused" THEN "void" ELSE "close",
        kill |-> raise, ready |-> FALSE, counted |-> FALSE,
        lost |-> One(sent) + One(r.exit = "lost")]

(* Mutant: only the order is sent. *)
ClosesWithoutKillSwitch(obj, n, r) == EmergencyClose(obj, n, r, FALSE)

handle_stop_loss_submission_failure(obj, n, r) == EmergencyClose(obj, n, r, TRUE)

(* The stop is armed first, if it is due; a position without a stop is     *)
(* closed at once, one without a take-profit is kept.                      *)
ArmProtection(obj, stopDue, n, r) ==
    LET link == n + 1 + One(stopDue)
        armed == IF stopDue THEN [obj EXCEPT !.stop = n + 1] ELSE obj
    IN  IF obj.type # "Market" THEN Effect(obj)
        ELSE IF stopDue /\ r.stop # "accepted"
        THEN handle_stop_loss_submission_failure(obj, n, r)
        ELSE IF obj.tp # NoOrder \/ r.exit = "refused"
        THEN [Effect(armed) EXCEPT !.stop = stopDue]
        ELSE [Effect(IF r.exit = "accepted" THEN [armed EXCEPT !.tp = link]
                                            ELSE armed)
                  EXCEPT !.stop = stopDue, !.exit = "tp",
                         !.lost = One(r.exit = "lost")]

(* Mutant: the stop is armed whether or not the row has one. *)
RearmsStop(obj, n, r) == ArmProtection(obj, TRUE, n, r)

ensure_spot_market_protection(obj, n, r) ==
    ArmProtection(obj, obj.stop = NoOrder, n, r)

(* Mutant: a late report of the entry may demote an open position. *)
DemotesOpenPosition(obj, s) ==
    \/ obj.status \in {"POSITION_CLOSE_PENDING", "POSITION_CLOSE_FAILED",
                       "PNL_RECORDED"}
    \/ obj.status = "ORDER_CONFIRMED" /\ s = "PartiallyFilled"

should_ignore_entry_update(obj, s) ==
    \/ obj.status \in {"POSITION_OPEN", "POSITION_CLOSE_PENDING",
                       "POSITION_CLOSE_FAILED", "PNL_RECORDED"}
    \/ obj.status = "ORDER_CONFIRMED" /\ s = "PartiallyFilled"

(* Mutant: repeated exit reports are applied again. *)
AppliesEveryExitReport(obj) == FALSE

should_ignore_close_update(obj) == obj.status = "PNL_RECORDED"

(* Mutant: open whether or not the protection is ready. *)
OpensUnprotected(obj, full, n, r) ==
    LET confirmed == [obj EXCEPT !.status = "ORDER_CONFIRMED", !.filled = TRUE]
        armed == ensure_spot_market_protection(confirmed, n, r)
    IN  IF ~full THEN Effect(confirmed)
        ELSE [armed EXCEPT !.obj = [armed.obj EXCEPT !.status = "POSITION_OPEN"]]

(* Filled entry: confirmed; a position once nothing is left to fill        *)
(* (leavesQty "0") and the protective orders are armed.                    *)
EntryFilled(obj, full, n, r) ==
    LET confirmed == [obj EXCEPT !.status = "ORDER_CONFIRMED", !.filled = TRUE]
        armed == ensure_spot_market_protection(confirmed, n, r)
    IN  IF ~full THEN Effect(confirmed)
        ELSE IF armed.ready
        THEN [armed EXCEPT !.obj = [armed.obj EXCEPT !.status = "POSITION_OPEN"]]
        ELSE armed

(* Filled exit: ORDER_CONFIRMED, POSITION_CLOSED and PNL_RECORDED in one   *)
(* transaction, and the outcome is counted.                                *)
ExitFilled(obj) ==
    [Effect([obj EXCEPT !.status = "PNL_RECORDED"]) EXCEPT !.counted = TRUE]

(* Mutant: what an order is for is guessed from the trade's status. *)
ExitByStatus(obj, o) ==
    obj.status \in {"POSITION_OPEN", "POSITION_CLOSE_PENDING"}

(* is_protective_close_order *)
IsExitLink(obj, o) == o \in {obj.close, obj.stop, obj.tp}

apply_order_update(obj, o, s, full, n, r) ==
    LET isExit == IsExitLink(obj, o)
        isIgnored == IF isExit THEN should_ignore_close_update(obj)
                               ELSE should_ignore_entry_update(obj, s)
    IN  IF isIgnored THEN Effect(obj)
        ELSE IF s = "Filled" THEN IF isExit THEN ExitFilled(obj)
                                  ELSE EntryFilled(obj, full, n, r)
        ELSE IF isExit /\ s \in {"Rejected", "Cancelled"}
        THEN Effect([obj EXCEPT !.status = "POSITION_CLOSE_FAILED"])
        ELSE Effect([obj EXCEPT !.status = OrderStatusMap[s]])

-----------------------------------------------------------------------------
(* Transactions. *)

(* The UPDATE of a session that loaded a copy and changed it to obj: only  *)
(* the changed columns are written, over whatever is committed by now.     *)
Flush(db, loaded, obj) ==
    [status |-> IF obj.status # loaded.status THEN obj.status ELSE db.status,
     type   |-> db.type,
     filled |-> IF obj.filled # loaded.filled THEN obj.filled ELSE db.filled,
     stop   |-> IF obj.stop # loaded.stop THEN obj.stop ELSE db.stop,
     tp     |-> IF obj.tp # loaded.tp THEN obj.tp ELSE db.tp,
     close  |-> IF obj.close # loaded.close THEN obj.close ELSE db.close]

Used(e) == One(e.stop) + One(e.exit # "none")

WithinBounds(e) ==
    /\ last + Used(e) <= MaxOrders
    /\ faults + e.lost <= MaxFaults

(* The orders an effect has left at the exchange. *)
PlaceOrders(t, e) ==
    /\ ord' = [o \in OrderIds |->
                  IF e.stop /\ o = last + 1 THEN NewOrder("stop", t)
                  ELSE IF e.exit # "none" /\ o = last + 1 + One(e.stop)
                  THEN NewOrder(IF e.exit = "void" THEN "none" ELSE e.exit, t)
                  ELSE ord[o]]
    /\ last' = last + Used(e)

Commit(t, loaded, e) ==
    /\ WithinBounds(e)
    /\ row' = [row EXCEPT ![t] = Flush(@, loaded, e.obj)]
    /\ PlaceOrders(t, e)
    /\ raised' = (raised \/ e.kill)
    /\ outcomes' = [outcomes EXCEPT ![t] = @ + One(e.counted)]
    /\ stale' = [stale EXCEPT ![t] = @ \/ (loaded # row[t] /\ e.obj # loaded)]
    /\ faults' = faults + e.lost

(* The transaction fails or its process dies after the REST calls. *)
RollBack(t, e) ==
    /\ Used(e) > 0
    /\ WithinBounds(e)
    /\ faults + e.lost < MaxFaults
    /\ PlaceOrders(t, e)
    /\ faults' = faults + e.lost + 1
    /\ UNCHANGED <<row, raised, outcomes, stale>>

-----------------------------------------------------------------------------
(* The exchange (external). *)

(* An order makes progress and the exchange reports it.  Reports are never *)
(* taken back: delivering any of hist at any time, any number of times, is *)
(* a WebSocket that loses, repeats, delays and reorders messages.          *)
ExchangeProgress(o, s) ==
    /\ ord[o].kind # "none"
    /\ ~Final(ord[o].hist)
    /\ s \in CanReport[ord[o].kind] \ ord[o].hist
    /\ s = "Rejected" => ord[o].hist = {}
    /\ ord' = [ord EXCEPT ![o].hist = @ \cup {s}]
    /\ UNCHANGED <<row, last, rec, closing, decided, replay, raised, outcomes,
                   stale, faults>>

(* An entry request that timed out reaches the exchange late. *)
EntryArrives(t) ==
    /\ row[t].status = "ORDER_PENDING_UNKNOWN"
    /\ ord[t].kind = "none"
    /\ ord' = [ord EXCEPT ![t].kind = "entry"]
    /\ UNCHANGED <<row, last, rec, closing, decided, replay, raised, outcomes,
                   stale, faults>>

-----------------------------------------------------------------------------
(* The WebSocket handler: process_order on a row it has locked.  An event  *)
(* whose link id is on no committed row is dropped and changes nothing.    *)

(* get_trade_by_order_link_id *)
Linked(t, o) == o \in {t, row[t].stop, row[t].tp, row[t].close}

WsOrder(t, o, s) ==
    /\ Linked(t, o)
    /\ s \in ord[o].hist
    /\ \E e \in {apply_order_update(row[t], o, s, full, last, r) :
                  full \in BOOLEAN, r \in CallReplies} :
          Commit(t, row[t], e) \/ RollBack(t, e)
    /\ UNCHANGED <<rec, closing, decided, replay>>

-----------------------------------------------------------------------------
(* The reconciliation worker: reconcile_once, every few seconds. *)

Blank == [status |-> "ORDER_SUBMITTED", type |-> "Limit", filled |-> FALSE,
          stop |-> NoOrder, tp |-> NoOrder, close |-> NoOrder]

Passes == {"sleep", "entry", "close", "protect"}

NextPass ==
    [p \in Passes |-> CASE p = "sleep" -> "entry" [] p = "entry" -> "close"
                        [] p = "close" -> "protect" [] p = "protect" -> "sleep"]

(* Mutant: a fill that is confirmed but not yet open is overlooked. *)
MissingOnOpenPositions(x) ==
    /\ x.type = "Market" /\ x.status = "POSITION_OPEN" /\ x.filled
    /\ x.stop = NoOrder \/ x.tp = NoOrder

(* list_spot_market_trades_missing_protection *)
MissingProtection(x) ==
    /\ x.type = "Market"
    /\ x.status \in {"ORDER_CONFIRMED", "POSITION_OPEN"}
    /\ x.filled
    /\ x.stop = NoOrder \/ x.tp = NoOrder

(* Mutant: ORDER_PENDING_UNKNOWN is not reconciled. *)
ListedWithoutUnknown(p) ==
    {t \in Trades :
        CASE p = "entry" -> row[t].status = "ORDER_SUBMITTED"
          [] p = "close" -> row[t].status = "POSITION_CLOSE_PENDING"
          [] p = "protect" -> MissingProtection(row[t])
          [] p = "sleep" -> FALSE}

(* The trades a pass loads. *)
Listed(p) ==
    {t \in Trades :
        CASE p = "entry" -> row[t].status \in {"ORDER_SUBMITTED",
                                               "ORDER_PENDING_UNKNOWN"}
          [] p = "close" -> row[t].status = "POSITION_CLOSE_PENDING"
          [] p = "protect" -> MissingProtection(row[t])
          [] p = "sleep" -> FALSE}

(* Mutant: the entry order is asked about whatever the status. *)
AlwaysTracksEntry(x, t) == t

tracked_order_link_id(x, t) ==
    IF x.status = "POSITION_CLOSE_PENDING" THEN x.close ELSE t

(* get_order_status: an order the exchange does not know gives no answer,  *)
(* which changes as little as one that is still working.                   *)
get_order_status(o) ==
    IF ord[o].kind = "none" THEN "New" ELSE Current(ord[o].hist)

(* A pass begins: its trades are loaded.  The answers the REST calls will  *)
(* give are fixed here as well; an order that advances before its call can *)
(* as well have advanced before the pass began.                            *)
RecList ==
    /\ rec.todo = {}
    /\ LET p == NextPass[rec.pass]
           listed == Listed(p)
       IN rec' = [pass |-> p, todo |-> listed,
                  loaded |-> [t \in Trades |->
                                IF t \in listed THEN row[t] ELSE Blank],
                  reply |-> [t \in Trades |->
                                IF t \in listed /\ p # "protect"
                                THEN get_order_status(
                                        tracked_order_link_id(row[t], t))
                                ELSE "New"]]
    /\ UNCHANGED <<row, ord, last, closing, decided, replay, raised, outcomes,
                   stale, faults>>

RecForget(t) ==
    rec' = [rec EXCEPT !.todo = @ \ {t}, !.loaded[t] = Blank, !.reply[t] = "New"]

(* reconcile_trade: the answer is applied to the copy loaded before. *)
RecApply(t) ==
    /\ rec.pass \in {"entry", "close"}
    /\ t \in rec.todo
    /\ rec.reply[t] \in Reports
    /\ LET x == rec.loaded[t]
           o == tracked_order_link_id(x, t)
       IN \E e \in {apply_order_update(x, o, rec.reply[t], full, last, r) :
                      full \in BOOLEAN, r \in CallReplies} :
             Commit(t, x, e) \/ RollBack(t, e)
    /\ RecForget(t)
    /\ UNCHANGED <<closing, decided, replay>>

(* The REST call raised, found nothing, or found a working order. *)
RecSkip(t) ==
    /\ rec.pass \in {"entry", "close"}
    /\ t \in rec.todo
    /\ RecForget(t)
    /\ UNCHANGED <<row, ord, last, closing, decided, replay, raised, outcomes,
                   stale, faults>>

(* reconcile_missing_protection_orders: the row is locked, but the copy    *)
(* loaded with the list is in the session and is not refreshed.            *)
RecProtect(t) ==
    /\ rec.pass = "protect"
    /\ t \in rec.todo
    /\ LET x == rec.loaded[t]
       IN \E e \in {ensure_spot_market_protection(x, last, r) :
                      r \in CallReplies} :
             Commit(t, x, e) \/ RollBack(t, e)
    /\ RecForget(t)
    /\ UNCHANGED <<closing, decided, replay>>

-----------------------------------------------------------------------------
(* PositionManagerService: close requests and the spot exit monitor. *)

CloseRetryable ==
    {"POSITION_OPEN", "ORDER_PARTIALLY_FILLED", "POSITION_CLOSE_FAILED"}

NotClosing == [trade |-> 0, loaded |-> "POSITION_OPEN"]

(* close_trade: the trade is loaded, without a lock, and may be closed.    *)
(* Of the copy only the status matters later: the request writes that      *)
(* column and a fresh close link.                                          *)
CloseRead(c, t) ==
    /\ closing[c].trade = 0
    /\ row[t].status \in CloseRetryable
    /\ closing' = [closing EXCEPT ![c] = [trade |-> t, loaded |-> row[t].status]]
    /\ UNCHANGED <<row, ord, last, rec, replay, raised, outcomes, stale, faults>>

(* ... the close order is sent.  If the call raises, the session is rolled *)
(* back and the new link id is forgotten, whether or not the order exists. *)
CloseSubmit(c, reply) ==
    /\ closing[c].trade # 0
    /\ reply # "refused" => last + Reserve < MaxOrders
    /\ LET t == closing[c].trade
           x == [row[t] EXCEPT !.status = closing[c].loaded]
           obj == [x EXCEPT !.status = "POSITION_CLOSE_PENDING",
                            !.close = last + 1]
           e == [Effect(obj) EXCEPT !.exit = "close"]
       IN \/ reply = "accepted" /\ Commit(t, x, e)
          \/ reply = "lost" /\ RollBack(t, e)
          \/ /\ reply = "refused"
             /\ UNCHANGED <<row, ord, last, raised, outcomes, stale, faults>>
    /\ closing' = [closing EXCEPT ![c] = NotClosing]
    /\ UNCHANGED <<rec, decided, replay>>

(* A close request of the API. *)
ClientClose(c, t) == CloseRead(c, t) /\ UNCHANGED decided

(* monitor_spot_exit_candidates_once: the trades without any protective    *)
(* order whose price has reached an exit are decided on first ...          *)
MonitorScan(S) ==
    /\ decided = {}
    /\ closing[Monitor].trade = 0
    /\ S # {}
    /\ \A t \in S : /\ MissingProtection(row[t])
                    /\ row[t].stop = NoOrder /\ row[t].tp = NoOrder
    /\ decided' = S
    /\ UNCHANGED <<row, ord, last, rec, closing, replay, raised, outcomes, stale,
                   faults>>

(* ... and closed one by one afterwards; a trade that is "not open" by     *)
(* close_trade's reading raises, and the monitor goes on with the next.    *)
MonitorClose(t) ==
    /\ t \in decided
    /\ CloseRead(Monitor, t)
    /\ decided' = decided \ {t}

MonitorRefused(t) ==
    /\ t \in decided
    /\ closing[Monitor].trade = 0
    /\ row[t].status \notin CloseRetryable
    /\ decided' = decided \ {t}
    /\ UNCHANGED <<row, ord, last, rec, closing, replay, raised, outcomes, stale,
                   faults>>

-----------------------------------------------------------------------------
(* A replayed signal request: reconcile_pending_unknown of the executor on *)
(* a trade loaded without a lock.                                          *)

NotReplaying == [trade |-> 0, reply |-> "New"]

ReplayRead(t) ==
    /\ replay.trade = 0
    /\ row[t].status = "ORDER_PENDING_UNKNOWN"
    /\ replay' = [trade |-> t, reply |-> get_order_status(t)]
    /\ UNCHANGED <<row, ord, last, rec, closing, decided, raised, outcomes, stale,
                   faults>>

reconcile_pending_unknown ==
    /\ replay.trade # 0
    /\ LET t == replay.trade
           x == [row[t] EXCEPT !.status = "ORDER_PENDING_UNKNOWN"]
           obj == IF replay.reply \in Reports
                  THEN [x EXCEPT !.status = OrderStatusMap[replay.reply]]
                  ELSE x
       IN Commit(t, x, Effect(obj))
    /\ replay' = NotReplaying
    /\ UNCHANGED <<rec, closing, decided>>

-----------------------------------------------------------------------------
(* The process dies: what was in flight is gone, committed rows remain. *)
Crash ==
    /\ faults < MaxFaults
    /\ faults' = faults + 1
    /\ rec' = [pass |-> "sleep", todo |-> {},
               loaded |-> [t \in Trades |-> Blank],
               reply |-> [t \in Trades |-> "New"]]
    /\ closing' = [c \in Closers |-> NotClosing]
    /\ decided' = {}
    /\ replay' = NotReplaying
    /\ UNCHANGED <<row, ord, last, raised, outcomes, stale>>

-----------------------------------------------------------------------------
(* What OrderExecutor.execute leaves behind in demo or real mode, with the *)
(* entry order as the exchange knows it.  An order whose submission timed  *)
(* out keeps the type "Limit"; it may have been resolved on the spot.      *)
Handover ==
    {[status |-> "ORDER_SUBMITTED", type |-> ty, kind |-> "entry", hist |-> {}] :
        ty \in {"Limit", "Market"}}
    \cup {[status |-> "ORDER_PENDING_UNKNOWN", type |-> "Limit", kind |-> k,
           hist |-> {}] : k \in {"none", "entry"}}
    \cup {[status |-> OrderStatusMap[s], type |-> "Limit", kind |-> "entry",
           hist |-> {s}] : s \in Reports}
    \cup {[status |-> "ORDER_REJECTED", type |-> "Limit", kind |-> "none",
           hist |-> {}]}

Init ==
    /\ \E h \in [Trades -> Handover] :
          /\ row = [t \in Trades |-> [Blank EXCEPT !.status = h[t].status,
                                                  !.type = h[t].type]]
          /\ ord = [o \in OrderIds |->
                       IF o \in Trades
                       THEN [kind |-> h[o].kind, trade |-> o, hist |-> h[o].hist]
                       ELSE NewOrder("none", 1)]
    /\ last = NTrades
    /\ rec = [pass |-> "sleep", todo |-> {},
              loaded |-> [t \in Trades |-> Blank],
              reply |-> [t \in Trades |-> "New"]]
    /\ closing = [c \in Closers |-> NotClosing]
    /\ decided = {}
    /\ replay = NotReplaying
    /\ raised = FALSE
    /\ outcomes = [t \in Trades |-> 0]
    /\ stale = [t \in Trades |-> FALSE]
    /\ faults = 0

Exchange ==
    \/ \E o \in OrderIds, s \in Reports : ExchangeProgress(o, s)
    \/ \E t \in Trades : EntryArrives(t)

WebSocket ==
    \E t \in Trades, o \in OrderIds, s \in Reports : WsOrder(t, o, s)

Worker(t) == RecApply(t) \/ RecSkip(t) \/ RecProtect(t)

PositionManager ==
    \/ \E c \in Clients, t \in Trades : ClientClose(c, t)
    \/ \E c \in Closers, reply \in Replies : CloseSubmit(c, reply)
    \/ \E S \in SUBSET Trades : MonitorScan(S)
    \/ \E t \in Trades : MonitorClose(t) \/ MonitorRefused(t)

Replay ==
    \/ \E t \in Trades : ReplayRead(t)
    \/ reconcile_pending_unknown

Next ==
    \/ Exchange
    \/ WebSocket
    \/ RecList
    \/ \E t \in Trades : Worker(t)
    \/ PositionManager
    \/ Replay
    \/ Crash

Spec == Init /\ [][Next]_vars

(* The worker never stops (its loop catches every exception and runs every *)
(* few seconds), it finishes a pass it has begun, and a REST query that is *)
(* repeated forever is answered now and then.  Nothing is assumed of the   *)
(* exchange, the WebSocket, the operator or the monitor.                   *)
FairSpec ==
    /\ Spec
    /\ WF_vars(RecList)
    /\ \A t \in Trades : WF_vars(Worker(t)) /\ SF_vars(RecApply(t))

-----------------------------------------------------------------------------
(* Properties. *)

(* The variables keep their types: every row holds a known status and link *)
(* ids that were given out.                                                *)
TypeOK ==
    /\ row \in [Trades -> Row]
    /\ ord \in [OrderIds -> Order]
    /\ last \in NTrades..MaxOrders
    /\ rec \in [pass : Passes, todo : SUBSET Trades,
                loaded : [Trades -> Row],
                reply : [Trades -> Reports \cup {"New"}]]
    /\ closing \in [Closers -> [trade : 0..NTrades, loaded : Status]]
    /\ decided \in SUBSET Trades
    /\ replay \in [trade : 0..NTrades, reply : Reports \cup {"New"}]
    /\ raised \in BOOLEAN
    /\ outcomes \in [Trades -> Nat]
    /\ stale \in [Trades -> BOOLEAN]
    /\ faults \in 0..MaxFaults

ExitFilledAtExchange(t) ==
    \E o \in OrderIds : /\ ord[o].trade = t
                        /\ ord[o].kind \in {"stop", "tp", "close"}
                        /\ "Filled" \in ord[o].hist

(* A trade is PNL_RECORDED, or its outcome counted in the daily statistics, *)
(* only if the exchange filled a stop, take-profit or close order of that   *)
(* very trade, whatever order the events arrive in, and from however old a  *)
(* copy the worker writes (_apply_order_update's exit branch).              *)
RecordedExitWasFilled ==
    \A t \in Trades :
        row[t].status = "PNL_RECORDED" \/ outcomes[t] > 0
            => ExitFilledAtExchange(t)

(* A trade shown as POSITION_OPEN has its entry filled at the exchange, and *)
(* if it is a spot market trade the stop-loss link on its row names a stop  *)
(* order the exchange accepted for it (_ensure_spot_market_protection).     *)
OpenPositionIsProtected ==
    \A t \in Trades : row[t].status = "POSITION_OPEN" =>
        /\ "Filled" \in ord[t].hist
        /\ row[t].type = "Market" => /\ row[t].stop # NoOrder
                                     /\ ord[row[t].stop].kind = "stop"
                                     /\ ord[row[t].stop].trade = t

(* When both the stop-loss and the emergency close fail, so that the row's  *)
(* close link names an order the exchange never took, the kill switch was   *)
(* raised, at the latest in the transaction that recorded the link, and the *)
(* trade stays visible as POSITION_CLOSE_FAILED until an outdated copy is   *)
(* written over it (_handle_stop_loss_submission_failure).                  *)
UnsentCloseStopsTrading ==
    \A t \in Trades :
        row[t].close # NoOrder /\ ord[row[t].close].kind = "none"
            => raised /\ (row[t].status = "POSITION_CLOSE_FAILED" \/ stale[t])

(* Unless a session wrote an outdated copy, a trade's outcome is counted    *)
(* exactly once, in the transaction that records its PnL, and the record is *)
(* final: repeated, late and reordered WebSocket events, crashes and lost   *)
(* replies do not count it again or take it back.                           *)
OutcomeCountedOnce ==
    \A t \in Trades : ~stale[t] =>
        outcomes[t] = One(row[t].status = "PNL_RECORDED")

(* Without faults and outdated copies every protective order at the         *)
(* exchange is the one its trade's row names: none is placed twice and none *)
(* is lost sight of.                                                        *)
NoStrayProtection ==
    \A t \in Trades, o \in OrderIds :
        ~stale[t] /\ faults = 0 /\ ord[o].trade = t =>
            /\ ord[o].kind = "stop" => row[t].stop = o
            /\ ord[o].kind = "tp" => row[t].tp = o

OpenPositionStatuses ==
    {"POSITION_OPEN", "ORDER_PARTIALLY_FILLED", "POSITION_CLOSE_PENDING",
     "POSITION_CLOSE_FAILED"}

(* An opened position is never dropped: short of an outdated copy being     *)
(* written, it leaves the statuses position_manager shows as open only by   *)
(* being recorded.  Late reports of its entry order cannot demote it.       *)
ExposureNotDropped ==
    [][\A t \in Trades :
          /\ row[t].status \in OpenPositionStatuses \ {"ORDER_PARTIALLY_FILLED"}
          /\ ~stale'[t]
          => row'[t].status \in OpenPositionStatuses \cup {"PNL_RECORDED"}]_vars

(* An entry order that has ended at the exchange is noticed even if every   *)
(* WebSocket event is lost (reconcile_entry_orders).                        *)
EntryConverges ==
    \A t \in Trades :
        (/\ row[t].status \in {"ORDER_SUBMITTED", "ORDER_PENDING_UNKNOWN"}
         /\ ord[t].kind = "entry" /\ Final(ord[t].hist))
        ~> row[t].status \notin {"ORDER_SUBMITTED", "ORDER_PENDING_UNKNOWN"}

(* A close order that has ended at the exchange while its trade's row names *)
(* it is noticed even if every WebSocket event is lost, unless another      *)
(* close takes its place (reconcile_close_orders).                          *)
CloseConverges ==
    \A t \in Trades, o \in OrderIds :
        (/\ row[t].status = "POSITION_CLOSE_PENDING" /\ row[t].close = o
         /\ Final(ord[o].hist))
        ~> (row[t].status # "POSITION_CLOSE_PENDING" \/ row[t].close # o)

(* A confirmed spot market fill that has no stop yet gets one, or the kill  *)
(* switch was raised, in a later pass, unless an outdated copy is written     *)
(* over its row first (reconcile_missing_protection_orders).                *)
StopEventuallyArmed ==
    \A t \in Trades :
        (/\ row[t].status = "ORDER_CONFIRMED"
         /\ row[t].type = "Market" /\ row[t].filled)
        ~> (row[t].stop # NoOrder \/ raised \/ stale[t])

-----------------------------------------------------------------------------
(* The inductive invariant behind RecordedExitWasFilled and                 *)
(* OpenPositionIsProtected.                                                 *)

(* Link ids are given out in order, trade t's entry is order t, and the     *)
(* exchange reports nothing of an order it does not know.                   *)
OrdersInv ==
    \A o \in OrderIds :
        /\ o > last => ord[o].kind = "none"
        /\ ord[o].kind = "none" => ord[o].hist = {}
        /\ IF o \in Trades THEN ord[o].kind \in {"none", "entry"} /\ ord[o].trade = o
                            ELSE ord[o].kind # "entry"

(* The links of a row or of a copy x of trade t name orders of t of the     *)
(* right kind; a pending close has a link.                                  *)
LinksInv(x, t) ==
    /\ x.stop # NoOrder => /\ x.stop \in OrderIds /\ ord[x.stop].kind = "stop"
                           /\ ord[x.stop].trade = t
    /\ x.tp # NoOrder => /\ x.tp \in OrderIds /\ ord[x.tp].kind = "tp"
                         /\ ord[x.tp].trade = t
    /\ x.close # NoOrder => /\ x.close \in (NTrades + 1)..last
                            /\ ord[x.close].kind \in {"none", "close"}
                            /\ ord[x.close].trade = t
    /\ x.status = "POSITION_CLOSE_PENDING" => x.close # NoOrder

(* However old, a copy the worker holds agrees with the row on the type,    *)
(* knows no stop the row does not have, and the answer it is waiting to     *)
(* apply is one the tracked order has given.                                *)
CopiesInv ==
    \A t \in rec.todo :
        LET x == rec.loaded[t]
        IN  /\ LinksInv(x, t)
            /\ x.type = row[t].type
            /\ x.stop # NoOrder => row[t].stop # NoOrder
            /\ rec.reply[t] \in Reports =>
                  rec.reply[t] \in ord[tracked_order_link_id(x, t)].hist

IndInv ==
    /\ TypeOK
    /\ OrdersInv
    /\ \A t \in Trades : LinksInv(row[t], t)
    /\ CopiesInv
    /\ RecordedExitWasFilled
    /\ OpenPositionIsProtected

-----------------------------------------------------------------------------
(* What the repository says of itself, and the code does not keep to. *)

(* tests/exchange_sync/test_engine.py: "ignores stale close updates after   *)
(* pnl is recorded".  No report of the close order a recorded trade already *)
(* has turns it into POSITION_CLOSE_FAILED.                                 *)
LateCloseUpdateIgnored ==
    [][\A t \in Trades :
          row[t].status = "PNL_RECORDED" /\ row'[t].close = row[t].close =>
              row'[t].status # "POSITION_CLOSE_FAILED"]_vars

(* docs/en/architecture.md: if a WebSocket event is missed, the worker      *)
(* re-checks non-terminal trades through REST and converges them.  A filled *)
(* stop of an open position is eventually noticed.                          *)
MissedExitConverges ==
    \A t \in Trades, o \in OrderIds :
        (/\ row[t].status = "POSITION_OPEN" /\ row[t].stop = o
         /\ "Filled" \in ord[o].hist)
        ~> row[t].status # "POSITION_OPEN"

=============================================================================
