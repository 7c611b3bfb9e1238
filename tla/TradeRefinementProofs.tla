----------------------- MODULE TradeRefinementProofs -----------------------
(***************************************************************************)
(* TradeLifecycle implements TradePromise for every number of trades,      *)
(* orders, clients and faults.                                             *)
(*                                                                         *)
(* IndInv says whose orders a link names, and so that what is counted was  *)
(* filled.  It does not say which statuses a session may have read before  *)
(* it writes; LoadedStatuses adds that.  The proof goes from what one      *)
(* update makes of the status it read (Moves), to what one transaction     *)
(* does to the books (CommitPromise), to the actions.                      *)
(***************************************************************************)
EXTENDS TradeRefinement, TradeLifecycleProofs

(* Effect e moves the status of copy x along the books: a record is final   *)
(* and is what is counted, and a position does not become an entry.         *)
Moves(x, e) ==
    /\ e.counted <=> e.obj.status = "PNL_RECORDED" /\ x.status # "PNL_RECORDED"
    /\ x.status = "PNL_RECORDED" => e.obj.status = "PNL_RECORDED"
    /\ BookOf(x.status) = "position" => BookOf(e.obj.status) # "entry"

(* A pass that arms protection and a close request have read statuses they  *)
(* act on.                                                                  *)
LoadedStatuses ==
    /\ rec.pass = "protect" =>
          \A t \in rec.todo : rec.loaded[t].status \in {"ORDER_CONFIRMED", "POSITION_OPEN"}
    /\ \A c \in Closers : closing[c].loaded \in CloseRetryable

RefInv == IndInv /\ LoadedStatuses

-----------------------------------------------------------------------------
(* What an update makes of a status. *)

(* The statuses of a position and the record are the ones a late report of  *)
(* the entry is ignored in.                                                 *)
LEMMA BookOfStatus ==
    ASSUME NEW s \in Status
    PROVE  /\ BookOf(s) \in {"entry", "partial", "position", "recorded"}
           /\ BookOf(s) = "recorded" <=> s = "PNL_RECORDED"
           /\ BookOf(s) = "position" <=>
                 s \in {"POSITION_OPEN", "POSITION_CLOSE_PENDING", "POSITION_CLOSE_FAILED"}
           /\ s = "ORDER_PARTIALLY_FILLED" => BookOf(s) = "partial"
  BY DEF BookOf, Status

(* Arming protection leaves the status or closes the position.              *)
LEMMA ProtectionStatus ==
    ASSUME NEW obj \in LooseRow, NEW n \in Nat, NEW r \in CallReplies
    PROVE  ensure_spot_market_protection(obj, n, r).obj.status \in
              {obj.status, "POSITION_CLOSE_PENDING", "POSITION_CLOSE_FAILED"}
  <1> DEFINE e == ensure_spot_market_protection(obj, n, r)
             stopDue == obj.stop = NoOrder
             link == n + 1 + One(stopDue)
             armed == IF stopDue THEN [obj EXCEPT !.stop = n + 1] ELSE obj
             both == IF r.exit = "accepted" THEN [armed EXCEPT !.tp = link]
                                            ELSE armed
             failed == handle_stop_loss_submission_failure(obj, n, r)
  <1>1. armed.status = obj.status /\ both.status = obj.status
    BY DEF LooseRow
  <1>2. failed.obj.status \in {"POSITION_CLOSE_PENDING", "POSITION_CLOSE_FAILED"}
    <2>1. PICK link2 : failed.obj = [obj EXCEPT !.close = link2,
                                 !.status = IF r.exit = "accepted"
                                            THEN "POSITION_CLOSE_PENDING"
                                            ELSE "POSITION_CLOSE_FAILED"]
      BY DEF handle_stop_loss_submission_failure, EmergencyClose
    <2> QED BY <2>1 DEF LooseRow
  <1>3. e.obj = obj \/ e.obj = failed.obj \/ e.obj = armed \/ e.obj = both
    BY DEF ensure_spot_market_protection, ArmProtection, Effect
  <1> QED BY <1>1, <1>2, <1>3

(* Whatever is reported, and however the calls end, the status moves along  *)
(* the books.                                                               *)
LEMMA UpdateMoves ==
    ASSUME NEW obj \in LooseRow, NEW o, NEW s \in Reports, NEW full \in BOOLEAN,
           NEW n \in Nat, NEW r \in CallReplies
    PROVE  Moves(obj, apply_order_update(obj, o, s, full, n, r))
  <1> DEFINE e == apply_order_update(obj, o, s, full, n, r)
             isExit == IsExitLink(obj, o)
             ignored == IF isExit THEN should_ignore_close_update(obj)
                                  ELSE should_ignore_entry_update(obj, s)
  <1>1. e \in EffectSet /\ EntryOpens(e, obj, o, s)
    BY UpdateEffect
  <1>2. obj.status \in Status /\ e.obj.status \in Status
    BY <1>1 DEF EffectSet, LooseRow
  <1>3. CASE ignored
    <2>1. e = Effect(obj)
      BY <1>3 DEF apply_order_update
    <2>2. e.obj = obj /\ ~e.counted
      BY <2>1 DEF Effect
    <2> QED BY <2>2, <1>2, BookOfStatus DEF Moves
  <1>4. CASE ~ignored /\ isExit /\ s = "Filled"
    <2>1. e = ExitFilled(obj) /\ obj.status # "PNL_RECORDED"
      BY <1>4 DEF apply_order_update, should_ignore_close_update
    <2>2. e.counted /\ e.obj = [obj EXCEPT !.status = "PNL_RECORDED"]
      BY <2>1 DEF ExitFilled, Effect
    <2>3. e.obj.status = "PNL_RECORDED"
      BY <2>2 DEF LooseRow
    <2> QED BY <2>1, <2>2, <2>3, <1>2, BookOfStatus DEF Moves
  <1>5. CASE ~ignored /\ isExit /\ s # "Filled"
    <2>1. obj.status # "PNL_RECORDED"
      BY <1>5 DEF should_ignore_close_update
    <2>2. e = Effect([obj EXCEPT !.status = IF s = "PartiallyFilled"
                                            THEN "ORDER_PARTIALLY_FILLED"
                                            ELSE "POSITION_CLOSE_FAILED"])
      BY <1>5 DEF apply_order_update, OrderStatusMap, Reports
    <2>3. /\ ~e.counted
          /\ e.obj.status \in {"ORDER_PARTIALLY_FILLED", "POSITION_CLOSE_FAILED"}
      BY <2>2 DEF Effect, LooseRow
    <2> QED BY <2>1, <2>3, <1>2, BookOfStatus DEF Moves
  <1>6. CASE ~ignored /\ ~isExit
    <2>1. obj.status \notin {"POSITION_OPEN", "POSITION_CLOSE_PENDING",
                             "POSITION_CLOSE_FAILED", "PNL_RECORDED"}
      BY <1>6 DEF should_ignore_entry_update
    <2>2. ~e.counted /\ e.obj.status # "PNL_RECORDED"
      BY <1>1, <1>6, <2>1 DEF EntryOpens
    <2> QED BY <2>1, <2>2, <1>2, BookOfStatus DEF Moves
  <1> QED BY <1>3, <1>4, <1>5, <1>6

-----------------------------------------------------------------------------
(* What a transaction does to the books. *)

(* Orders that a transaction places have reported nothing yet.              *)
LEMMA PlacingFillsNothing ==
    ASSUME CoreType, OrdersInv, NEW t \in Trades, NEW e \in EffectSet,
           PlaceOrders(t, e)
    PROVE  exited' = exited
  <1>1. ASSUME NEW o \in OrderIds
        PROVE  ord'[o] = ord[o] \/ (ord'[o].hist = {} /\ ord[o].hist = {})
    <2>1. ord'[o] = IF e.stop /\ o = last + 1 THEN NewOrder("stop", t)
                    ELSE IF e.exit # "none" /\ o = last + 1 + One(e.stop)
                    THEN NewOrder(IF e.exit = "void" THEN "none" ELSE e.exit, t)
                    ELSE ord[o]
      BY DEF PlaceOrders
    <2>2. CASE o > last
      <3>1. ord[o].hist = {}
        BY <2>2 DEF OrdersInv
      <3>2. \A k : NewOrder(k, t).hist = {}
        BY DEF NewOrder
      <3> QED BY <2>1, <3>1, <3>2
    <2>3. CASE ~(o > last)
      <3>1. last \in Nat /\ o \in Nat /\ One(e.stop) \in {0, 1}
        BY Bounds DEF CoreType, OrderIds, One
      <3>2. o # last + 1 /\ o # last + 1 + One(e.stop)
        BY <2>3, <3>1
      <3> QED BY <2>1, <3>2
    <2> QED BY <2>2, <2>3
  <1>2. ASSUME NEW u \in Trades
        PROVE  ExitFilledAtExchange(u)' <=> ExitFilledAtExchange(u)
    BY <1>1 DEF ExitFilledAtExchange
  <1>3. ASSUME NEW u \in Trades
        PROVE  exited'[u] = exited[u]
    <2>1. exited[u] = ExitFilledAtExchange(u) /\ exited'[u] = ExitFilledAtExchange(u)'
      BY Zenon DEF exited
    <2>2. ExitFilledAtExchange(u) \in BOOLEAN /\ ExitFilledAtExchange(u)' \in BOOLEAN
      BY DEF ExitFilledAtExchange
    <2> QED BY <1>2, <2>1, <2>2
  <1>4. /\ exited = [u \in Trades |-> exited[u]]
        /\ exited' = [u \in Trades |-> exited'[u]]
    BY DEF exited
  <1> QED BY <1>3, <1>4

(* A step that changes nothing the promise speaks of.                       *)
LEMMA Stutter ==
    ASSUME row' = row, exited' = exited, outcomes' = outcomes, stale' = stale
    PROVE  UNCHANGED Promise!promise
  <1>1. book' = book
    BY DEF book
  <1> QED BY <1>1 DEF Promise!promise

(* A committed transaction is a step of the promise, however old the copy   *)
(* it was computed from.                                                    *)
LEMMA CommitPromise ==
    ASSUME Core, NEW t \in Trades, NEW x, Loaded(t, x), NEW e \in EffectSet,
           Justified(t, x, e), Moves(x, e), Commit(t, x, e)
    PROVE  Promise!Next \/ UNCHANGED Promise!promise
  <1> DEFINE new == Flush(row[t], x, e.obj)
             b == BookOf(new.status)
  <1>1. CoreType /\ OrdersInv /\ row[t] \in Row /\ x \in Row
    BY DEF Core, CoreType, Loaded
  <1>2. exited' = exited
    BY <1>1, PlacingFillsNothing DEF Commit
  <1>3. /\ row' = [row EXCEPT ![t] = new]
        /\ outcomes' = [outcomes EXCEPT ![t] = @ + One(e.counted)]
        /\ stale' = [stale EXCEPT ![t] = @ \/ (x # row[t] /\ e.obj # x)]
    BY DEF Commit
  <1>4. new.status = IF e.obj.status # x.status THEN e.obj.status ELSE row[t].status
    BY DEF Flush
  <1>5. e.obj.status \in Status /\ new.status \in Status /\ row[t].status \in Status
        /\ x.status \in Status /\ e.counted \in BOOLEAN
    BY <1>1, <1>4 DEF EffectSet, LooseRow, Row
  <1>6. b \in {"entry", "partial", "position", "recorded"}
    BY <1>5, BookOfStatus
  <1>7. book' = [book EXCEPT ![t] = b] /\ book[t] = BookOf(row[t].status)
    BY <1>1, <1>3 DEF book, CoreType
  <1>8. ~e.counted => outcomes' = outcomes
    BY <1>1, <1>3 DEF One, CoreType
  <1>9. e.counted => outcomes' = [outcomes EXCEPT ![t] = @ + 1]
    BY <1>3 DEF One
  <1>10. e.counted => exited[t]
    BY DEF Justified, exited
  <1>11. CASE e.obj = x
    <2>1. ~e.counted
      BY <1>11 DEF Moves
    <2>2. stale' = stale
      BY <1>1, <1>3, <1>11 DEF CoreType
    <2>3. new = row[t]
      BY <1>1, <1>11 DEF Flush, Row
    <2>4. row' = row
      BY <1>1, <1>3, <2>3 DEF CoreType
    <2> QED BY <2>1, <2>2, <2>4, <1>2, <1>8, Stutter
  <1>12. CASE x # row[t] /\ e.obj # x
    <2>1. stale' = [stale EXCEPT ![t] = TRUE]
      BY <1>3, <1>12
    <2>2. Promise!Tear(t)
      BY <2>1, <1>2, <1>6, <1>7, <1>8, <1>9, <1>10 DEF Promise!Tear, Promise!Books
    <2> QED BY <2>2 DEF Promise!Next
  <1>13. CASE x = row[t] /\ e.obj # x
    <2>1. stale' = stale
      BY <1>1, <1>3, <1>13 DEF CoreType
    <2>2. new.status = e.obj.status
      BY <1>4, <1>13
    <2>3. CASE e.counted
      <3>1. e.obj.status = "PNL_RECORDED" /\ x.status # "PNL_RECORDED"
        BY <2>3 DEF Moves
      <3>2. b = "recorded" /\ book[t] # "recorded"
        BY <3>1, <2>2, <1>5, <1>7, <1>13, BookOfStatus
      <3>3. Promise!Record(t)
        BY <3>2, <2>1, <2>3, <1>2, <1>7, <1>9, <1>10 DEF Promise!Record
      <3> QED BY <3>3 DEF Promise!Next
    <2>4. CASE ~e.counted /\ x.status = "PNL_RECORDED"
      <3>1. b = book[t]
        BY <2>2, <2>4, <1>7, <1>13 DEF Moves
      <3>2. book' = book
        BY <3>1, <1>7 DEF book
      <3> QED BY <3>2, <2>1, <2>4, <1>2, <1>8 DEF Promise!promise
    <2>5. CASE ~e.counted /\ x.status # "PNL_RECORDED"
      <3>1. book[t] # "recorded" /\ b # "recorded"
        BY <2>2, <2>5, <1>5, <1>7, <1>13, BookOfStatus DEF Moves
      <3>2. book[t] = "position" => b # "entry"
        BY <2>2, <1>7, <1>13 DEF Moves
      <3>3. Promise!Follow(t)
        BY <3>1, <3>2, <2>1, <2>5, <1>2, <1>6, <1>7, <1>8 DEF Promise!Follow, Promise!Books
      <3> QED BY <3>3 DEF Promise!Next
    <2> QED BY <2>3, <2>4, <2>5
  <1> QED BY <1>11, <1>12, <1>13

(* A rolled back transaction leaves orders and nothing else.                *)
LEMMA RollBackPromise ==
    ASSUME Core, NEW t \in Trades, NEW e \in EffectSet, RollBack(t, e)
    PROVE  UNCHANGED Promise!promise
  BY PlacingFillsNothing, Stutter DEF Core, RollBack

(* One update, whoever applies it.                                          *)
LEMMA UpdatePromise ==
    ASSUME Core, NEW t \in Trades, NEW x, Loaded(t, x), LinksInv(x, t),
           NEW o \in OrderIds, NEW s \in Reports, s \in ord[o].hist,
           IsExitLink(x, o) \/ o = t, NEW full \in BOOLEAN, NEW r \in CallReplies,
           NEW e, e = apply_order_update(x, o, s, full, last, r),
           Commit(t, x, e) \/ RollBack(t, e)
    PROVE  Promise!Next \/ UNCHANGED Promise!promise
  <1>1. x \in LooseRow /\ last \in Nat
    BY RowIsLoose, Bounds DEF Loaded, Core, CoreType
  <1>2. e \in EffectSet /\ EntryOpens(e, x, o, s) /\ Moves(x, e)
    BY <1>1, UpdateEffect, UpdateMoves
  <1>3. Justified(t, x, e)
    BY <1>2, ExitLinkFilled DEF Justified, EntryOpens
  <1> QED BY <1>2, <1>3, CommitPromise, RollBackPromise

-----------------------------------------------------------------------------
(* LoadedStatuses is an invariant. *)

(* A pass and a request load only what they act on; everything else leaves  *)
(* what they have loaded alone or forgets it.                               *)
LEMMA LoadedKeeps == IndInv /\ LoadedStatuses /\ [Next]_vars => LoadedStatuses'
  <1> SUFFICES ASSUME IndInv, LoadedStatuses, [Next]_vars PROVE LoadedStatuses'
    OBVIOUS
  <1>1. FlowType
    BY IndInvParts
  <1>2. closing \in [Closers -> [trade : 0..NTrades, loaded : Status]]
    BY <1>1 DEF FlowType
  <1>3. ASSUME rec' = rec, closing' = closing PROVE LoadedStatuses'
    BY <1>3 DEF LoadedStatuses
  <1>4. NotClosing.loaded \in CloseRetryable
    BY DEF NotClosing, CloseRetryable
  <1>5. CASE Exchange
    BY <1>3, <1>5 DEF Exchange, ExchangeProgress, EntryArrives
  <1>6. CASE WebSocket
    BY <1>3, <1>6 DEF WebSocket, WsOrder
  <1>7. CASE RecList
    <2>1. closing' = closing
      BY <1>7 DEF RecList
    <2> SUFFICES ASSUME rec'.pass = "protect", NEW t \in rec'.todo
                 PROVE  rec'.loaded[t].status \in {"ORDER_CONFIRMED", "POSITION_OPEN"}
      BY <2>1 DEF LoadedStatuses
    <2>2. t \in Listed("protect") /\ rec'.loaded[t] = row[t]
      BY <1>7 DEF RecList, Listed
    <2> QED BY <2>2 DEF Listed, MissingProtection
  <1>8. ASSUME NEW t \in Trades, Worker(t) PROVE LoadedStatuses'
    <2>1. RecForget(t) /\ closing' = closing
      BY <1>8 DEF Worker, RecApply, RecSkip, RecProtect
    <2>2. rec'.pass = rec.pass
      BY <1>1, <2>1 DEF FlowType, RecForget
    <2>3. /\ rec'.todo \subseteq rec.todo
          /\ \A u \in rec'.todo : rec'.loaded[u] = rec.loaded[u]
      BY <1>1, <2>1, Forgets
    <2> QED BY <2>1, <2>2, <2>3 DEF LoadedStatuses
  <1>9. ASSUME NEW c \in Closers, NEW t \in Trades, CloseRead(c, t) PROVE LoadedStatuses'
    <2>1. /\ closing' = [closing EXCEPT ![c] = [trade |-> t, loaded |-> row[t].status]]
          /\ row[t].status \in CloseRetryable /\ rec' = rec
      BY <1>9 DEF CloseRead
    <2> QED BY <1>2, <2>1 DEF LoadedStatuses
  <1>10. ASSUME NEW c \in Closers, NEW reply \in Replies, CloseSubmit(c, reply)
         PROVE  LoadedStatuses'
    <2>1. closing' = [closing EXCEPT ![c] = NotClosing] /\ rec' = rec
      BY <1>10 DEF CloseSubmit
    <2> QED BY <1>2, <1>4, <2>1 DEF LoadedStatuses
  <1>11. CASE PositionManager
    BY <1>3, <1>9, <1>10, <1>11
       DEF PositionManager, ClientClose, MonitorScan, MonitorClose, MonitorRefused, Closers
  <1>12. CASE Replay
    BY <1>3, <1>12 DEF Replay, ReplayRead, reconcile_pending_unknown
  <1>13. CASE Crash
    <2>1. rec'.todo = {} /\ closing' = [c \in Closers |-> NotClosing]
      BY <1>13 DEF Crash
    <2> QED BY <1>4, <2>1 DEF LoadedStatuses
  <1>14. CASE UNCHANGED vars
    BY <1>3, <1>14 DEF vars
  <1> QED BY <1>5, <1>6, <1>7, <1>8, <1>11, <1>12, <1>13, <1>14 DEF Next

(* Both invariants hold initially and are kept together.                    *)
LEMMA RefInductive == (Init => RefInv) /\ (RefInv /\ [Next]_vars => RefInv')
  <1>1. Init => LoadedStatuses
    <2> SUFFICES ASSUME Init PROVE LoadedStatuses
      OBVIOUS
    <2>1. rec = [pass |-> "sleep", todo |-> {},
                 loaded |-> [t \in Trades |-> Blank],
                 reply |-> [t \in Trades |-> "New"]]
      BY DEF Init
    <2>2. rec.todo = {}
      BY <2>1
    <2>3. closing = [c \in Closers |-> NotClosing]
      BY DEF Init
    <2>4. \A c \in Closers : closing[c].loaded \in CloseRetryable
      BY <2>3 DEF NotClosing, CloseRetryable
    <2> QED BY <2>2, <2>4 DEF LoadedStatuses
  <1> QED BY <1>1, InitInv, NextKeeps, LoadedKeeps DEF RefInv

-----------------------------------------------------------------------------
(* Every action is a step of the promise. *)

(* The exchange fills an exit, or does nothing the promise speaks of.       *)
LEMMA ExchangePromise ==
    ASSUME IndInv, Exchange
    PROVE  Promise!Next \/ UNCHANGED Promise!promise
  <1>1. CoreType /\ OrdersInv
    BY IndInvParts DEF Core
  <1>2. row' = row /\ outcomes' = outcomes /\ stale' = stale
    BY DEF Exchange, ExchangeProgress, EntryArrives
  <1>3. ASSUME NEW u \in Trades
        PROVE  /\ exited[u] = ExitFilledAtExchange(u) /\ exited'[u] = ExitFilledAtExchange(u)'
               /\ exited[u] \in BOOLEAN /\ exited'[u] \in BOOLEAN
    <2>1. exited[u] = ExitFilledAtExchange(u) /\ exited'[u] = ExitFilledAtExchange(u)'
      BY Zenon DEF exited
    <2>2. ExitFilledAtExchange(u) \in BOOLEAN /\ ExitFilledAtExchange(u)' \in BOOLEAN
      BY DEF ExitFilledAtExchange
    <2> QED BY <2>1, <2>2
  <1>4. /\ exited = [u \in Trades |-> exited[u]]
        /\ exited' = [u \in Trades |-> exited'[u]]
    BY DEF exited
  <1>5. ASSUME NEW o \in OrderIds, NEW s \in Reports, ExchangeProgress(o, s)
        PROVE  Promise!Next \/ UNCHANGED Promise!promise
    <2>1. ord[o] \in Order /\ ord[o].trade \in Trades
      BY <1>1 DEF CoreType, Order
    <2>2. PICK t \in Trades : t = ord[o].trade
      BY <2>1
    <2>3. /\ \A p \in OrderIds \ {o} : ord'[p] = ord[p]
          /\ ord'[o].trade = t /\ ord'[o].kind = ord[o].kind
          /\ ord'[o].hist = ord[o].hist \cup {s}
      BY <1>1, <1>5, <2>1, <2>2 DEF ExchangeProgress, CoreType, Order
    <2>4. CASE s = "Filled" /\ ord[o].kind \in {"stop", "tp", "close"}
      <3>1. ASSUME NEW u \in Trades \ {t}
            PROVE  ExitFilledAtExchange(u)' <=> ExitFilledAtExchange(u)
        BY <2>2, <2>3 DEF ExitFilledAtExchange
      <3>2. ExitFilledAtExchange(t)'
        BY <2>3, <2>4 DEF ExitFilledAtExchange
      <3>3. \A u \in Trades : exited'[u] = IF u = t THEN TRUE ELSE exited[u]
        BY <3>1, <3>2, <1>3
      <3>4. exited' = [exited EXCEPT ![t] = TRUE]
        BY <3>3, <1>4
      <3>5. book' = book
        BY <1>2 DEF book
      <3>6. Promise!Exit(t)
        BY <3>4, <3>5, <1>2 DEF Promise!Exit
      <3> QED BY <3>6 DEF Promise!Next
    <2>5. CASE ~(s = "Filled" /\ ord[o].kind \in {"stop", "tp", "close"})
      <3>1. ASSUME NEW u \in Trades
            PROVE  ExitFilledAtExchange(u)' <=> ExitFilledAtExchange(u)
        BY <2>2, <2>3, <2>5 DEF ExitFilledAtExchange
      <3>2. exited' = exited
        BY <3>1, <1>3, <1>4
      <3> QED BY <3>2, <1>2, Stutter
    <2> QED BY <2>4, <2>5
  <1>6. ASSUME NEW t \in Trades, EntryArrives(t)
        PROVE  UNCHANGED Promise!promise
    <2>1. t \in OrderIds /\ ord[t] \in Order /\ ord[t].hist = {}
      BY <1>1, <1>6, Bounds DEF CoreType, OrdersInv, EntryArrives
    <2>2. /\ \A p \in OrderIds \ {t} : ord'[p] = ord[p]
          /\ ord'[t].hist = {}
      BY <1>1, <1>6, <2>1 DEF EntryArrives, CoreType, Order
    <2>3. ASSUME NEW u \in Trades
          PROVE  ExitFilledAtExchange(u)' <=> ExitFilledAtExchange(u)
      BY <2>1, <2>2 DEF ExitFilledAtExchange
    <2>4. exited' = exited
      BY <2>3, <1>3, <1>4
    <2> QED BY <2>4, <1>2, Stutter
  <1> QED BY <1>5, <1>6 DEF Exchange

(* A step that leaves rows and orders alone.                                *)
LEMMA SamePromise ==
    ASSUME UNCHANGED <<row, ord, outcomes, stale>>
    PROVE  UNCHANGED Promise!promise
  <1>1. exited' = exited
    BY DEF exited, ExitFilledAtExchange
  <1> QED BY <1>1, Stutter

(* The WebSocket handler.                                                   *)
LEMMA WebSocketPromise ==
    ASSUME IndInv, WebSocket
    PROVE  Promise!Next \/ UNCHANGED Promise!promise
  <1>1. PICK t \in Trades, o \in OrderIds, s \in Reports : WsOrder(t, o, s)
    BY DEF WebSocket
  <1>2. Core /\ LinksInv(row[t], t)
    BY IndInvParts DEF Core
  <1>3. PICK full \in BOOLEAN, r \in CallReplies :
            \E e : /\ e = apply_order_update(row[t], o, s, full, last, r)
                   /\ Commit(t, row[t], e) \/ RollBack(t, e)
    BY <1>1 DEF WsOrder
  <1>4. PICK e : /\ e = apply_order_update(row[t], o, s, full, last, r)
                 /\ Commit(t, row[t], e) \/ RollBack(t, e)
    BY <1>3
  <1>5. PICK x : x = row[t]
    OBVIOUS
  <1>6. Loaded(t, x) /\ LinksInv(x, t) /\ s \in ord[o].hist /\ (IsExitLink(x, o) \/ o = t)
    BY <1>1, <1>2, <1>5, RowLoaded DEF WsOrder, Linked, IsExitLink
  <1>7. e = apply_order_update(x, o, s, full, last, r)
    BY <1>4, <1>5
  <1>8. Commit(t, x, e) \/ RollBack(t, e)
    BY <1>4, <1>5 DEF Commit
  <1> QED BY <1>2, <1>6, <1>7, <1>8, UpdatePromise

(* A status the worker read, the answer to it, and what becomes of both.    *)
LEMMA WorkerPromise ==
    ASSUME RefInv, NEW t \in Trades, Worker(t)
    PROVE  Promise!Next \/ UNCHANGED Promise!promise
  <1>1. Core /\ FlowType /\ CopiesInv /\ LoadedStatuses
    BY IndInvParts DEF RefInv
  <1>2. t \in rec.todo
    BY DEF Worker, RecApply, RecSkip, RecProtect
  <1>3. PICK x : x = rec.loaded[t]
    OBVIOUS
  <1>4. Loaded(t, x) /\ LinksInv(x, t)
    BY <1>1, <1>2, <1>3, CopyLoaded
  <1>5. CASE RecApply(t)
    <2>1. PICK o, s : o = tracked_order_link_id(x, t) /\ s = rec.reply[t]
      OBVIOUS
    <2>2. s \in Reports
      BY <1>5, <2>1 DEF RecApply
    <2>3. o \in OrderIds
      BY <2>1, <1>1, <1>4, TrackedIsOrder DEF Core
    <2>4. s \in ord[o].hist
      BY <2>1, <2>2, <1>1, <1>2, <1>3 DEF CopiesInv
    <2>5. IsExitLink(x, o) \/ o = t
      BY <2>1 DEF tracked_order_link_id, IsExitLink
    <2>6. PICK full \in BOOLEAN, r \in CallReplies :
            \E e : /\ e = apply_order_update(rec.loaded[t],
                              tracked_order_link_id(rec.loaded[t], t),
                              rec.reply[t], full, last, r)
                   /\ Commit(t, rec.loaded[t], e) \/ RollBack(t, e)
      BY <1>5 DEF RecApply
    <2>7. PICK e : /\ e = apply_order_update(rec.loaded[t],
                              tracked_order_link_id(rec.loaded[t], t),
                              rec.reply[t], full, last, r)
                   /\ Commit(t, rec.loaded[t], e) \/ RollBack(t, e)
      BY <2>6
    <2>8. e = apply_order_update(x, o, s, full, last, r)
      BY <2>7, <2>1, <1>3
    <2>9. Commit(t, x, e) \/ RollBack(t, e)
      BY <2>7, <1>3 DEF Commit
    <2> QED BY <2>2, <2>3, <2>4, <2>5, <2>8, <2>9, <1>1, <1>4, UpdatePromise
  <1>6. CASE RecSkip(t)
    BY <1>6, SamePromise DEF RecSkip
  <1>7. CASE RecProtect(t)
    <2>1. PICK r \in CallReplies :
            \E e : /\ e = ensure_spot_market_protection(rec.loaded[t], last, r)
                   /\ Commit(t, rec.loaded[t], e) \/ RollBack(t, e)
      BY <1>7 DEF RecProtect
    <2>2. PICK e : /\ e = ensure_spot_market_protection(rec.loaded[t], last, r)
                   /\ Commit(t, rec.loaded[t], e) \/ RollBack(t, e)
      BY <2>1
    <2>3. Commit(t, x, e) \/ RollBack(t, e)
      BY <2>2, <1>3 DEF Commit
    <2>4. x \in LooseRow /\ last \in Nat
      BY <1>1, <1>4, RowIsLoose, Bounds DEF Loaded, Core, CoreType
    <2>5. e = ensure_spot_market_protection(x, last, r)
      BY <2>2, <1>3
    <2>6. e \in EffectSet /\ Quiet(e, x)
      BY <2>4, <2>5, ProtectionEffect
    <2>7. e.obj.status \in {x.status, "POSITION_CLOSE_PENDING", "POSITION_CLOSE_FAILED"}
      BY <2>4, <2>5, ProtectionStatus
    <2>8. x.status \in {"ORDER_CONFIRMED", "POSITION_OPEN"}
      BY <1>1, <1>2, <1>3, <1>7 DEF LoadedStatuses, RecProtect
    <2>9. x.status \in Status /\ e.obj.status \in Status
      BY <2>4, <2>6 DEF EffectSet, LooseRow
    <2>10. Moves(x, e)
      BY <2>6, <2>7, <2>8, <2>9, BookOfStatus DEF Moves, Quiet
    <2>11. Justified(t, x, e)
      BY <2>6 DEF Justified, Quiet
    <2> QED BY <2>3, <2>6, <2>10, <2>11, <1>1, <1>4, CommitPromise, RollBackPromise
  <1> QED BY <1>5, <1>6, <1>7 DEF Worker

(* A close request writes over whatever the row has become since it read a  *)
(* status it may close.                                                     *)
LEMMA CloseSubmitPromise ==
    ASSUME RefInv, NEW c \in Closers, NEW reply \in Replies, CloseSubmit(c, reply)
    PROVE  Promise!Next \/ UNCHANGED Promise!promise
  <1>1. Core /\ FlowType /\ LoadedStatuses
    BY IndInvParts DEF RefInv
  <1>2. PICK t, st : t = closing[c].trade /\ st = closing[c].loaded
    OBVIOUS
  <1>3. t \in Trades /\ st \in Status /\ st \in CloseRetryable
    BY <1>1, <1>2, Bounds DEF FlowType, Trades, CloseSubmit, LoadedStatuses
  <1>4. PICK x : x = [row[t] EXCEPT !.status = st]
    OBVIOUS
  <1>5. Loaded(t, x) /\ x \in LooseRow /\ x.status = st /\ last \in Nat
    BY <1>1, <1>3, <1>4, StatusCopyLoaded, Bounds DEF Core, CoreType
  <1>6. PICK obj : obj = [x EXCEPT !.status = "POSITION_CLOSE_PENDING", !.close = last + 1]
    OBVIOUS
  <1>7. obj \in LooseRow /\ obj.status = "POSITION_CLOSE_PENDING"
    <2>1. "POSITION_CLOSE_PENDING" \in Status /\ last + 1 \in Nat
      BY <1>5 DEF Status
    <2>2. obj = [status |-> "POSITION_CLOSE_PENDING", type |-> x.type, filled |-> x.filled,
                 stop |-> x.stop, tp |-> x.tp, close |-> last + 1]
      BY <1>5, <1>6 DEF LooseRow
    <2> QED BY <2>1, <2>2, <1>5 DEF LooseRow
  <1>8. PICK e : e = [Effect(obj) EXCEPT !.exit = "close"]
    OBVIOUS
  <1>9. e = [obj |-> obj, stop |-> FALSE, exit |-> "close", kill |-> FALSE,
             ready |-> TRUE, counted |-> FALSE, lost |-> 0]
    BY <1>8 DEF Effect
  <1>10. e \in EffectSet
    BY <1>7, <1>9 DEF EffectSet
  <1>11. Justified(t, x, e)
    BY <1>7, <1>9 DEF Justified
  <1>12. Moves(x, e)
    <2>1. e.obj.status = "POSITION_CLOSE_PENDING" /\ ~e.counted /\ x.status # "PNL_RECORDED"
      BY <1>3, <1>5, <1>7, <1>9 DEF CloseRetryable
    <2> QED BY <2>1, BookOfStatus DEF Moves, Status
  <1>13. \/ Commit(t, x, e)
         \/ RollBack(t, e)
         \/ UNCHANGED <<row, ord, last, raised, outcomes, stale, faults>>
    <2> DEFINE E(y) == [Effect([y EXCEPT !.status = "POSITION_CLOSE_PENDING",
                                        !.close = last + 1]) EXCEPT !.exit = "close"]
               X == [row[closing[c].trade] EXCEPT !.status = closing[c].loaded]
    <2>1. \/ Commit(closing[c].trade, X, E(X))
          \/ RollBack(closing[c].trade, E(X))
          \/ UNCHANGED <<row, ord, last, raised, outcomes, stale, faults>>
      BY DEF CloseSubmit
    <2>2. X = x /\ E(X) = e /\ closing[c].trade = t
      BY <1>2, <1>4, <1>6, <1>8
    <2> HIDE DEF E, X
    <2>3. CASE Commit(closing[c].trade, X, E(X))
      BY <2>2, <2>3 DEF Commit, PlaceOrders, WithinBounds
    <2>4. CASE RollBack(closing[c].trade, E(X))
      BY <2>2, <2>4 DEF RollBack, PlaceOrders, WithinBounds
    <2> QED BY <2>1, <2>3, <2>4
  <1> QED BY <1>1, <1>3, <1>5, <1>10, <1>11, <1>12, <1>13, CommitPromise,
             RollBackPromise, SamePromise

(* A replayed request writes the answer over ORDER_PENDING_UNKNOWN.         *)
LEMMA ReplayPromise ==
    ASSUME IndInv, reconcile_pending_unknown
    PROVE  Promise!Next \/ UNCHANGED Promise!promise
  <1>1. Core /\ FlowType
    BY IndInvParts
  <1>2. PICK t, s : t = replay.trade /\ s = replay.reply
    OBVIOUS
  <1>3. t \in Trades
    BY <1>1, <1>2, Bounds DEF FlowType, Trades, reconcile_pending_unknown
  <1>4. PICK x : x = [row[t] EXCEPT !.status = "ORDER_PENDING_UNKNOWN"]
    OBVIOUS
  <1>5. Loaded(t, x) /\ x \in LooseRow /\ x.status = "ORDER_PENDING_UNKNOWN" /\ last \in Nat
    <2>1. "ORDER_PENDING_UNKNOWN" \in Status
      BY DEF Status
    <2>2. last \in Nat
      BY <1>1, Bounds DEF Core, CoreType
    <2> QED BY <2>1, <2>2, <1>1, <1>3, <1>4, StatusCopyLoaded
  <1>6. PICK e : e = Effect(IF s \in Reports
                            THEN [x EXCEPT !.status = OrderStatusMap[s]] ELSE x)
    OBVIOUS
  <1>7. e \in EffectSet /\ Quiet(e, x)
    <2>1. CASE s \in Reports
      BY <2>1, <1>5, <1>6, StatusOnly, StatusMapType
    <2>2. CASE s \notin Reports
      BY <2>2, <1>5, <1>6, NoEffect
    <2> QED BY <2>1, <2>2
  <1>8. Justified(t, x, e)
    BY <1>7 DEF Justified, Quiet
  <1>9. Moves(x, e)
    <2>1. ~e.counted /\ e.obj.status # "PNL_RECORDED"
      BY <1>5, <1>7 DEF Quiet
    <2>2. BookOf(x.status) # "position"
      BY <1>5, BookOfStatus DEF Status
    <2> QED BY <2>1, <2>2, <1>5 DEF Moves
  <1>10. Commit(t, x, e)
    BY <1>2, <1>4, <1>6 DEF reconcile_pending_unknown, Commit, PlaceOrders, WithinBounds
  <1> QED BY <1>1, <1>3, <1>5, <1>7, <1>8, <1>9, <1>10, CommitPromise

(* Every step of the lifecycle is a step of the promise or a stutter.       *)
LEMMA StepPromise ==
    ASSUME RefInv, [Next]_vars
    PROVE  [Promise!Next]_(Promise!promise)
  <1>1. IndInv
    BY DEF RefInv
  <1>2. CASE Exchange
    BY <1>1, <1>2, ExchangePromise
  <1>3. CASE WebSocket
    BY <1>1, <1>3, WebSocketPromise
  <1>4. CASE RecList
    BY <1>4, SamePromise DEF RecList
  <1>5. CASE \E t \in Trades : Worker(t)
    BY <1>5, WorkerPromise
  <1>6. CASE PositionManager
    <2>1. CASE \E c \in Closers, reply \in Replies : CloseSubmit(c, reply)
      BY <2>1, CloseSubmitPromise
    <2>2. CASE ~\E c \in Closers, reply \in Replies : CloseSubmit(c, reply)
      BY <2>2, <1>6, SamePromise
         DEF PositionManager, ClientClose, CloseRead, MonitorScan, MonitorClose, MonitorRefused
    <2> QED BY <2>1, <2>2
  <1>7. CASE Replay
    BY <1>1, <1>7, ReplayPromise, SamePromise DEF Replay, ReplayRead
  <1>8. CASE Crash
    BY <1>8, SamePromise DEF Crash
  <1>9. CASE UNCHANGED vars
    BY <1>9, SamePromise DEF vars
  <1> QED BY <1>2, <1>3, <1>4, <1>5, <1>6, <1>7, <1>8, <1>9 DEF Next

(* What the executor hands over is an entry, perhaps partially filled.      *)
LEMMA InitPromise == Init => Promise!Init
  <1> SUFFICES ASSUME Init PROVE Promise!Init
    OBVIOUS
  <1>1. PICK h \in [Trades -> Handover] :
          /\ row = [t \in Trades |-> [Blank EXCEPT !.status = h[t].status,
                                                  !.type = h[t].type]]
          /\ ord = [o \in OrderIds |->
                       IF o \in Trades
                       THEN [kind |-> h[o].kind, trade |-> o, hist |-> h[o].hist]
                       ELSE NewOrder("none", 1)]
    BY DEF Init
  <1>2. ASSUME NEW t \in Trades
        PROVE  BookOf(row[t].status) \in {"entry", "partial"} /\ h[t].kind \in {"none", "entry"}
    <2>1. h[t] \in Handover
      OBVIOUS
    <2>2. /\ h[t].kind \in {"none", "entry"}
          /\ h[t].status \in Status \ {"POSITION_OPEN", "PNL_RECORDED",
                                       "POSITION_CLOSE_PENDING", "POSITION_CLOSE_FAILED"}
      BY <2>1 DEF Handover, OrderStatusMap, Reports, Status
    <2>3. row[t].status = h[t].status
      BY <1>1 DEF Blank
    <2> QED BY <2>2, <2>3, BookOfStatus
  <1>3. book \in [Trades -> {"entry", "partial"}]
    BY <1>2 DEF book
  <1>4. ASSUME NEW t \in Trades PROVE ~ExitFilledAtExchange(t)
    <2>1. ASSUME NEW o \in OrderIds PROVE ord[o].kind \in {"none", "entry"}
      BY <1>1, <1>2 DEF NewOrder
    <2> QED BY <2>1 DEF ExitFilledAtExchange
  <1>5. exited = [t \in Trades |-> FALSE]
    <2>1. exited = [t \in Trades |-> ExitFilledAtExchange(t)]
      BY DEF exited
    <2>2. ASSUME NEW t \in Trades PROVE ExitFilledAtExchange(t) = FALSE
      <3>1. ExitFilledAtExchange(t) \in BOOLEAN
        BY Zenon DEF ExitFilledAtExchange
      <3> QED BY <1>4, <3>1
    <2>3. [t \in Trades |-> ExitFilledAtExchange(t)] = [t \in Trades |-> FALSE]
      BY <2>2, Zenon
    <2> QED BY <2>1, <2>3
  <1>6. outcomes = [t \in Trades |-> 0] /\ stale = [t \in Trades |-> FALSE]
    BY DEF Init
  <1> QED BY <1>3, <1>5, <1>6 DEF Promise!Init

-----------------------------------------------------------------------------
(* For every number of trades, orders, clients and faults the engine, the   *)
(* position manager and the replayed requests keep the promise: a position  *)
(* stays in the books until its exit is recorded, an exit is recorded only  *)
(* after the exchange filled one and counted in the step that records it,   *)
(* until an outdated copy is written over the row (_apply_order_update,     *)
(* close_trade, reconcile_once).                                            *)
THEOREM PromiseIsKept == Spec => PromiseKept
  <1>1. Init => Promise!Init /\ RefInv
    BY InitPromise, RefInductive
  <1>2. RefInv /\ [Next]_vars => RefInv' /\ [Promise!Next]_(Promise!promise)
    BY RefInductive, StepPromise
  <1> QED BY <1>1, <1>2, PTL DEF Spec, PromiseKept, Promise!Spec

-----------------------------------------------------------------------------
(* What the promise is worth: an outcome is counted once. *)

(* While no outdated copy was written, what is counted is what the books    *)
(* show as recorded.                                                        *)
CountedIsRecorded ==
    /\ book \in [Trades -> {"entry", "partial", "position", "recorded"}]
    /\ outcomes \in [Trades -> Nat]
    /\ stale \in [Trades -> BOOLEAN]
    /\ \A t \in Trades : ~stale[t] => outcomes[t] = One(book[t] = "recorded")

(* It follows from the promise alone.                                       *)
LEMMA CountedKeeps ==
    /\ Promise!Init => CountedIsRecorded
    /\ CountedIsRecorded /\ [Promise!Next]_(Promise!promise) => CountedIsRecorded'
  <1>1. Promise!Init => CountedIsRecorded
    BY DEF Promise!Init, CountedIsRecorded, One
  <1>2. ASSUME CountedIsRecorded, NEW t \in Trades, Promise!Exit(t) \/ Promise!Follow(t)
        PROVE  CountedIsRecorded'
    BY <1>2 DEF CountedIsRecorded, Promise!Exit, Promise!Follow, Promise!Books, One
  <1>3. ASSUME CountedIsRecorded, NEW t \in Trades, Promise!Record(t)
        PROVE  CountedIsRecorded'
    BY <1>3 DEF CountedIsRecorded, Promise!Record, One
  <1>4. ASSUME CountedIsRecorded, NEW t \in Trades, Promise!Tear(t)
        PROVE  CountedIsRecorded'
    BY <1>4 DEF CountedIsRecorded, Promise!Tear, Promise!Books, One
  <1>5. ASSUME CountedIsRecorded, UNCHANGED Promise!promise
        PROVE  CountedIsRecorded'
    BY <1>5 DEF CountedIsRecorded, Promise!promise, One
  <1> QED BY <1>1, <1>2, <1>3, <1>4, <1>5 DEF Promise!Next

(* For every number of trades, orders, clients and faults the outcome of a  *)
(* trade is counted exactly once, in the transaction that records it, and   *)
(* the record is final (ExitFilled, Commit): the promise says so, and the   *)
(* code keeps it.                                                           *)
THEOREM OutcomeIsCountedOnce == Spec => []OutcomeCountedOnce
  <1>1. IndInv /\ CountedIsRecorded => OutcomeCountedOnce
    <2> SUFFICES ASSUME IndInv, CountedIsRecorded, NEW t \in Trades, ~stale[t]
                 PROVE  outcomes[t] = One(row[t].status = "PNL_RECORDED")
      BY DEF OutcomeCountedOnce
    <2>1. row[t].status \in Status
      <3>1. Core
        BY IndInvParts
      <3> QED BY <3>1 DEF Core, CoreType, Row
    <2>2. book[t] = "recorded" <=> row[t].status = "PNL_RECORDED"
      BY <2>1, BookOfStatus DEF book
    <2> QED BY <2>2 DEF CountedIsRecorded, One
  <1>2. RefInv => IndInv
    BY DEF RefInv
  <1> QED BY <1>1, <1>2, InitPromise, RefInductive, StepPromise, CountedKeeps, PTL DEF Spec

=============================================================================
