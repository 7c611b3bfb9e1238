------------------------ MODULE TradeLifecycleProofs ------------------------
(***************************************************************************)
(* The safety of a trade's life, for every number of trades, orders,       *)
(* faults and close requests.  First that recorded exits were filled and   *)
(* open positions are protected, then that failures are met with care: an  *)
(* unsent close stops trading, no protective order is placed twice or      *)
(* lost, and no position is dropped.                                       *)
(*                                                                         *)
(* No property is inductive: an outdated copy of the worker could carry a  *)
(* status or a link that the row has lost.  IndInv says what such a copy   *)
(* may look like (CopiesInv) and whom a link id belongs to (OrdersInv,     *)
(* LinksInv).  The proof goes from what one update does to a copy          *)
(* (UpdateEffect), to what one transaction does to the committed state     *)
(* (CommitStep, RollBackStep), to the actions.  CareInv adds what rows     *)
(* keep that no outdated copy was written over (RowsInv), and that a       *)
(* protection pass works on copies that lack a stop (ListedInv).           *)
(***************************************************************************)
EXTENDS TradeLifecycle, TLAPS

(* A row whose links are any ids: they are bounded only once they are       *)
(* placed.                                                                  *)
LooseRow == [status : Status, type : {"Limit", "Market"}, filled : BOOLEAN,
             stop : Nat, tp : Nat, close : Nat]

EffectSet == [obj : LooseRow, stop : BOOLEAN,
              exit : {"none", "tp", "close", "void"}, kill : BOOLEAN,
              ready : BOOLEAN, counted : BOOLEAN, lost : 0..2]

(* Effect e of an update to copy obj names a new order only if it places    *)
(* it, under the next free id after n.                                      *)
NewLinks(e, obj, n) ==
    /\ e.obj.type = obj.type
    /\ e.obj.stop = obj.stop \/ (e.stop /\ e.obj.stop = n + 1)
    /\ e.obj.tp = obj.tp \/ (e.exit = "tp" /\ e.obj.tp = n + 1 + One(e.stop))
    /\ \/ e.obj.close = obj.close
       \/ e.exit \in {"close", "void"} /\ e.obj.close = n + 1 + One(e.stop)
    /\ e.obj.status = "POSITION_CLOSE_PENDING" =>
          obj.status = e.obj.status \/ e.obj.close = n + 1 + One(e.stop)

(* Effect e neither opens the position nor records or counts its outcome.   *)
Quiet(e, obj) ==
    /\ ~e.counted
    /\ e.obj.status \in {"POSITION_OPEN", "PNL_RECORDED"} => e.obj.status = obj.status

(* What an order reports never maps to a status of the position itself.     *)
LEMMA StatusMapType ==
    \A s \in Reports : OrderStatusMap[s] \in Status
                          \ {"POSITION_OPEN", "POSITION_CLOSE_PENDING", "PNL_RECORDED"}
  BY DEF OrderStatusMap, Reports, Status

(* An ignored update has no effect.                                         *)
LEMMA NoEffect ==
    ASSUME NEW obj \in LooseRow, NEW n \in Nat
    PROVE  /\ Effect(obj) \in EffectSet
           /\ NewLinks(Effect(obj), obj, n)
           /\ Quiet(Effect(obj), obj)
           /\ Effect(obj).ready
  BY DEF Effect, EffectSet, LooseRow, NewLinks, Quiet

(* The emergency close names a fresh link and leaves the position not       *)
(* ready.                                                                   *)
LEMMA EmergencyCloseEffect ==
    ASSUME NEW obj \in LooseRow, NEW n \in Nat, NEW r \in CallReplies
    PROVE  LET e == handle_stop_loss_submission_failure(obj, n, r)
           IN  e \in EffectSet /\ NewLinks(e, obj, n) /\ Quiet(e, obj) /\ ~e.ready
  <1> DEFINE e == handle_stop_loss_submission_failure(obj, n, r)
             sent == r.stop = "lost"
             link == n + 1 + One(sent)
  <1>1. sent \in BOOLEAN /\ One(sent) \in {0, 1} /\ link \in Nat
    BY DEF One
  <1>2. One(r.exit = "lost") \in {0, 1}
    BY DEF One
  <1>3. e.obj = [obj EXCEPT !.close = link, !.status = IF r.exit = "accepted"
                                       THEN "POSITION_CLOSE_PENDING"
                                       ELSE "POSITION_CLOSE_FAILED"]
    BY DEF handle_stop_loss_submission_failure, EmergencyClose
  <1>4. e.obj \in LooseRow
    BY <1>1, <1>3 DEF LooseRow, Status
  <1>5. e \in EffectSet /\ ~e.ready
    BY <1>1, <1>2, <1>4 DEF EffectSet, handle_stop_loss_submission_failure, EmergencyClose
  <1>6. e.stop = sent /\ e.exit \in {"close", "void"} /\ ~e.counted
    BY DEF handle_stop_loss_submission_failure, EmergencyClose
  <1>7. NewLinks(e, obj, n)
    BY <1>3, <1>6 DEF NewLinks, LooseRow
  <1>8. Quiet(e, obj)
    BY <1>3, <1>6 DEF Quiet, LooseRow
  <1> QED BY <1>5, <1>7, <1>8

(* A spot market position that is ready has a stop link.                    *)
LEMMA ProtectionEffect ==
    ASSUME NEW obj \in LooseRow, NEW n \in Nat, NEW r \in CallReplies
    PROVE  LET e == ensure_spot_market_protection(obj, n, r)
           IN  /\ e \in EffectSet /\ NewLinks(e, obj, n) /\ Quiet(e, obj)
               /\ e.ready /\ obj.type = "Market" => e.obj.stop # NoOrder
  <1> DEFINE e == ensure_spot_market_protection(obj, n, r)
             stopDue == obj.stop = NoOrder
             link == n + 1 + One(stopDue)
             armed == IF stopDue THEN [obj EXCEPT !.stop = n + 1] ELSE obj
             both == IF r.exit = "accepted" THEN [armed EXCEPT !.tp = link]
                                            ELSE armed
  <1>1. stopDue \in BOOLEAN /\ One(stopDue) \in {0, 1} /\ link \in Nat
    BY DEF One
  <1>2. CASE obj.type # "Market"
    <2>1. e = Effect(obj)
      BY <1>2 DEF ensure_spot_market_protection, ArmProtection
    <2> QED BY <2>1, <1>2, NoEffect
  <1>3. CASE obj.type = "Market" /\ stopDue /\ r.stop # "accepted"
    <2>1. e = handle_stop_loss_submission_failure(obj, n, r)
      BY <1>3 DEF ensure_spot_market_protection, ArmProtection
    <2> QED BY <2>1, EmergencyCloseEffect
  <1>4. ASSUME obj.type = "Market", ~(stopDue /\ r.stop # "accepted")
        PROVE  /\ e \in EffectSet /\ NewLinks(e, obj, n) /\ Quiet(e, obj)
               /\ e.obj.stop # NoOrder
    <2>1. /\ armed \in LooseRow /\ armed.stop # NoOrder /\ both \in LooseRow
          /\ armed.status = obj.status /\ armed.type = obj.type
          /\ armed.tp = obj.tp /\ armed.close = obj.close
          /\ armed.stop = IF stopDue THEN n + 1 ELSE obj.stop
      BY <1>1 DEF LooseRow, NoOrder
    <2>2. /\ both.status = obj.status /\ both.type = obj.type
          /\ both.close = obj.close /\ both.stop = armed.stop
          /\ both.tp = IF r.exit = "accepted" THEN link ELSE obj.tp
      BY <2>1 DEF LooseRow
    <2>3. CASE obj.tp # NoOrder \/ r.exit = "refused"
      <3>1. e = [Effect(armed) EXCEPT !.stop = stopDue]
        BY <1>4, <2>3 DEF ensure_spot_market_protection, ArmProtection
      <3>2. e = [obj |-> armed, stop |-> stopDue, exit |-> "none", kill |-> FALSE,
                 ready |-> TRUE, counted |-> FALSE, lost |-> 0]
        BY <3>1 DEF Effect
      <3>3. e \in EffectSet
        BY <3>2, <2>1 DEF EffectSet
      <3>4. e.obj = armed /\ e.stop = stopDue /\ ~e.counted
        BY <3>2
      <3>5. NewLinks(e, obj, n)
        BY <3>4, <2>1 DEF NewLinks
      <3>6. Quiet(e, obj)
        BY <3>4, <2>1 DEF Quiet
      <3> QED BY <3>3, <3>4, <3>5, <3>6, <2>1
    <2>4. CASE ~(obj.tp # NoOrder \/ r.exit = "refused")
      <3>1. e = [Effect(both) EXCEPT !.stop = stopDue, !.exit = "tp",
                                     !.lost = One(r.exit = "lost")]
        BY <1>4, <2>4 DEF ensure_spot_market_protection, ArmProtection
      <3>2. e = [obj |-> both, stop |-> stopDue, exit |-> "tp", kill |-> FALSE,
                 ready |-> TRUE, counted |-> FALSE, lost |-> One(r.exit = "lost")]
        BY <3>1 DEF Effect
      <3>3. One(r.exit = "lost") \in 0..2
        BY DEF One
      <3>4. e \in EffectSet
        BY <3>2, <3>3, <2>1 DEF EffectSet
      <3>5. e.obj = both /\ e.stop = stopDue /\ e.exit = "tp" /\ ~e.counted
        BY <3>2
      <3>6. NewLinks(e, obj, n)
        BY <3>5, <2>1, <2>2 DEF NewLinks
      <3>7. Quiet(e, obj)
        BY <3>5, <2>2 DEF Quiet
      <3> QED BY <3>4, <3>5, <3>6, <3>7, <2>1, <2>2
    <2> QED BY <2>3, <2>4
  <1> QED BY <1>2, <1>3, <1>4

(* Why effect e of report s on order o may count, record or open.           *)
EntryOpens(e, obj, o, s) ==
    /\ e.counted => s = "Filled" /\ IsExitLink(obj, o)
    /\ e.obj.status = "PNL_RECORDED" => obj.status = "PNL_RECORDED" \/ e.counted
    /\ e.obj.status = "POSITION_OPEN" =>
          \/ obj.status = "POSITION_OPEN"
          \/ /\ s = "Filled" /\ ~IsExitLink(obj, o)
             /\ obj.type = "Market" => e.obj.stop # NoOrder

(* An update of the status column alone.                                    *)
LEMMA StatusOnly ==
    ASSUME NEW obj \in LooseRow, NEW n \in Nat, NEW st \in Status,
           st \notin {"POSITION_OPEN", "POSITION_CLOSE_PENDING", "PNL_RECORDED"}
    PROVE  LET e == Effect([obj EXCEPT !.status = st])
           IN e \in EffectSet /\ NewLinks(e, obj, n) /\ Quiet(e, obj)
  <1> DEFINE x == [obj EXCEPT !.status = st]
  <1>1. x \in LooseRow /\ x.status = st /\ x.type = obj.type
        /\ x.stop = obj.stop /\ x.tp = obj.tp /\ x.close = obj.close
    BY DEF LooseRow
  <1>2. Effect(x) \in EffectSet /\ Effect(x).obj = x /\ ~Effect(x).counted
    BY <1>1 DEF Effect, EffectSet
  <1> QED BY <1>1, <1>2 DEF NewLinks, Quiet

(* A filled entry opens the position only with its stop in place.           *)
LEMMA EntryFilledEffect ==
    ASSUME NEW obj \in LooseRow, NEW o, NEW full \in BOOLEAN, NEW n \in Nat,
           NEW r \in CallReplies, ~IsExitLink(obj, o)
    PROVE  LET e == EntryFilled(obj, full, n, r)
           IN  /\ e \in EffectSet /\ NewLinks(e, obj, n)
               /\ EntryOpens(e, obj, o, "Filled")
  <1> DEFINE e == EntryFilled(obj, full, n, r)
             c == [obj EXCEPT !.status = "ORDER_CONFIRMED", !.filled = TRUE]
             armed == ensure_spot_market_protection(c, n, r)
             open == [armed.obj EXCEPT !.status = "POSITION_OPEN"]
  <1>1. /\ c \in LooseRow /\ c.status = "ORDER_CONFIRMED" /\ c.type = obj.type
        /\ c.stop = obj.stop /\ c.tp = obj.tp /\ c.close = obj.close
    BY DEF LooseRow, Status
  <1>2. /\ armed \in EffectSet /\ NewLinks(armed, c, n) /\ Quiet(armed, c)
        /\ armed.ready /\ c.type = "Market" => armed.obj.stop # NoOrder
    BY <1>1, ProtectionEffect
  <1>3. CASE ~full
    <2>1. e = Effect(c)
      BY <1>3 DEF EntryFilled
    <2>2. e \in EffectSet /\ NewLinks(e, c, n) /\ Quiet(e, c) /\ e.obj = c
      BY <2>1, <1>1, NoEffect DEF Effect
    <2> QED BY <2>2, <1>1 DEF NewLinks, Quiet, EntryOpens
  <1>4. CASE full /\ armed.ready
    <2>1. e = [armed EXCEPT !.obj = open]
      BY <1>4 DEF EntryFilled
    <2>2. /\ open \in LooseRow /\ open.status = "POSITION_OPEN"
          /\ open.type = armed.obj.type /\ open.stop = armed.obj.stop
          /\ open.tp = armed.obj.tp /\ open.close = armed.obj.close
      BY <1>2 DEF EffectSet, LooseRow, Status
    <2>3. /\ e \in EffectSet /\ e.obj = open /\ e.stop = armed.stop
          /\ e.exit = armed.exit /\ e.counted = armed.counted
      BY <2>1, <2>2, <1>2 DEF EffectSet
    <2>4. NewLinks(e, obj, n)
      BY <2>2, <2>3, <1>1, <1>2 DEF NewLinks
    <2>5. ~e.counted
      BY <2>3, <1>2 DEF Quiet
    <2>6. obj.type = "Market" => e.obj.stop # NoOrder
      BY <2>2, <2>3, <1>1, <1>2, <1>4
    <2>7. EntryOpens(e, obj, o, "Filled")
      BY <2>2, <2>3, <2>5, <2>6 DEF EntryOpens
    <2> QED BY <2>3, <2>4, <2>7
  <1>5. CASE full /\ ~armed.ready
    <2>1. e = armed
      BY <1>5 DEF EntryFilled
    <2> QED BY <2>1, <1>1, <1>2 DEF NewLinks, Quiet, EntryOpens
  <1> QED BY <1>3, <1>4, <1>5

(* What _apply_order_update may do to a copy, whatever the copy, the report *)
(* and the replies.                                                         *)
LEMMA UpdateEffect ==
    ASSUME NEW obj \in LooseRow, NEW o, NEW s \in Reports, NEW full \in BOOLEAN,
           NEW n \in Nat, NEW r \in CallReplies
    PROVE  LET e == apply_order_update(obj, o, s, full, n, r)
           IN  /\ e \in EffectSet /\ NewLinks(e, obj, n)
               /\ EntryOpens(e, obj, o, s)
  <1> DEFINE e == apply_order_update(obj, o, s, full, n, r)
             isExit == IsExitLink(obj, o)
             ignored == IF isExit THEN should_ignore_close_update(obj)
                                  ELSE should_ignore_entry_update(obj, s)
  <1>1. CASE ignored
    <2>1. e = Effect(obj)
      BY <1>1 DEF apply_order_update
    <2> QED BY <2>1, NoEffect DEF Quiet, EntryOpens
  <1>2. CASE ~ignored /\ s = "Filled" /\ isExit
    <2> DEFINE x == [obj EXCEPT !.status = "PNL_RECORDED"]
    <2>1. e = ExitFilled(obj)
      BY <1>2 DEF apply_order_update
    <2>2. /\ x \in LooseRow /\ x.status = "PNL_RECORDED" /\ x.type = obj.type
          /\ x.stop = obj.stop /\ x.tp = obj.tp /\ x.close = obj.close
      BY DEF LooseRow, Status
    <2>3. e = [obj |-> x, stop |-> FALSE, exit |-> "none", kill |-> FALSE,
               ready |-> TRUE, counted |-> TRUE, lost |-> 0]
      BY <2>1 DEF ExitFilled, Effect
    <2>4. e \in EffectSet
      BY <2>2, <2>3 DEF EffectSet
    <2>5. e.obj = x /\ e.counted
      BY <2>3
    <2>6. NewLinks(e, obj, n)
      BY <2>2, <2>5 DEF NewLinks
    <2>7. EntryOpens(e, obj, o, s)
      BY <1>2, <2>2, <2>5 DEF EntryOpens
    <2> QED BY <2>4, <2>6, <2>7
  <1>3. CASE ~ignored /\ s = "Filled" /\ ~isExit
    <2>1. e = EntryFilled(obj, full, n, r)
      BY <1>3 DEF apply_order_update
    <2> QED BY <1>3, <2>1, EntryFilledEffect
  <1>4. CASE ~ignored /\ s # "Filled" /\ isExit /\ s \in {"Rejected", "Cancelled"}
    <2>1. e = Effect([obj EXCEPT !.status = "POSITION_CLOSE_FAILED"])
      BY <1>4 DEF apply_order_update
    <2>2. e \in EffectSet /\ NewLinks(e, obj, n) /\ Quiet(e, obj)
      BY <2>1, StatusOnly DEF Status
    <2> QED BY <2>2 DEF Quiet, EntryOpens
  <1>5. CASE ~ignored /\ s # "Filled" /\ ~(isExit /\ s \in {"Rejected", "Cancelled"})
    <2>1. e = Effect([obj EXCEPT !.status = OrderStatusMap[s]])
      BY <1>5 DEF apply_order_update
    <2>2. e \in EffectSet /\ NewLinks(e, obj, n) /\ Quiet(e, obj)
      BY <2>1, StatusOnly, StatusMapType
    <2> QED BY <2>2 DEF Quiet, EntryOpens
  <1> QED BY <1>1, <1>2, <1>3, <1>4, <1>5

-----------------------------------------------------------------------------
(* What a transaction does to the committed state. *)

(* TypeOK, of the committed state and of what is in flight.                 *)
CoreType ==
    /\ row \in [Trades -> Row]
    /\ ord \in [OrderIds -> Order]
    /\ last \in NTrades..MaxOrders
    /\ raised \in BOOLEAN
    /\ outcomes \in [Trades -> Nat]
    /\ stale \in [Trades -> BOOLEAN]
    /\ faults \in 0..MaxFaults

FlowType ==
    /\ rec \in [pass : Passes, todo : SUBSET Trades,
                loaded : [Trades -> Row],
                reply : [Trades -> Reports \cup {"New"}]]
    /\ closing \in [Closers -> [trade : 0..NTrades, loaded : Status]]
    /\ decided \in SUBSET Trades
    /\ replay \in [trade : 0..NTrades, reply : Reports \cup {"New"}]

(* The part of IndInv that does not mention what is in flight.              *)
Core ==
    /\ CoreType
    /\ OrdersInv
    /\ \A t \in Trades : LinksInv(row[t], t)
    /\ RecordedExitWasFilled
    /\ OpenPositionIsProtected

(* IndInv, split into the committed state and what is in flight.            *)
LEMMA IndInvParts == IndInv <=> Core /\ FlowType /\ CopiesInv
  BY DEF IndInv, Core, TypeOK, CoreType, FlowType

(* Orders only gain reports, and keep their kind and trade.                 *)
OrdersGrow ==
    \A o \in OrderIds :
        /\ ord[o].hist \subseteq ord'[o].hist
        /\ ord[o].kind # "none" => ord'[o].kind = ord[o].kind
        /\ o \in (NTrades + 1)..last => ord'[o].kind = ord[o].kind
        /\ o <= last => ord'[o].trade = ord[o].trade

(* A row keeps its type and never loses its stop link.                      *)
RowsGrow ==
    /\ last <= last'
    /\ \A t \in Trades : /\ row'[t].type = row[t].type
                         /\ row[t].stop # NoOrder => row'[t].stop # NoOrder

(* The orders an effect places are at the exchange afterwards.              *)
NewOrders(t, e) ==
    /\ e.stop => /\ last + 1 \in OrderIds
                 /\ ord'[last + 1].kind = "stop" /\ ord'[last + 1].trade = t
    /\ e.exit # "none" =>
          LET o == last + 1 + One(e.stop)
          IN  /\ o \in OrderIds /\ o <= last' /\ ord'[o].trade = t
              /\ e.exit = "tp" => ord'[o].kind = "tp"
              /\ e.exit \in {"close", "void"} => ord'[o].kind \in {"none", "close"}

(* The assumption on the constants, unfolded.                               *)
LEMMA Bounds == /\ NTrades \in Nat /\ NTrades > 0 /\ MaxOrders \in Nat
                /\ MaxOrders >= NTrades /\ MaxFaults \in Nat /\ Trades \subseteq OrderIds
  BY BoundsAssumption DEF Trades, OrderIds

(* Placing orders keeps OrdersInv and disturbs no earlier order.            *)
LEMMA PlaceOrdersStep ==
    ASSUME CoreType, OrdersInv, NEW t \in Trades, NEW e \in EffectSet,
           WithinBounds(e), PlaceOrders(t, e)
    PROVE  /\ ord' \in [OrderIds -> Order] /\ last' \in NTrades..MaxOrders
           /\ last' >= last /\ OrdersInv' /\ OrdersGrow /\ NewOrders(t, e)
  <1> DEFINE a == One(e.stop)
             b == One(e.exit # "none")
             k == IF e.exit = "void" THEN "none" ELSE e.exit
  <1>1. a \in {0, 1} /\ b \in {0, 1} /\ (e.stop <=> a = 1) /\ (e.exit # "none" <=> b = 1)
    BY DEF One, EffectSet
  <1>2. last' = last + a + b /\ last \in NTrades..MaxOrders /\ last + a + b <= MaxOrders
    BY <1>1, Bounds DEF PlaceOrders, WithinBounds, Used, CoreType
  <1>3. /\ \A o \in OrderIds : ord'[o] =
              IF e.stop /\ o = last + 1 THEN NewOrder("stop", t)
              ELSE IF e.exit # "none" /\ o = last + 1 + a THEN NewOrder(k, t)
              ELSE ord[o]
        /\ DOMAIN ord' = OrderIds
        /\ ord' = [o \in OrderIds |-> ord'[o]]
    BY DEF PlaceOrders
  <1>4. k \in {"none", "tp", "close"} \/ ~(e.exit # "none")
    BY DEF EffectSet
  <1>5. \A kk \in {"none", "stop", "tp", "close"} :
           /\ NewOrder(kk, t) \in Order /\ NewOrder(kk, t).kind = kk
           /\ NewOrder(kk, t).trade = t /\ NewOrder(kk, t).hist = {}
    BY DEF NewOrder, Order
  <1>6. \A o \in OrderIds : /\ o \in Int /\ o >= 1 /\ o <= MaxOrders
                            /\ ord[o] \in Order
                            /\ o \in Trades <=> o <= NTrades
    BY Bounds DEF OrderIds, Trades, CoreType
  <1>7. \A o \in OrderIds : ord'[o] \in Order
    BY <1>3, <1>4, <1>5, <1>6
  <1>8. ord' \in [OrderIds -> Order]
    BY <1>3, <1>7
  <1>9. last' \in NTrades..MaxOrders /\ last' >= last
    BY <1>1, <1>2, Bounds
  <1>10. \A o \in OrderIds : o > last => ord[o].kind = "none" /\ ord[o].hist = {}
    BY DEF OrdersInv
  <1>11. OrdersInv'
    <2> SUFFICES ASSUME NEW o \in OrderIds
                 PROVE  /\ o > last' => ord'[o].kind = "none"
                        /\ ord'[o].kind = "none" => ord'[o].hist = {}
                        /\ o \in Trades => ord'[o].kind \in {"none", "entry"} /\ ord'[o].trade = o
                        /\ o \notin Trades => ord'[o].kind # "entry"
      BY DEF OrdersInv, OrderIds, Trades
    <2>1. CASE ord'[o] = ord[o]
      BY <2>1, <1>9, <1>2, <1>6 DEF OrdersInv
    <2>2. CASE ord'[o] # ord[o]
      <3>1. o > last /\ o <= last' /\ o \notin Trades
        BY <2>2, <1>1, <1>2, <1>3, <1>6, Bounds
      <3>2. \E kk \in {"none", "stop", "tp", "close"} : ord'[o] = NewOrder(kk, t)
        BY <2>2, <1>3, <1>4
      <3> QED BY <3>1, <3>2, <1>5, <1>9, <1>2, <1>6
    <2> QED BY <2>1, <2>2
  <1>12. OrdersGrow
    <2> SUFFICES ASSUME NEW o \in OrderIds
                 PROVE  /\ ord[o].hist \subseteq ord'[o].hist
                        /\ ord[o].kind # "none" => ord'[o].kind = ord[o].kind
                        /\ o <= last => ord'[o] = ord[o]
      BY <1>2, <1>6, Bounds DEF OrdersGrow
    <2>1. o <= last => ord'[o] = ord[o]
      BY <1>1, <1>2, <1>3, <1>6, Bounds
    <2>2. o > last \/ o <= last
      BY <1>6, <1>2, Bounds
    <2> QED BY <2>1, <2>2, <1>10
  <1>13. NewOrders(t, e)
    <2>1. ASSUME e.stop PROVE last + 1 \in OrderIds /\ ord'[last + 1] = NewOrder("stop", t)
      <3>1. a = 1
        BY <2>1, <1>1
      <3>2. last + 1 \in OrderIds
        BY <3>1, <1>1, <1>2, Bounds DEF OrderIds
      <3> QED BY <2>1, <3>2, <1>3
    <2>2. ASSUME e.exit # "none"
          PROVE  /\ last + 1 + a \in OrderIds /\ last + 1 + a <= last'
                 /\ ord'[last + 1 + a] = NewOrder(k, t)
      <3>1. last + 1 + a \in OrderIds /\ last + 1 + a <= last'
        BY <2>2, <1>1, <1>2, Bounds DEF OrderIds
      <3>2. ~(e.stop /\ last + 1 + a = last + 1)
        BY <1>1, <1>2, Bounds
      <3> QED BY <3>1, <3>2, <2>2, <1>3
    <2> QED BY <2>1, <2>2, <1>4, <1>5 DEF NewOrders
  <1> QED BY <1>8, <1>9, <1>11, <1>12, <1>13

(* The links of a sound copy stay sound while the orders grow.              *)
LEMMA LinksStable ==
    ASSUME NEW x, NEW t \in Trades, LinksInv(x, t), OrdersInv, OrdersGrow,
           last \in NTrades..MaxOrders, last' \in NTrades..MaxOrders, last <= last'
    PROVE  /\ x.stop # NoOrder => /\ x.stop \in OrderIds /\ ord'[x.stop].kind = "stop"
                                  /\ ord'[x.stop].trade = t
           /\ x.tp # NoOrder => /\ x.tp \in OrderIds /\ ord'[x.tp].kind = "tp"
                                /\ ord'[x.tp].trade = t
           /\ x.close # NoOrder => /\ x.close \in (NTrades + 1)..last'
                                   /\ ord'[x.close].kind \in {"none", "close"}
                                   /\ ord'[x.close].trade = t
  <1>1. ASSUME NEW o \in OrderIds, ord[o].kind # "none"
        PROVE  ord'[o].kind = ord[o].kind /\ ord'[o].trade = ord[o].trade
    <2>1. o <= last
      BY <1>1, Bounds DEF OrdersInv, OrderIds
    <2> QED BY <1>1, <2>1 DEF OrdersGrow
  <1>2. ASSUME x.stop # NoOrder
        PROVE  /\ x.stop \in OrderIds /\ ord'[x.stop].kind = "stop"
               /\ ord'[x.stop].trade = t
    <2>1. x.stop \in OrderIds /\ ord[x.stop].kind = "stop" /\ ord[x.stop].trade = t
      BY <1>2 DEF LinksInv
    <2> QED BY <2>1, <1>1
  <1>3. ASSUME x.tp # NoOrder
        PROVE  /\ x.tp \in OrderIds /\ ord'[x.tp].kind = "tp"
               /\ ord'[x.tp].trade = t
    <2>1. x.tp \in OrderIds /\ ord[x.tp].kind = "tp" /\ ord[x.tp].trade = t
      BY <1>3 DEF LinksInv
    <2> QED BY <2>1, <1>1
  <1>4. ASSUME x.close # NoOrder
        PROVE  /\ x.close \in (NTrades + 1)..last'
               /\ ord'[x.close].kind \in {"none", "close"} /\ ord'[x.close].trade = t
    <2>1. /\ x.close \in (NTrades + 1)..last /\ ord[x.close].trade = t
          /\ ord[x.close].kind \in {"none", "close"}
      BY <1>4 DEF LinksInv
    <2>2. x.close \in OrderIds /\ x.close <= last /\ x.close \in (NTrades + 1)..last'
      BY <2>1, Bounds DEF OrderIds
    <2> QED BY <2>1, <2>2 DEF OrdersGrow
  <1> QED BY <1>2, <1>3, <1>4

(* A fill of an exit order is never taken back.                             *)
LEMMA ExitFilledStable ==
    ASSUME OrdersInv, OrdersGrow, ord \in [OrderIds -> Order], NEW t \in Trades,
           last \in NTrades..MaxOrders, ExitFilledAtExchange(t)
    PROVE  ExitFilledAtExchange(t)'
  <1>1. PICK o \in OrderIds : /\ ord[o].trade = t
                              /\ ord[o].kind \in {"stop", "tp", "close"}
                              /\ "Filled" \in ord[o].hist
    BY DEF ExitFilledAtExchange
  <1>2. o \in Int /\ ~(o > last) /\ last \in Int
    BY <1>1, Bounds DEF OrdersInv, OrderIds
  <1>3. ord'[o].trade = t /\ ord'[o].kind = ord[o].kind /\ "Filled" \in ord'[o].hist
    BY <1>1, <1>2 DEF OrdersGrow
  <1> QED BY <1>1, <1>3 DEF ExitFilledAtExchange

(* What a transaction on trade t may rely on: the copy it loaded. *)
Loaded(t, x) ==
    /\ x \in Row /\ x.close <= last /\ x.type = row[t].type
    /\ x.stop # NoOrder => row[t].stop # NoOrder

(* Why effect e on copy x of trade t may count, record or open.             *)
Justified(t, x, e) ==
    /\ e.counted => ExitFilledAtExchange(t)
    /\ e.obj.status = "PNL_RECORDED" => x.status = "PNL_RECORDED" \/ e.counted
    /\ e.obj.status = "POSITION_OPEN" =>
          \/ x.status = "POSITION_OPEN"
          \/ /\ "Filled" \in ord[t].hist
             /\ x.type = "Market" => e.obj.stop # NoOrder

(* A committed transaction keeps the invariant, however old the copy it was *)
(* computed from.                                                           *)
LEMMA CommitStep ==
    ASSUME Core, NEW t \in Trades, NEW x, Loaded(t, x), NEW e \in EffectSet,
           NewLinks(e, x, last), Justified(t, x, e), Commit(t, x, e)
    PROVE  Core' /\ OrdersGrow /\ RowsGrow
  <1> DEFINE new == Flush(row[t], x, e.obj)
  <1> USE Bounds
  <1>1. /\ CoreType /\ OrdersInv /\ RecordedExitWasFilled /\ OpenPositionIsProtected
        /\ \A u \in Trades : LinksInv(row[u], u)
        /\ last \in NTrades..MaxOrders /\ ord \in [OrderIds -> Order]
    BY DEF Core, CoreType
  <1>2. WithinBounds(e) /\ PlaceOrders(t, e)
    BY DEF Commit
  <1>3. /\ ord' \in [OrderIds -> Order] /\ last' \in NTrades..MaxOrders
        /\ last' >= last /\ OrdersInv' /\ OrdersGrow /\ NewOrders(t, e)
    BY <1>1, <1>2, PlaceOrdersStep
  <1>4. row[t] \in Row /\ x \in Row /\ e.obj \in LooseRow /\ One(e.stop) \in {0, 1}
    BY <1>1 DEF CoreType, Loaded, EffectSet, One
  <1>5. /\ e.obj.stop = x.stop \/ (e.stop /\ e.obj.stop = last + 1)
        /\ e.obj.tp = x.tp \/ (e.exit = "tp" /\ e.obj.tp = last + 1 + One(e.stop))
        /\ e.obj.close = x.close \/ (e.exit \in {"close", "void"}
                                     /\ e.obj.close = last + 1 + One(e.stop))
    BY DEF NewLinks
  <1>6. /\ new.status = IF e.obj.status # x.status THEN e.obj.status ELSE row[t].status
        /\ new.type = row[t].type
        /\ new.stop = IF e.obj.stop # x.stop THEN e.obj.stop ELSE row[t].stop
        /\ new.tp = IF e.obj.tp # x.tp THEN e.obj.tp ELSE row[t].tp
        /\ new.close = IF e.obj.close # x.close THEN e.obj.close ELSE row[t].close
    BY DEF Flush
  <1>7. e.obj.stop \in OrderIds \/ e.obj.stop = x.stop
    BY <1>3, <1>5 DEF NewOrders
  <1>8. e.obj.tp \in OrderIds \/ e.obj.tp = x.tp
    BY <1>3, <1>5 DEF NewOrders
  <1>9. e.obj.close \in OrderIds \/ e.obj.close = x.close
    BY <1>3, <1>5 DEF NewOrders
  <1>10. OrderIds \subseteq 0..MaxOrders
    BY DEF OrderIds
  <1>11. new \in Row
    BY <1>4, <1>7, <1>8, <1>9, <1>10 DEF Flush, Row, LooseRow
  <1>12. /\ row' = [row EXCEPT ![t] = new] /\ row'[t] = new
         /\ \A u \in Trades \ {t} : row'[u] = row[u]
    BY <1>1 DEF Commit, CoreType
  <1>13. CoreType'
    <2>1. row' \in [Trades -> Row]
      BY <1>1, <1>11, <1>12 DEF CoreType
    <2>2. raised' \in BOOLEAN
      BY DEF Commit
    <2>3. One(e.counted) \in Nat
      BY DEF One
    <2>4. outcomes' \in [Trades -> Nat]
      BY <2>3, <1>1 DEF Commit, CoreType
    <2>5. stale' \in [Trades -> BOOLEAN]
      BY <1>1 DEF Commit, CoreType
    <2>6. faults' \in 0..MaxFaults
      BY <1>1, <1>2 DEF Commit, CoreType, WithinBounds, EffectSet
    <2> QED BY <1>3, <2>1, <2>2, <2>4, <2>5, <2>6 DEF CoreType
  <1>14. RowsGrow
    BY <1>1, <1>3, <1>4, <1>5, <1>6, <1>12 DEF RowsGrow, NoOrder
  <1>15. ASSUME NEW u \in Trades PROVE LinksInv(row[u], u)'
    <2>1. /\ row[u].stop # NoOrder => /\ row[u].stop \in OrderIds
                                      /\ ord'[row[u].stop].kind = "stop"
                                      /\ ord'[row[u].stop].trade = u
          /\ row[u].tp # NoOrder => /\ row[u].tp \in OrderIds
                                    /\ ord'[row[u].tp].kind = "tp"
                                    /\ ord'[row[u].tp].trade = u
          /\ row[u].close # NoOrder => /\ row[u].close \in (NTrades + 1)..last'
                                       /\ ord'[row[u].close].kind \in {"none", "close"}
                                       /\ ord'[row[u].close].trade = u
      BY <1>1, <1>3, LinksStable
    <2>2. CASE u # t
      BY <2>1, <2>2, <1>1, <1>12 DEF LinksInv
    <2>3. CASE u = t
      <3>1. new.stop # NoOrder => /\ new.stop \in OrderIds
                                  /\ ord'[new.stop].kind = "stop"
                                  /\ ord'[new.stop].trade = t
        BY <2>1, <2>3, <1>3, <1>5, <1>6 DEF NewOrders
      <3>2. new.tp # NoOrder => /\ new.tp \in OrderIds
                                /\ ord'[new.tp].kind = "tp"
                                /\ ord'[new.tp].trade = t
        BY <2>1, <2>3, <1>3, <1>5, <1>6 DEF NewOrders
      <3>3. CASE e.obj.close = x.close
        <4>1. new.close = row[t].close
          BY <3>3, <1>6
        <4>2. new.status = "POSITION_CLOSE_PENDING" => row[t].status = new.status
          <5>1. SUFFICES ASSUME e.obj.status = "POSITION_CLOSE_PENDING",
                                e.obj.status # x.status
                         PROVE FALSE
            BY <1>6
          <5>2. e.obj.close = last + 1 + One(e.stop)
            BY <5>1 DEF NewLinks
          <5> QED BY <5>2, <3>3, <1>1, <1>4 DEF Loaded
        <4> QED BY <4>1, <4>2, <3>1, <3>2, <2>1, <2>3, <1>1, <1>12 DEF LinksInv
      <3>4. CASE e.obj.close # x.close
        <4>1. /\ e.exit \in {"close", "void"} /\ new.close = last + 1 + One(e.stop)
          BY <3>4, <1>5, <1>6
        <4>2. /\ new.close \in (NTrades + 1)..last' /\ ord'[new.close].trade = t
              /\ ord'[new.close].kind \in {"none", "close"} /\ new.close # NoOrder
          BY <4>1, <1>1, <1>3, <1>4 DEF NewOrders, NoOrder
        <4> QED BY <4>2, <3>1, <3>2, <2>3, <1>12 DEF LinksInv
      <3> QED BY <3>3, <3>4
    <2> QED BY <2>2, <2>3
  <1>16. RecordedExitWasFilled'
    <2> SUFFICES ASSUME NEW u \in Trades,
                        row'[u].status = "PNL_RECORDED" \/ outcomes'[u] > 0
                 PROVE  ExitFilledAtExchange(u)'
      BY DEF RecordedExitWasFilled
    <2>1. SUFFICES ExitFilledAtExchange(u)
      BY <1>1, <1>3, ExitFilledStable
    <2>2. CASE u # t
      <3>1. row'[u] = row[u] /\ outcomes'[u] = outcomes[u]
        BY <2>2, <1>1, <1>12 DEF Commit, CoreType
      <3> QED BY <3>1, <1>1 DEF RecordedExitWasFilled
    <2>3. CASE u = t /\ e.counted
      BY <2>3 DEF Justified
    <2>4. CASE u = t /\ ~e.counted
      <3>1. outcomes'[t] = outcomes[t]
        BY <2>4, <1>1 DEF Commit, CoreType, One
      <3>2. row'[t].status = "PNL_RECORDED" => row[t].status = "PNL_RECORDED"
        BY <2>4, <1>6, <1>12 DEF Justified
      <3> QED BY <2>4, <3>1, <3>2, <1>1 DEF RecordedExitWasFilled
    <2> QED BY <2>2, <2>3, <2>4
  <1>17. OpenPositionIsProtected'
    <2> SUFFICES ASSUME NEW u \in Trades, row'[u].status = "POSITION_OPEN"
                 PROVE  /\ "Filled" \in ord'[u].hist
                        /\ row'[u].type = "Market" => row'[u].stop # NoOrder
      BY <1>15 DEF OpenPositionIsProtected, LinksInv
    <2>1. u \in OrderIds /\ ord[u].hist \subseteq ord'[u].hist
      BY <1>3 DEF OrdersGrow
    <2>2. CASE row[u].status = "POSITION_OPEN"
      BY <2>1, <2>2, <1>1, <1>14 DEF OpenPositionIsProtected, RowsGrow
    <2>3. CASE row[u].status # "POSITION_OPEN"
      <3>1. u = t /\ e.obj.status = "POSITION_OPEN" /\ x.status # "POSITION_OPEN"
        BY <2>3, <1>6, <1>12
      <3>2. /\ "Filled" \in ord[t].hist
            /\ x.type = "Market" => e.obj.stop # NoOrder
        BY <3>1 DEF Justified
      <3>3. e.obj.stop # NoOrder => new.stop # NoOrder
        BY <1>6 DEF Loaded
      <3> QED BY <3>1, <3>2, <3>3, <2>1, <1>6, <1>12 DEF Loaded
    <2> QED BY <2>2, <2>3
  <1> QED BY <1>3, <1>13, <1>14, <1>15, <1>16, <1>17 DEF Core

(* Orders grow, rows stay. *)
LEMMA OrdersStep ==
    ASSUME Core, row' = row, raised' = raised, outcomes' = outcomes, stale' = stale,
           faults' \in 0..MaxFaults, ord' \in [OrderIds -> Order],
           last' \in NTrades..MaxOrders, last <= last', OrdersInv', OrdersGrow
    PROVE  Core' /\ RowsGrow
  <1> USE Bounds
  <1>1. /\ CoreType /\ OrdersInv /\ RecordedExitWasFilled /\ OpenPositionIsProtected
        /\ \A u \in Trades : LinksInv(row[u], u)
        /\ last \in NTrades..MaxOrders /\ ord \in [OrderIds -> Order]
    BY DEF Core, CoreType
  <1>2. CoreType'
    BY <1>1 DEF CoreType
  <1>3. RowsGrow
    BY DEF RowsGrow
  <1>4. ASSUME NEW u \in Trades PROVE LinksInv(row[u], u)'
    <2>1. /\ row[u].stop # NoOrder => /\ row[u].stop \in OrderIds
                                      /\ ord'[row[u].stop].kind = "stop"
                                      /\ ord'[row[u].stop].trade = u
          /\ row[u].tp # NoOrder => /\ row[u].tp \in OrderIds
                                    /\ ord'[row[u].tp].kind = "tp"
                                    /\ ord'[row[u].tp].trade = u
          /\ row[u].close # NoOrder => /\ row[u].close \in (NTrades + 1)..last'
                                       /\ ord'[row[u].close].kind \in {"none", "close"}
                                       /\ ord'[row[u].close].trade = u
      BY <1>1, LinksStable
    <2> QED BY <2>1, <1>1 DEF LinksInv
  <1>5. RecordedExitWasFilled'
    BY <1>1, ExitFilledStable DEF RecordedExitWasFilled
  <1>6. OpenPositionIsProtected'
    <2> SUFFICES ASSUME NEW u \in Trades, row[u].status = "POSITION_OPEN"
                 PROVE  /\ "Filled" \in ord'[u].hist
                        /\ row[u].type = "Market" => row[u].stop # NoOrder
      BY <1>4 DEF OpenPositionIsProtected, LinksInv
    <2>1. u \in OrderIds /\ ord[u].hist \subseteq ord'[u].hist
      BY DEF OrdersGrow
    <2> QED BY <2>1, <1>1 DEF OpenPositionIsProtected
  <1> QED BY <1>2, <1>3, <1>4, <1>5, <1>6 DEF Core

(* A rolled back transaction keeps the invariant: its orders stay, its row  *)
(* does not change.                                                         *)
LEMMA RollBackStep ==
    ASSUME Core, NEW t \in Trades, NEW e \in EffectSet, RollBack(t, e)
    PROVE  Core' /\ OrdersGrow /\ RowsGrow
  <1>1. CoreType /\ OrdersInv
    BY DEF Core
  <1>2. /\ ord' \in [OrderIds -> Order] /\ last' \in NTrades..MaxOrders
        /\ last' >= last /\ OrdersInv' /\ OrdersGrow
    BY <1>1, PlaceOrdersStep DEF RollBack
  <1>3. faults' \in 0..MaxFaults
    BY <1>1, Bounds DEF RollBack, EffectSet, CoreType
  <1>4. last <= last'
    BY <1>1, <1>2, Bounds DEF CoreType
  <1> QED BY <1>2, <1>3, <1>4, OrdersStep DEF RollBack

(* The order a copy tracks was placed.                                      *)
LEMMA TrackedIsOrder ==
    ASSUME CoreType, NEW t \in Trades, NEW x, LinksInv(x, t)
    PROVE  tracked_order_link_id(x, t) \in OrderIds
  BY Bounds DEF tracked_order_link_id, LinksInv, OrderIds, CoreType

(* The copies the worker still holds stay sound while rows and orders grow. *)
LEMMA CopiesStep ==
    ASSUME Core, FlowType, CopiesInv, Core', OrdersGrow, RowsGrow,
           rec'.todo \subseteq rec.todo,
           \A u \in rec'.todo : /\ rec'.loaded[u] = rec.loaded[u]
                                /\ rec'.reply[u] = rec.reply[u]
    PROVE  CopiesInv'
  <1> SUFFICES ASSUME NEW u \in rec'.todo
               PROVE  LET x == rec'.loaded[u]
                      IN  /\ LinksInv(rec.loaded[u], u)'
                          /\ x.type = row'[u].type
                          /\ x.stop # NoOrder => row'[u].stop # NoOrder
                          /\ rec'.reply[u] \in Reports =>
                                rec'.reply[u] \in ord'[tracked_order_link_id(x, u)].hist
    BY DEF CopiesInv, tracked_order_link_id
  <1> DEFINE x == rec.loaded[u]
  <1>1. u \in rec.todo /\ u \in Trades /\ rec'.loaded[u] = x /\ rec'.reply[u] = rec.reply[u]
    BY DEF FlowType
  <1>2. /\ LinksInv(x, u) /\ x.type = row[u].type
        /\ x.stop # NoOrder => row[u].stop # NoOrder
        /\ rec.reply[u] \in Reports => rec.reply[u] \in ord[tracked_order_link_id(x, u)].hist
    BY <1>1 DEF CopiesInv
  <1>3. CoreType /\ OrdersInv /\ last \in NTrades..MaxOrders /\ last' \in NTrades..MaxOrders
        /\ last <= last'
    BY DEF Core, CoreType, RowsGrow
  <1>4. /\ x.stop # NoOrder => /\ x.stop \in OrderIds /\ ord'[x.stop].kind = "stop"
                               /\ ord'[x.stop].trade = u
        /\ x.tp # NoOrder => /\ x.tp \in OrderIds /\ ord'[x.tp].kind = "tp"
                             /\ ord'[x.tp].trade = u
        /\ x.close # NoOrder => /\ x.close \in (NTrades + 1)..last'
                                /\ ord'[x.close].kind \in {"none", "close"}
                                /\ ord'[x.close].trade = u
    BY <1>1, <1>2, <1>3, LinksStable
  <1>5. LinksInv(rec.loaded[u], u)'
    BY <1>1, <1>2, <1>4 DEF LinksInv
  <1>6. tracked_order_link_id(x, u) \in OrderIds
    BY <1>1, <1>2, <1>3, TrackedIsOrder
  <1> QED BY <1>1, <1>2, <1>5, <1>6 DEF OrdersGrow, RowsGrow

(* The worker drops the copy it has dealt with and no other.                *)
LEMMA Forgets ==
    ASSUME FlowType, NEW t \in Trades, RecForget(t)
    PROVE  /\ rec' \in [pass : Passes, todo : SUBSET Trades, loaded : [Trades -> Row],
                        reply : [Trades -> Reports \cup {"New"}]]
           /\ rec'.todo \subseteq rec.todo
           /\ \A u \in rec'.todo : /\ rec'.loaded[u] = rec.loaded[u]
                                    /\ rec'.reply[u] = rec.reply[u]
  <1>1. Blank \in Row
    BY Bounds DEF Blank, Row, Status, NoOrder
  <1> QED BY <1>1 DEF FlowType, RecForget

(* A row is a loose row.                                                    *)
LEMMA RowIsLoose == Row \subseteq LooseRow
  BY Bounds DEF Row, LooseRow

(* A filled order that is an exit link of a sound copy of t is an exit of   *)
(* t.                                                                       *)
LEMMA ExitLinkFilled ==
    ASSUME Core, NEW t \in Trades, NEW x, LinksInv(x, t), NEW o \in OrderIds,
           IsExitLink(x, o), "Filled" \in ord[o].hist
    PROVE  ExitFilledAtExchange(t)
  <1>1. o # NoOrder /\ ord[o].kind # "none"
    BY DEF Core, OrdersInv, OrderIds, NoOrder
  <1>2. ord[o].trade = t /\ ord[o].kind \in {"stop", "tp", "close"}
    BY <1>1 DEF IsExitLink, LinksInv
  <1> QED BY <1>2 DEF ExitFilledAtExchange

(* The row itself is a sound copy.                                          *)
LEMMA RowLoaded ==
    ASSUME Core, NEW t \in Trades
    PROVE  Loaded(t, row[t])
  <1>1. row[t] \in Row /\ LinksInv(row[t], t) /\ last \in NTrades..MaxOrders
    BY DEF Core, CoreType
  <1>2. row[t].close <= last
    BY <1>1, Bounds DEF LinksInv, NoOrder
  <1> QED BY <1>1, <1>2 DEF Loaded

(* One update, whoever applies it. *)
LEMMA UpdateStep ==
    ASSUME Core, NEW t \in Trades, NEW x, Loaded(t, x), LinksInv(x, t),
           NEW o \in OrderIds, NEW s \in Reports, s \in ord[o].hist,
           IsExitLink(x, o) \/ o = t, NEW full \in BOOLEAN, NEW r \in CallReplies,
           NEW e, e = apply_order_update(x, o, s, full, last, r),
           Commit(t, x, e) \/ RollBack(t, e)
    PROVE  Core' /\ OrdersGrow /\ RowsGrow
  <1>2. x \in LooseRow /\ last \in Nat
    BY RowIsLoose, Bounds DEF Loaded, Core, CoreType
  <1>3. e \in EffectSet /\ NewLinks(e, x, last) /\ EntryOpens(e, x, o, s)
    BY <1>2, UpdateEffect
  <1>4. Justified(t, x, e)
    BY <1>3, ExitLinkFilled DEF Justified, EntryOpens
  <1> QED BY <1>3, <1>4, CommitStep, RollBackStep

-----------------------------------------------------------------------------
(* The invariant holds initially and every action keeps it. *)

(* The placeholder for no copy is a row.                                    *)
LEMMA BlankRow == Blank \in Row
  BY Bounds DEF Blank, Row, Status, NoOrder

(* What the executor hands over satisfies the invariant.                    *)
LEMMA InitInv == Init => IndInv
  <1> SUFFICES ASSUME Init PROVE IndInv
    OBVIOUS
  <1> USE Bounds
  <1>1. PICK h \in [Trades -> Handover] :
          /\ row = [t \in Trades |-> [Blank EXCEPT !.status = h[t].status,
                                                  !.type = h[t].type]]
          /\ ord = [o \in OrderIds |->
                       IF o \in Trades
                       THEN [kind |-> h[o].kind, trade |-> o, hist |-> h[o].hist]
                       ELSE NewOrder("none", 1)]
    BY DEF Init
  <1>2. ASSUME NEW t \in Trades
        PROVE  /\ h[t].status \in Status \ {"POSITION_OPEN", "PNL_RECORDED",
                                             "POSITION_CLOSE_PENDING"}
               /\ h[t].type \in {"Limit", "Market"}
               /\ h[t].kind \in {"none", "entry"} /\ h[t].hist \in SUBSET Reports
               /\ h[t].kind = "none" => h[t].hist = {}
    <2>1. h[t] \in Handover
      OBVIOUS
    <2> QED BY <2>1, StatusMapType DEF Handover, Status, Reports
  <1>3. ASSUME NEW t \in Trades
        PROVE  /\ row[t] \in Row /\ row[t].status = h[t].status
               /\ row[t].stop = NoOrder /\ row[t].tp = NoOrder /\ row[t].close = NoOrder
    <2>1. row[t] = [status |-> h[t].status, type |-> h[t].type, filled |-> FALSE,
                    stop |-> NoOrder, tp |-> NoOrder, close |-> NoOrder]
      BY <1>1 DEF Blank
    <2> QED BY <2>1, <1>2 DEF Row, NoOrder
  <1>4. row \in [Trades -> Row]
    <2>1. row = [t \in Trades |-> row[t]]
      BY <1>1
    <2> QED BY <2>1, <1>3
  <1>5. ASSUME NEW o \in OrderIds
        PROVE  /\ ord[o] \in Order
               /\ ord[o].kind = "none" => ord[o].hist = {}
               /\ o \in Trades => ord[o].kind \in {"none", "entry"} /\ ord[o].trade = o
               /\ o \notin Trades => ord[o].kind = "none"
    <2>1. CASE o \in Trades
      <3>1. ord[o] = [kind |-> h[o].kind, trade |-> o, hist |-> h[o].hist]
        BY <2>1, <1>1
      <3> QED BY <3>1, <2>1, <1>2 DEF Order
    <2>2. CASE o \notin Trades
      <3>1. ord[o] = [kind |-> "none", trade |-> 1, hist |-> {}]
        BY <2>2, <1>1 DEF NewOrder
      <3>2. 1 \in Trades
        BY DEF Trades
      <3> QED BY <3>1, <3>2, <2>2 DEF Order
    <2> QED BY <2>1, <2>2
  <1>6. ord \in [OrderIds -> Order]
    <2>1. ord = [o \in OrderIds |-> ord[o]]
      BY <1>1
    <2> QED BY <2>1, <1>5
  <1>7. /\ last = NTrades /\ raised = FALSE /\ outcomes = [t \in Trades |-> 0]
        /\ stale = [t \in Trades |-> FALSE] /\ faults = 0
    BY DEF Init
  <1>8. CoreType
    <2>1. last \in NTrades..MaxOrders /\ faults \in 0..MaxFaults
      BY <1>7
    <2>2. raised \in BOOLEAN /\ outcomes \in [Trades -> Nat] /\ stale \in [Trades -> BOOLEAN]
      BY <1>7
    <2> QED BY <1>4, <1>6, <2>1, <2>2 DEF CoreType
  <1>9. FlowType
    <2>1. replay \in [trade : 0..NTrades, reply : Reports \cup {"New"}]
      <3>1. replay = NotReplaying
        BY DEF Init
      <3> QED BY <3>1 DEF NotReplaying
    <2>5. decided \in SUBSET Trades
      BY DEF Init
    <2>2. NotClosing \in [trade : 0..NTrades, loaded : Status]
      BY DEF NotClosing, Status
    <2>3. closing \in [Closers -> [trade : 0..NTrades, loaded : Status]]
      BY <2>2 DEF Init
    <2>4. rec \in [pass : Passes, todo : SUBSET Trades, loaded : [Trades -> Row],
                   reply : [Trades -> Reports \cup {"New"}]]
      BY BlankRow DEF Init, Passes
    <2> QED BY <2>1, <2>3, <2>4, <2>5 DEF FlowType
  <1>10. OrdersInv
    BY <1>5, <1>7 DEF OrdersInv, OrderIds, Trades
  <1>11. \A t \in Trades : LinksInv(row[t], t)
    BY <1>2, <1>3 DEF LinksInv
  <1>12. CopiesInv
    BY DEF Init, CopiesInv
  <1>13. RecordedExitWasFilled
    BY <1>2, <1>3, <1>7 DEF RecordedExitWasFilled
  <1>14. OpenPositionIsProtected
    BY <1>2, <1>3 DEF OpenPositionIsProtected
  <1> QED BY <1>8, <1>9, <1>10, <1>11, <1>12, <1>13, <1>14, IndInvParts DEF Core

(* The exchange keeps the invariant.                                        *)
LEMMA ExchangeKeeps == IndInv /\ Exchange => IndInv'
  <1> SUFFICES ASSUME IndInv, Exchange PROVE IndInv'
    OBVIOUS
  <1> USE Bounds
  <1>1. Core /\ FlowType /\ CopiesInv /\ CoreType /\ OrdersInv
    BY IndInvParts DEF Core
  <1>2. PICK o \in OrderIds, x \in Order :
          /\ ord' = [ord EXCEPT ![o] = x] /\ x.trade = ord[o].trade
          /\ ord[o].hist \subseteq x.hist /\ x.kind # "none"
          /\ \/ x.kind = ord[o].kind
             \/ ord[o].kind = "none" /\ x.kind = "entry" /\ o \in Trades
          /\ UNCHANGED <<row, last, rec, closing, decided, replay, raised, outcomes,
                         stale, faults>>
    <2>1. ASSUME NEW o \in OrderIds, NEW s \in Reports, ExchangeProgress(o, s)
          PROVE  /\ ord' = [ord EXCEPT ![o] = [ord[o] EXCEPT !.hist = ord[o].hist \cup {s}]]
                 /\ ord[o].kind # "none"
                 /\ UNCHANGED <<row, last, rec, closing, decided, replay, raised, outcomes,
                                stale, faults>>
      BY <2>1, <1>1 DEF ExchangeProgress, CoreType
    <2>2. ASSUME NEW o \in OrderIds, NEW s \in Reports
          PROVE  LET x == [ord[o] EXCEPT !.hist = ord[o].hist \cup {s}]
                 IN  /\ x \in Order /\ x.trade = ord[o].trade /\ x.kind = ord[o].kind
                     /\ ord[o].hist \subseteq x.hist
      BY <1>1 DEF Order, CoreType
    <2>3. ASSUME NEW t \in Trades, EntryArrives(t)
          PROVE  /\ ord' = [ord EXCEPT ![t] = [ord[t] EXCEPT !.kind = "entry"]]
                 /\ ord[t].kind = "none" /\ t \in OrderIds
                 /\ UNCHANGED <<row, last, rec, closing, decided, replay, raised, outcomes,
                                stale, faults>>
      BY <2>3, <1>1 DEF EntryArrives, CoreType
    <2>4. ASSUME NEW t \in Trades
          PROVE  LET x == [ord[t] EXCEPT !.kind = "entry"]
                 IN  /\ x \in Order /\ x.trade = ord[t].trade /\ x.kind = "entry"
                     /\ ord[t].hist \subseteq x.hist
      <3>1. t \in OrderIds /\ ord[t] \in Order
        BY <1>1 DEF CoreType
      <3> QED BY <3>1 DEF Order
    <2>5. CASE \E o \in OrderIds, s \in Reports : ExchangeProgress(o, s)
      <3>1. PICK o \in OrderIds, s \in Reports : ExchangeProgress(o, s)
        BY <2>5
      <3> DEFINE x == [ord[o] EXCEPT !.hist = ord[o].hist \cup {s}]
      <3>2. /\ x \in Order /\ x.trade = ord[o].trade /\ x.kind = ord[o].kind
            /\ ord[o].hist \subseteq x.hist
        BY <2>2
      <3> HIDE DEF x
      <3>3. /\ ord' = [ord EXCEPT ![o] = x] /\ ord[o].kind # "none"
            /\ UNCHANGED <<row, last, rec, closing, decided, replay, raised, outcomes,
                           stale, faults>>
        BY <3>1, <2>1 DEF x
      <3> QED BY <3>2, <3>3
    <2>6. CASE \E t \in Trades : EntryArrives(t)
      <3>1. PICK t \in Trades : EntryArrives(t)
        BY <2>6
      <3> DEFINE x == [ord[t] EXCEPT !.kind = "entry"]
      <3>2. /\ x \in Order /\ x.trade = ord[t].trade /\ x.kind = "entry"
            /\ ord[t].hist \subseteq x.hist
        BY <2>4
      <3> HIDE DEF x
      <3>3. /\ ord' = [ord EXCEPT ![t] = x] /\ ord[t].kind = "none" /\ t \in OrderIds
            /\ UNCHANGED <<row, last, rec, closing, decided, replay, raised, outcomes,
                           stale, faults>>
        BY <3>1, <2>3 DEF x
      <3> QED BY <3>2, <3>3
    <2> QED BY <2>5, <2>6 DEF Exchange
  <1>3. ord' \in [OrderIds -> Order]
    BY <1>1, <1>2 DEF CoreType
  <1>4. /\ ord'[o] = x
        /\ \A p \in OrderIds \ {o} : ord'[p] = ord[p]
    BY <1>1, <1>2 DEF CoreType
  <1>5. last \in NTrades..MaxOrders /\ last' = last /\ faults \in 0..MaxFaults
    BY <1>1, <1>2 DEF CoreType
  <1>6. ~(o > last)
    BY <1>1, <1>2, <1>5 DEF OrdersInv, Trades
  <1>7. OrdersInv'
    <2> SUFFICES ASSUME NEW p \in OrderIds
                 PROVE  /\ p > last => ord'[p].kind = "none"
                        /\ ord'[p].kind = "none" => ord'[p].hist = {}
                        /\ p \in Trades => ord'[p].kind \in {"none", "entry"} /\ ord'[p].trade = p
                        /\ p \notin Trades => ord'[p].kind # "entry"
      BY <1>5 DEF OrdersInv, OrderIds, Trades
    <2>1. CASE p = o
      BY <2>1, <1>1, <1>2, <1>4, <1>6 DEF OrdersInv
    <2>2. CASE p # o
      BY <2>2, <1>1, <1>4 DEF OrdersInv
    <2> QED BY <2>1, <2>2
  <1>8. OrdersGrow
    <2> SUFFICES ASSUME NEW p \in OrderIds
                 PROVE  /\ ord[p].hist \subseteq ord'[p].hist
                        /\ ord[p].kind # "none" => ord'[p].kind = ord[p].kind
                        /\ p \in (NTrades + 1)..last => ord'[p].kind = ord[p].kind
                        /\ ord'[p].trade = ord[p].trade
      BY DEF OrdersGrow
    <2>1. CASE p # o
      BY <2>1, <1>4
    <2>2. CASE p = o
      BY <2>2, <1>2, <1>4, <1>5 DEF Trades
    <2> QED BY <2>1, <2>2
  <1>9. Core' /\ RowsGrow
    BY <1>1, <1>2, <1>3, <1>5, <1>7, <1>8, OrdersStep
  <1>10. FlowType'
    BY <1>1, <1>2 DEF FlowType
  <1>11. CopiesInv'
    BY <1>1, <1>2, <1>8, <1>9, CopiesStep
  <1> QED BY <1>9, <1>10, <1>11 DEF IndInv, Core, TypeOK, CoreType, FlowType

(* The WebSocket handler keeps the invariant.                               *)
LEMMA WebSocketKeeps == IndInv /\ WebSocket => IndInv'
  <1> SUFFICES ASSUME IndInv, NEW t \in Trades, NEW o \in OrderIds, NEW s \in Reports,
                      WsOrder(t, o, s)
               PROVE  IndInv'
    BY DEF WebSocket
  <1>1. Core /\ FlowType /\ CopiesInv /\ LinksInv(row[t], t)
    BY IndInvParts DEF Core
  <1>2. PICK full \in BOOLEAN, r \in CallReplies :
            \E e : /\ e = apply_order_update(row[t], o, s, full, last, r)
                   /\ Commit(t, row[t], e) \/ RollBack(t, e)
    BY DEF WsOrder
  <1> PICK e : /\ e = apply_order_update(row[t], o, s, full, last, r)
               /\ Commit(t, row[t], e) \/ RollBack(t, e)
    BY <1>2
  <1>3. /\ s \in ord[o].hist /\ (IsExitLink(row[t], o) \/ o = t)
        /\ UNCHANGED <<rec, closing, decided, replay>>
    BY DEF WsOrder, Linked, IsExitLink
  <1>4. Core' /\ OrdersGrow /\ RowsGrow
    <2>1. PICK x : x = row[t]
      OBVIOUS
    <2>2. Loaded(t, x) /\ LinksInv(x, t) /\ (IsExitLink(x, o) \/ o = t)
      BY <2>1, <1>1, <1>3, RowLoaded
    <2>3. e = apply_order_update(x, o, s, full, last, r)
      BY <2>1
    <2>4. Commit(t, x, e) \/ RollBack(t, e)
      BY <2>1 DEF Commit
    <2> QED BY <2>2, <2>3, <2>4, <1>1, <1>3, UpdateStep
  <1>5. FlowType'
    BY <1>1, <1>3 DEF FlowType
  <1>6. CopiesInv'
    BY <1>1, <1>3, <1>4, CopiesStep
  <1> QED BY <1>4, <1>5, <1>6 DEF IndInv, Core, TypeOK, CoreType, FlowType

(* A step that leaves the committed state alone.                            *)
LEMMA SameCore ==
    ASSUME Core, UNCHANGED <<row, ord, last, raised, outcomes, stale, faults>>
    PROVE  Core' /\ OrdersGrow /\ RowsGrow
  <1>1. Core'
    BY DEF Core, CoreType, OrdersInv, LinksInv, RecordedExitWasFilled,
           OpenPositionIsProtected, ExitFilledAtExchange
  <1>2. OrdersGrow
    BY DEF OrdersGrow
  <1>3. RowsGrow
    BY Bounds DEF RowsGrow, Core, CoreType
  <1> QED BY <1>1, <1>2, <1>3

(* A REST answer is one of the reports the order has given.                 *)
LEMMA StatusGiven ==
    ASSUME Core, NEW o \in OrderIds
    PROVE  /\ get_order_status(o) \in Reports \cup {"New"}
           /\ get_order_status(o) \in Reports => get_order_status(o) \in ord[o].hist
  <1>1. PICK h : h = ord[o].hist
    OBVIOUS
  <1>2. /\ Current(h) \in Reports \cup {"New"}
        /\ Current(h) \in Reports => Current(h) \in h
    BY DEF Current, Reports
  <1>3. "New" \notin Reports
    BY DEF Reports
  <1> QED BY <1>1, <1>2, <1>3 DEF get_order_status

(* Loading the trades of a pass keeps the invariant.                        *)
LEMMA RecListKeeps == IndInv /\ RecList => IndInv'
  <1> SUFFICES ASSUME IndInv, RecList PROVE IndInv'
    OBVIOUS
  <1> DEFINE p == NextPass[rec.pass]
             listed == Listed(p)
             reply == [t \in Trades |->
                          IF t \in listed /\ p # "protect"
                          THEN get_order_status(tracked_order_link_id(row[t], t))
                          ELSE "New"]
             copy == [t \in Trades |-> IF t \in listed THEN row[t] ELSE Blank]
  <1>1. Core /\ FlowType /\ CoreType /\ \A t \in Trades : LinksInv(row[t], t)
    BY IndInvParts DEF Core
  <1>2. Core' /\ OrdersGrow /\ RowsGrow
    BY <1>1, SameCore DEF RecList
  <1>3. rec' = [pass |-> p, todo |-> listed, loaded |-> copy, reply |-> reply]
    BY DEF RecList
  <1>4. p \in Passes
    BY <1>1 DEF FlowType, NextPass, Passes
  <1>5. listed \in SUBSET Trades
    BY DEF Listed
  <1>6. ASSUME NEW t \in Trades
        PROVE  /\ tracked_order_link_id(row[t], t) \in OrderIds
               /\ reply[t] \in Reports \cup {"New"}
               /\ reply[t] \in Reports =>
                     reply[t] \in ord[tracked_order_link_id(row[t], t)].hist
    <2>1. tracked_order_link_id(row[t], t) \in OrderIds
      BY <1>1, TrackedIsOrder
    <2>2. "New" \notin Reports
      BY DEF Reports
    <2>3. CASE t \in listed /\ p # "protect"
      BY <2>1, <2>3, <1>1, StatusGiven
    <2>4. CASE ~(t \in listed /\ p # "protect")
      BY <2>1, <2>2, <2>4
    <2> QED BY <2>3, <2>4
  <1>7. reply \in [Trades -> Reports \cup {"New"}]
    BY <1>6
  <1>8. copy \in [Trades -> Row]
    BY <1>1, BlankRow DEF CoreType
  <1>9. FlowType'
    <2>1. rec' \in [pass : Passes, todo : SUBSET Trades, loaded : [Trades -> Row],
                    reply : [Trades -> Reports \cup {"New"}]]
      BY <1>3, <1>4, <1>5, <1>7, <1>8
    <2> QED BY <2>1, <1>1 DEF FlowType, RecList
  <1>10. CopiesInv'
    <2> SUFFICES ASSUME NEW t \in listed
                 PROVE  /\ LinksInv(rec.loaded[t], t)'
                        /\ rec'.loaded[t].type = row'[t].type
                        /\ rec'.loaded[t].stop # NoOrder => row'[t].stop # NoOrder
                        /\ rec'.reply[t] \in Reports =>
                              rec'.reply[t] \in ord'[tracked_order_link_id(rec'.loaded[t], t)].hist
      BY <1>3 DEF CopiesInv, tracked_order_link_id
    <2>1. t \in Trades /\ rec'.loaded[t] = row[t] /\ rec'.reply[t] = reply[t]
      BY <1>3, <1>5
    <2>2. row' = row /\ ord' = ord /\ last' = last
      BY DEF RecList
    <2>3. LinksInv(rec.loaded[t], t)'
      BY <2>1, <2>2, <1>1 DEF LinksInv
    <2> QED BY <2>1, <2>2, <2>3, <1>6
  <1> QED BY <1>2, <1>9, <1>10 DEF IndInv, Core, TypeOK, CoreType, FlowType

(* What CopiesInv gives for a trade the worker has loaded.                  *)
LEMMA CopyLoaded ==
    ASSUME Core, FlowType, CopiesInv, NEW t \in rec.todo
    PROVE  t \in Trades /\ Loaded(t, rec.loaded[t]) /\ LinksInv(rec.loaded[t], t)
  <1>1. t \in Trades /\ rec.loaded[t] \in Row
    BY DEF FlowType
  <1>2. /\ LinksInv(rec.loaded[t], t) /\ rec.loaded[t].type = row[t].type
        /\ rec.loaded[t].stop # NoOrder => row[t].stop # NoOrder
    BY DEF CopiesInv
  <1>3. rec.loaded[t].close <= last
    BY <1>1, <1>2, Bounds DEF LinksInv, NoOrder, Core, CoreType
  <1> QED BY <1>1, <1>2, <1>3 DEF Loaded

(* Applying an answer, skipping or arming keeps the invariant.              *)
LEMMA WorkerKeeps == ASSUME NEW t \in Trades PROVE IndInv /\ Worker(t) => IndInv'
  <1> SUFFICES ASSUME IndInv, Worker(t) PROVE IndInv'
    OBVIOUS
  <1>1. Core /\ FlowType /\ CopiesInv
    BY IndInvParts
  <1>2. t \in rec.todo /\ RecForget(t) /\ UNCHANGED <<closing, decided, replay>>
    BY DEF Worker, RecApply, RecSkip, RecProtect
  <1>3. PICK x : x = rec.loaded[t]
    OBVIOUS
  <1>4. Loaded(t, x) /\ LinksInv(x, t)
    BY <1>1, <1>2, <1>3, CopyLoaded
  <1>5. Core' /\ OrdersGrow /\ RowsGrow
    <2>1. CASE RecApply(t)
      <3>1. PICK o, s : o = tracked_order_link_id(x, t) /\ s = rec.reply[t]
        OBVIOUS
      <3>2. s \in Reports /\ o \in OrderIds /\ s \in ord[o].hist /\ (IsExitLink(x, o) \/ o = t)
        <4>1. s \in Reports
          BY <2>1, <3>1 DEF RecApply
        <4>2. o \in OrderIds
          BY <3>1, <1>1, <1>4, TrackedIsOrder DEF Core
        <4>3. s \in ord[o].hist
          BY <3>1, <4>1, <1>1, <1>2, <1>3 DEF CopiesInv
        <4>4. IsExitLink(x, o) \/ o = t
          BY <3>1 DEF tracked_order_link_id, IsExitLink
        <4> QED BY <4>1, <4>2, <4>3, <4>4
      <3>3. PICK full \in BOOLEAN, r \in CallReplies :
              \E e : /\ e = apply_order_update(x, o, s, full, last, r)
                     /\ Commit(t, x, e) \/ RollBack(t, e)
        <4>1. PICK full \in BOOLEAN, r \in CallReplies :
                \E e : /\ e = apply_order_update(rec.loaded[t],
                                  tracked_order_link_id(rec.loaded[t], t),
                                  rec.reply[t], full, last, r)
                       /\ Commit(t, rec.loaded[t], e) \/ RollBack(t, e)
          BY <2>1 DEF RecApply
        <4>2. PICK e : /\ e = apply_order_update(rec.loaded[t],
                                  tracked_order_link_id(rec.loaded[t], t),
                                  rec.reply[t], full, last, r)
                       /\ Commit(t, rec.loaded[t], e) \/ RollBack(t, e)
          BY <4>1
        <4>3. e = apply_order_update(x, o, s, full, last, r)
          BY <4>2, <3>1, <1>3
        <4>4. Commit(t, x, e) \/ RollBack(t, e)
          BY <4>2, <1>3 DEF Commit
        <4> QED BY <4>3, <4>4
      <3> QED BY <3>2, <3>3, <1>1, <1>4, UpdateStep
    <2>2. CASE RecSkip(t)
      BY <2>2, <1>1, SameCore DEF RecSkip
    <2>3. CASE RecProtect(t)
      <3>1. PICK r \in CallReplies :
              \E e : /\ e = ensure_spot_market_protection(rec.loaded[t], last, r)
                     /\ Commit(t, rec.loaded[t], e) \/ RollBack(t, e)
        BY <2>3 DEF RecProtect
      <3>2. PICK e : /\ e = ensure_spot_market_protection(rec.loaded[t], last, r)
                     /\ Commit(t, rec.loaded[t], e) \/ RollBack(t, e)
        BY <3>1
      <3>3. Commit(t, x, e) \/ RollBack(t, e)
        BY <3>2, <1>3 DEF Commit
      <3>4. x \in LooseRow /\ last \in Nat
        BY <1>1, <1>4, RowIsLoose, Bounds DEF Loaded, Core, CoreType
      <3>5. e = ensure_spot_market_protection(x, last, r)
        BY <3>2, <1>3
      <3>6. e \in EffectSet /\ NewLinks(e, x, last) /\ Quiet(e, x)
        BY <3>4, <3>5, ProtectionEffect
      <3>7. Justified(t, x, e)
        BY <3>6 DEF Justified, Quiet
      <3> QED BY <3>3, <3>6, <3>7, <1>1, <1>4, CommitStep, RollBackStep
    <2> QED BY <2>1, <2>2, <2>3 DEF Worker
  <1>6. /\ rec' \in [pass : Passes, todo : SUBSET Trades, loaded : [Trades -> Row],
                     reply : [Trades -> Reports \cup {"New"}]]
        /\ rec'.todo \subseteq rec.todo
        /\ \A u \in rec'.todo : /\ rec'.loaded[u] = rec.loaded[u]
                                 /\ rec'.reply[u] = rec.reply[u]
    BY <1>1, <1>2, Forgets
  <1>7. FlowType'
    BY <1>1, <1>2, <1>6 DEF FlowType
  <1>8. CopiesInv'
    BY <1>1, <1>5, <1>6, CopiesStep
  <1> QED BY <1>5, <1>7, <1>8 DEF IndInv, Core, TypeOK, CoreType, FlowType

(* A step that leaves the worker alone keeps what is said of its copies. *)
LEMMA WorkerAlone ==
    ASSUME Core, FlowType, CopiesInv, Core', OrdersGrow, RowsGrow, rec' = rec,
           closing' \in [Closers -> [trade : 0..NTrades, loaded : Status]],
           decided' \in SUBSET Trades,
           replay' \in [trade : 0..NTrades, reply : Reports \cup {"New"}]
    PROVE  IndInv'
  <1>1. FlowType'
    BY DEF FlowType
  <1>2. CopiesInv'
    BY CopiesStep
  <1> QED BY <1>1, <1>2 DEF IndInv, Core, TypeOK, CoreType, FlowType

(* A transaction that writes the status column and perhaps a fresh close    *)
(* link.                                                                    *)
LEMMA StatusCopyLoaded ==
    ASSUME Core, NEW t \in Trades, NEW st \in Status
    PROVE  LET x == [row[t] EXCEPT !.status = st]
           IN  Loaded(t, x) /\ x.status = st /\ x \in LooseRow
  <1> DEFINE x == [row[t] EXCEPT !.status = st]
  <1>1. row[t] \in Row /\ Loaded(t, row[t])
    BY RowLoaded DEF Core, CoreType
  <1>2. /\ x \in Row /\ x.status = st /\ x.type = row[t].type /\ x.stop = row[t].stop
        /\ x.close = row[t].close
    BY <1>1 DEF Row
  <1> QED BY <1>1, <1>2, RowIsLoose DEF Loaded

(* A close request writes the status column and a fresh close link.         *)
LEMMA CloseTransaction ==
    ASSUME Core, FlowType, NEW c \in Closers, NEW reply \in Replies, CloseSubmit(c, reply)
    PROVE  \E t \in Trades, x \in LooseRow, e \in EffectSet :
              /\ Loaded(t, x) /\ NewLinks(e, x, last) /\ Justified(t, x, e)
              /\ e.obj.status = "POSITION_CLOSE_PENDING" /\ e.obj.close # x.close
              /\ e.obj.stop = x.stop /\ e.obj.tp = x.tp /\ ~e.stop /\ e.exit = "close"
              /\ \/ Commit(t, x, e)
                 \/ RollBack(t, e)
                 \/ UNCHANGED <<row, ord, last, raised, outcomes, stale, faults>>
  <1>2. PICK t, st : t = closing[c].trade /\ st = closing[c].loaded
    OBVIOUS
  <1>3. t \in Trades /\ st \in Status
    BY <1>2, Bounds DEF FlowType, Trades, CloseSubmit
  <1>4. PICK x : x = [row[t] EXCEPT !.status = st]
    OBVIOUS
  <1>5. Loaded(t, x) /\ x \in LooseRow /\ last \in Nat
    BY <1>3, <1>4, StatusCopyLoaded, Bounds DEF Core, CoreType
  <1>6. PICK obj : obj = [x EXCEPT !.status = "POSITION_CLOSE_PENDING", !.close = last + 1]
    OBVIOUS
  <1>7. /\ obj \in LooseRow /\ obj.status = "POSITION_CLOSE_PENDING"
        /\ obj.close = last + 1 /\ obj.stop = x.stop /\ obj.tp = x.tp /\ obj.type = x.type
    <2>1. "POSITION_CLOSE_PENDING" \in Status /\ last + 1 \in Nat
      BY <1>5 DEF Status
    <2>2. obj = [status |-> "POSITION_CLOSE_PENDING", type |-> x.type, filled |-> x.filled,
                 stop |-> x.stop, tp |-> x.tp, close |-> last + 1]
      BY <1>5, <1>6 DEF LooseRow
    <2> QED BY <2>1, <2>2, <1>5 DEF LooseRow
  <1>12. PICK e : e = [Effect(obj) EXCEPT !.exit = "close"]
    OBVIOUS
  <1>8. e = [obj |-> obj, stop |-> FALSE, exit |-> "close", kill |-> FALSE,
             ready |-> TRUE, counted |-> FALSE, lost |-> 0]
    BY <1>12 DEF Effect
  <1>9. e \in EffectSet
    BY <1>7, <1>8 DEF EffectSet
  <1>10. NewLinks(e, x, last)
    <2>1. One(e.stop) = 0 /\ e.obj = obj /\ e.exit = "close"
      BY <1>8 DEF One
    <2> QED BY <2>1, <1>5, <1>7 DEF NewLinks
  <1>11. Justified(t, x, e)
    BY <1>7, <1>8 DEF Justified
  <1>13. \/ Commit(t, x, e)
         \/ RollBack(t, e)
         \/ UNCHANGED <<row, ord, last, raised, outcomes, stale, faults>>
    <2> DEFINE E(y) == [Effect([y EXCEPT !.status = "POSITION_CLOSE_PENDING",
                                        !.close = last + 1]) EXCEPT !.exit = "close"]
               X == [row[closing[c].trade] EXCEPT !.status = closing[c].loaded]
    <2>1. \/ Commit(closing[c].trade, X, E(X))
          \/ RollBack(closing[c].trade, E(X))
          \/ UNCHANGED <<row, ord, last, raised, outcomes, stale, faults>>
      BY DEF CloseSubmit
    <2>2. X = x /\ E(X) = e /\ closing[c].trade = t
      BY <1>2, <1>4, <1>6, <1>12
    <2> HIDE DEF E, X
    <2>3. CASE Commit(closing[c].trade, X, E(X))
      BY <2>2, <2>3 DEF Commit, PlaceOrders, WithinBounds
    <2>4. CASE RollBack(closing[c].trade, E(X))
      BY <2>2, <2>4 DEF RollBack, PlaceOrders, WithinBounds
    <2> QED BY <2>1, <2>3, <2>4
  <1>14. obj.close # x.close
    BY <1>5, <1>7, Bounds DEF Loaded, Core, CoreType, LooseRow
  <1>15. /\ e.obj = obj /\ ~e.stop /\ e.exit = "close"
    BY <1>8
  <1> QED BY <1>3, <1>5, <1>7, <1>9, <1>10, <1>11, <1>13, <1>14, <1>15

(* Submitting a close keeps the invariant.                                  *)
LEMMA CloseSubmitKeeps ==
    ASSUME IndInv, NEW c \in Closers, NEW reply \in Replies, CloseSubmit(c, reply)
    PROVE  IndInv'
  <1>1. Core /\ FlowType /\ CopiesInv
    BY IndInvParts
  <1>2. Core' /\ OrdersGrow /\ RowsGrow
    BY <1>1, CloseTransaction, CommitStep, RollBackStep, SameCore
  <1>3. NotClosing \in [trade : 0..NTrades, loaded : Status]
    BY Bounds DEF NotClosing, Status
  <1>4. /\ closing' = [closing EXCEPT ![c] = NotClosing] /\ rec' = rec
        /\ decided' = decided /\ replay' = replay
    BY DEF CloseSubmit
  <1> QED BY <1>1, <1>2, <1>3, <1>4, WorkerAlone DEF FlowType

(* Loading a trade to close keeps the invariant.                            *)
LEMMA CloseReadKeeps ==
    ASSUME IndInv, NEW c \in Closers, NEW t \in Trades, CloseRead(c, t),
           decided' \in SUBSET Trades
    PROVE  IndInv'
  <1>1. Core /\ FlowType /\ CopiesInv /\ row[t] \in Row
    BY IndInvParts DEF Core, CoreType
  <1>2. Core' /\ OrdersGrow /\ RowsGrow
    BY <1>1, SameCore DEF CloseRead
  <1>3. [trade |-> t, loaded |-> row[t].status] \in [trade : 0..NTrades, loaded : Status]
    BY <1>1, Bounds DEF Row, Trades
  <1>4. /\ closing' = [closing EXCEPT ![c] = [trade |-> t, loaded |-> row[t].status]]
        /\ rec' = rec /\ replay' = replay
    BY DEF CloseRead
  <1> QED BY <1>1, <1>2, <1>3, <1>4, WorkerAlone DEF FlowType

(* Close requests and the monitor keep the invariant.                       *)
LEMMA PositionManagerKeeps == IndInv /\ PositionManager => IndInv'
  <1> SUFFICES ASSUME IndInv, PositionManager PROVE IndInv'
    OBVIOUS
  <1>1. Core /\ FlowType /\ CopiesInv
    BY IndInvParts
  <1>2. CASE \E c \in Clients, t \in Trades : ClientClose(c, t)
    BY <1>1, <1>2, CloseReadKeeps DEF ClientClose, Closers, FlowType
  <1>3. CASE \E c \in Closers, reply \in Replies : CloseSubmit(c, reply)
    BY <1>3, CloseSubmitKeeps
  <1>4. CASE \E S \in SUBSET Trades : MonitorScan(S)
    <2>1. PICK S \in SUBSET Trades : MonitorScan(S)
      BY <1>4
    <2>2. Core' /\ OrdersGrow /\ RowsGrow
      BY <1>1, <2>1, SameCore DEF MonitorScan
    <2>3. decided' = S /\ rec' = rec /\ closing' = closing /\ replay' = replay
      BY <2>1 DEF MonitorScan
    <2> QED BY <1>1, <2>2, <2>3, WorkerAlone DEF FlowType
  <1>5. CASE \E t \in Trades : MonitorClose(t)
    <2>1. PICK t \in Trades : MonitorClose(t)
      BY <1>5
    <2>2. CloseRead(Monitor, t) /\ decided' \in SUBSET Trades /\ Monitor \in Closers
      BY <1>1, <2>1 DEF MonitorClose, FlowType, Closers
    <2> QED BY <2>2, CloseReadKeeps
  <1>6. CASE \E t \in Trades : MonitorRefused(t)
    <2>1. PICK t \in Trades : MonitorRefused(t)
      BY <1>6
    <2>2. Core' /\ OrdersGrow /\ RowsGrow
      BY <1>1, <2>1, SameCore DEF MonitorRefused
    <2>3. decided' \in SUBSET Trades /\ rec' = rec /\ closing' = closing /\ replay' = replay
      BY <1>1, <2>1 DEF MonitorRefused, FlowType
    <2> QED BY <1>1, <2>2, <2>3, WorkerAlone DEF FlowType
  <1> QED BY <1>2, <1>3, <1>4, <1>5, <1>6 DEF PositionManager

(* A replayed request writes the status column, from ORDER_PENDING_UNKNOWN. *)
LEMMA ReplayTransaction ==
    ASSUME Core, FlowType, reconcile_pending_unknown
    PROVE  \E t \in Trades, x \in LooseRow, e \in EffectSet :
              /\ Loaded(t, x) /\ NewLinks(e, x, last) /\ Justified(t, x, e)
              /\ x.status = "ORDER_PENDING_UNKNOWN"
              /\ e.obj.stop = x.stop /\ e.obj.tp = x.tp /\ ~e.stop /\ e.exit = "none"
              /\ Commit(t, x, e)
  <1>1. PICK t, s : t = replay.trade /\ s = replay.reply
    OBVIOUS
  <1>2. t \in Trades
    BY <1>1, Bounds DEF FlowType, Trades, reconcile_pending_unknown
  <1>3. PICK x : x = [row[t] EXCEPT !.status = "ORDER_PENDING_UNKNOWN"]
    OBVIOUS
  <1>4. Loaded(t, x) /\ x \in LooseRow /\ last \in Nat
    <2>1. "ORDER_PENDING_UNKNOWN" \in Status
      BY DEF Status
    <2>2. last \in Nat
      BY Bounds DEF Core, CoreType
    <2> QED BY <2>1, <2>2, <1>2, <1>3, StatusCopyLoaded
  <1>5. PICK e : e = Effect(IF s \in Reports
                            THEN [x EXCEPT !.status = OrderStatusMap[s]] ELSE x)
    OBVIOUS
  <1>6. e \in EffectSet /\ NewLinks(e, x, last) /\ Quiet(e, x)
    <2>1. CASE s \in Reports
      BY <2>1, <1>4, <1>5, StatusOnly, StatusMapType
    <2>2. CASE s \notin Reports
      BY <2>2, <1>4, <1>5, NoEffect
    <2> QED BY <2>1, <2>2
  <1>7. Justified(t, x, e)
    BY <1>6 DEF Justified, Quiet
  <1>8. Commit(t, x, e)
    BY <1>1, <1>3, <1>5 DEF reconcile_pending_unknown, Commit, PlaceOrders, WithinBounds
  <1>9. x.status = "ORDER_PENDING_UNKNOWN"
    BY <1>2, <1>3, StatusCopyLoaded DEF Status
  <1>10. e.obj.stop = x.stop /\ e.obj.tp = x.tp /\ ~e.stop /\ e.exit = "none"
    BY <1>4, <1>5 DEF Effect, LooseRow
  <1> QED BY <1>2, <1>4, <1>6, <1>7, <1>8, <1>9, <1>10

(* A replayed signal request keeps the invariant.                           *)
LEMMA ReplayKeeps == IndInv /\ Replay => IndInv'
  <1> SUFFICES ASSUME IndInv, Replay PROVE IndInv'
    OBVIOUS
  <1>1. Core /\ FlowType /\ CopiesInv
    BY IndInvParts
  <1>2. CASE \E t \in Trades : ReplayRead(t)
    <2>1. PICK t \in Trades : ReplayRead(t)
      BY <1>2
    <2>2. Core' /\ OrdersGrow /\ RowsGrow
      BY <1>1, <2>1, SameCore DEF ReplayRead
    <2>3. get_order_status(t) \in Reports \cup {"New"}
      BY <1>1, Bounds, StatusGiven
    <2>4. replay' \in [trade : 0..NTrades, reply : Reports \cup {"New"}]
      BY <2>1, <2>3, Bounds DEF ReplayRead, Trades
    <2>5. rec' = rec /\ closing' = closing /\ decided' = decided
      BY <2>1 DEF ReplayRead
    <2> QED BY <1>1, <2>2, <2>4, <2>5, WorkerAlone DEF FlowType
  <1>3. CASE reconcile_pending_unknown
    <2>1. Core' /\ OrdersGrow /\ RowsGrow
      BY <1>1, <1>3, ReplayTransaction, CommitStep
    <2>2. NotReplaying \in [trade : 0..NTrades, reply : Reports \cup {"New"}]
      BY Bounds DEF NotReplaying
    <2>3. replay' = NotReplaying /\ rec' = rec /\ closing' = closing /\ decided' = decided
      BY <1>3 DEF reconcile_pending_unknown
    <2> QED BY <1>1, <2>1, <2>2, <2>3, WorkerAlone DEF FlowType
  <1> QED BY <1>2, <1>3 DEF Replay

(* A crash keeps the invariant.                                             *)
LEMMA CrashKeeps == IndInv /\ Crash => IndInv'
  <1> SUFFICES ASSUME IndInv, Crash PROVE IndInv'
    OBVIOUS
  <1>1. Core /\ FlowType /\ CopiesInv /\ CoreType
    BY IndInvParts DEF Core
  <1>2. /\ row' = row /\ ord' = ord /\ last' = last /\ raised' = raised
        /\ outcomes' = outcomes /\ stale' = stale /\ faults' \in 0..MaxFaults
    BY <1>1, Bounds DEF Crash, CoreType
  <1>3. OrdersInv' /\ OrdersGrow
    BY <1>1, <1>2 DEF Core, OrdersInv, OrdersGrow
  <1>4. Core' /\ RowsGrow
    BY <1>1, <1>2, <1>3, OrdersStep, Bounds DEF CoreType
  <1>5. rec' \in [pass : Passes, todo : SUBSET Trades, loaded : [Trades -> Row],
                  reply : [Trades -> Reports \cup {"New"}]]
    BY BlankRow DEF Crash, Passes
  <1>6. NotClosing \in [trade : 0..NTrades, loaded : Status]
    BY Bounds DEF NotClosing, Status
  <1>7. NotReplaying \in [trade : 0..NTrades, reply : Reports \cup {"New"}]
    BY Bounds DEF NotReplaying
  <1>8. /\ closing' = [c \in Closers |-> NotClosing] /\ decided' = {}
        /\ replay' = NotReplaying /\ rec'.todo = {}
    BY DEF Crash
  <1>9. closing' \in [Closers -> [trade : 0..NTrades, loaded : Status]]
    BY <1>6, <1>8
  <1>10. decided' \in SUBSET Trades
    BY <1>8
  <1>11. FlowType'
    BY <1>5, <1>7, <1>8, <1>9, <1>10 DEF FlowType
  <1>12. CopiesInv'
    BY <1>8 DEF CopiesInv
  <1> QED BY <1>4, <1>11, <1>12 DEF IndInv, Core, TypeOK, CoreType, FlowType

(* Every step keeps the invariant.                                          *)
LEMMA NextKeeps == IndInv /\ [Next]_vars => IndInv'
  <1> SUFFICES ASSUME IndInv, [Next]_vars PROVE IndInv'
    OBVIOUS
  <1>1. CASE Next
    BY <1>1, ExchangeKeeps, WebSocketKeeps, RecListKeeps, WorkerKeeps,
       PositionManagerKeeps, ReplayKeeps, CrashKeeps DEF Next
  <1>2. CASE UNCHANGED vars
    <2>1. Core /\ FlowType /\ CopiesInv
      BY IndInvParts
    <2>2. Core' /\ OrdersGrow /\ RowsGrow
      BY <1>2, <2>1, SameCore DEF vars
    <2>3. rec' = rec /\ closing' = closing /\ decided' = decided /\ replay' = replay
      BY <1>2 DEF vars
    <2> QED BY <2>1, <2>2, <2>3, WorkerAlone DEF FlowType
  <1> QED BY <1>1, <1>2

(* IndInv is an invariant: row links, loaded copies and pending REST        *)
(* answers stay sound under every interleaving of the engine, the position  *)
(* manager and the exchange.                                                *)
THEOREM Inductive == Spec => []IndInv
  BY InitInv, NextKeeps, PTL DEF Spec

(* Every variable keeps its type: statuses are TradeStatus members and link *)
(* ids were given out (models.py, engine.py).                               *)
THEOREM TypeCorrect == Spec => []TypeOK
  <1>1. IndInv => TypeOK
    BY DEF IndInv
  <1> QED BY <1>1, Inductive, PTL

(* For every number of trades and orders: _apply_order_update records or    *)
(* counts an exit only if the exchange filled an exit order of that very    *)
(* trade.                                                                   *)
THEOREM ExitsAreReal == Spec => []RecordedExitWasFilled
  <1>1. IndInv => RecordedExitWasFilled
    BY DEF IndInv
  <1> QED BY <1>1, Inductive, PTL

(* For every number of trades and orders: POSITION_OPEN means a filled      *)
(* entry, and for a spot market trade a stop the exchange accepted          *)
(* (_ensure_spot_market_protection).                                        *)
THEOREM OpenPositionsAreProtected == Spec => []OpenPositionIsProtected
  <1>1. IndInv => OpenPositionIsProtected
    BY DEF IndInv
  <1> QED BY <1>1, Inductive, PTL

-----------------------------------------------------------------------------
(* Protective orders and closes that were not sent: what holds of a row     *)
(* that no outdated copy was written over.                                  *)

Armed(x) == x.tp # NoOrder => x.stop # NoOrder

Halted(x) == x.status = "POSITION_CLOSE_FAILED" /\ x.stop = NoOrder /\ x.tp = NoOrder

Unsent(t) == row[t].close # NoOrder /\ ord[row[t].close].kind = "none"

RowsInv ==
    /\ \A t \in Trades : ~stale[t] => Armed(row[t])
    /\ \A t \in Trades : Unsent(t) => raised /\ (stale[t] \/ Halted(row[t]))
    /\ NoStrayProtection

(* The protection pass works on what it listed. *)
ListedInv ==
    \A t \in rec.todo : rec.pass = "protect" => MissingProtection(rec.loaded[t])

(* The statuses of a position that is held, and those it may go on to.      *)
Held == OpenPositionStatuses \ {"ORDER_PARTIALLY_FILLED"}

KeepsExposure(e, x) ==
    x.status \in Held => e.obj.status \in OpenPositionStatuses \cup {"PNL_RECORDED"}

(* Effect e on copy x protects nothing twice, forgets no order whose call   *)
(* was answered, and raises the kill switch over a close nobody took.       *)
Careful(e, x, n) ==
    /\ Armed(x) => Armed(e.obj)
    /\ e.exit = "void" => /\ e.kill /\ e.obj.status = "POSITION_CLOSE_FAILED"
                          /\ e.obj.stop = NoOrder /\ e.obj.tp = x.tp /\ x.stop = NoOrder
    /\ e.stop => x.stop = NoOrder
    /\ ~e.stop => e.obj.stop = x.stop
    /\ e.exit = "tp" => x.tp = NoOrder
    /\ e.exit # "tp" => e.obj.tp = x.tp
    /\ e.lost = 0 => /\ e.stop => e.obj.stop = n + 1
                     /\ e.exit = "tp" => e.obj.tp = n + 1 + One(e.stop)

(* The status alone changes. *)
LEMMA CarefulStatus ==
    ASSUME NEW x \in LooseRow, NEW n \in Nat, NEW y \in LooseRow,
           y.stop = x.stop, y.tp = x.tp, NEW e, e.obj = y, ~e.stop, e.exit = "none"
    PROVE  Careful(e, x, n)
  BY DEF Careful, Armed

LEMMA CarefulEmergency ==
    ASSUME NEW x \in LooseRow, x.stop = NoOrder, NEW n \in Nat, NEW r \in CallReplies
    PROVE  LET e == handle_stop_loss_submission_failure(x, n, r)
           IN  Careful(e, x, n) /\ KeepsExposure(e, x)
  <1> DEFINE e == handle_stop_loss_submission_failure(x, n, r)
             sent == r.stop = "lost"
             link == n + 1 + One(sent)
  <1>1. e.obj = [x EXCEPT !.close = link, !.status = IF r.exit = "accepted"
                                       THEN "POSITION_CLOSE_PENDING"
                                       ELSE "POSITION_CLOSE_FAILED"]
    BY DEF handle_stop_loss_submission_failure, EmergencyClose
  <1>2. /\ e.obj.stop = NoOrder /\ e.obj.tp = x.tp
        /\ e.obj.status = (IF r.exit = "accepted" THEN "POSITION_CLOSE_PENDING"
                                                  ELSE "POSITION_CLOSE_FAILED")
    BY <1>1 DEF LooseRow
  <1>3. /\ e.stop = sent /\ e.exit = (IF r.exit = "refused" THEN "void" ELSE "close")
        /\ e.kill /\ e.lost = One(sent) + One(r.exit = "lost")
    BY DEF handle_stop_loss_submission_failure, EmergencyClose
  <1>4. e.lost = 0 => ~sent
    BY <1>3 DEF One
  <1>5. KeepsExposure(e, x)
    BY <1>2 DEF KeepsExposure, OpenPositionStatuses
  <1> QED BY <1>2, <1>3, <1>4, <1>5 DEF Careful, Armed

LEMMA CarefulProtection ==
    ASSUME NEW x \in LooseRow, NEW n \in Nat, NEW r \in CallReplies
    PROVE  LET e == ensure_spot_market_protection(x, n, r)
           IN  /\ Careful(e, x, n) /\ KeepsExposure(e, x)
               /\ e.ready => e.exit # "void"
  <1> DEFINE e == ensure_spot_market_protection(x, n, r)
             stopDue == x.stop = NoOrder
             link == n + 1 + One(stopDue)
             armed == IF stopDue THEN [x EXCEPT !.stop = n + 1] ELSE x
             both == IF r.exit = "accepted" THEN [armed EXCEPT !.tp = link]
                                            ELSE armed
  <1>1. CASE x.type # "Market"
    <2>1. e = Effect(x)
      BY <1>1 DEF ensure_spot_market_protection, ArmProtection
    <2>2. e.obj = x /\ ~e.stop /\ e.exit = "none"
      BY <2>1 DEF Effect
    <2> QED BY <2>2, CarefulStatus DEF KeepsExposure, Held
  <1>2. CASE x.type = "Market" /\ stopDue /\ r.stop # "accepted"
    <2>1. e = handle_stop_loss_submission_failure(x, n, r)
      BY <1>2 DEF ensure_spot_market_protection, ArmProtection
    <2>2. ~e.ready
      BY <2>1 DEF handle_stop_loss_submission_failure, EmergencyClose
    <2> QED BY <1>2, <2>1, <2>2, CarefulEmergency
  <1>3. CASE x.type = "Market" /\ ~(stopDue /\ r.stop # "accepted")
    <2>1. /\ armed \in LooseRow /\ armed.stop # NoOrder /\ armed.status = x.status
          /\ armed.tp = x.tp /\ armed.stop = IF stopDue THEN n + 1 ELSE x.stop
          /\ both.status = x.status /\ both.stop = armed.stop
          /\ both.tp = IF r.exit = "accepted" THEN link ELSE x.tp
      BY DEF LooseRow, NoOrder
    <2>2. CASE x.tp # NoOrder \/ r.exit = "refused"
      <3>1. e = [Effect(armed) EXCEPT !.stop = stopDue]
        BY <1>3, <2>2 DEF ensure_spot_market_protection, ArmProtection
      <3>2. e.obj = armed /\ e.stop = stopDue /\ e.exit = "none" /\ e.lost = 0
        BY <3>1 DEF Effect
      <3> QED BY <2>1, <3>2 DEF Careful, Armed, KeepsExposure, Held
    <2>3. CASE ~(x.tp # NoOrder \/ r.exit = "refused")
      <3>1. e = [Effect(both) EXCEPT !.stop = stopDue, !.exit = "tp",
                                     !.lost = One(r.exit = "lost")]
        BY <1>3, <2>3 DEF ensure_spot_market_protection, ArmProtection
      <3>2. e.obj = both /\ e.stop = stopDue /\ e.exit = "tp" /\ e.lost = One(r.exit = "lost")
        BY <3>1 DEF Effect
      <3>3. e.lost = 0 => r.exit = "accepted"
        <4>1. r.exit \in Replies
          BY DEF CallReplies
        <4> QED BY <2>3, <3>2, <4>1 DEF One, Replies
      <3> QED BY <2>1, <2>3, <3>2, <3>3 DEF Careful, Armed, KeepsExposure, Held
    <2> QED BY <2>2, <2>3
  <1> QED BY <1>1, <1>2, <1>3

LEMMA CarefulFill ==
    ASSUME NEW x \in LooseRow, NEW full \in BOOLEAN, NEW n \in Nat, NEW r \in CallReplies
    PROVE  Careful(EntryFilled(x, full, n, r), x, n)
  <1> DEFINE e == EntryFilled(x, full, n, r)
             c == [x EXCEPT !.status = "ORDER_CONFIRMED", !.filled = TRUE]
             armed == ensure_spot_market_protection(c, n, r)
             open == [armed.obj EXCEPT !.status = "POSITION_OPEN"]
  <1>1. c \in LooseRow /\ c.stop = x.stop /\ c.tp = x.tp
    BY DEF LooseRow, Status
  <1>2. armed \in EffectSet /\ Careful(armed, c, n) /\ (armed.ready => armed.exit # "void")
    BY <1>1, ProtectionEffect, CarefulProtection
  <1>3. Careful(armed, x, n)
    BY <1>1, <1>2 DEF Careful, Armed
  <1>4. CASE ~full
    <2>1. e = Effect(c)
      BY <1>4 DEF EntryFilled
    <2>2. e.obj = c /\ ~e.stop /\ e.exit = "none"
      BY <2>1 DEF Effect
    <2> QED BY <1>1, <2>2, CarefulStatus
  <1>5. CASE full /\ armed.ready
    <2>1. e = [armed EXCEPT !.obj = open]
      BY <1>5 DEF EntryFilled
    <2>2. open.stop = armed.obj.stop /\ open.tp = armed.obj.tp
      BY <1>2 DEF EffectSet, LooseRow
    <2>3. /\ e.obj = open /\ e.stop = armed.stop /\ e.exit = armed.exit /\ e.lost = armed.lost
          /\ e.kill = armed.kill
      BY <2>1, <1>2 DEF EffectSet
    <2>4. e.exit # "void"
      BY <1>2, <1>5, <2>3
    <2> QED BY <1>3, <2>2, <2>3, <2>4 DEF Careful, Armed
  <1>6. CASE full /\ ~armed.ready
    <2>1. e = armed
      BY <1>6 DEF EntryFilled
    <2> QED BY <2>1, <1>3
  <1> QED BY <1>4, <1>5, <1>6

LEMMA CarefulUpdate ==
    ASSUME NEW x \in LooseRow, NEW o, NEW s \in Reports, NEW full \in BOOLEAN,
           NEW n \in Nat, NEW r \in CallReplies
    PROVE  LET e == apply_order_update(x, o, s, full, n, r)
           IN  /\ Careful(e, x, n) /\ KeepsExposure(e, x)
               /\ Halted(x) /\ ~IsExitLink(x, o) => e.obj = x
  <1> DEFINE e == apply_order_update(x, o, s, full, n, r)
             isExit == IsExitLink(x, o)
             ignored == IF isExit THEN should_ignore_close_update(x)
                                  ELSE should_ignore_entry_update(x, s)
  <1>1. x.status \in Held /\ ~isExit => ignored
    BY DEF Held, OpenPositionStatuses, should_ignore_entry_update
  <1>2. Halted(x) => x.status \in Held
    BY DEF Halted, Held, OpenPositionStatuses
  <1>3. CASE ignored
    <2>1. e = Effect(x)
      BY <1>3 DEF apply_order_update
    <2>2. e.obj = x /\ ~e.stop /\ e.exit = "none"
      BY <2>1 DEF Effect
    <2> QED BY <2>2, CarefulStatus DEF KeepsExposure, Held
  <1>4. CASE ~ignored /\ s = "Filled" /\ isExit
    <2>1. e = ExitFilled(x)
      BY <1>4 DEF apply_order_update
    <2>2. /\ e.obj = [x EXCEPT !.status = "PNL_RECORDED"] /\ ~e.stop /\ e.exit = "none"
      BY <2>1 DEF ExitFilled, Effect
    <2>3. /\ e.obj \in LooseRow /\ e.obj.status = "PNL_RECORDED"
          /\ e.obj.stop = x.stop /\ e.obj.tp = x.tp
      BY <2>2 DEF LooseRow, Status
    <2> QED BY <1>4, <2>2, <2>3, CarefulStatus DEF KeepsExposure
  <1>5. CASE ~ignored /\ s = "Filled" /\ ~isExit
    <2>1. e = EntryFilled(x, full, n, r)
      BY <1>5 DEF apply_order_update
    <2>2. x.status \notin Held
      BY <1>1, <1>5
    <2> QED BY <1>2, <2>1, <2>2, CarefulFill DEF KeepsExposure
  <1>6. CASE ~ignored /\ s # "Filled"
    <2>1. PICK st \in Status :
             /\ e = Effect([x EXCEPT !.status = st])
             /\ isExit => st \in {"POSITION_CLOSE_FAILED", "ORDER_PARTIALLY_FILLED"}
      <3>1. CASE isExit /\ s \in {"Rejected", "Cancelled"}
        <4>1. e = Effect([x EXCEPT !.status = "POSITION_CLOSE_FAILED"])
          BY <1>6, <3>1 DEF apply_order_update
        <4> QED BY <4>1 DEF Status
      <3>2. CASE ~(isExit /\ s \in {"Rejected", "Cancelled"})
        <4>1. e = Effect([x EXCEPT !.status = OrderStatusMap[s]])
          BY <1>6, <3>2 DEF apply_order_update
        <4>2. isExit => s = "PartiallyFilled"
          BY <1>6, <3>2 DEF Reports
        <4>3. isExit => OrderStatusMap[s] = "ORDER_PARTIALLY_FILLED"
          BY <4>2 DEF OrderStatusMap, Reports
        <4> QED BY <4>1, <4>3, StatusMapType
      <3> QED BY <3>1, <3>2
    <2>2. PICK y : y = [x EXCEPT !.status = st]
      OBVIOUS
    <2>3. y \in LooseRow /\ y.status = st /\ y.stop = x.stop /\ y.tp = x.tp
      BY <2>2 DEF LooseRow
    <2>4. e.obj = y /\ ~e.stop /\ e.exit = "none"
      BY <2>1, <2>2 DEF Effect
    <2>5. x.status \in Held => isExit
      BY <1>1, <1>6
    <2>6. KeepsExposure(e, x)
      BY <2>1, <2>3, <2>4, <2>5 DEF KeepsExposure, OpenPositionStatuses
    <2> QED BY <1>2, <2>3, <2>4, <2>5, <2>6, CarefulStatus
  <1> QED BY <1>3, <1>4, <1>5, <1>6

(* Rows stay as they are; an order that turns up was no protective order.   *)
LEMMA RowsStay ==
    ASSUME Core, RowsInv, UNCHANGED <<row, raised, stale>>, OrdersGrow,
           \/ faults' # 0
           \/ /\ faults' = faults
              /\ \A o \in OrderIds : ord'[o].kind \in {"stop", "tp"} =>
                    ord[o].kind = ord'[o].kind /\ ord[o].trade = ord'[o].trade
    PROVE  RowsInv'
  <1>1. ASSUME NEW t \in Trades, Unsent(t)' PROVE Unsent(t)
    <2>1. row[t].close # NoOrder /\ ord'[row[t].close].kind = "none"
      BY <1>1 DEF Unsent
    <2>2. row[t].close \in OrderIds
      BY <2>1, Bounds DEF Core, CoreType, LinksInv, OrderIds
    <2> QED BY <2>1, <2>2 DEF Unsent, OrdersGrow
  <1>2. NoStrayProtection'
    BY DEF RowsInv, NoStrayProtection
  <1> QED BY <1>1, <1>2 DEF RowsInv

(* A transaction that counts as no outdated write either leaves its row as  *)
(* it is or started from it.                                                *)
LEMMA CommitOrKeep ==
    ASSUME Core, NEW t \in Trades, NEW x \in LooseRow, NEW e \in EffectSet, Commit(t, x, e)
    PROVE  /\ \A u \in Trades \ {t} : row'[u] = row[u] /\ (stale'[u] <=> stale[u])
           /\ stale[t] => stale'[t]
           /\ row'[t].close = (IF e.obj.close # x.close THEN e.obj.close ELSE row[t].close)
           /\ ~stale'[t] =>
                 \/ /\ e.obj = x
                    /\ row'[t].status = row[t].status /\ row'[t].stop = row[t].stop
                    /\ row'[t].tp = row[t].tp /\ row'[t].close = row[t].close
                 \/ /\ x = row[t]
                    /\ row'[t].status = e.obj.status /\ row'[t].stop = e.obj.stop
                    /\ row'[t].tp = e.obj.tp /\ row'[t].close = e.obj.close
  <1>1. /\ row \in [Trades -> Row] /\ stale \in [Trades -> BOOLEAN]
    BY DEF Core, CoreType
  <1>2. /\ row' = [row EXCEPT ![t] = Flush(row[t], x, e.obj)]
        /\ stale' = [stale EXCEPT ![t] = stale[t] \/ (x # row[t] /\ e.obj # x)]
    BY <1>1 DEF Commit
  <1>3. /\ row'[t] = Flush(row[t], x, e.obj)
        /\ stale'[t] = (stale[t] \/ (x # row[t] /\ e.obj # x))
        /\ \A u \in Trades \ {t} : row'[u] = row[u] /\ (stale'[u] <=> stale[u])
    BY <1>1, <1>2
  <1>4. /\ row'[t].status = (IF e.obj.status # x.status THEN e.obj.status ELSE row[t].status)
        /\ row'[t].stop = (IF e.obj.stop # x.stop THEN e.obj.stop ELSE row[t].stop)
        /\ row'[t].tp = (IF e.obj.tp # x.tp THEN e.obj.tp ELSE row[t].tp)
        /\ row'[t].close = (IF e.obj.close # x.close THEN e.obj.close ELSE row[t].close)
    BY <1>3 DEF Flush
  <1>5. CASE e.obj = x
    BY <1>3, <1>4, <1>5
  <1>6. CASE x = row[t]
    BY <1>3, <1>4, <1>6
  <1>7. CASE e.obj # x /\ x # row[t]
    BY <1>3, <1>4, <1>7
  <1> QED BY <1>5, <1>6, <1>7

(* One transaction, whoever commits it. *)
LEMMA CommitRows ==
    ASSUME Core, RowsInv, Core', OrdersGrow, NEW t \in Trades, NEW x, Loaded(t, x),
           NEW e \in EffectSet, NewLinks(e, x, last), Careful(e, x, last), Commit(t, x, e),
           Unsent(t) /\ x = row[t] /\ Halted(x) => e.obj = x \/ e.obj.close # x.close
    PROVE  RowsInv'
  <1>1. /\ x \in LooseRow /\ last \in Nat /\ x.close <= last /\ x.close \in Nat
        /\ row \in [Trades -> Row] /\ faults \in Nat /\ e.lost \in Nat
        /\ One(e.stop) \in {0, 1} /\ raised \in BOOLEAN
    BY RowIsLoose, Bounds DEF Loaded, Core, CoreType, LooseRow, EffectSet, One
  <1>2. /\ \A u \in Trades \ {t} : row'[u] = row[u] /\ (stale'[u] <=> stale[u])
        /\ stale[t] => stale'[t]
        /\ row'[t].close = (IF e.obj.close # x.close THEN e.obj.close ELSE row[t].close)
        /\ ~stale'[t] =>
              \/ /\ e.obj = x
                 /\ row'[t].status = row[t].status /\ row'[t].stop = row[t].stop
                 /\ row'[t].tp = row[t].tp /\ row'[t].close = row[t].close
              \/ /\ x = row[t]
                 /\ row'[t].status = e.obj.status /\ row'[t].stop = e.obj.stop
                 /\ row'[t].tp = e.obj.tp /\ row'[t].close = e.obj.close
    BY <1>1, CommitOrKeep
  <1>3. /\ WithinBounds(e) /\ raised' = (raised \/ e.kill) /\ faults' = faults + e.lost
        /\ last' = last + Used(e) /\ last + Used(e) <= MaxOrders
        /\ \A o \in OrderIds :
              ord'[o] = IF e.stop /\ o = last + 1 THEN NewOrder("stop", t)
                        ELSE IF e.exit # "none" /\ o = last + 1 + One(e.stop)
                        THEN NewOrder(IF e.exit = "void" THEN "none" ELSE e.exit, t)
                        ELSE ord[o]
    BY DEF Commit, PlaceOrders, WithinBounds
  <1>4. ASSUME NEW u \in Trades, ~stale'[u] PROVE Armed(row'[u])
    <2>1. Armed(row[u])
      BY <1>2, <1>4 DEF RowsInv
    <2> QED BY <1>2, <1>4, <2>1 DEF Careful, Armed
  <1>5. ASSUME NEW u \in Trades, Unsent(u)' PROVE raised' /\ (stale'[u] \/ Halted(row'[u]))
    <2>1. row'[u].close # NoOrder /\ ord'[row'[u].close].kind = "none"
      BY <1>5 DEF Unsent
    <2>2. CASE row'[u].close = row[u].close
      <3>1. row[u].close \in OrderIds
        BY <2>1, <2>2, Bounds DEF Core, CoreType, LinksInv, OrderIds
      <3>2. Unsent(u)
        BY <2>1, <2>2, <3>1 DEF Unsent, OrdersGrow
      <3>3. raised /\ (stale[u] \/ Halted(row[u]))
        BY <3>2 DEF RowsInv
      <3>4. CASE u # t
        BY <1>2, <1>3, <3>3, <3>4
      <3>5. CASE u = t
        <4>1. SUFFICES ASSUME ~stale'[t] PROVE Halted(row'[t])
          BY <1>3, <3>3, <3>5
        <4>2. Halted(row[t])
          BY <1>2, <3>3, <3>5, <4>1
        <4>3. CASE e.obj = x
          BY <1>2, <4>1, <4>2, <4>3 DEF Halted
        <4>4. CASE e.obj # x
          <5>1. x = row[t] /\ row'[t].close = e.obj.close
            BY <1>2, <4>1, <4>4
          <5>2. e.obj.close = x.close
            BY <2>2, <3>5, <5>1
          <5> QED BY <3>2, <3>5, <4>2, <4>4, <5>1, <5>2
        <4> QED BY <4>3, <4>4
      <3> QED BY <3>4, <3>5
    <2>3. CASE row'[u].close # row[u].close
      <3>1. u = t /\ e.obj.close # x.close /\ row'[t].close = e.obj.close
        BY <1>2, <2>3
      <3>2. e.exit \in {"close", "void"} /\ e.obj.close = last + 1 + One(e.stop)
        BY <3>1 DEF NewLinks
      <3>3. last + 1 + One(e.stop) \in OrderIds
        BY <1>1, <1>3, <3>2, Bounds DEF Used, One, OrderIds
      <3>4. ord'[last + 1 + One(e.stop)] =
               NewOrder(IF e.exit = "void" THEN "none" ELSE e.exit, t)
        <4>1. ~(e.stop /\ last + 1 + One(e.stop) = last + 1)
          BY <1>1 DEF One
        <4> QED BY <1>3, <3>2, <3>3, <4>1
      <3>5. e.exit = "void"
        BY <2>1, <3>1, <3>2, <3>4 DEF NewOrder
      <3>6. /\ e.kill /\ e.obj.status = "POSITION_CLOSE_FAILED"
            /\ e.obj.stop = NoOrder /\ e.obj.tp = x.tp /\ x.stop = NoOrder
        BY <3>5 DEF Careful
      <3>7. ASSUME ~stale'[t] PROVE Halted(row'[t])
        <4>1. /\ x = row[t]
              /\ row'[t].status = e.obj.status /\ row'[t].stop = e.obj.stop
              /\ row'[t].tp = e.obj.tp
          BY <1>2, <3>1, <3>7
        <4>2. Armed(x)
          BY <1>2, <3>7, <4>1 DEF RowsInv
        <4> QED BY <3>6, <4>1, <4>2 DEF Halted, Armed
      <3> QED BY <1>3, <3>1, <3>6, <3>7
    <2> QED BY <2>2, <2>3
  <1>6. NoStrayProtection'
    <2> SUFFICES ASSUME NEW u \in Trades, NEW o \in OrderIds, ~stale'[u], faults' = 0,
                        ord'[o].trade = u
                 PROVE  /\ ord'[o].kind = "stop" => row'[u].stop = o
                        /\ ord'[o].kind = "tp" => row'[u].tp = o
      BY DEF NoStrayProtection
    <2>1. faults = 0 /\ e.lost = 0 /\ ~stale[u]
      <3>1. faults + e.lost = 0
        BY <1>3
      <3>2. faults = 0 /\ e.lost = 0
        BY <1>1, <3>1
      <3>3. ~stale[u]
        BY <1>2
      <3> QED BY <3>2, <3>3
    <2>2. /\ e.stop => e.obj.stop = last + 1 /\ x.stop = NoOrder
          /\ ~e.stop => e.obj.stop = x.stop
          /\ e.exit = "tp" => e.obj.tp = last + 1 + One(e.stop) /\ x.tp = NoOrder
          /\ e.exit # "tp" => e.obj.tp = x.tp
      BY <2>1 DEF Careful
    <2>3. o \in Nat /\ o # NoOrder
      BY DEF OrderIds, NoOrder
    <2>4. ASSUME ord'[o] = ord[o], ord[o].kind = "stop" PROVE row'[u].stop = o
      <3>1. row[u].stop = o
        BY <2>1, <2>4 DEF RowsInv, NoStrayProtection
      <3>2. CASE u # t
        BY <1>2, <3>1, <3>2
      <3>3. CASE u = t /\ e.obj = x
        BY <1>2, <3>1, <3>3
      <3>4. CASE u = t /\ e.obj # x
        BY <1>2, <2>2, <2>3, <3>1, <3>4
      <3> QED BY <3>2, <3>3, <3>4
    <2>5. ASSUME ord'[o] = ord[o], ord[o].kind = "tp" PROVE row'[u].tp = o
      <3>1. row[u].tp = o
        BY <2>1, <2>5 DEF RowsInv, NoStrayProtection
      <3>2. CASE u # t
        BY <1>2, <3>1, <3>2
      <3>3. CASE u = t /\ e.obj = x
        BY <1>2, <3>1, <3>3
      <3>4. CASE u = t /\ e.obj # x
        BY <1>2, <2>2, <2>3, <3>1, <3>4
      <3> QED BY <3>2, <3>3, <3>4
    <2>6. CASE e.stop /\ o = last + 1
      <3>1. ord'[o] = NewOrder("stop", t)
        BY <1>3, <2>6
      <3>2. u = t /\ ord'[o].kind = "stop"
        BY <3>1 DEF NewOrder
      <3>3. e.obj.stop # x.stop
        BY <2>2, <2>3, <2>6
      <3> QED BY <1>2, <2>2, <2>6, <3>2, <3>3
    <2>7. CASE ~(e.stop /\ o = last + 1) /\ e.exit # "none" /\ o = last + 1 + One(e.stop)
      <3>1. ord'[o] = NewOrder(IF e.exit = "void" THEN "none" ELSE e.exit, t)
        BY <1>3, <2>7
      <3>2. u = t /\ ord'[o].kind = (IF e.exit = "void" THEN "none" ELSE e.exit)
        BY <3>1 DEF NewOrder
      <3>3. ord'[o].kind # "stop"
        BY <3>2 DEF EffectSet
      <3>4. ASSUME ord'[o].kind = "tp" PROVE row'[t].tp = o
        <4>1. e.exit = "tp"
          BY <3>2, <3>4
        <4>2. e.obj.tp # x.tp /\ e.obj.tp = o
          BY <2>2, <2>3, <2>7, <4>1
        <4> QED BY <1>2, <3>2, <4>2
      <3> QED BY <3>2, <3>3, <3>4
    <2>8. CASE ~(e.stop /\ o = last + 1) /\ ~(e.exit # "none" /\ o = last + 1 + One(e.stop))
      <3>1. ord'[o] = ord[o]
        BY <1>3, <2>8
      <3> QED BY <2>4, <2>5, <3>1
    <2> QED BY <2>6, <2>7, <2>8
  <1>7. /\ \A u \in Trades : ~stale'[u] => Armed(row'[u])
        /\ \A u \in Trades : Unsent(u)' => raised' /\ (stale'[u] \/ Halted(row'[u]))
    BY <1>4, <1>5
  <1> QED BY <1>6, <1>7 DEF RowsInv, Armed, Halted

(* No position that is held is dropped by a transaction. *)
ExposureStays ==
    \A t \in Trades : row[t].status \in Held /\ ~stale'[t] =>
        row'[t].status \in OpenPositionStatuses \cup {"PNL_RECORDED"}

LEMMA CommitExposure ==
    ASSUME Core, NEW t \in Trades, NEW x \in LooseRow, NEW e \in EffectSet, Commit(t, x, e),
           KeepsExposure(e, x)
    PROVE  ExposureStays
  <1>1. /\ \A u \in Trades \ {t} : row'[u] = row[u]
        /\ ~stale'[t] =>
              \/ row'[t].status = row[t].status
              \/ x = row[t] /\ row'[t].status = e.obj.status
    BY CommitOrKeep
  <1>2. Held \subseteq OpenPositionStatuses
    BY DEF Held
  <1> QED BY <1>1, <1>2 DEF ExposureStays, KeepsExposure

LEMMA RowsExposure ==
    ASSUME row' = row
    PROVE  ExposureStays
  BY DEF ExposureStays, Held

CareInv == IndInv /\ RowsInv /\ ListedInv

LEMMA InitCare == Init => CareInv
  <1> SUFFICES ASSUME Init PROVE CareInv
    OBVIOUS
  <1>1. IndInv
    BY InitInv
  <1>2. PICK h \in [Trades -> Handover] :
          /\ row = [t \in Trades |-> [Blank EXCEPT !.status = h[t].status,
                                                  !.type = h[t].type]]
          /\ ord = [o \in OrderIds |->
                       IF o \in Trades
                       THEN [kind |-> h[o].kind, trade |-> o, hist |-> h[o].hist]
                       ELSE NewOrder("none", 1)]
    BY DEF Init
  <1>3. \A t \in Trades : row[t].tp = NoOrder /\ row[t].close = NoOrder
    BY <1>2 DEF Blank
  <1>4. \A o \in OrderIds : ord[o].kind \notin {"stop", "tp"}
    <2>1. ASSUME NEW o \in OrderIds PROVE ord[o].kind \in {"none", "entry"}
      <3>1. CASE o \in Trades
        <4>1. h[o] \in Handover /\ ord[o].kind = h[o].kind
          BY <1>2, <3>1
        <4> QED BY <4>1 DEF Handover
      <3>2. CASE o \notin Trades
        BY <1>2, <3>2 DEF NewOrder
      <3> QED BY <3>1, <3>2
    <2> QED BY <2>1
  <1>5. RowsInv
    BY <1>3, <1>4 DEF RowsInv, Armed, Unsent, NoStrayProtection
  <1>6. ListedInv
    BY DEF Init, ListedInv
  <1> QED BY <1>1, <1>5, <1>6 DEF CareInv

(* A transaction the WebSocket handler or the worker makes of an update.    *)
LEMMA UpdateRows ==
    ASSUME Core, RowsInv, Core', OrdersGrow, NEW t \in Trades, NEW x, Loaded(t, x),
           LinksInv(x, t), NEW o \in OrderIds, NEW s \in Reports, s \in ord[o].hist,
           IsExitLink(x, o) \/ o = t, NEW full \in BOOLEAN, NEW r \in CallReplies,
           NEW e, e = apply_order_update(x, o, s, full, last, r),
           Commit(t, x, e) \/ RollBack(t, e)
    PROVE  RowsInv' /\ ExposureStays
  <1>1. x \in LooseRow /\ last \in Nat
    BY RowIsLoose, Bounds DEF Loaded, Core, CoreType
  <1>2. /\ e \in EffectSet /\ NewLinks(e, x, last)
        /\ Careful(e, x, last) /\ KeepsExposure(e, x)
        /\ Halted(x) /\ ~IsExitLink(x, o) => e.obj = x
    BY <1>1, UpdateEffect, CarefulUpdate
  <1>3. CASE Commit(t, x, e)
    <2>1. Unsent(t) /\ x = row[t] /\ Halted(x) => e.obj = x
      <3>1. SUFFICES ASSUME Unsent(t), x = row[t], Halted(x) PROVE ~IsExitLink(x, o)
        BY <1>2
      <3>2. x.stop = NoOrder /\ x.tp = NoOrder /\ ord[x.close].kind = "none"
        BY <3>1 DEF Halted, Unsent
      <3>3. o # NoOrder /\ ord[o].kind # "none"
        BY DEF Core, OrdersInv, OrderIds, NoOrder
      <3> QED BY <3>2, <3>3 DEF IsExitLink
    <2> QED BY <1>1, <1>2, <1>3, <2>1, CommitRows, CommitExposure
  <1>4. CASE RollBack(t, e)
    <2>1. UNCHANGED <<row, raised, stale>> /\ faults' # 0
      BY <1>2, <1>4, Bounds DEF RollBack, Core, CoreType, EffectSet
    <2> QED BY <2>1, RowsStay, RowsExposure
  <1> QED BY <1>3, <1>4

LEMMA ExchangeCare ==
    ASSUME CareInv, Exchange, IndInv'
    PROVE  CareInv' /\ ExposureStays
  <1>1. Core /\ RowsInv /\ ListedInv /\ CoreType /\ OrdersInv
    BY IndInvParts DEF CareInv, Core
  <1>2. UNCHANGED <<row, rec, raised, stale, faults>>
    BY DEF Exchange, ExchangeProgress, EntryArrives
  <1>3. ASSUME NEW p \in OrderIds
        PROVE  /\ ord[p].hist \subseteq ord'[p].hist /\ ord'[p].trade = ord[p].trade
               /\ ord'[p].kind = ord[p].kind \/ (ord[p].kind = "none" /\ ord'[p].kind = "entry"
                                                /\ p \in Trades)
    <2>1. CASE \E o \in OrderIds, s \in Reports : ExchangeProgress(o, s)
      <3>1. PICK o \in OrderIds, s \in Reports : ExchangeProgress(o, s)
        BY <2>1
      <3>2. /\ ord' = [ord EXCEPT ![o] = [ord[o] EXCEPT !.hist = ord[o].hist \cup {s}]]
            /\ ord[o] \in Order /\ ord[p] \in Order
        BY <1>1, <3>1 DEF ExchangeProgress, CoreType
      <3> QED BY <1>1, <3>2 DEF CoreType, Order
    <2>2. CASE \E t \in Trades : EntryArrives(t)
      <3>1. PICK t \in Trades : EntryArrives(t)
        BY <2>2
      <3>2. /\ ord' = [ord EXCEPT ![t] = [ord[t] EXCEPT !.kind = "entry"]]
            /\ ord[t].kind = "none" /\ t \in OrderIds /\ ord[t] \in Order /\ ord[p] \in Order
        BY <1>1, <3>1, Bounds DEF EntryArrives, CoreType
      <3> QED BY <1>1, <3>1, <3>2 DEF CoreType, Order
    <2> QED BY <2>1, <2>2 DEF Exchange
  <1>4. OrdersGrow
    <2> SUFFICES ASSUME NEW p \in OrderIds
                 PROVE  p \in (NTrades + 1)..last => p \notin Trades
      BY <1>3 DEF OrdersGrow
    <2> QED BY Bounds DEF Trades
  <1>5. RowsInv'
    BY <1>1, <1>2, <1>3, <1>4, RowsStay
  <1>6. ListedInv'
    BY <1>1, <1>2 DEF ListedInv
  <1> QED BY <1>2, <1>5, <1>6, RowsExposure DEF CareInv

LEMMA WebSocketCare ==
    ASSUME CareInv, WebSocket, IndInv'
    PROVE  CareInv' /\ ExposureStays
  <1>1. PICK t \in Trades, o \in OrderIds, s \in Reports : WsOrder(t, o, s)
    BY DEF WebSocket
  <1>2. Core /\ RowsInv /\ ListedInv /\ LinksInv(row[t], t)
    BY IndInvParts DEF CareInv, Core
  <1>3. PICK full \in BOOLEAN, r \in CallReplies :
            \E e : /\ e = apply_order_update(row[t], o, s, full, last, r)
                   /\ Commit(t, row[t], e) \/ RollBack(t, e)
    BY <1>1 DEF WsOrder
  <1>4. PICK e : /\ e = apply_order_update(row[t], o, s, full, last, r)
                 /\ Commit(t, row[t], e) \/ RollBack(t, e)
    BY <1>3
  <1>5. /\ s \in ord[o].hist /\ (IsExitLink(row[t], o) \/ o = t) /\ rec' = rec
    BY <1>1 DEF WsOrder, Linked, IsExitLink
  <1>6. PICK x : x = row[t]
    OBVIOUS
  <1>7. /\ Loaded(t, x) /\ LinksInv(x, t) /\ (IsExitLink(x, o) \/ o = t)
        /\ e = apply_order_update(x, o, s, full, last, r)
        /\ Commit(t, x, e) \/ RollBack(t, e)
    BY <1>2, <1>4, <1>5, <1>6, RowLoaded DEF Commit
  <1>8. Core' /\ OrdersGrow
    BY <1>2, <1>5, <1>7, UpdateStep
  <1>9. RowsInv' /\ ExposureStays
    BY <1>2, <1>5, <1>7, <1>8, UpdateRows
  <1>10. ListedInv'
    BY <1>2, <1>5 DEF ListedInv
  <1> QED BY <1>9, <1>10 DEF CareInv

LEMMA RecListCare ==
    ASSUME CareInv, RecList, IndInv'
    PROVE  CareInv' /\ ExposureStays
  <1>1. Core /\ RowsInv
    BY IndInvParts DEF CareInv
  <1>2. UNCHANGED <<row, ord, last, raised, outcomes, stale, faults>>
    BY DEF RecList
  <1>3. OrdersGrow
    BY <1>1, <1>2, SameCore
  <1>4. RowsInv'
    BY <1>1, <1>2, <1>3, RowsStay
  <1>5. ListedInv'
    <2> SUFFICES ASSUME NEW t \in rec'.todo, rec'.pass = "protect"
                 PROVE  MissingProtection(rec'.loaded[t])
      BY DEF ListedInv
    <2>1. /\ rec'.todo = Listed("protect") /\ t \in Listed("protect") /\ t \in Trades
          /\ rec'.loaded[t] = row[t]
      BY DEF RecList, Listed
    <2> QED BY <2>1 DEF Listed
  <1> QED BY <1>2, <1>4, <1>5, RowsExposure DEF CareInv

LEMMA WorkerCare ==
    ASSUME CareInv, NEW t \in Trades, Worker(t), IndInv'
    PROVE  CareInv' /\ ExposureStays
  <1>1. Core /\ FlowType /\ CopiesInv /\ RowsInv /\ ListedInv /\ Core'
    BY IndInvParts DEF CareInv, IndInv, Core, TypeOK, CoreType
  <1>2. t \in rec.todo /\ RecForget(t)
    BY DEF Worker, RecApply, RecSkip, RecProtect
  <1>3. PICK x : x = rec.loaded[t]
    OBVIOUS
  <1>4. Loaded(t, x) /\ LinksInv(x, t) /\ x \in LooseRow /\ last \in Nat
    BY <1>1, <1>2, <1>3, CopyLoaded, RowIsLoose, Bounds DEF Loaded, Core, CoreType
  <1>5. RowsInv' /\ ExposureStays
    <2>1. CASE RecApply(t)
      <3>1. PICK o, s : o = tracked_order_link_id(x, t) /\ s = rec.reply[t]
        OBVIOUS
      <3>2. s \in Reports /\ o \in OrderIds /\ s \in ord[o].hist /\ (IsExitLink(x, o) \/ o = t)
        <4>1. s \in Reports
          BY <2>1, <3>1 DEF RecApply
        <4>2. o \in OrderIds
          BY <3>1, <1>1, <1>4, TrackedIsOrder DEF Core
        <4>3. s \in ord[o].hist
          BY <3>1, <4>1, <1>1, <1>2, <1>3 DEF CopiesInv
        <4>4. IsExitLink(x, o) \/ o = t
          BY <3>1 DEF tracked_order_link_id, IsExitLink
        <4> QED BY <4>1, <4>2, <4>3, <4>4
      <3>3. PICK full \in BOOLEAN, r \in CallReplies :
              \E e : /\ e = apply_order_update(rec.loaded[t],
                                tracked_order_link_id(rec.loaded[t], t),
                                rec.reply[t], full, last, r)
                     /\ Commit(t, rec.loaded[t], e) \/ RollBack(t, e)
        BY <2>1 DEF RecApply
      <3>4. PICK e : /\ e = apply_order_update(rec.loaded[t],
                                tracked_order_link_id(rec.loaded[t], t),
                                rec.reply[t], full, last, r)
                     /\ Commit(t, rec.loaded[t], e) \/ RollBack(t, e)
        BY <3>3
      <3>5. /\ e = apply_order_update(x, o, s, full, last, r)
            /\ Commit(t, x, e) \/ RollBack(t, e)
        BY <1>3, <3>1, <3>4 DEF Commit
      <3>6. OrdersGrow
        BY <1>1, <1>4, <3>2, <3>5, UpdateStep
      <3> QED BY <1>1, <1>4, <3>2, <3>5, <3>6, UpdateRows
    <2>2. CASE RecSkip(t)
      <3>1. UNCHANGED <<row, ord, last, raised, outcomes, stale, faults>>
        BY <2>2 DEF RecSkip
      <3>2. OrdersGrow
        BY <1>1, <3>1, SameCore
      <3> QED BY <1>1, <3>1, <3>2, RowsStay, RowsExposure
    <2>3. CASE RecProtect(t)
      <3>1. PICK r \in CallReplies :
              \E e : /\ e = ensure_spot_market_protection(rec.loaded[t], last, r)
                     /\ Commit(t, rec.loaded[t], e) \/ RollBack(t, e)
        BY <2>3 DEF RecProtect
      <3>2. PICK e : /\ e = ensure_spot_market_protection(rec.loaded[t], last, r)
                     /\ Commit(t, rec.loaded[t], e) \/ RollBack(t, e)
        BY <3>1
      <3>3. /\ e = ensure_spot_market_protection(x, last, r)
            /\ Commit(t, x, e) \/ RollBack(t, e)
        BY <1>3, <3>2 DEF Commit
      <3>4. /\ e \in EffectSet /\ NewLinks(e, x, last) /\ Quiet(e, x)
            /\ Careful(e, x, last) /\ KeepsExposure(e, x)
        BY <1>4, <3>3, ProtectionEffect, CarefulProtection
      <3>5. OrdersGrow
        BY <1>1, <1>4, <3>3, <3>4, CommitStep, RollBackStep DEF Justified, Quiet
      <3>6. ~Halted(x)
        BY <1>1, <1>2, <1>3, <2>3 DEF ListedInv, RecProtect, MissingProtection, Halted
      <3>7. CASE Commit(t, x, e)
        BY <1>1, <1>4, <3>4, <3>5, <3>6, <3>7, CommitRows, CommitExposure
      <3>8. CASE RollBack(t, e)
        <4>1. UNCHANGED <<row, raised, stale>> /\ faults' # 0
          BY <1>1, <3>4, <3>8, Bounds DEF RollBack, Core, CoreType, EffectSet
        <4> QED BY <1>1, <3>5, <4>1, RowsStay, RowsExposure
      <3> QED BY <3>3, <3>7, <3>8
    <2> QED BY <2>1, <2>2, <2>3 DEF Worker
  <1>6. ListedInv'
    <2>1. /\ rec'.pass = rec.pass /\ rec'.todo \subseteq rec.todo
          /\ \A u \in rec'.todo : rec'.loaded[u] = rec.loaded[u]
      BY <1>1, <1>2, Forgets DEF RecForget, FlowType
    <2> QED BY <1>1, <2>1 DEF ListedInv
  <1> QED BY <1>5, <1>6 DEF CareInv

(* Only the committed state and the worker matter to CareInv. *)
LEMMA OthersCare ==
    ASSUME CareInv, IndInv', UNCHANGED <<row, ord, last, raised, outcomes, stale, faults, rec>>
    PROVE  CareInv' /\ ExposureStays
  <1>1. Core /\ RowsInv /\ ListedInv
    BY IndInvParts DEF CareInv
  <1>2. RowsInv'
    BY <1>1, SameCore, RowsStay
  <1>3. ListedInv'
    BY <1>1 DEF ListedInv
  <1> QED BY <1>2, <1>3, RowsExposure DEF CareInv

LEMMA CloseSubmitCare ==
    ASSUME CareInv, NEW c \in Closers, NEW reply \in Replies, CloseSubmit(c, reply), IndInv'
    PROVE  CareInv' /\ ExposureStays
  <1>1. Core /\ FlowType /\ RowsInv /\ ListedInv /\ Core' /\ last \in Nat
    BY IndInvParts, Bounds DEF CareInv, IndInv, Core, TypeOK, CoreType
  <1>2. rec' = rec
    BY DEF CloseSubmit
  <1>3. PICK t \in Trades, x \in LooseRow, e \in EffectSet :
          /\ Loaded(t, x) /\ NewLinks(e, x, last) /\ Justified(t, x, e)
          /\ e.obj.status = "POSITION_CLOSE_PENDING" /\ e.obj.close # x.close
          /\ e.obj.stop = x.stop /\ e.obj.tp = x.tp /\ ~e.stop /\ e.exit = "close"
          /\ \/ Commit(t, x, e)
             \/ RollBack(t, e)
             \/ UNCHANGED <<row, ord, last, raised, outcomes, stale, faults>>
    BY <1>1, CloseTransaction
  <1>4. Careful(e, x, last) /\ KeepsExposure(e, x)
    BY <1>3 DEF Careful, Armed, KeepsExposure, OpenPositionStatuses
  <1>5. CASE Commit(t, x, e)
    <2>1. OrdersGrow
      BY <1>1, <1>3, <1>5, CommitStep
    <2>2. RowsInv' /\ ExposureStays
      BY <1>1, <1>3, <1>4, <1>5, <2>1, CommitRows, CommitExposure
    <2> QED BY <1>1, <1>2, <2>2 DEF CareInv, ListedInv
  <1>6. CASE RollBack(t, e)
    <2>1. UNCHANGED <<row, raised, stale>> /\ faults' # 0 /\ OrdersGrow
      BY <1>1, <1>6, RollBackStep, Bounds DEF RollBack, Core, CoreType, EffectSet
    <2>2. RowsInv' /\ ExposureStays
      BY <1>1, <2>1, RowsStay, RowsExposure
    <2> QED BY <1>1, <1>2, <2>2 DEF CareInv, ListedInv
  <1>7. CASE UNCHANGED <<row, ord, last, raised, outcomes, stale, faults>>
    BY <1>2, <1>7, OthersCare
  <1> QED BY <1>3, <1>5, <1>6, <1>7

LEMMA ReplayCare ==
    ASSUME CareInv, reconcile_pending_unknown, IndInv'
    PROVE  CareInv' /\ ExposureStays
  <1>1. Core /\ FlowType /\ RowsInv /\ ListedInv /\ Core' /\ last \in Nat
    BY IndInvParts, Bounds DEF CareInv, IndInv, Core, TypeOK, CoreType
  <1>2. rec' = rec
    BY DEF reconcile_pending_unknown
  <1>3. PICK t \in Trades, x \in LooseRow, e \in EffectSet :
          /\ Loaded(t, x) /\ NewLinks(e, x, last) /\ Justified(t, x, e)
          /\ x.status = "ORDER_PENDING_UNKNOWN"
          /\ e.obj.stop = x.stop /\ e.obj.tp = x.tp /\ ~e.stop /\ e.exit = "none"
          /\ Commit(t, x, e)
    BY <1>1, ReplayTransaction
  <1>4. Careful(e, x, last) /\ KeepsExposure(e, x) /\ ~Halted(x)
    BY <1>3 DEF Careful, Armed, KeepsExposure, Held, OpenPositionStatuses, Halted
  <1>5. OrdersGrow
    BY <1>1, <1>3, CommitStep
  <1>6. RowsInv' /\ ExposureStays
    BY <1>1, <1>3, <1>4, <1>5, CommitRows, CommitExposure
  <1> QED BY <1>1, <1>2, <1>6 DEF CareInv, ListedInv

LEMMA CrashCare ==
    ASSUME CareInv, Crash, IndInv'
    PROVE  CareInv' /\ ExposureStays
  <1>1. Core /\ RowsInv /\ faults \in Nat
    BY IndInvParts, Bounds DEF CareInv, Core, CoreType
  <1>2. UNCHANGED <<row, ord, raised, stale>> /\ faults' # 0 /\ rec'.todo = {}
    BY <1>1 DEF Crash
  <1>3. OrdersGrow
    BY <1>2 DEF OrdersGrow
  <1>4. RowsInv'
    BY <1>1, <1>2, <1>3, RowsStay
  <1> QED BY <1>2, <1>4, RowsExposure DEF CareInv, ListedInv

LEMMA NextCare == CareInv /\ [Next]_vars => CareInv' /\ ExposureStays
  <1> SUFFICES ASSUME CareInv, [Next]_vars PROVE CareInv' /\ ExposureStays
    OBVIOUS
  <1>1. IndInv'
    BY NextKeeps DEF CareInv
  <1>2. CASE Exchange
    BY <1>1, <1>2, ExchangeCare
  <1>3. CASE WebSocket
    BY <1>1, <1>3, WebSocketCare
  <1>4. CASE RecList
    BY <1>1, <1>4, RecListCare
  <1>5. CASE \E t \in Trades : Worker(t)
    BY <1>1, <1>5, WorkerCare
  <1>6. CASE PositionManager
    <2>1. CASE \E c \in Closers, reply \in Replies : CloseSubmit(c, reply)
      BY <1>1, <2>1, CloseSubmitCare
    <2>2. CASE ~ \E c \in Closers, reply \in Replies : CloseSubmit(c, reply)
      <3>1. UNCHANGED <<row, ord, last, raised, outcomes, stale, faults, rec>>
        BY <1>6, <2>2 DEF PositionManager, ClientClose, MonitorScan, MonitorClose,
                          MonitorRefused, CloseRead
      <3> QED BY <1>1, <3>1, OthersCare
    <2> QED BY <2>1, <2>2
  <1>7. CASE Replay
    <2>1. CASE \E t \in Trades : ReplayRead(t)
      <3>1. UNCHANGED <<row, ord, last, raised, outcomes, stale, faults, rec>>
        BY <2>1 DEF ReplayRead
      <3> QED BY <1>1, <3>1, OthersCare
    <2>2. CASE reconcile_pending_unknown
      BY <1>1, <2>2, ReplayCare
    <2> QED BY <1>7, <2>1, <2>2 DEF Replay
  <1>8. CASE Crash
    BY <1>1, <1>8, CrashCare
  <1>9. CASE UNCHANGED vars
    <2>1. UNCHANGED <<row, ord, last, raised, outcomes, stale, faults, rec>>
      BY <1>9 DEF vars
    <2> QED BY <1>1, <2>1, OthersCare
  <1> QED BY <1>2, <1>3, <1>4, <1>5, <1>6, <1>7, <1>8, <1>9 DEF Next

(* Of rows that no outdated copy was written over: a take-profit has a      *)
(* stop beside it, a close that was not sent has raised the kill switch,    *)
(* and without faults every protective order is on the row of its trade.    *)
THEOREM CareInductive == Spec => []CareInv
  BY InitCare, NextCare, PTL DEF Spec

(* UnsentCloseStopsTrading: no row names a close the exchange never took    *)
(* without the kill switch having been raised, with that link or before it. *)
(* (The operator's reset, which may follow, is an action of SafetyGuard.)   *)
THEOREM UnsentCloses == Spec => []UnsentCloseStopsTrading
  <1>1. CareInv => UnsentCloseStopsTrading
    BY DEF CareInv, RowsInv, Unsent, Halted, UnsentCloseStopsTrading
  <1> QED BY <1>1, CareInductive, PTL

(* NoStrayProtection: without faults and outdated copies no protective      *)
(* order is placed twice and none is lost sight of.                         *)
THEOREM ProtectionOnRow == Spec => []NoStrayProtection
  <1>1. CareInv => NoStrayProtection
    BY DEF CareInv, RowsInv
  <1> QED BY <1>1, CareInductive, PTL

(* ExposureNotDropped: short of an outdated copy being written over its     *)
(* row, a position that is held is left only by being recorded: no update,  *)
(* close or retry of the engine takes the trade back.                       *)
THEOREM ExposureKept == Spec => ExposureNotDropped
  <1>1. CareInv /\ [Next]_vars =>
           [\A t \in Trades :
               /\ row[t].status \in OpenPositionStatuses \ {"ORDER_PARTIALLY_FILLED"}
               /\ ~stale'[t]
               => row'[t].status \in OpenPositionStatuses \cup {"PNL_RECORDED"}]_vars
    <2> SUFFICES ASSUME CareInv, [Next]_vars
                 PROVE  \A t \in Trades :
                          /\ row[t].status \in OpenPositionStatuses \ {"ORDER_PARTIALLY_FILLED"}
                          /\ ~stale'[t]
                          => row'[t].status \in OpenPositionStatuses \cup {"PNL_RECORDED"}
      OBVIOUS
    <2> QED BY NextCare DEF ExposureStays, Held
  <1> QED BY <1>1, CareInductive, PTL DEF Spec, ExposureNotDropped

=============================================================================
