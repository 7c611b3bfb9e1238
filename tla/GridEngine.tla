----------------------------- MODULE GridEngine -----------------------------
(***************************************************************************)
(* A grid session: a ladder of levels, each waiting to buy or to sell, the *)
(* limit orders GridRunner and GridWebSocketHandler place for them, and    *)
(* the fill events that turn one side into the other.                      *)
(*                                                                         *)
(* start, stop and fill handlers are coroutines on one event loop.  Each   *)
(* loads its rows, then works on its copy and calls the exchange without   *)
(* giving up the loop, then commits the columns it changed: three steps,   *)
(* between which others run.                                               *)
(*                                                                         *)
(* Left out: prices and quantities (the current price only decides which   *)
(* levels lie at or above it), other sessions of the same symbol, the      *)
(* reports, and evaluate_risk and handle_upside_breakout, which no code    *)
(* of the service calls.                                                   *)
(***************************************************************************)
EXTENDS Integers, FiniteSets

CONSTANTS
    N,          \* n_levels
    Tasks,      \* coroutines that may be in flight
    MaxOrders   \* bound: orders ever accepted by the exchange

ASSUME GridAssumption ==
    /\ N \in Nat \ {0}
    /\ MaxOrders \in Nat \ {0}
    /\ IsFiniteSet(Tasks)

Levels == 1..N
Orders == 1..MaxOrders

VARIABLES
    status,   \* grid_sessions.status
    slot,     \* grid_slot_records, committed
    ord,      \* orders as the exchange knows them (external)
    next,     \* orders accepted so far
    task,     \* coroutines in flight
    tainted   \* history: levels that two starts or two handlers of one fill
              \* worked on at once, or whose order was placed and not recorded

vars == <<status, slot, ord, next, task, tainted>>

-----------------------------------------------------------------------------
GridSessionStatus == {"active", "paused", "stopped"}

GridSlotRecordStatus == {"waiting_buy", "waiting_sell"}

(* Order ids; 0 is NULL. *)
Slot == [status : GridSlotRecordStatus, buy : 0..MaxOrders, sell : 0..MaxOrders,
         cycles : 0..MaxOrders]

NewSlot == [status |-> "waiting_buy", buy |-> 0, sell |-> 0, cycles |-> 0]

(* level 0: not placed. *)
Order == [level : 0..N, side : {"Buy", "Sell"},
          state : {"none", "working", "filled", "cancelled"}]

NoOrder == [level |-> 0, side |-> "Buy", state |-> "none"]

(* status: as a stop has seen it; old: the rows as loaded; new: as they will *)
(* be written.                                                              *)
Task == [kind : {"idle", "start", "stop", "fill"}, pc : {"loaded", "acted"},
         order : 0..MaxOrders, status : GridSessionStatus,
         old : [Levels -> Slot], new : [Levels -> Slot]]

Idle == [kind |-> "idle", pc |-> "loaded", order |-> 0, status |-> "paused",
         old |-> [l \in Levels |-> NewSlot], new |-> [l \in Levels |-> NewSlot]]

(* Orders of one side, accepted in the order of the levels L. *)
IdAt(L, l) == next + Cardinality({m \in L : m <= l})

Place(L, side) ==
    /\ next + Cardinality(L) <= MaxOrders
    /\ next' = next + Cardinality(L)
    /\ ord' = [o \in Orders |->
                 IF \E l \in L : IdAt(L, l) = o
                 THEN [level |-> CHOOSE l \in L : IdAt(L, l) = o, side |-> side,
                       state |-> "working"]
                 ELSE ord[o]]

(* SQLAlchemy writes the columns whose value was changed. *)
Flush(row, old, new) ==
    [c \in DOMAIN row |-> IF new[c] # old[c] THEN new[c] ELSE row[c]]

(* Levels for which a task has placed an order it has not recorded. *)
Unrecorded(t) ==
    {l \in Levels : /\ task[t].pc = "acted"
                    /\ \/ task[t].new[l].buy \notin {0, task[t].old[l].buy}
                       \/ task[t].new[l].sell \notin {0, task[t].old[l].sell}}

(* A coroutine begins with the rows of the levels L (any others: not read). *)
Load(t, kind, o, seen, L) ==
    LET copy == [l \in Levels |-> IF l \in L THEN slot[l] ELSE NewSlot]
    IN  /\ task[t].kind = "idle"
        /\ task' = [task EXCEPT ![t] =
                      [kind |-> kind, pc |-> "loaded", order |-> o, status |-> seen,
                       old |-> copy, new |-> copy]]

End(t) == task' = [task EXCEPT ![t] = Idle]

Same(t, kind, o) ==
    \E u \in Tasks \ {t} : task[u].kind = kind /\ task[u].order = o

-----------------------------------------------------------------------------
(* GridRunner.start *)

StartLoad(t) ==
    /\ status # "active"
    /\ Load(t, "start", 0, "paused", Levels)
    /\ tainted' = IF Same(t, "start", 0) THEN Levels ELSE tainted
    /\ UNCHANGED <<status, slot, ord, next>>

(* Mutant: whether there is one already is not asked. *)
BuysAgain(copy, p) ==
    {l \in Levels : l < p /\ copy[l].status = "waiting_buy"}

(* Levels below the current price p that get a buy order. *)
ToBuy(copy, p) ==
    {l \in Levels : l < p /\ copy[l].status = "waiting_buy" /\ copy[l].buy = 0}

(* The ladder after start: levels at or above p wait to sell, whatever they *)
(* did before, and have no order placed.                                    *)
Started(copy, p) ==
    [l \in Levels |->
        IF l >= p THEN [copy[l] EXCEPT !.status = "waiting_sell"]
        ELSE IF l \in ToBuy(copy, p) THEN [copy[l] EXCEPT !.buy = IdAt(ToBuy(copy, p), l)]
        ELSE copy[l]]

StartAct(t, p) ==
    /\ task[t].kind = "start" /\ task[t].pc = "loaded"
    /\ Place(ToBuy(task[t].old, p), "Buy")
    /\ task' = [task EXCEPT ![t].pc = "acted", ![t].new = Started(task[t].old, p)]
    /\ UNCHANGED <<status, slot, tainted>>

(* The order of a level is refused, or its answer is lost: the error rolls *)
(* back what was recorded, while the orders before it stay.                *)
StartFails(t, p, l, lost) ==
    LET L == ToBuy(task[t].old, p)
        placed == {m \in L : m < l \/ (lost /\ m = l)}
    IN  /\ task[t].kind = "start" /\ task[t].pc = "loaded"
        /\ l \in L
        /\ Place(placed, "Buy")
        /\ tainted' = tainted \cup placed
        /\ End(t)
        /\ UNCHANGED <<status, slot>>

-----------------------------------------------------------------------------
(* GridRunner.stop and pause *)

StopLoad(t) ==
    /\ Load(t, "stop", 0, status, {})
    /\ UNCHANGED <<status, slot, ord, next, tainted>>

Cancel(S) ==
    ord' = [o \in Orders |-> IF o \in S THEN [ord[o] EXCEPT !.state = "cancelled"]
                             ELSE ord[o]]

Working == {o \in Orders : ord[o].state = "working"}

StopAct(t) ==
    /\ task[t].kind = "stop" /\ task[t].pc = "loaded"
    /\ Cancel(Working)
    /\ task' = [task EXCEPT ![t].pc = "acted"]
    /\ UNCHANGED <<status, slot, next, tainted>>

(* A cancellation fails: the ones before it stay, and the session goes on. *)
StopFails(t) ==
    /\ task[t].kind = "stop" /\ task[t].pc = "loaded"
    /\ \E S \in SUBSET Working : Cancel(S)
    /\ End(t)
    /\ UNCHANGED <<status, slot, next, tainted>>

Pause ==
    /\ status' = "paused"
    /\ UNCHANGED <<slot, ord, next, task, tainted>>

-----------------------------------------------------------------------------
(* GridWebSocketHandler.handle_order_fill *)

slot_for_order_id(o) == {l \in Levels : slot[l].buy = o \/ slot[l].sell = o}

(* A fill event, at any time after the fill, any number of times.  One     *)
(* that no slot names is dropped.  The session's status is not looked at.  *)
FillLoad(t, o) ==
    /\ ord[o].state = "filled"
    /\ slot_for_order_id(o) # {}
    /\ Load(t, "fill", o, "paused", slot_for_order_id(o))
    /\ tainted' = IF Same(t, "fill", o) THEN tainted \cup {ord[o].level} ELSE tainted
    /\ UNCHANGED <<status, slot, ord, next>>

FillLevel(t) ==
    CHOOSE l \in Levels : task[t].order \in {task[t].old[l].buy, task[t].old[l].sell}

(* Mutant: the filled buy order stays on record. *)
KeepsBuyId(row, o) == [row EXCEPT !.status = "waiting_sell", !.sell = o]

AfterBuy(row, o) == [row EXCEPT !.status = "waiting_sell", !.buy = 0, !.sell = o]

(* Mutant: the filled sell order stays on record. *)
KeepsSellId(row, o) ==
    [row EXCEPT !.status = "waiting_buy", !.buy = o, !.cycles = @ + 1]

AfterSell(row, o) ==
    [row EXCEPT !.status = "waiting_buy", !.sell = 0, !.buy = o, !.cycles = @ + 1]

FillAct(t) ==
    /\ task[t].kind = "fill" /\ task[t].pc = "loaded"
    /\ LET l == FillLevel(t)
           row == task[t].old[l]
       IN \/ /\ ord[task[t].order].side = "Buy"
             /\ Place({l}, "Sell")
             /\ task' = [task EXCEPT ![t].pc = "acted",
                                     ![t].new[l] = AfterBuy(row, next + 1)]
          \/ /\ ord[task[t].order].side = "Sell"
             /\ Place({l}, "Buy")
             /\ task' = [task EXCEPT ![t].pc = "acted",
                                     ![t].new[l] = AfterSell(row, next + 1)]
    /\ UNCHANGED <<status, slot, tainted>>

(* The order is refused, or its answer is lost: nothing is recorded, and   *)
(* the event is not handled again unless it is repeated.                   *)
FillFails(t, lost) ==
    /\ task[t].kind = "fill" /\ task[t].pc = "loaded"
    /\ LET l == FillLevel(t)
           side == IF ord[task[t].order].side = "Buy" THEN "Sell" ELSE "Buy"
       IN /\ Place(IF lost THEN {l} ELSE {}, side)
          /\ tainted' = IF lost THEN tainted \cup {l} ELSE tainted
    /\ End(t)
    /\ UNCHANGED <<status, slot>>

-----------------------------------------------------------------------------
(* The commit of each coroutine, a crash before it, and the exchange. *)

Commit(t) ==
    /\ task[t].pc = "acted"
    /\ slot' = [l \in Levels |-> Flush(slot[l], task[t].old[l], task[t].new[l])]
    /\ status' = CASE task[t].kind = "start" -> "active"
                   [] task[t].kind = "stop" /\ task[t].status # "stopped" -> "stopped"
                   [] OTHER -> status
    /\ End(t)
    /\ UNCHANGED <<ord, next, tainted>>

Crash ==
    /\ \E t \in Tasks : task[t].kind # "idle"
    /\ task' = [t \in Tasks |-> Idle]
    /\ tainted' = tainted \cup UNION {Unrecorded(t) : t \in Tasks}
    /\ UNCHANGED <<status, slot, ord, next>>

(* Bybit fills an order, or cancels it (post-only, by hand). *)
Exchange(o) ==
    /\ ord[o].state = "working"
    /\ \E s \in {"filled", "cancelled"} : ord' = [ord EXCEPT ![o].state = s]
    /\ UNCHANGED <<status, slot, next, task, tainted>>

-----------------------------------------------------------------------------
(* A session as create_grid_session leaves it. *)
Init ==
    /\ status = "paused"
    /\ slot = [l \in Levels |-> NewSlot]
    /\ ord = [o \in Orders |-> NoOrder]
    /\ next = 0
    /\ task = [t \in Tasks |-> Idle]
    /\ tainted = {}

Next ==
    \/ \E t \in Tasks :
          \/ StartLoad(t)
          \/ \E p \in 1..(N + 1) : StartAct(t, p)
          \/ \E p \in 1..(N + 1), l \in Levels, lost \in BOOLEAN : StartFails(t, p, l, lost)
          \/ StopLoad(t)
          \/ StopAct(t)
          \/ StopFails(t)
          \/ \E o \in Orders : FillLoad(t, o)
          \/ FillAct(t)
          \/ \E lost \in BOOLEAN : FillFails(t, lost)
          \/ Commit(t)
    \/ Pause
    \/ Crash
    \/ \E o \in Orders : Exchange(o)

Spec == Init /\ [][Next]_vars

-----------------------------------------------------------------------------
(* Properties. *)

(* Rows, orders and copies keep their types. *)
TypeOK ==
    /\ status \in GridSessionStatus
    /\ slot \in [Levels -> Slot]
    /\ ord \in [Orders -> Order]
    /\ next \in 0..MaxOrders
    /\ task \in [Tasks -> Task]
    /\ tainted \subseteq Levels

Of(l, side, states) ==
    {o \in Orders : ord[o].level = l /\ ord[o].side = side /\ ord[o].state \in states}

(* A level has at most one working order, through pauses, stops, restarts,  *)
(* repeated and late fill events, and stops and starts racing with fills,   *)
(* unless two starts or two handlers of one event overlapped or an order    *)
(* was placed and not recorded.                                             *)
OneWorkingOrder ==
    \A l \in Levels \ tainted :
        Cardinality(Of(l, "Buy", {"working"}) \cup Of(l, "Sell", {"working"})) <= 1

(* Under the same condition nothing is sold that was not bought: a level    *)
(* never has more live or filled sell orders than filled buy orders.        *)
SellsAreCovered ==
    \A l \in Levels \ tainted :
        Cardinality(Of(l, "Sell", {"working", "filled"}))
            <= Cardinality(Of(l, "Buy", {"filled"}))

(* completed_cycles, and with it realized_pnl, never counts a cycle that    *)
(* did not happen, whatever events are repeated and copies outdated.        *)
CyclesAreReal ==
    \A l \in Levels : slot[l].cycles <= Cardinality(Of(l, "Sell", {"filled"}))

-----------------------------------------------------------------------------
(* What the repository says of itself, and the code does not keep to. *)

(* tests/grid_engine/test_grid_runner.py: start places the buy orders of    *)
(* the levels that wait to buy.  Once a stopped session was started, none   *)
(* of them is left with an order that was cancelled.                        *)
StartPlacesBuyOrders ==
    [][\A t \in Tasks, l \in Levels :
          /\ status = "stopped"
          /\ task[t].kind = "start" /\ task[t].pc = "loaded"
          /\ task'[t].pc = "acted"
          /\ task'[t].new[l].status = "waiting_buy"
          => ord'[task'[t].new[l].buy].state # "cancelled"]_vars

=============================================================================
