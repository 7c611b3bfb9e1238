-------------------------- MODULE GridEngineProofs --------------------------
(***************************************************************************)
(* What GridEngine says of types, cycles and working orders, proved for    *)
(* every number of levels, coroutines and orders.                          *)
(*                                                                         *)
(* A cycle is counted when a filled sell order leaves its slot.  Handlers  *)
(* of one fill may overlap, and a sell order may be written over another;  *)
(* what keeps the count from running ahead is that a sell order enters a   *)
(* slot once, written by the coroutine that placed it (Pending), so that   *)
(* neither the one on a slot nor a pending one has been counted (Done).    *)
(*                                                                         *)
(* The working orders of a level that is not tainted are those its row     *)
(* names or a coroutine is about to write (RowInv); what the exchange has  *)
(* of that level fits the status of the row (MarketInv).                   *)
(***************************************************************************)
EXTENDS GridEngine, FiniteSetTheorems, TLAPS

(* The links of a row of level l: placed orders, of the right kind.         *)
Links(l, r) ==
    /\ r.buy # 0 => r.buy <= next /\ ord[r.buy].side = "Buy"
    /\ r.sell # 0 => r.sell <= next /\ ord[r.sell].side = "Sell" /\ ord[r.sell].level = l

(* Sell orders that coroutines have placed and will write.                  *)
Writes(t, o) ==
    \E l \in Levels : task[t].pc = "acted" /\ task[t].new[l].sell = o
                      /\ o # task[t].old[l].sell

Pending == {o \in Orders : \E t \in Tasks : Writes(t, o)}

(* Sell orders of a level that are filled and written.                      *)
Done(l) == Of(l, "Sell", {"filled"}) \ Pending

OrdersInv ==
    \A o \in Orders : /\ o > next => ord[o].state = "none"
                      /\ ord[o].state # "none" => ord[o].level \in Levels

(* How a coroutine changes a row.                                           *)
Counted(l, r, s) ==
    s.cycles = r.cycles
    \/ /\ s.cycles = r.cycles + 1 /\ s.sell = 0 /\ r.sell # 0
       /\ ord[r.sell].state = "filled"

TaskInv(t) ==
    /\ \A l \in Levels : /\ Links(l, task[t].old[l]) /\ Links(l, task[t].new[l])
                         /\ Counted(l, task[t].old[l], task[t].new[l])
    /\ task[t].pc = "loaded" => task[t].new = task[t].old
    /\ task[t].kind = "fill" =>
          /\ task[t].order \in Orders /\ ord[task[t].order].state = "filled"
          /\ \E l \in Levels : task[t].order \in {task[t].old[l].buy, task[t].old[l].sell}

(* An order is written by one coroutine, and is nobody's until then.        *)
WritesInv ==
    /\ \A l \in Levels : slot[l].sell \notin Pending
    /\ \A t \in Tasks, l \in Levels : task[t].old[l].sell \notin Pending
    /\ \A t, u \in Tasks, o \in Orders : Writes(t, o) /\ Writes(u, o) => t = u

CountsInv ==
    /\ \A l \in Levels : slot[l].cycles <= Cardinality(Done(l) \ {slot[l].sell})
    /\ \A t \in Tasks, l \in Levels :
          task[t].old[l].cycles <= Cardinality(Done(l) \ {task[t].old[l].sell})

IndInv ==
    /\ TypeOK
    /\ OrdersInv
    /\ \A l \in Levels : Links(l, slot[l])
    /\ \A t \in Tasks : TaskInv(t)
    /\ WritesInv
    /\ CountsInv

-----------------------------------------------------------------------------
(* Counting. *)

LEMMA Sizes ==
    /\ N \in Nat \ {0} /\ MaxOrders \in Nat \ {0}
    /\ IsFiniteSet(Orders) /\ Cardinality(Orders) = MaxOrders
    /\ IsFiniteSet(Levels) /\ Levels \subseteq Nat /\ 0 \notin Orders
  <1>1. N \in Nat \ {0} /\ MaxOrders \in Nat \ {0}
    BY GridAssumption
  <1> QED BY <1>1, FS_Interval DEF Orders, Levels

(* A larger set counts more.                                                *)
LEMMA CountGrows ==
    ASSUME NEW A, NEW B, NEW x, IsFiniteSet(B), A \subseteq B
    PROVE  /\ Cardinality(A \ {x}) \in Nat /\ Cardinality(B \ {x}) \in Nat
           /\ Cardinality(A \ {x}) <= Cardinality(B \ {x})
  <1>1. IsFiniteSet(B \ {x})
    BY FS_Subset
  <1>2. A \ {x} \in SUBSET (B \ {x})
    OBVIOUS
  <1> QED BY <1>1, <1>2, FS_Subset, FS_CardinalityType

LEMMA DoneIsFinite ==
    ASSUME NEW l
    PROVE  Done(l) \subseteq Orders /\ IsFiniteSet(Done(l)) /\ Cardinality(Done(l)) <= MaxOrders
  <1>1. Done(l) \in SUBSET Orders
    BY DEF Done, Of
  <1> QED BY <1>1, Sizes, FS_Subset

(* The orders of a batch get the next ids, and the others stay.             *)
LEMMA Placed ==
    ASSUME TypeOK, NEW L \in SUBSET Levels, NEW side \in {"Buy", "Sell"}, Place(L, side)
    PROVE  /\ next' \in 0..MaxOrders /\ next' >= next
           /\ ord' \in [Orders -> Order]
           /\ \A o \in Orders : o <= next \/ o > next' => ord'[o] = ord[o]
           /\ \A o \in Orders : ord'[o] = ord[o] \/ ord'[o].level \in Levels
           /\ \A l \in L : /\ IdAt(L, l) \in Orders
                           /\ IdAt(L, l) > next /\ IdAt(L, l) <= next'
                           /\ ord'[IdAt(L, l)].side = side
  <1> DEFINE Upto(l) == {m \in L : m <= l}
  <1>1. next \in Nat /\ MaxOrders \in Nat /\ next <= MaxOrders /\ Orders = 1..MaxOrders
    BY Sizes DEF TypeOK, Orders
  <1>2. IsFiniteSet(L) /\ Cardinality(L) \in Nat
    BY Sizes, FS_Subset, FS_CardinalityType
  <1>3. next' = next + Cardinality(L) /\ next' <= MaxOrders
    BY DEF Place
  <1>4. ASSUME NEW l \in L
        PROVE  Cardinality(Upto(l)) \in Nat /\ Cardinality(Upto(l)) >= 1
               /\ Cardinality(Upto(l)) <= Cardinality(L)
    <2>1. Upto(l) \in SUBSET L /\ l \in Upto(l)
      BY Sizes
    <2>2. IsFiniteSet(Upto(l)) /\ Cardinality(Upto(l)) <= Cardinality(L)
      BY <1>2, <2>1, FS_Subset
    <2>3. Cardinality(Upto(l)) \in Nat /\ Cardinality(Upto(l)) # 0
      BY <2>1, <2>2, FS_CardinalityType, FS_EmptySet
    <2> QED BY <2>2, <2>3
  <1>5. ASSUME NEW l \in L
        PROVE  IdAt(L, l) \in Orders /\ IdAt(L, l) > next /\ IdAt(L, l) <= next'
    <2>1. IdAt(L, l) = next + Cardinality(Upto(l))
      BY DEF IdAt
    <2> HIDE DEF Upto
    <2> QED BY <1>1, <1>2, <1>3, <1>4, <2>1
  <1>6. ASSUME NEW o \in Orders
        PROVE  ord'[o] = IF \E l \in L : IdAt(L, l) = o
                         THEN [level |-> CHOOSE l \in L : IdAt(L, l) = o, side |-> side,
                               state |-> "working"]
                         ELSE ord[o]
    BY DEF Place
  <1>7. ASSUME NEW o \in Orders, NEW l \in L, IdAt(L, l) = o
        PROVE  /\ ord'[o] \in Order /\ ord'[o].side = side /\ ord'[o].level \in Levels
    <2> DEFINE k == CHOOSE m \in L : IdAt(L, m) = o
    <2>1. k \in L
      BY <1>7
    <2>2. k \in 0..N
      <3>1. \A m \in Levels : m \in 0..N
        BY Sizes DEF Levels
      <3>2. k \in Levels
        BY <2>1
      <3> HIDE DEF k
      <3> QED BY <3>1, <3>2
    <2>3. ord'[o] = [level |-> k, side |-> side, state |-> "working"]
      BY <1>6, <1>7
    <2>4. k \in Levels
      BY <2>1
    <2> HIDE DEF k
    <2> QED BY <2>2, <2>3, <2>4 DEF Order
  <1>8. ord' \in [Orders -> Order]
    <2>1. \A o \in Orders : ord'[o] \in Order
      BY <1>6, <1>7 DEF TypeOK
    <2>2. ord' = [o \in Orders |-> ord'[o]]
      BY DEF Place
    <2> QED BY <2>1, <2>2
  <1>9. ASSUME NEW o \in Orders
        PROVE  /\ o <= next \/ o > next' => ord'[o] = ord[o]
               /\ ord'[o] = ord[o] \/ ord'[o].level \in Levels
    <2>1. CASE \E l \in L : IdAt(L, l) = o
      <3>1. o > next /\ o <= next' /\ o \in Nat /\ next' \in Nat
        BY <1>1, <1>2, <1>3, <1>5, <2>1
      <3> QED BY <1>1, <1>7, <2>1, <3>1
    <2>2. CASE ~\E l \in L : IdAt(L, l) = o
      BY <1>6, <2>2
    <2> QED BY <2>1, <2>2
  <1>10. next' \in 0..MaxOrders /\ next' >= next
    BY <1>1, <1>2, <1>3
  <1> QED BY <1>5, <1>7, <1>8, <1>9, <1>10

(* An order of its own.                                                     *)
LEMMA PlacedOne ==
    ASSUME TypeOK, NEW l \in Levels, NEW side \in {"Buy", "Sell"}, Place({l}, side)
    PROVE  /\ next' = next + 1 /\ next + 1 \in Orders
           /\ ord'[next + 1] = [level |-> l, side |-> side, state |-> "working"]
  <1>1. Cardinality({l}) = 1 /\ l <= l
    BY FS_Singleton, Sizes
  <1>2. {m \in {l} : m <= l} = {l}
    BY <1>1
  <1>3. \A m \in {l} : IdAt({l}, m) = next + 1
    BY <1>1, <1>2 DEF IdAt
  <1>4. next' = next + 1 /\ next + 1 <= MaxOrders /\ next + 1 \in Orders
    BY <1>1, Sizes DEF Place, TypeOK, Orders
  <1>5. ord'[next + 1] = [level |-> CHOOSE m \in {l} : IdAt({l}, m) = next + 1, side |-> side,
                          state |-> "working"]
    BY <1>3, <1>4 DEF Place
  <1>6. (CHOOSE m \in {l} : IdAt({l}, m) = next + 1) = l
    BY <1>3
  <1> QED BY <1>4, <1>5, <1>6

-----------------------------------------------------------------------------
(* Orders: what is placed stays what it is, and filled if it is filled.     *)

OrdersKept ==
    /\ next' \in 0..MaxOrders /\ next' >= next /\ ord' \in [Orders -> Order]
    /\ \A o \in Orders : o <= next => ord'[o].level = ord[o].level /\ ord'[o].side = ord[o].side
    /\ \A o \in Orders : ord[o].state = "filled" => ord'[o].state = "filled"
    /\ OrdersInv'

LEMMA PlaceKeeps ==
    ASSUME TypeOK, OrdersInv, NEW L \in SUBSET Levels, NEW side \in {"Buy", "Sell"},
           Place(L, side)
    PROVE  OrdersKept
  <1>1. /\ next' \in 0..MaxOrders /\ next' >= next /\ ord' \in [Orders -> Order]
        /\ \A o \in Orders : o <= next \/ o > next' => ord'[o] = ord[o]
        /\ \A o \in Orders : ord'[o] = ord[o] \/ ord'[o].level \in Levels
    BY Placed
  <1>2. next \in Nat /\ next' \in Nat /\ Orders \subseteq Nat
    BY <1>1, Sizes DEF TypeOK, Orders
  <1>3. \A o \in Orders : ord[o].state = "filled" => o <= next
    BY <1>2 DEF OrdersInv
  <1>4. \A o \in Orders : o > next' => ord'[o] = ord[o] /\ o > next
    BY <1>1, <1>2
  <1> QED BY <1>1, <1>3, <1>4 DEF OrdersKept, OrdersInv

(* Steps that place nothing.                                                *)
LEMMA StateKeeps ==
    ASSUME TypeOK, OrdersInv, next' = next, ord' \in [Orders -> Order],
           \A o \in Orders : /\ ord'[o].level = ord[o].level /\ ord'[o].side = ord[o].side
                             /\ ord'[o].state = ord[o].state
                                \/ ord[o].state = "working"
    PROVE  OrdersKept
  BY DEF OrdersKept, OrdersInv, TypeOK

LEMMA SameOrders ==
    ASSUME TypeOK, OrdersInv, UNCHANGED <<ord, next>>
    PROVE  OrdersKept
  BY StateKeeps DEF TypeOK

LEMMA CancelKeeps ==
    ASSUME TypeOK, OrdersInv, next' = next, NEW S \in SUBSET Working, Cancel(S)
    PROVE  OrdersKept
  <1>1. ASSUME NEW o \in Orders
        PROVE  /\ ord'[o] \in Order
               /\ ord'[o].level = ord[o].level /\ ord'[o].side = ord[o].side
               /\ ord'[o].state = ord[o].state \/ ord[o].state = "working"
    <2>1. CASE o \in S
      <3>1. ord'[o] = [ord[o] EXCEPT !.state = "cancelled"] /\ ord[o].state = "working"
        BY <2>1 DEF Cancel, Working
      <3> QED BY <3>1 DEF TypeOK, Order
    <2>2. CASE o \notin S
      BY <2>2 DEF Cancel, TypeOK
    <2> QED BY <2>1, <2>2
  <1>2. ord' = [o \in Orders |-> ord'[o]]
    BY DEF Cancel
  <1>3. ord' \in [Orders -> Order]
    BY <1>1, <1>2
  <1> QED BY <1>1, <1>3, StateKeeps

LEMMA ExchangeKeeps ==
    ASSUME TypeOK, OrdersInv, NEW o \in Orders, Exchange(o)
    PROVE  OrdersKept
  <1>1. ord' \in [Orders -> Order]
    BY DEF Exchange, TypeOK, Order
  <1>2. \A e \in Orders : /\ ord'[e].level = ord[e].level /\ ord'[e].side = ord[e].side
                          /\ ord'[e].state = ord[e].state \/ ord[e].state = "working"
    BY DEF Exchange, TypeOK, Order
  <1> QED BY <1>1, <1>2, StateKeeps DEF Exchange

-----------------------------------------------------------------------------
(* Coroutines. *)

LEMMA IdleTypes ==
    /\ NewSlot \in Slot /\ Idle \in Task
    /\ \A l \in Levels : Idle.old[l] = NewSlot /\ Idle.new[l] = NewSlot
    /\ Idle.pc = "loaded" /\ Idle.kind = "idle"
    /\ NewSlot.buy = 0 /\ NewSlot.sell = 0 /\ NewSlot.cycles = 0
  <1>1. NewSlot \in Slot
    BY Sizes DEF NewSlot, Slot, GridSlotRecordStatus
  <1>2. Idle \in Task
    BY <1>1, Sizes DEF Idle, Task, GridSessionStatus
  <1> QED BY <1>1, <1>2 DEF Idle, NewSlot

LEMMA LinksStay ==
    ASSUME TypeOK, OrdersKept, NEW l \in Levels, NEW r \in Slot, Links(l, r)
    PROVE  Links(l, r)'
  <1>1. next \in Nat /\ next' \in Nat /\ next' >= next /\ Orders = 1..MaxOrders
        /\ MaxOrders \in Nat /\ next <= MaxOrders
    BY Sizes DEF OrdersKept, TypeOK, Orders
  <1> QED BY <1>1 DEF Links, OrdersKept, Slot

LEMMA TaskStays ==
    ASSUME TypeOK, OrdersKept, NEW t \in Tasks, TaskInv(t), task'[t] = task[t]
    PROVE  TaskInv(t)'
  <1>1. \A l \in Levels, r \in Slot : Links(l, r) =>
           /\ r.buy # 0 => r.buy <= next' /\ ord'[r.buy].side = "Buy"
           /\ r.sell # 0 => /\ r.sell <= next' /\ ord'[r.sell].side = "Sell"
                            /\ ord'[r.sell].level = l
    BY LinksStay DEF Links
  <1>2. ASSUME NEW l \in Levels
        PROVE  /\ Links(l, task[t].old[l])' /\ Links(l, task[t].new[l])'
               /\ Counted(l, task[t].old[l], task[t].new[l])'
    <2>1. /\ task[t].old[l] \in Slot /\ task[t].new[l] \in Slot
          /\ Links(l, task[t].old[l]) /\ Links(l, task[t].new[l])
          /\ Counted(l, task[t].old[l], task[t].new[l])
      BY DEF TypeOK, Task, TaskInv
    <2>2. Links(l, task[t].old[l])' /\ Links(l, task[t].new[l])'
      BY <1>1, <2>1 DEF Links
    <2>3. task[t].old[l].sell # 0 => task[t].old[l].sell \in Orders
      BY <2>1, Sizes DEF Slot, Orders
    <2> QED BY <2>1, <2>2, <2>3 DEF Counted, OrdersKept
  <1> QED BY <1>2 DEF TaskInv, OrdersKept

LEMMA TaskIdles ==
    ASSUME NEW t \in Tasks, task'[t] = Idle
    PROVE  TaskInv(t)'
  <1>1. \A l \in Levels : task'[t].old[l] = NewSlot /\ task'[t].new[l] = NewSlot
    BY IdleTypes
  <1>2. task'[t].new = task'[t].old /\ task'[t].kind # "fill"
    BY IdleTypes DEF Idle
  <1> QED BY <1>1, <1>2, IdleTypes DEF TaskInv, Links, Counted

(* What all steps but a commit have in common.                              *)
CopiesKept ==
    \A t \in Tasks, l \in Levels :
        task'[t].old[l] \in {task[t].old[l], slot[l], NewSlot}

WritesFewer == \A t \in Tasks, o \in Orders : Writes(t, o)' => Writes(t, o)

LEMMA DoneGrows ==
    ASSUME TypeOK, OrdersInv, OrdersKept, NEW l,
           \A o \in Orders : o <= next /\ o \in Pending' => o \in Pending
    PROVE  Done(l) \subseteq Done(l)' /\ IsFiniteSet(Done(l)')
  <1>1. \A o \in Orders : ord[o].state = "filled" => o <= next
    BY Sizes DEF OrdersInv, TypeOK, Orders
  <1>2. Done(l) \subseteq Done(l)'
    BY <1>1 DEF Done, Of, OrdersKept
  <1>3. Done(l)' \in SUBSET Orders
    BY DEF Done, Of
  <1> QED BY <1>2, <1>3, Sizes, FS_Subset

LEMMA SoldIsPlaced ==
    ASSUME TypeOK, NEW l \in Levels, NEW r \in Slot, Links(l, r)
    PROVE  r.sell = 0 \/ (r.sell \in Orders /\ r.sell <= next)
  BY Sizes DEF Links, Slot, Orders, TypeOK

(* A step that leaves the rows alone and loads copies from them.            *)
LEMMA CountsKeep ==
    ASSUME IndInv, OrdersKept, slot' = slot, CopiesKept,
           \A o \in Orders : o <= next /\ o \in Pending' => o \in Pending
    PROVE  /\ \A l \in Levels : slot'[l].sell \notin Pending'
           /\ \A t \in Tasks, l \in Levels : task'[t].old[l].sell \notin Pending'
           /\ CountsInv'
  <1>1. TypeOK /\ OrdersInv /\ WritesInv /\ CountsInv /\ \A l \in Levels : Links(l, slot[l])
    BY DEF IndInv
  <1>2. Pending' \subseteq Orders /\ 0 \notin Pending'
    BY Sizes DEF Pending
  <1>3. ASSUME NEW l \in Levels, NEW r \in Slot, Links(l, r), r.sell \notin Pending,
               r.cycles <= Cardinality(Done(l) \ {r.sell})
        PROVE  /\ r.sell \notin Pending'
               /\ r.cycles <= Cardinality(Done(l)' \ {r.sell})
    <2>1. r.sell \notin Pending'
      BY <1>1, <1>2, <1>3, SoldIsPlaced
    <2>2. Done(l) \subseteq Done(l)' /\ IsFiniteSet(Done(l)')
      BY <1>1, DoneGrows
    <2>3. /\ Cardinality(Done(l) \ {r.sell}) \in Nat /\ Cardinality(Done(l)' \ {r.sell}) \in Nat
          /\ Cardinality(Done(l) \ {r.sell}) <= Cardinality(Done(l)' \ {r.sell})
      BY <2>2, CountGrows
    <2>4. r.cycles \in Nat
      BY DEF Slot
    <2> QED BY <1>3, <2>1, <2>3, <2>4
  <1>4. ASSUME NEW l \in Levels
        PROVE  /\ slot[l].sell \notin Pending'
               /\ slot[l].cycles <= Cardinality(Done(l)' \ {slot[l].sell})
    <2>1. slot[l] \in Slot
      BY <1>1 DEF TypeOK
    <2> QED BY <1>1, <1>3, <2>1 DEF WritesInv, CountsInv
  <1>5. ASSUME NEW l \in Levels
        PROVE  /\ NewSlot.sell \notin Pending'
               /\ NewSlot.cycles <= Cardinality(Done(l)' \ {NewSlot.sell})
    <2>1. IsFiniteSet(Done(l)')
      BY <1>1, DoneGrows
    <2>2. Cardinality(Done(l)' \ {NewSlot.sell}) \in Nat
      BY <2>1, CountGrows
    <2> QED BY <1>2, <2>2, IdleTypes
  <1>6. ASSUME NEW t \in Tasks, NEW l \in Levels
        PROVE  /\ task'[t].old[l].sell \notin Pending'
               /\ task'[t].old[l].cycles <= Cardinality(Done(l)' \ {task'[t].old[l].sell})
    <2>1. task[t].old[l] \in Slot /\ Links(l, task[t].old[l])
      BY <1>1 DEF TypeOK, Task, IndInv, TaskInv
    <2>2. /\ task[t].old[l].sell \notin Pending'
          /\ task[t].old[l].cycles <= Cardinality(Done(l)' \ {task[t].old[l].sell})
      BY <1>1, <1>3, <2>1 DEF WritesInv, CountsInv
    <2>3. task'[t].old[l] \in {task[t].old[l], slot[l], NewSlot}
      BY DEF CopiesKept
    <2> QED BY <1>4, <1>5, <2>2, <2>3
  <1> QED BY <1>4, <1>6 DEF CountsInv

LEMMA RowsKeep ==
    ASSUME IndInv, TypeOK', OrdersKept, slot' = slot, CopiesKept,
           \A o \in Orders : o <= next /\ o \in Pending' => o \in Pending,
           \A t, u \in Tasks, o \in Orders : Writes(t, o)' /\ Writes(u, o)' => t = u,
           \A t \in Tasks : TaskInv(t)'
    PROVE  IndInv'
  <1>1. WritesInv'
    BY CountsKeep DEF WritesInv
  <1>2. ASSUME NEW l \in Levels PROVE Links(l, slot[l])'
    <2>1. slot[l] \in Slot /\ Links(l, slot[l])
      BY DEF IndInv, TypeOK
    <2> QED BY <2>1, Sizes DEF Links, Slot, OrdersKept, IndInv, TypeOK, Orders
  <1> QED BY <1>1, <1>2, CountsKeep DEF IndInv, OrdersKept

(* A step by which no coroutine writes an order it has not written before.  *)
LEMMA QuietKeeps ==
    ASSUME IndInv, TypeOK', OrdersKept, slot' = slot, CopiesKept, WritesFewer,
           \A t \in Tasks : TaskInv(t)'
    PROVE  IndInv'
  <1>1. \A o \in Orders : o \in Pending' => o \in Pending
    BY DEF Pending, WritesFewer
  <1>2. \A t, u \in Tasks, o \in Orders : Writes(t, o)' /\ Writes(u, o)' => t = u
    BY DEF WritesFewer, WritesInv, IndInv
  <1> QED BY <1>1, <1>2, RowsKeep

-----------------------------------------------------------------------------
(* The steps. *)

(* Coroutines go on as they are or end without a commit.                    *)
LEMMA EndsKeep ==
    ASSUME IndInv, OrdersKept, slot' = slot, status' \in GridSessionStatus,
           tainted' \subseteq Levels, task' \in [Tasks -> Task],
           \A t \in Tasks : task'[t] = task[t] \/ task'[t] = Idle
    PROVE  IndInv'
  <1>1. TypeOK /\ OrdersInv
    BY DEF IndInv
  <1>2. TypeOK'
    BY <1>1 DEF TypeOK, OrdersKept
  <1>3. CopiesKept
    BY IdleTypes DEF CopiesKept
  <1>4. WritesFewer
    BY IdleTypes DEF WritesFewer, Writes
  <1>5. \A t \in Tasks : TaskInv(t)'
    BY <1>1, TaskStays, TaskIdles DEF IndInv
  <1> QED BY <1>2, <1>3, <1>4, <1>5, QuietKeeps

LEMMA StartFailsKeeps ==
    ASSUME IndInv, NEW t \in Tasks, NEW p, NEW l, NEW lost, StartFails(t, p, l, lost)
    PROVE  IndInv'
  <1> DEFINE placed == {m \in ToBuy(task[t].old, p) : m < l \/ (lost /\ m = l)}
  <1>1. TypeOK /\ OrdersInv
    BY DEF IndInv
  <1>2. placed \in SUBSET Levels /\ Place(placed, "Buy") /\ tainted' = tainted \cup placed
    BY DEF StartFails, ToBuy
  <1>3. OrdersKept
    <2> HIDE DEF placed
    <2> QED BY <1>1, <1>2, PlaceKeeps
  <1>4. /\ slot' = slot /\ status' = status /\ task' = [task EXCEPT ![t] = Idle]
    BY DEF StartFails, End
  <1>5. /\ task' \in [Tasks -> Task]
        /\ \A u \in Tasks : task'[u] = task[u] \/ task'[u] = Idle
    BY <1>1, <1>4, IdleTypes DEF TypeOK
  <1>6. tainted' \subseteq Levels /\ status' \in GridSessionStatus
    BY <1>1, <1>2, <1>4 DEF TypeOK
  <1> QED BY <1>3, <1>4, <1>5, <1>6, EndsKeep

LEMMA FillFailsKeeps ==
    ASSUME IndInv, NEW t \in Tasks, NEW lost, FillFails(t, lost)
    PROVE  IndInv'
  <1>1. TypeOK /\ OrdersInv
    BY DEF IndInv
  <1>2. FillLevel(t) \in Levels
    BY DEF FillFails, IndInv, TaskInv, FillLevel
  <1>3. PICK l \in Levels : l = FillLevel(t)
    BY <1>2
  <1>4. PICK side \in {"Buy", "Sell"} : Place(IF lost THEN {l} ELSE {}, side)
    BY <1>3 DEF FillFails
  <1>5. OrdersKept
    <2>1. (IF lost THEN {l} ELSE {}) \in SUBSET Levels
      OBVIOUS
    <2> QED BY <1>1, <1>4, <2>1, PlaceKeeps
  <1>6. /\ slot' = slot /\ status' = status /\ task' = [task EXCEPT ![t] = Idle]
        /\ tainted' = IF lost THEN tainted \cup {l} ELSE tainted
    BY <1>3 DEF FillFails, End
  <1>7. /\ task' \in [Tasks -> Task]
        /\ \A u \in Tasks : task'[u] = task[u] \/ task'[u] = Idle
    BY <1>1, <1>6, IdleTypes DEF TypeOK
  <1>8. tainted' \subseteq Levels /\ status' \in GridSessionStatus
    BY <1>1, <1>6 DEF TypeOK
  <1> QED BY <1>5, <1>6, <1>7, <1>8, EndsKeep

LEMMA OutsideKeeps ==
    ASSUME IndInv,
           \/ \E t \in Tasks : StopFails(t)
           \/ Pause \/ Crash \/ (\E o \in Orders : Exchange(o)) \/ UNCHANGED vars
    PROVE  IndInv'
  <1>1. TypeOK /\ OrdersInv
    BY DEF IndInv
  <1>2. CASE \E t \in Tasks : StopFails(t)
    <2>1. PICK t \in Tasks : StopFails(t)
      BY <1>2
    <2>2. PICK S \in SUBSET Working : Cancel(S)
      BY <2>1 DEF StopFails
    <2>3. OrdersKept
      BY <1>1, <2>1, <2>2, CancelKeeps DEF StopFails
    <2>4. /\ slot' = slot /\ status' = status /\ tainted' = tainted
          /\ task' = [task EXCEPT ![t] = Idle]
      BY <2>1 DEF StopFails, End
    <2>5. /\ task' \in [Tasks -> Task]
          /\ \A u \in Tasks : task'[u] = task[u] \/ task'[u] = Idle
      BY <1>1, <2>4, IdleTypes DEF TypeOK
    <2> QED BY <1>1, <2>3, <2>4, <2>5, EndsKeep DEF TypeOK
  <1>3. CASE Pause
    <2>1. OrdersKept
      BY <1>1, <1>3, SameOrders DEF Pause
    <2> QED BY <1>1, <1>3, <2>1, EndsKeep DEF Pause, TypeOK, GridSessionStatus
  <1>4. CASE Crash
    <2>1. OrdersKept
      BY <1>1, <1>4, SameOrders DEF Crash
    <2>2. tainted' \subseteq Levels
      BY <1>1, <1>4 DEF Crash, Unrecorded, TypeOK
    <2>3. /\ slot' = slot /\ status' = status /\ task' = [t \in Tasks |-> Idle]
      BY <1>4 DEF Crash
    <2>4. /\ task' \in [Tasks -> Task]
          /\ \A u \in Tasks : task'[u] = task[u] \/ task'[u] = Idle
      BY <2>3, IdleTypes
    <2> QED BY <1>1, <2>1, <2>2, <2>3, <2>4, EndsKeep DEF TypeOK
  <1>5. CASE \E o \in Orders : Exchange(o)
    <2>1. OrdersKept
      BY <1>1, <1>5, ExchangeKeeps
    <2> QED BY <1>1, <1>5, <2>1, EndsKeep DEF Exchange, TypeOK
  <1>6. CASE UNCHANGED vars
    <2>1. OrdersKept
      BY <1>1, <1>6, SameOrders DEF vars
    <2> QED BY <1>1, <1>6, <2>1, EndsKeep DEF vars, TypeOK
  <1> QED BY <1>2, <1>3, <1>4, <1>5, <1>6

(* A coroutine begins with a copy of the rows.                              *)
LEMMA LoadKeeps ==
    ASSUME IndInv, OrdersKept, slot' = slot, status' \in GridSessionStatus,
           tainted' \subseteq Levels, UNCHANGED <<ord, next>>, NEW t \in Tasks,
           NEW kind \in {"start", "stop", "fill"}, NEW o \in 0..MaxOrders,
           NEW seen \in GridSessionStatus, NEW L, Load(t, kind, o, seen, L),
           kind = "fill" => /\ o \in Orders /\ ord[o].state = "filled"
                            /\ \E l \in Levels : l \in L /\ o \in {slot[l].buy, slot[l].sell}
    PROVE  IndInv'
  <1> DEFINE copy == [l \in Levels |-> IF l \in L THEN slot[l] ELSE NewSlot]
             new == [kind |-> kind, pc |-> "loaded", order |-> o, status |-> seen,
                     old |-> copy, new |-> copy]
  <1>1. TypeOK /\ OrdersInv
    BY DEF IndInv
  <1>2. copy \in [Levels -> Slot] /\ \A l \in Levels : copy[l] \in {slot[l], NewSlot}
    BY <1>1, IdleTypes DEF TypeOK
  <1>3. task' = [task EXCEPT ![t] = new]
    BY DEF Load
  <1>4. new \in Task
    BY <1>2 DEF Task
  <1>5. /\ task' \in [Tasks -> Task] /\ \A u \in Tasks \ {t} : task'[u] = task[u]
        /\ task'[t].pc = "loaded" /\ task'[t].old = copy /\ task'[t].new = copy
        /\ task'[t].kind = kind /\ task'[t].order = o
    BY <1>1, <1>3, <1>4 DEF TypeOK
  <1>6. kind = "fill" => \E l \in Levels : o \in {copy[l].buy, copy[l].sell}
    OBVIOUS
  <1> HIDE DEF copy, new
  <1>7. TypeOK'
    BY <1>1, <1>5 DEF TypeOK, OrdersKept
  <1>8. CopiesKept
    BY <1>2, <1>5 DEF CopiesKept
  <1>9. WritesFewer
    BY <1>5 DEF WritesFewer, Writes
  <1>10. ASSUME NEW l \in Levels PROVE Links(l, copy[l])
    <2>1. CASE copy[l] = slot[l]
      BY <2>1 DEF IndInv, Links
    <2>2. CASE copy[l] = NewSlot
      BY <2>2, IdleTypes DEF Links
    <2> QED BY <1>2, <2>1, <2>2
  <1>11. TaskInv(t)'
    <2>1. ASSUME NEW l \in Levels
          PROVE  /\ Links(l, task[t].old[l])' /\ Links(l, task[t].new[l])'
                 /\ Counted(l, task[t].old[l], task[t].new[l])'
      BY <1>5, <1>10 DEF Links, Counted
    <2> QED BY <1>5, <1>6, <2>1 DEF TaskInv
  <1>12. \A u \in Tasks : TaskInv(u)'
    BY <1>1, <1>5, <1>11, TaskStays DEF IndInv
  <1> QED BY <1>7, <1>8, <1>9, <1>12, QuietKeeps

LEMMA LoadsKeep ==
    ASSUME IndInv, NEW t \in Tasks,
           StartLoad(t) \/ StopLoad(t) \/ \E o \in Orders : FillLoad(t, o)
    PROVE  IndInv'
  <1>1. TypeOK /\ OrdersInv /\ 0 \in 0..MaxOrders
    BY Sizes DEF IndInv
  <1>2. /\ slot' = slot /\ status' = status /\ UNCHANGED <<ord, next>>
    BY DEF StartLoad, StopLoad, FillLoad
  <1>3. OrdersKept
    BY <1>1, <1>2, SameOrders
  <1>4. CASE StartLoad(t)
    <2>1. Load(t, "start", 0, "paused", Levels) /\ tainted' \subseteq Levels
      BY <1>1, <1>4 DEF StartLoad, TypeOK
    <2> QED BY <1>1, <1>2, <1>3, <2>1, LoadKeeps DEF TypeOK, GridSessionStatus
  <1>5. CASE StopLoad(t)
    <2>1. /\ Load(t, "stop", 0, status, {}) /\ tainted' \subseteq Levels
          /\ status \in GridSessionStatus
      BY <1>1, <1>5 DEF StopLoad, TypeOK
    <2>2. PICK seen \in GridSessionStatus : seen = status
      BY <2>1
    <2> QED BY <1>1, <1>2, <1>3, <2>1, <2>2, LoadKeeps
  <1>6. CASE \E o \in Orders : FillLoad(t, o)
    <2>1. PICK o \in Orders : FillLoad(t, o)
      BY <1>6
    <2>2. PICK L \in SUBSET Levels : L = slot_for_order_id(o)
      BY DEF slot_for_order_id
    <2>3. Load(t, "fill", o, "paused", L) /\ ord[o].state = "filled" /\ L # {}
      BY <2>1, <2>2 DEF FillLoad
    <2>4. \E l \in Levels : l \in L /\ o \in {slot[l].buy, slot[l].sell}
      BY <2>2, <2>3 DEF slot_for_order_id
    <2>5. tainted' \subseteq Levels
      <3>1. ord[o].level \in Levels
        BY <1>1, <2>3 DEF OrdersInv
      <3> QED BY <1>1, <2>1, <3>1 DEF FillLoad, TypeOK
    <2>6. o \in 0..MaxOrders /\ "paused" \in GridSessionStatus
      BY Sizes DEF Orders, GridSessionStatus
    <2> QED BY <1>1, <1>2, <1>3, <2>3, <2>4, <2>5, <2>6, LoadKeeps DEF TypeOK
  <1> QED BY <1>4, <1>5, <1>6

(* A coroutine has worked on its copy: r is what it has become.             *)
LEMMA ActShape ==
    ASSUME IndInv, OrdersKept, slot' = slot, status' = status, tainted' = tainted,
           NEW t \in Tasks, NEW r \in Task, task' = [task EXCEPT ![t] = r],
           r.old = task[t].old, r.kind = task[t].kind, r.order = task[t].order,
           r.pc = "acted",
           \A l \in Levels : Links(l, r.new[l])' /\ Counted(l, r.old[l], r.new[l])'
    PROVE  /\ TypeOK' /\ CopiesKept /\ \A u \in Tasks : TaskInv(u)'
           /\ task'[t] = r /\ \A u \in Tasks \ {t} : task'[u] = task[u]
  <1>1. TypeOK /\ TaskInv(t)
    BY DEF IndInv
  <1>2. task' \in [Tasks -> Task] /\ task'[t] = r /\ \A u \in Tasks \ {t} : task'[u] = task[u]
    BY <1>1 DEF TypeOK
  <1>3. TypeOK'
    BY <1>1, <1>2 DEF TypeOK, OrdersKept
  <1>4. CopiesKept
    BY <1>2 DEF CopiesKept
  <1>5. ASSUME NEW l \in Levels PROVE Links(l, r.old[l])'
    <2>1. r.old[l] \in Slot /\ Links(l, r.old[l])
      BY <1>1 DEF Task, TaskInv
    <2> QED BY <1>1, <2>1, LinksStay
  <1>6. TaskInv(t)'
    <2>1. ASSUME NEW l \in Levels
          PROVE  /\ Links(l, task[t].old[l])' /\ Links(l, task[t].new[l])'
                 /\ Counted(l, task[t].old[l], task[t].new[l])'
      BY <1>2, <1>5 DEF Links, Counted
    <2>2. r.kind = "fill" =>
             /\ r.order \in Orders /\ ord'[r.order].state = "filled"
             /\ \E l \in Levels : r.order \in {r.old[l].buy, r.old[l].sell}
      BY <1>1 DEF TaskInv, OrdersKept
    <2> QED BY <1>2, <2>1, <2>2 DEF TaskInv
  <1>7. ASSUME NEW u \in Tasks, u # t PROVE TaskInv(u)'
    BY <1>1, <1>2, <1>7, TaskStays DEF IndInv
  <1> QED BY <1>2, <1>3, <1>4, <1>6, <1>7

(* Starting writes no sell order and counts no cycle, and stopping writes   *)
(* nothing.                                                                 *)
LEMMA StartedRows ==
    ASSUME TypeOK, NEW t \in Tasks, TaskInv(t), NEW p \in Nat,
           Place(ToBuy(task[t].old, p), "Buy"), NEW l \in Levels
    PROVE  /\ Started(task[t].old, p)[l] \in Slot
           /\ Started(task[t].old, p)[l].sell = task[t].old[l].sell
           /\ Started(task[t].old, p)[l].cycles = task[t].old[l].cycles
           /\ \/ Started(task[t].old, p)[l].buy = task[t].old[l].buy
              \/ /\ Started(task[t].old, p)[l].buy \in Orders
                 /\ Started(task[t].old, p)[l].buy <= next'
                 /\ ord'[Started(task[t].old, p)[l].buy].side = "Buy"
  <1>1. PICK L \in SUBSET Levels : L = ToBuy(task[t].old, p)
    BY DEF ToBuy
  <1>2. PICK x \in Slot : x = task[t].old[l]
    BY DEF TypeOK, Task
  <1>3. PICK y : y = Started(task[t].old, p)[l]
    OBVIOUS
  <1>4. PICK i : i = IdAt(L, l)
    OBVIOUS
  <1>5. l \in L => i \in Orders /\ i <= next' /\ ord'[i].side = "Buy"
    BY <1>1, <1>4, Placed
  <1>6. i \in Orders => i \in 0..MaxOrders
    BY Sizes DEF Orders
  <1>7. y = IF l >= p THEN [x EXCEPT !.status = "waiting_sell"]
            ELSE IF l \in L THEN [x EXCEPT !.buy = i] ELSE x
    BY <1>1, <1>2, <1>3, <1>4 DEF Started
  <1>8. [x EXCEPT !.status = "waiting_sell"] \in Slot
    BY DEF Slot, GridSlotRecordStatus
  <1>9. l \in L => [x EXCEPT !.buy = i] \in Slot
    BY <1>5, <1>6 DEF Slot
  <1>10. /\ y \in Slot /\ y.sell = x.sell /\ y.cycles = x.cycles
         /\ y.buy = x.buy \/ (y.buy \in Orders /\ y.buy <= next' /\ ord'[y.buy].side = "Buy")
    <2>1. CASE l >= p
      BY <1>7, <1>8, <2>1 DEF Slot
    <2>2. CASE ~(l >= p) /\ l \in L
      BY <1>5, <1>7, <1>9, <2>2 DEF Slot
    <2>3. CASE ~(l >= p) /\ l \notin L
      BY <1>7, <2>3
    <2> QED BY <2>1, <2>2, <2>3
  <1> QED BY <1>2, <1>3, <1>10

LEMMA StartActKeeps ==
    ASSUME IndInv, NEW t \in Tasks, NEW p \in 1..(N + 1), StartAct(t, p)
    PROVE  IndInv'
  <1>1. TypeOK /\ OrdersInv /\ TaskInv(t) /\ p \in Nat
    BY Sizes DEF IndInv
  <1>2. /\ Place(ToBuy(task[t].old, p), "Buy") /\ task[t].pc = "loaded"
        /\ UNCHANGED <<status, slot, tainted>>
    BY DEF StartAct
  <1>3. OrdersKept
    <2>1. ToBuy(task[t].old, p) \in SUBSET Levels
      BY DEF ToBuy
    <2> QED BY <1>1, <1>2, <2>1, PlaceKeeps
  <1>4. PICK r : r = [task[t] EXCEPT !.pc = "acted", !.new = Started(task[t].old, p)]
    OBVIOUS
  <1>5. task[t] \in Task
    BY <1>1 DEF TypeOK
  <1>6. /\ task' = [task EXCEPT ![t] = r]
        /\ r.old = task[t].old /\ r.kind = task[t].kind /\ r.order = task[t].order
        /\ r.pc = "acted" /\ r.new = Started(task[t].old, p)
    BY <1>1, <1>4, <1>5 DEF StartAct, TypeOK, Task
  <1>7. ASSUME NEW l \in Levels
        PROVE  /\ r.new[l] \in Slot
               /\ r.new[l].sell = r.old[l].sell /\ r.new[l].cycles = r.old[l].cycles
               /\ r.new[l].buy = r.old[l].buy
                  \/ (r.new[l].buy \in Orders /\ r.new[l].buy <= next'
                      /\ ord'[r.new[l].buy].side = "Buy")
    BY <1>1, <1>2, <1>6, StartedRows
  <1>8. r \in Task
    <2>1. r.new \in [Levels -> Slot]
      BY <1>6, <1>7 DEF Started
    <2> QED BY <1>4, <1>5, <2>1 DEF Task
  <1>9. ASSUME NEW l \in Levels
        PROVE  Links(l, r.new[l])' /\ Counted(l, r.old[l], r.new[l])'
    <2>1. r.old[l] \in Slot /\ Links(l, r.old[l])
      BY <1>1, <1>6, <1>8 DEF Task, TaskInv
    <2>2. Links(l, r.old[l])'
      BY <1>1, <1>3, <2>1, LinksStay
    <2> QED BY <1>7, <2>2 DEF Links, Counted
  <1>10. /\ TypeOK' /\ CopiesKept /\ \A u \in Tasks : TaskInv(u)'
         /\ task'[t] = r /\ \A u \in Tasks \ {t} : task'[u] = task[u]
    BY <1>2, <1>3, <1>6, <1>8, <1>9, ActShape
  <1>11. WritesFewer
    BY <1>6, <1>7, <1>10 DEF WritesFewer, Writes
  <1> QED BY <1>2, <1>3, <1>10, <1>11, QuietKeeps

LEMMA StopActKeeps ==
    ASSUME IndInv, NEW t \in Tasks, StopAct(t)
    PROVE  IndInv'
  <1>1. TypeOK /\ OrdersInv /\ TaskInv(t) /\ task[t] \in Task
    BY DEF IndInv, TypeOK
  <1>2. /\ Cancel(Working) /\ next' = next /\ task[t].pc = "loaded"
        /\ UNCHANGED <<status, slot, tainted>>
    BY DEF StopAct
  <1>3. OrdersKept
    <2>1. Working \in SUBSET Working
      OBVIOUS
    <2> QED BY <1>1, <1>2, <2>1, CancelKeeps
  <1>4. PICK r : r = [task[t] EXCEPT !.pc = "acted"]
    OBVIOUS
  <1>5. /\ task' = [task EXCEPT ![t] = r] /\ r \in Task
        /\ r.old = task[t].old /\ r.kind = task[t].kind /\ r.order = task[t].order
        /\ r.pc = "acted" /\ r.new = r.old
    BY <1>1, <1>2, <1>4 DEF StopAct, TypeOK, Task, TaskInv
  <1>6. ASSUME NEW l \in Levels
        PROVE  Links(l, r.new[l])' /\ Counted(l, r.old[l], r.new[l])'
    <2>1. r.old[l] \in Slot /\ Links(l, r.old[l])
      BY <1>1, <1>5 DEF Task, TaskInv
    <2>2. Links(l, r.old[l])'
      BY <1>1, <1>3, <2>1, LinksStay
    <2> QED BY <1>5, <2>2 DEF Counted
  <1>7. /\ TypeOK' /\ CopiesKept /\ \A u \in Tasks : TaskInv(u)'
        /\ task'[t] = r /\ \A u \in Tasks \ {t} : task'[u] = task[u]
    BY <1>2, <1>3, <1>5, <1>6, ActShape
  <1>8. WritesFewer
    BY <1>5, <1>7 DEF WritesFewer, Writes
  <1> QED BY <1>2, <1>3, <1>7, <1>8, QuietKeeps

-----------------------------------------------------------------------------
(* A fill turns into the order of the other side. *)

(* A sell order that a copy names and that is filled can be counted.        *)
LEMMA OneMoreCycle ==
    ASSUME IndInv, NEW t \in Tasks, NEW l \in Levels, task[t].old[l].sell # 0,
           ord[task[t].old[l].sell].state = "filled"
    PROVE  /\ task[t].old[l].cycles + 1 <= Cardinality(Done(l))
           /\ task[t].old[l].cycles + 1 \in 0..MaxOrders
  <1> DEFINE x == task[t].old[l]
  <1>1. x \in Slot /\ Links(l, x) /\ MaxOrders \in Nat
    BY Sizes DEF IndInv, TypeOK, Task, TaskInv
  <1>2. x.sell \in Orders /\ ord[x.sell].level = l /\ ord[x.sell].side = "Sell"
    BY <1>1, Sizes DEF Links, Slot, Orders
  <1>3. x.sell \in Done(l)
    BY <1>2 DEF IndInv, WritesInv, Done, Of
  <1>4. IsFiniteSet(Done(l)) /\ Cardinality(Done(l)) <= MaxOrders
    BY DoneIsFinite
  <1>5. /\ Cardinality(Done(l)) \in Nat
        /\ Cardinality(Done(l) \ {x.sell}) = Cardinality(Done(l)) - 1
    <2>1. \A o : o \in Done(l) => Cardinality(Done(l) \ {o}) = Cardinality(Done(l)) - 1
      BY <1>4, FS_RemoveElement
    <2>2. Cardinality(Done(l)) \in Nat
      BY <1>4, FS_CardinalityType
    <2> QED BY <1>3, <2>1, <2>2
  <1>6. x.cycles <= Cardinality(Done(l) \ {x.sell}) /\ x.cycles \in Nat
    BY <1>1 DEF IndInv, CountsInv, Slot
  <1> QED BY <1>1, <1>4, <1>5, <1>6

LEMMA TurnedRows ==
    ASSUME NEW x \in Slot, NEW n \in Orders
    PROVE  /\ AfterBuy(x, n) \in Slot /\ AfterBuy(x, n).buy = 0
           /\ AfterBuy(x, n).sell = n /\ AfterBuy(x, n).cycles = x.cycles
           /\ x.cycles + 1 \in 0..MaxOrders =>
                 /\ AfterSell(x, n) \in Slot /\ AfterSell(x, n).buy = n
                 /\ AfterSell(x, n).sell = 0 /\ AfterSell(x, n).cycles = x.cycles + 1
  <1> DEFINE Ids == 0..MaxOrders
  <1>1. n \in Ids /\ 0 \in Ids
    BY Sizes DEF Orders
  <1>2. /\ Slot = [status : GridSlotRecordStatus, buy : Ids, sell : Ids, cycles : Ids]
        /\ "waiting_buy" \in GridSlotRecordStatus /\ "waiting_sell" \in GridSlotRecordStatus
    BY DEF Slot, GridSlotRecordStatus
  <1>3. PICK c : c = x.cycles + 1
    OBVIOUS
  <1> HIDE DEF Ids
  <1>4. /\ AfterBuy(x, n) \in Slot /\ AfterBuy(x, n).buy = 0
        /\ AfterBuy(x, n).sell = n /\ AfterBuy(x, n).cycles = x.cycles
    BY <1>1, <1>2 DEF AfterBuy
  <1>5. ASSUME c \in Ids
        PROVE  /\ AfterSell(x, n) \in Slot /\ AfterSell(x, n).buy = n
               /\ AfterSell(x, n).sell = 0 /\ AfterSell(x, n).cycles = c
    BY <1>1, <1>2, <1>3, <1>5 DEF AfterSell
  <1> QED BY <1>3, <1>4, <1>5 DEF Ids

LEMMA FillActKeeps ==
    ASSUME IndInv, NEW t \in Tasks, FillAct(t)
    PROVE  IndInv'
  <1>1. TypeOK /\ OrdersInv /\ TaskInv(t) /\ task[t] \in Task
    BY DEF IndInv, TypeOK
  <1>2. /\ task[t].kind = "fill" /\ task[t].pc = "loaded" /\ task[t].new = task[t].old
        /\ UNCHANGED <<status, slot, tainted>>
    BY <1>1 DEF FillAct, TaskInv
  <1>3. /\ FillLevel(t) \in Levels
        /\ task[t].order \in {task[t].old[FillLevel(t)].buy, task[t].old[FillLevel(t)].sell}
        /\ task[t].order \in Orders /\ ord[task[t].order].state = "filled"
    BY <1>1, <1>2 DEF TaskInv, FillLevel
  <1>4. PICK l \in Levels : l = FillLevel(t)
    BY <1>3
  <1>5. PICK n : n = next + 1
    OBVIOUS
  <1>6. PICK x : x = task[t].old[l]
    OBVIOUS
  <1>7. x \in Slot /\ Links(l, x) /\ (task[t].order = x.buy \/ task[t].order = x.sell)
    BY <1>1, <1>3, <1>4, <1>6 DEF Task, TaskInv
  <1>8. next \in Nat /\ MaxOrders \in Nat /\ Orders = 1..MaxOrders
    BY <1>1, Sizes DEF TypeOK, Orders
  <1>9. ASSUME NEW side \in {"Buy", "Sell"}, NEW s \in Slot, Place({l}, side),
               task' = [task EXCEPT ![t].pc = "acted", ![t].new[l] = s],
               Links(l, s)', Counted(l, x, s)',
               s.sell = 0 \/ s.sell = n
        PROVE  IndInv'
    <2>1. OrdersKept /\ n \in Orders /\ n > next
      <3>1. {l} \in SUBSET Levels /\ Place({l}, side)
        BY <1>9
      <3>2. OrdersKept
        BY <1>1, <3>1, PlaceKeeps
      <3>3. next + 1 \in Orders
        BY <1>1, <3>1, PlacedOne
      <3> QED BY <1>5, <1>8, <3>2, <3>3
    <2>2. PICK r : r = [task[t] EXCEPT !.pc = "acted", !.new[l] = s]
      OBVIOUS
    <2>3. /\ task' = [task EXCEPT ![t] = r] /\ r \in Task
          /\ r.old = task[t].old /\ r.kind = task[t].kind /\ r.order = task[t].order
          /\ r.pc = "acted" /\ r.new[l] = s /\ r.old[l] = x
          /\ \A m \in Levels \ {l} : r.new[m] = r.old[m]
      BY <1>1, <1>2, <1>6, <1>9, <2>2 DEF TypeOK, Task
    <2>4. ASSUME NEW m \in Levels
          PROVE  Links(m, r.new[m])' /\ Counted(m, r.old[m], r.new[m])'
      <3>1. CASE m = l
        BY <1>9, <2>3, <3>1 DEF Links, Counted
      <3>2. CASE m # l
        <4>1. r.old[m] \in Slot /\ Links(m, r.old[m])
          BY <1>1, <2>3 DEF Task, TaskInv
        <4>2. Links(m, r.old[m])'
          BY <1>1, <2>1, <4>1, LinksStay
        <4> QED BY <2>3, <3>2, <4>2 DEF Counted
      <3> QED BY <3>1, <3>2
    <2>5. /\ TypeOK' /\ CopiesKept /\ \A u \in Tasks : TaskInv(u)'
          /\ task'[t] = r /\ \A u \in Tasks \ {t} : task'[u] = task[u]
      BY <1>2, <2>1, <2>3, <2>4, ActShape
    <2>6. ASSUME NEW o \in Orders, Writes(t, o)' PROVE o = n
      <3>1. PICK m \in Levels : r.new[m].sell = o /\ o # r.old[m].sell
        BY <2>5, <2>6 DEF Writes
      <3>2. o # 0
        BY Sizes
      <3>3. m = l
        BY <2>3, <3>1
      <3> QED BY <1>9, <2>3, <3>1, <3>2, <3>3
    <2>7. ASSUME NEW u \in Tasks, u # t, NEW o \in Orders, Writes(u, o)'
          PROVE  Writes(u, o) /\ o <= next
      <3>1. Writes(u, o)
        BY <2>5, <2>7 DEF Writes
      <3>2. PICK m \in Levels : task[u].new[m].sell = o
        BY <3>1 DEF Writes
      <3>3. Links(m, task[u].new[m]) /\ o # 0
        BY <1>8, <2>7 DEF IndInv, TaskInv
      <3> QED BY <3>1, <3>2, <3>3 DEF Links
    <2>8. \A o \in Orders : o <= next /\ o \in Pending' => o \in Pending
      BY <1>8, <2>1, <2>6, <2>7 DEF Pending
    <2>9. \A u, v \in Tasks, o \in Orders : Writes(u, o)' /\ Writes(v, o)' => u = v
      BY <1>8, <2>1, <2>6, <2>7 DEF IndInv, WritesInv
    <2> QED BY <1>2, <2>1, <2>5, <2>8, <2>9, RowsKeep
  <1>10. CASE /\ Place({l}, "Sell")
              /\ task' = [task EXCEPT ![t].pc = "acted", ![t].new[l] = AfterBuy(x, n)]
    <2>1. PICK s : s = AfterBuy(x, n)
      OBVIOUS
    <2>2. /\ next' = n /\ n \in Orders
          /\ ord'[n] = [level |-> l, side |-> "Sell", state |-> "working"]
      BY <1>1, <1>5, <1>10, PlacedOne
    <2>3. s \in Slot /\ s.buy = 0 /\ s.sell = n /\ s.cycles = x.cycles
      BY <1>7, <2>1, <2>2, TurnedRows
    <2>4. Links(l, s)' /\ Counted(l, x, s)'
      BY <1>8, <2>2, <2>3 DEF Links, Counted
    <2> QED BY <1>9, <1>10, <2>1, <2>3, <2>4
  <1>11. CASE /\ ord[task[t].order].side = "Sell"
              /\ Place({l}, "Buy")
              /\ task' = [task EXCEPT ![t].pc = "acted", ![t].new[l] = AfterSell(x, n)]
    <2>1. PICK s : s = AfterSell(x, n)
      OBVIOUS
    <2>2. /\ next' = n /\ n \in Orders
          /\ ord'[n] = [level |-> l, side |-> "Buy", state |-> "working"]
      BY <1>1, <1>5, <1>11, PlacedOne
    <2>3. x.sell = task[t].order /\ x.sell # 0 /\ ord[x.sell].state = "filled"
      BY <1>3, <1>7, <1>8, <1>11 DEF Links
    <2>4. x.cycles + 1 \in 0..MaxOrders
      BY <1>6, <2>3, OneMoreCycle
    <2>5. s \in Slot /\ s.buy = n /\ s.sell = 0 /\ s.cycles = x.cycles + 1
      BY <1>7, <2>1, <2>2, <2>4, TurnedRows
    <2>6. ord'[x.sell].state = "filled"
      <3>1. {l} \in SUBSET Levels
        OBVIOUS
      <3>2. OrdersKept
        BY <1>1, <1>11, <3>1, PlaceKeeps
      <3> QED BY <1>3, <2>3, <3>2 DEF OrdersKept
    <2>7. Links(l, s)' /\ Counted(l, x, s)'
      BY <1>8, <2>2, <2>3, <2>5, <2>6 DEF Links, Counted
    <2> QED BY <1>9, <1>11, <2>1, <2>5, <2>7
  <1> QED BY <1>4, <1>5, <1>6, <1>10, <1>11 DEF FillAct

-----------------------------------------------------------------------------
(* The commit. *)

LEMMA FlushRow ==
    ASSUME NEW x \in Slot, NEW y \in Slot, NEW z \in Slot
    PROVE  /\ Flush(z, x, y) \in Slot
           /\ Flush(z, x, y).buy = IF y.buy # x.buy THEN y.buy ELSE z.buy
           /\ Flush(z, x, y).sell = IF y.sell # x.sell THEN y.sell ELSE z.sell
           /\ Flush(z, x, y).cycles = IF y.cycles # x.cycles THEN y.cycles ELSE z.cycles
  <1>1. DOMAIN z = {"status", "buy", "sell", "cycles"}
    BY DEF Slot
  <1> QED BY <1>1 DEF Flush, Slot

(* What a commit leaves on a row: an order that nobody has yet to write and *)
(* has not been counted, and a count that is still covered.                 *)
LEMMA CommittedRow ==
    ASSUME IndInv, NEW t \in Tasks, Commit(t), NEW l \in Levels,
           OrdersKept, Done(l) \subseteq Done(l)', IsFiniteSet(Done(l)'),
           \A u \in Tasks, o \in Orders : Writes(u, o)' => Writes(u, o) /\ u # t
    PROVE  /\ slot'[l] \in Slot /\ Links(l, slot[l])'
           /\ slot'[l].sell \notin Pending'
           /\ slot'[l].cycles <= Cardinality(Done(l)' \ {slot'[l].sell})
  <1>1. PICK x \in Slot : x = task[t].old[l]
    BY DEF IndInv, TypeOK, Task
  <1>2. PICK y \in Slot : y = task[t].new[l]
    BY DEF IndInv, TypeOK, Task
  <1>3. PICK z \in Slot : z = slot[l]
    BY DEF IndInv, TypeOK
  <1>4. PICK w : w = Flush(z, x, y)
    OBVIOUS
  <1>5. /\ slot'[l] = w /\ w \in Slot
        /\ w.buy = IF y.buy # x.buy THEN y.buy ELSE z.buy
        /\ w.sell = IF y.sell # x.sell THEN y.sell ELSE z.sell
        /\ w.cycles = IF y.cycles # x.cycles THEN y.cycles ELSE z.cycles
    BY <1>1, <1>2, <1>3, <1>4, FlushRow DEF Commit
  <1>6. Links(l, x) /\ Links(l, y) /\ Links(l, z) /\ Counted(l, x, y)
    BY <1>1, <1>2, <1>3 DEF IndInv, TaskInv
  <1>7. Links(l, slot[l])'
    <2>1. Links(l, w)
      BY <1>5, <1>6 DEF Links
    <2>2. Links(l, w)'
      BY <1>5, <2>1, LinksStay DEF IndInv
    <2> QED BY <1>5, <2>2 DEF Links
  <1>8. Pending' \subseteq Pending /\ 0 \notin Pending'
    BY Sizes DEF Pending
  <1>9. y.sell # x.sell /\ y.sell # 0 => y.sell \in Pending /\ y.sell \notin Pending'
    <2>1. SUFFICES ASSUME y.sell # x.sell, y.sell # 0
                   PROVE  y.sell \in Pending /\ y.sell \notin Pending'
      OBVIOUS
    <2>2. y.sell \in Orders
      BY <2>1, Sizes DEF Slot, Orders
    <2>3. Writes(t, y.sell)
      BY <1>1, <1>2, <2>1 DEF Commit, Writes
    <2>4. ASSUME NEW u \in Tasks, Writes(u, y.sell)' PROVE FALSE
      BY <2>2, <2>3, <2>4 DEF IndInv, WritesInv
    <2> QED BY <2>2, <2>3, <2>4 DEF Pending
  <1>10. z.sell \notin Pending /\ z.cycles <= Cardinality(Done(l) \ {z.sell})
    BY <1>3 DEF IndInv, WritesInv, CountsInv
  <1>11. w.sell \notin Pending'
    BY <1>5, <1>8, <1>9, <1>10
  <1>12. Done(l)' \ {0} = Done(l)'
    BY Sizes DEF Done, Of
  <1>13. w.cycles <= Cardinality(Done(l)' \ {w.sell})
    <2>1. CASE y.cycles # x.cycles
      <3>1. /\ w.cycles = x.cycles + 1 /\ w.sell = 0 /\ x.sell # 0
            /\ ord[x.sell].state = "filled"
        BY <1>5, <1>6, <2>1 DEF Counted
      <3>2. x.cycles + 1 <= Cardinality(Done(l)) /\ x.cycles + 1 \in 0..MaxOrders
        BY <1>1, <3>1, OneMoreCycle
      <3>3. /\ Cardinality(Done(l)) <= Cardinality(Done(l)')
            /\ Cardinality(Done(l)) \in Nat /\ Cardinality(Done(l)') \in Nat
        BY FS_Subset, FS_CardinalityType
      <3>4. Done(l)' \ {w.sell} = Done(l)'
        BY <1>12, <3>1
      <3>5. Cardinality(Done(l)' \ {w.sell}) = Cardinality(Done(l)')
        BY <3>4
      <3>6. w.cycles <= Cardinality(Done(l)')
        BY <3>1, <3>2, <3>3
      <3> QED BY <3>5, <3>6
    <2>2. CASE y.cycles = x.cycles
      <3>1. w.cycles = z.cycles /\ z.cycles \in Nat
        BY <1>5, <2>2 DEF Slot
      <3>2. (Done(l) \ {z.sell}) \subseteq (Done(l)' \ {w.sell})
        <4>1. CASE y.sell = x.sell
          BY <1>5, <4>1
        <4>2. CASE y.sell # x.sell /\ y.sell = 0
          BY <1>5, <1>12, <4>2
        <4>3. CASE y.sell # x.sell /\ y.sell # 0
          <5>1. w.sell \notin Done(l)
            BY <1>5, <1>9, <4>3 DEF Done
          <5> QED BY <5>1
        <4> QED BY <4>1, <4>2, <4>3
      <3>3. /\ Cardinality(Done(l) \ {z.sell}) <= Cardinality(Done(l)' \ {w.sell})
            /\ Cardinality(Done(l) \ {z.sell}) \in Nat
            /\ Cardinality(Done(l)' \ {w.sell}) \in Nat
        <4>1. IsFiniteSet(Done(l)' \ {w.sell})
          BY FS_RemoveElement
        <4>2. IsFiniteSet(Done(l) \ {z.sell})
          BY <3>2, <4>1, FS_Subset
        <4> QED BY <3>2, <4>1, <4>2, FS_Subset, FS_CardinalityType
      <3> QED BY <1>10, <3>1, <3>3
    <2> QED BY <2>1, <2>2
  <1> QED BY <1>5, <1>7, <1>11, <1>13

LEMMA CommitKeeps ==
    ASSUME IndInv, NEW t \in Tasks, Commit(t)
    PROVE  IndInv'
  <1>1. TypeOK /\ OrdersInv
    BY DEF IndInv
  <1>2. /\ UNCHANGED <<ord, next, tainted>> /\ task' = [task EXCEPT ![t] = Idle]
    BY DEF Commit, End
  <1>3. OrdersKept
    BY <1>1, <1>2, SameOrders
  <1>4. /\ task' \in [Tasks -> Task] /\ task'[t] = Idle
        /\ \A u \in Tasks \ {t} : task'[u] = task[u]
    BY <1>1, <1>2, IdleTypes DEF TypeOK
  <1>5. \A u \in Tasks, o \in Orders : Writes(u, o)' => Writes(u, o) /\ u # t
    BY <1>4, IdleTypes DEF Writes
  <1>6. Pending' \subseteq Pending /\ 0 \notin Pending'
    BY <1>5, Sizes DEF Pending
  <1>7. \A l \in Levels : Done(l) \subseteq Done(l)' /\ IsFiniteSet(Done(l)')
    BY <1>1, <1>3, <1>6, DoneGrows
  <1>8. \A l \in Levels : /\ slot'[l] \in Slot /\ Links(l, slot[l])'
                          /\ slot'[l].sell \notin Pending'
                          /\ slot'[l].cycles <= Cardinality(Done(l)' \ {slot'[l].sell})
    BY <1>3, <1>5, <1>7, CommittedRow
  <1>9. TypeOK'
    <2>1. slot' \in [Levels -> Slot]
      BY <1>8 DEF Commit
    <2>2. status' \in GridSessionStatus
      BY <1>1 DEF Commit, TypeOK, GridSessionStatus
    <2> QED BY <1>1, <1>2, <1>3, <1>4, <2>1, <2>2 DEF TypeOK, OrdersKept
  <1>10. \A u \in Tasks : TaskInv(u)'
    BY <1>1, <1>3, <1>4, TaskStays, TaskIdles DEF IndInv
  <1>11. ASSUME NEW u \in Tasks, NEW l \in Levels
         PROVE  /\ task'[u].old[l].sell \notin Pending'
                /\ task'[u].old[l].cycles <= Cardinality(Done(l)' \ {task'[u].old[l].sell})
    <2>1. CASE u = t
      <3>1. Cardinality(Done(l)' \ {NewSlot.sell}) \in Nat
        BY <1>7, CountGrows
      <3>2. task'[u].old[l] = NewSlot
        BY <1>4, <2>1, IdleTypes
      <3>3. NewSlot.cycles <= Cardinality(Done(l)' \ {NewSlot.sell})
        BY <3>1, IdleTypes
      <3>4. NewSlot.sell \notin Pending'
        BY <1>6, IdleTypes
      <3> QED BY <3>2, <3>3, <3>4
    <2>2. CASE u # t
      <3>1. PICK x \in Slot : x = task[u].old[l]
        BY <1>1 DEF TypeOK, Task
      <3>2. x.sell \notin Pending /\ x.cycles <= Cardinality(Done(l) \ {x.sell})
        BY <3>1 DEF IndInv, WritesInv, CountsInv
      <3>3. /\ Cardinality(Done(l) \ {x.sell}) \in Nat /\ Cardinality(Done(l)' \ {x.sell}) \in Nat
            /\ Cardinality(Done(l) \ {x.sell}) <= Cardinality(Done(l)' \ {x.sell})
        BY <1>7, CountGrows
      <3>4. x.cycles \in Nat
        BY DEF Slot
      <3>5. x.cycles <= Cardinality(Done(l)' \ {x.sell})
        BY <3>2, <3>3, <3>4
      <3>6. task'[u].old[l] = x /\ x.sell \notin Pending'
        BY <1>4, <1>6, <2>2, <3>1, <3>2
      <3> QED BY <3>5, <3>6
    <2> QED BY <2>1, <2>2
  <1>12. WritesInv'
    <2>1. \A u, v \in Tasks, o \in Orders : Writes(u, o)' /\ Writes(v, o)' => u = v
      BY <1>5 DEF IndInv, WritesInv
    <2> QED BY <1>8, <1>11, <2>1 DEF WritesInv
  <1>13. CountsInv'
    BY <1>8, <1>11 DEF CountsInv
  <1> QED BY <1>3, <1>8, <1>9, <1>10, <1>12, <1>13 DEF IndInv, OrdersKept

-----------------------------------------------------------------------------
LEMMA InitInd == Init => IndInv
  <1> SUFFICES ASSUME Init PROVE IndInv
    OBVIOUS
  <1>1. TypeOK
    <2>1. NoOrder \in Order
      BY Sizes DEF NoOrder, Order
    <2> QED BY <2>1, IdleTypes, Sizes DEF Init, TypeOK, GridSessionStatus
  <1>2. OrdersInv
    BY DEF Init, OrdersInv, NoOrder
  <1>3. \A l \in Levels : slot[l] = NewSlot /\ Links(l, slot[l])
    BY IdleTypes DEF Init, Links
  <1>4. \A t \in Tasks, l \in Levels : task[t].old[l] = NewSlot /\ task[t].new[l] = NewSlot
    BY IdleTypes DEF Init
  <1>5. \A t \in Tasks : TaskInv(t)
    <2>1. ASSUME NEW t \in Tasks, NEW l \in Levels
          PROVE  /\ Links(l, task[t].old[l]) /\ Links(l, task[t].new[l])
                 /\ Counted(l, task[t].old[l], task[t].new[l])
      BY <1>4, IdleTypes DEF Links, Counted
    <2>2. \A t \in Tasks : task[t].new = task[t].old /\ task[t].kind # "fill"
      BY DEF Init, Idle
    <2> QED BY <2>1, <2>2 DEF TaskInv
  <1>6. \A t \in Tasks : \A o : ~Writes(t, o)
    BY IdleTypes DEF Init, Writes
  <1>7. Pending = {} /\ WritesInv
    BY <1>6 DEF Pending, WritesInv
  <1>8. \A l \in Levels : Cardinality(Done(l) \ {NewSlot.sell}) \in Nat
    BY DoneIsFinite, CountGrows
  <1>9. CountsInv
    BY <1>3, <1>4, <1>8, IdleTypes DEF CountsInv
  <1> QED BY <1>1, <1>2, <1>3, <1>5, <1>7, <1>9 DEF IndInv

LEMMA NextKeeps == IndInv /\ [Next]_vars => IndInv'
  <1> SUFFICES ASSUME IndInv, [Next]_vars PROVE IndInv'
    OBVIOUS
  <1>1. ASSUME NEW t \in Tasks,
               \/ StartLoad(t)
               \/ \E p \in 1..(N + 1) : StartAct(t, p)
               \/ \E p \in 1..(N + 1), l \in Levels, lost \in BOOLEAN :
                     StartFails(t, p, l, lost)
               \/ StopLoad(t) \/ StopAct(t) \/ StopFails(t)
               \/ \E o \in Orders : FillLoad(t, o)
               \/ FillAct(t)
               \/ \E lost \in BOOLEAN : FillFails(t, lost)
               \/ Commit(t)
        PROVE  IndInv'
    BY <1>1, LoadsKeep, StartActKeeps, StartFailsKeeps, StopActKeeps, OutsideKeeps,
       FillActKeeps, FillFailsKeeps, CommitKeeps
  <1> QED BY <1>1, OutsideKeeps DEF Next

(* For every number of levels, coroutines and orders: rows, copies and ids  *)
(* keep their types, and no count of cycles exceeds the orders.             *)
THEOREM TypeCorrect == Spec => []TypeOK
  BY InitInd, NextKeeps, PTL DEF Spec, IndInv

(* completed_cycles never counts a cycle that did not happen, also where    *)
(* two handlers of one fill overlap or one order is written over another    *)
(* (handle_order_fill).                                                     *)
THEOREM CyclesHappened == Spec => []CyclesAreReal
  <1>1. IndInv => CyclesAreReal
    <2> SUFFICES ASSUME IndInv, NEW l \in Levels
                 PROVE  slot[l].cycles <= Cardinality(Of(l, "Sell", {"filled"}))
      BY DEF CyclesAreReal
    <2>1. PICK z \in Slot : z = slot[l]
      BY DEF IndInv, TypeOK
    <2>2. Of(l, "Sell", {"filled"}) \in SUBSET Orders
      BY DEF Of
    <2>3. IsFiniteSet(Of(l, "Sell", {"filled"}))
      BY <2>2, Sizes, FS_Subset
    <2>4. (Done(l) \ {z.sell}) \in SUBSET Of(l, "Sell", {"filled"})
      BY DEF Done
    <2>5. /\ Cardinality(Done(l) \ {z.sell}) <= Cardinality(Of(l, "Sell", {"filled"}))
          /\ Cardinality(Done(l) \ {z.sell}) \in Nat
          /\ Cardinality(Of(l, "Sell", {"filled"})) \in Nat
      BY <2>3, <2>4, FS_Subset, FS_CardinalityType
    <2>6. z.cycles <= Cardinality(Done(l) \ {z.sell}) /\ z.cycles \in Nat
      BY <2>1 DEF IndInv, CountsInv, Slot
    <2> QED BY <2>1, <2>5, <2>6
  <1> QED BY <1>1, InitInd, NextKeeps, PTL DEF Spec

-----------------------------------------------------------------------------
(* One working order for each level.  Whoever has an order of a level in    *)
(* hand, placed and not yet written, either handles the filled order that   *)
(* the row still names, or has found the row of a level that never had one; *)
(* so as long as starts, and handlers of one fill, do not overlap, nothing  *)
(* can be placed next to a working order.                                   *)

Home(l, r) ==
    /\ r.buy # 0 => ord[r.buy].level = l
    /\ r.sell # 0 => ord[r.sell].level = l

HandBuy(q, l, o) ==
    q.pc = "acted" /\ o # 0 /\ q.new[l].buy = o /\ q.old[l].buy # o

HandSell(q, l, o) ==
    q.pc = "acted" /\ o # 0 /\ q.new[l].sell = o /\ q.old[l].sell # o

Handles(q, l) == q.kind = "fill" /\ ord[q.order].level = l

Turning(q, l) == Handles(q, l) /\ q.pc = "acted"

(* What a handler does to its row, and a start to every row. *)
Turned(q, l, n) ==
    /\ n \in Orders /\ n <= next /\ ord[n].level = l
    /\ n # q.old[l].buy /\ n # q.old[l].sell
    /\ \/ ord[q.order].side = "Buy" /\ q.new[l] = AfterBuy(q.old[l], n)
       \/ ord[q.order].side = "Sell" /\ q.new[l] = AfterSell(q.old[l], n)

FillShape(q) ==
    \E l \in Levels :
        /\ ord[q.order].level = l
        /\ q.order = q.old[l].buy \/ q.order = q.old[l].sell
        /\ \A m \in Levels \ {l} : q.old[m] = NewSlot /\ q.new[m] = NewSlot
        /\ q.pc = "acted" => \E n \in Orders : Turned(q, l, n)

StartShape(q) ==
    /\ q.order = 0
    /\ \A l \in Levels :
        /\ q.new[l].sell = q.old[l].sell
        /\ q.new[l].status \in {q.old[l].status, "waiting_sell"}
        /\ q.new[l].buy # q.old[l].buy =>
              q.old[l].status = "waiting_buy" /\ q.old[l].buy = 0

Shape(q) ==
    /\ \A l \in Levels : Home(l, q.old[l]) /\ Home(l, q.new[l])
    /\ q.kind = "fill" => FillShape(q)
    /\ q.kind = "start" => StartShape(q)
    /\ q.kind \notin {"fill", "start"} => q.new = q.old

ShapeInv ==
    /\ \A l \in Levels : Home(l, slot[l])
    /\ \A t \in Tasks : Shape(task[t])

(* The row of a level, and the copies of those who may place an order. *)
RowInv(l) ==
    /\ slot[l].buy = 0 \/ slot[l].sell = 0
    /\ slot[l].sell # 0 => slot[l].status = "waiting_sell"
    /\ \A t \in Tasks : Handles(task[t], l) =>
          /\ task[t].old[l].buy = slot[l].buy /\ task[t].old[l].sell = slot[l].sell
          /\ task[t].old[l].status = "waiting_sell" => slot[l].status = "waiting_sell"
    /\ \A t, u \in Tasks : Handles(task[t], l) /\ Handles(task[u], l) => t = u
    /\ \A t, u \in Tasks : task[t].kind = "start" /\ task[u].kind = "start" => t = u
    /\ \A t \in Tasks : task[t].kind = "start" /\ task[t].old[l].status = "waiting_buy"
                           /\ task[t].old[l].buy = 0 =>
          slot[l].buy = 0 /\ slot[l].sell = 0

(* Buy orders that no sell order answers yet. *)
Unturned(l) ==
    {o \in Orders :
        \/ o = slot[l].buy /\ ~\E t \in Tasks : Turning(task[t], l)
        \/ \E t \in Tasks : HandBuy(task[t], l, o)}

LiveAt(l) == {o \in Orders : ord[o].level = l /\ ord[o].state = "working"}

SellsAt(l) == Of(l, "Sell", {"working", "filled"})

BoughtAt(l) == Of(l, "Buy", {"filled"})

MarketInv(l) ==
    /\ \A o \in LiveAt(l) :
          \/ o = slot[l].buy \/ o = slot[l].sell
          \/ \E t \in Tasks : HandBuy(task[t], l, o) \/ HandSell(task[t], l, o)
    /\ Cardinality(SellsAt(l)) <= Cardinality(BoughtAt(l) \ Unturned(l))

LevelInv(l) == RowInv(l) /\ MarketInv(l)

GridInv ==
    /\ IndInv
    /\ ShapeInv
    /\ \A l \in Levels \ tainted : LevelInv(l)

(* Each order of a batch is for its own level. *)
LEMMA IdsDiffer ==
    ASSUME NEW L \in SUBSET Levels, NEW l \in L, NEW m \in L, IdAt(L, l) = IdAt(L, m), TypeOK
    PROVE  l = m
  <1>1. \A k \in L : k \in Nat /\ k \in Levels
    BY Sizes
  <1>2. IsFiniteSet(L) /\ next \in Nat
    <2>1. IsFiniteSet(L)
      BY Sizes, FS_Subset
    <2>2. next \in Nat
      BY Sizes DEF TypeOK
    <2> QED BY <2>1, <2>2
  <1>3. ASSUME NEW i \in L, NEW j \in L, i < j PROVE IdAt(L, i) < IdAt(L, j)
    <2> DEFINE A == {k \in L : k <= i}
               B == {k \in L : k <= j}
    <2>1. j \in B /\ A \in SUBSET (B \ {j}) /\ IsFiniteSet(B)
      <3>1. B \in SUBSET L
        OBVIOUS
      <3> QED BY <1>1, <1>2, <1>3, <3>1, FS_Subset
    <2>2. IsFiniteSet(B \ {j}) /\ Cardinality(B \ {j}) = Cardinality(B) - 1
      BY <2>1, FS_RemoveElement
    <2>3. /\ Cardinality(A) <= Cardinality(B \ {j})
          /\ Cardinality(A) \in Nat /\ Cardinality(B) \in Nat
      BY <2>1, <2>2, FS_Subset, FS_CardinalityType
    <2>4. IdAt(L, i) = next + Cardinality(A) /\ IdAt(L, j) = next + Cardinality(B)
      BY DEF IdAt
    <2> HIDE DEF A, B
    <2> QED BY <1>2, <2>2, <2>3, <2>4
  <1>4. ASSUME NEW k \in L PROVE IdAt(L, k) \in Int
    <2> DEFINE A == {j \in L : j <= k}
    <2>1. A \in SUBSET L
      OBVIOUS
    <2>2. Cardinality(A) \in Nat
      BY <1>2, <2>1, FS_Subset, FS_CardinalityType
    <2>3. IdAt(L, k) = next + Cardinality(A)
      BY DEF IdAt
    <2> HIDE DEF A
    <2> QED BY <1>2, <2>2, <2>3
  <1>5. l < m \/ m < l \/ l = m
    BY <1>1
  <1>6. ~(l < m) /\ ~(m < l)
    <2>1. PICK i : i = IdAt(L, l)
      OBVIOUS
    <2>2. i \in Int /\ i = IdAt(L, m)
      BY <1>4, <2>1
    <2> QED BY <1>3, <2>1, <2>2
  <1> QED BY <1>5, <1>6

LEMMA PlacedLevels ==
    ASSUME TypeOK, NEW L \in SUBSET Levels, NEW side \in {"Buy", "Sell"}, Place(L, side)
    PROVE  /\ \A l \in L : ord'[IdAt(L, l)] = [level |-> l, side |-> side, state |-> "working"]
           /\ \A o \in Orders :
                 \/ ord'[o] = ord[o]
                 \/ \E l \in L : /\ o = IdAt(L, l) /\ o > next
                                 /\ ord'[o] = [level |-> l, side |-> side,
                                               state |-> "working"]
  <1>1. ASSUME NEW l \in L
        PROVE  /\ IdAt(L, l) \in Orders /\ IdAt(L, l) > next
               /\ ord'[IdAt(L, l)] = [level |-> l, side |-> side, state |-> "working"]
    <2>1. PICK o : o = IdAt(L, l)
      OBVIOUS
    <2>2. o \in Orders /\ o > next
      BY <2>1, Placed
    <2>3. (CHOOSE m \in L : IdAt(L, m) = o) = l
      <3>1. \A m \in L : IdAt(L, m) = o => m = l
        BY <2>1, IdsDiffer
      <3> QED BY <2>1, <3>1
    <2>4. ord'[o] = [level |-> CHOOSE m \in L : IdAt(L, m) = o, side |-> side,
                     state |-> "working"]
      BY <2>1, <2>2 DEF Place
    <2> QED BY <2>1, <2>2, <2>3, <2>4
  <1>2. ASSUME NEW o \in Orders, ~\E l \in L : IdAt(L, l) = o PROVE ord'[o] = ord[o]
    BY <1>2 DEF Place
  <1> QED BY <1>1, <1>2

(* Orders that were placed stay where they are. *)
LEMMA PlacedStay ==
    ASSUME TypeOK, OrdersInv, OrdersKept, NEW o \in Orders, ord[o].state # "none"
    PROVE  o <= next /\ ord'[o].level = ord[o].level /\ ord'[o].side = ord[o].side
           /\ ord[o].level \in Levels
  <1>1. next \in Nat /\ o \in Nat
    BY Sizes DEF TypeOK, Orders
  <1> QED BY <1>1 DEF OrdersInv, OrdersKept

LEMMA HomeStays ==
    ASSUME TypeOK, OrdersKept, NEW l \in Levels, NEW r \in Slot, Links(l, r), Home(l, r)
    PROVE  Home(l, r)'
  <1>1. next \in Nat /\ Orders = 1..MaxOrders /\ MaxOrders \in Nat /\ next <= MaxOrders
    BY Sizes DEF TypeOK, Orders
  <1> QED BY <1>1 DEF Links, Home, OrdersKept, Slot

LEMMA ShapeStays ==
    ASSUME TypeOK, OrdersInv, OrdersKept, NEW t \in Tasks, TaskInv(t), Shape(task[t]),
           task'[t] = task[t]
    PROVE  Shape(task[t])'
  <1>1. ASSUME NEW l \in Levels
        PROVE  Home(l, task[t].old[l])' /\ Home(l, task[t].new[l])'
    <2>1. \A r \in Slot : Links(l, r) /\ Home(l, r) =>
             /\ r.buy # 0 => ord'[r.buy].level = l
             /\ r.sell # 0 => ord'[r.sell].level = l
      BY HomeStays DEF Home
    <2>2. /\ task[t].old[l] \in Slot /\ task[t].new[l] \in Slot
          /\ Links(l, task[t].old[l]) /\ Links(l, task[t].new[l])
          /\ Home(l, task[t].old[l]) /\ Home(l, task[t].new[l])
      BY DEF TypeOK, Task, TaskInv, Shape
    <2> QED BY <2>1, <2>2 DEF Home
  <1>2. ASSUME task[t].kind = "fill" PROVE FillShape(task[t])'
    <2>1. PICK q : q = task[t]
      OBVIOUS
    <2>2. PICK l \in Levels :
             /\ ord[q.order].level = l
             /\ q.order = q.old[l].buy \/ q.order = q.old[l].sell
             /\ \A m \in Levels \ {l} : q.old[m] = NewSlot /\ q.new[m] = NewSlot
             /\ q.pc = "acted" => \E n \in Orders : Turned(q, l, n)
      BY <1>2, <2>1 DEF Shape, FillShape
    <2>3. ord'[q.order].level = ord[q.order].level /\ ord'[q.order].side = ord[q.order].side
      BY <1>2, <2>1, PlacedStay DEF TaskInv
    <2>4. ASSUME NEW n \in Orders, Turned(q, l, n)
          PROVE  /\ n <= next' /\ ord'[n].level = l
                 /\ n # q.old[l].buy /\ n # q.old[l].sell
                 /\ \/ ord'[q.order].side = "Buy" /\ q.new[l] = AfterBuy(q.old[l], n)
                    \/ ord'[q.order].side = "Sell" /\ q.new[l] = AfterSell(q.old[l], n)
      <3>1. next \in Nat /\ next' \in Nat /\ next' >= next /\ n \in Nat /\ n <= next
        BY <2>4, Sizes DEF TypeOK, OrdersKept, Turned, Orders
      <3>2. n <= next' /\ ord'[n].level = l
        BY <2>4, <3>1 DEF Turned, OrdersKept
      <3> QED BY <2>3, <2>4, <3>2 DEF Turned
    <2>5. q.pc = "acted" => \E n \in Orders : Turned(task[t], l, n)'
      BY <2>1, <2>2, <2>4 DEF Turned
    <2> QED BY <2>1, <2>2, <2>3, <2>5 DEF FillShape
  <1>3. task[t].kind = "start" => StartShape(task[t])'
    BY DEF Shape, StartShape
  <1> QED BY <1>1, <1>2, <1>3 DEF Shape

LEMMA IdleShape ==
    ASSUME NEW t \in Tasks, task'[t] = Idle
    PROVE  Shape(task[t])'
  <1>1. /\ task'[t].kind = "idle" /\ task'[t].new = task'[t].old
        /\ \A l \in Levels : task'[t].old[l] = NewSlot /\ task'[t].new[l] = NewSlot
    BY IdleTypes DEF Idle
  <1> QED BY <1>1, IdleTypes DEF Shape, Home

-----------------------------------------------------------------------------
(* Frames. *)

(* Whoever handles a fill of a level, or starts, did so before. *)
NobodyBegins(l) ==
    \A t \in Tasks :
        /\ task'[t].kind = "start" =>
              task[t].kind = "start" /\ task'[t].old[l] = task[t].old[l]
        /\ Handles(task[t], l)' =>
              Handles(task[t], l) /\ task'[t].old[l] = task[t].old[l]

LEMMA RowFrame ==
    ASSUME NEW l \in Levels, RowInv(l), slot'[l] = slot[l], NobodyBegins(l)
    PROVE  RowInv(l)'
  <1>1. ASSUME NEW t \in Tasks, Handles(task[t], l)'
        PROVE  /\ Handles(task[t], l)
               /\ task'[t].old[l].buy = slot'[l].buy /\ task'[t].old[l].sell = slot'[l].sell
               /\ task'[t].old[l].status = "waiting_sell" =>
                     slot'[l].status = "waiting_sell"
    BY <1>1 DEF NobodyBegins, RowInv
  <1>2. ASSUME NEW t \in Tasks, task'[t].kind = "start"
        PROVE  /\ task[t].kind = "start"
               /\ task'[t].old[l].status = "waiting_buy" /\ task'[t].old[l].buy = 0 =>
                     slot'[l].buy = 0 /\ slot'[l].sell = 0
    BY <1>2 DEF NobodyBegins, RowInv
  <1>3. \A t, u \in Tasks : Handles(task[t], l)' /\ Handles(task[u], l)' => t = u
    BY <1>1 DEF RowInv
  <1>4. \A t, u \in Tasks : task'[t].kind = "start" /\ task'[u].kind = "start" => t = u
    BY <1>2 DEF RowInv
  <1>5. /\ slot'[l].buy = 0 \/ slot'[l].sell = 0
        /\ slot'[l].sell # 0 => slot'[l].status = "waiting_sell"
    BY DEF RowInv
  <1> QED BY <1>1, <1>2, <1>3, <1>4, <1>5 DEF RowInv

(* A coroutine that has no order of the level in hand and turns none. *)
Quiet(q, l) == ~Turning(q, l) /\ \A o \in Orders : ~HandBuy(q, l, o) /\ ~HandSell(q, l, o)

LEMMA LoadedIsQuiet ==
    ASSUME NEW q, NEW l, q.pc # "acted"
    PROVE  Quiet(q, l)
  BY DEF Quiet, Turning, HandBuy, HandSell

LEMMA UnchangedIsQuiet ==
    ASSUME NEW q, NEW l, q.new[l].buy = q.old[l].buy, q.new[l].sell = q.old[l].sell,
           ~Handles(q, l)
    PROVE  Quiet(q, l)
  BY DEF Quiet, Turning, HandBuy, HandSell

LEMMA OthersAreQuiet ==
    ASSUME NEW q, NEW l \in Levels, Shape(q), q.kind # "start", ~Handles(q, l)
    PROVE  Quiet(q, l)
  <1>1. CASE q.kind = "fill"
    <2>1. q.new[l] = NewSlot /\ q.old[l] = NewSlot
      BY <1>1 DEF Shape, FillShape, Handles
    <2> QED BY <2>1, UnchangedIsQuiet
  <1>2. CASE q.kind # "fill"
    BY <1>2, UnchangedIsQuiet DEF Shape
  <1> QED BY <1>1, <1>2

(* No order of the level is placed. *)
NothingPlaced(l) ==
    \A o \in Orders :
        ord'[o].level = l /\ ord'[o].state \in {"working", "filled"} =>
            /\ ord[o].level = l /\ ord[o].side = ord'[o].side
            /\ ord[o].state \in {"working", "filled"}
            /\ ord'[o].state = "working" => ord[o].state = "working"

LEMMA StillCovered ==
    ASSUME NEW A, NEW B \in SUBSET Orders, NEW C \in SUBSET Orders, NEW D \in SUBSET Orders,
           A \subseteq B, C \subseteq D, Cardinality(B) <= Cardinality(C)
    PROVE  Cardinality(A) <= Cardinality(D)
  <1>1. IsFiniteSet(B) /\ IsFiniteSet(D)
    BY Sizes, FS_Subset
  <1>2. Cardinality(A) <= Cardinality(B) /\ IsFiniteSet(A)
    BY <1>1, FS_Subset
  <1>3. Cardinality(C) <= Cardinality(D) /\ IsFiniteSet(C)
    BY <1>1, FS_Subset
  <1>4. /\ Cardinality(A) \in Nat /\ Cardinality(B) \in Nat
        /\ Cardinality(C) \in Nat /\ Cardinality(D) \in Nat
    BY <1>1, <1>2, <1>3, FS_CardinalityType
  <1> QED BY <1>2, <1>3, <1>4

(* Nothing changes for the market side of a level when those who act have   *)
(* nothing to do with it.                                                   *)
LEMMA MarketFrame ==
    ASSUME IndInv, OrdersKept, NEW l \in Levels, MarketInv(l), NothingPlaced(l),
           slot'[l].buy = slot[l].buy, slot'[l].sell = slot[l].sell,
           \A t \in Tasks : task'[t] = task[t] \/ (Quiet(task[t], l) /\ Quiet(task[t], l)')
    PROVE  MarketInv(l)'
  <1>1. TypeOK /\ OrdersInv /\ \A t \in Tasks : TaskInv(t)
    BY DEF IndInv
  <1>2. ASSUME NEW t \in Tasks, NEW o \in Orders
        PROVE  /\ HandBuy(task[t], l, o)' <=> HandBuy(task[t], l, o)
               /\ HandSell(task[t], l, o)' <=> HandSell(task[t], l, o)
    BY DEF Quiet, HandBuy, HandSell
  <1>3. ASSUME NEW t \in Tasks, Turning(task[t], l) PROVE Turning(task[t], l)'
    <2>1. task'[t] = task[t]
      BY <1>3 DEF Quiet
    <2>2. ord'[task[t].order].level = ord[task[t].order].level
      BY <1>1, <1>3, PlacedStay DEF TaskInv, Turning, Handles
    <2> QED BY <1>3, <2>1, <2>2 DEF Turning, Handles
  <1>4. LiveAt(l)' \subseteq LiveAt(l)
    BY DEF LiveAt, NothingPlaced
  <1>5. ASSUME NEW o \in LiveAt(l)'
        PROVE  \/ o = slot'[l].buy \/ o = slot'[l].sell
               \/ \E t \in Tasks : HandBuy(task[t], l, o)' \/ HandSell(task[t], l, o)'
    <2>1. o \in LiveAt(l) /\ o \in Orders
      BY <1>4 DEF LiveAt
    <2> QED BY <1>2, <2>1 DEF MarketInv
  <1>6. SellsAt(l)' \subseteq SellsAt(l)
    BY DEF SellsAt, Of, NothingPlaced
  <1>7. BoughtAt(l) \subseteq BoughtAt(l)'
    BY <1>1, PlacedStay DEF BoughtAt, Of, OrdersKept
  <1>8. Unturned(l)' \subseteq Unturned(l)
    BY <1>2, <1>3 DEF Unturned
  <1>9. Cardinality(SellsAt(l)') <= Cardinality(BoughtAt(l)' \ Unturned(l)')
    <2>1. BoughtAt(l) \ Unturned(l) \subseteq BoughtAt(l)' \ Unturned(l)'
      BY <1>7, <1>8
    <2>2. /\ SellsAt(l) \in SUBSET Orders /\ BoughtAt(l) \ Unturned(l) \in SUBSET Orders
          /\ BoughtAt(l)' \ Unturned(l)' \in SUBSET Orders
      BY DEF SellsAt, BoughtAt, Of
    <2>3. Cardinality(SellsAt(l)) <= Cardinality(BoughtAt(l) \ Unturned(l))
      BY DEF MarketInv
    <2> QED BY <1>6, <2>1, <2>2, <2>3, StillCovered
  <1> QED BY <1>5, <1>9 DEF MarketInv

LEMMA PlacedElsewhere ==
    ASSUME TypeOK, OrdersInv, NEW L \in SUBSET Levels, NEW side \in {"Buy", "Sell"},
           Place(L, side), NEW l \in Levels \ L
    PROVE  NothingPlaced(l)
  <1>1. ASSUME NEW o \in Orders, ord'[o].level = l PROVE ord'[o] = ord[o]
    <2>1. ASSUME NEW m \in L,
                 ord'[o] = [level |-> m, side |-> side, state |-> "working"]
          PROVE  FALSE
      BY <1>1, <2>1
    <2> QED BY <2>1, PlacedLevels
  <1> QED BY <1>1 DEF NothingPlaced

LEMMA PlacedOneSide ==
    ASSUME TypeOK, NEW L \in SUBSET Levels, NEW side \in {"Buy", "Sell"}, Place(L, side),
           NEW l \in L
    PROVE  /\ IdAt(L, l) \in Orders /\ IdAt(L, l) > next /\ IdAt(L, l) # 0
           /\ ord'[IdAt(L, l)] = [level |-> l, side |-> side, state |-> "working"]
           /\ \A o \in Orders : o = IdAt(L, l) \/ ord'[o] = ord[o] \/ ord'[o].level # l
  <1>1. ASSUME NEW o \in Orders
        PROVE  o = IdAt(L, l) \/ ord'[o] = ord[o] \/ ord'[o].level # l
    <2>1. ASSUME NEW m \in L, o = IdAt(L, m),
                 ord'[o] = [level |-> m, side |-> side, state |-> "working"]
          PROVE  o = IdAt(L, l) \/ ord'[o].level # l
      BY <2>1
    <2> QED BY <2>1, PlacedLevels
  <1>2. /\ IdAt(L, l) \in Orders /\ IdAt(L, l) > next
        /\ ord'[IdAt(L, l)] = [level |-> l, side |-> side, state |-> "working"]
    BY Placed, PlacedLevels
  <1>3. IdAt(L, l) # 0
    BY <1>2, Sizes
  <1> QED BY <1>1, <1>2, <1>3

(* Orders that change their state only. *)
LEMMA NoneOfAny ==
    ASSUME \A o \in Orders :
              /\ ord'[o].level = ord[o].level /\ ord'[o].side = ord[o].side
              /\ \/ ord'[o].state = ord[o].state
                 \/ ord[o].state = "working" /\ ord'[o].state # "working",
           NEW l
    PROVE  NothingPlaced(l)
  BY DEF NothingPlaced

(* What holds of a step that begins no work on any level. *)
LEMMA LevelFrame ==
    ASSUME IndInv, OrdersKept, NEW l \in Levels, LevelInv(l), slot'[l] = slot[l],
           NothingPlaced(l), NobodyBegins(l),
           \A t \in Tasks : task'[t] = task[t] \/ (Quiet(task[t], l) /\ Quiet(task[t], l)')
    PROVE  LevelInv(l)'
  BY RowFrame, MarketFrame DEF LevelInv

(* Coroutines go on with what they have loaded, or end. *)
LEMMA GoOn ==
    ASSUME IndInv, OrdersKept, NEW l \in Levels,
           \A t \in Tasks :
              \/ task'[t].kind \notin {"start", "fill"}
              \/ /\ task'[t].kind = task[t].kind /\ task'[t].order = task[t].order
                 /\ task'[t].old = task[t].old
    PROVE  NobodyBegins(l)
  <1>1. ASSUME NEW t \in Tasks, task'[t].kind = "fill", task[t].kind = "fill",
               task'[t].order = task[t].order
        PROVE  ord'[task'[t].order].level = ord[task[t].order].level
    <2>1. TypeOK /\ OrdersInv /\ TaskInv(t)
      BY DEF IndInv
    <2> QED BY <1>1, <2>1, PlacedStay DEF TaskInv
  <1> QED BY <1>1 DEF NobodyBegins, Handles

LEMMA RowsAtHome ==
    ASSUME GridInv, OrdersKept, slot' = slot
    PROVE  \A l \in Levels : Home(l, slot[l])'
  <1>1. TypeOK
    BY DEF GridInv, IndInv
  <1>2. ASSUME NEW l \in Levels PROVE Home(l, slot[l])'
    <2>1. PICK r \in Slot : r = slot[l]
      BY <1>1 DEF TypeOK
    <2>2. Home(l, r)'
      BY <1>1, <2>1, HomeStays DEF GridInv, IndInv, ShapeInv
    <2> QED BY <2>1, <2>2 DEF Home
  <1> QED BY <1>2

LEMMA ShapesStay ==
    ASSUME GridInv, OrdersKept, NEW t \in Tasks,
           task'[t] = task[t] \/ task'[t] = Idle
    PROVE  Shape(task[t])'
  <1>1. TypeOK /\ OrdersInv /\ TaskInv(t) /\ Shape(task[t])
    BY DEF GridInv, IndInv, ShapeInv
  <1> QED BY <1>1, ShapeStays, IdleShape

LEMMA IdleIsQuiet ==
    ASSUME NEW t \in Tasks, task'[t] = Idle, NEW l
    PROVE  Quiet(task[t], l)'
  <1>1. task'[t].pc # "acted"
    BY IdleTypes
  <1> QED BY <1>1 DEF Quiet, Turning, HandBuy, HandSell

-----------------------------------------------------------------------------
(* Steps that leave a level alone. *)

LEMMA StopActLevels ==
    ASSUME GridInv, NEW t \in Tasks, StopAct(t) \/ StopFails(t)
    PROVE  /\ ShapeInv' /\ \A l \in Levels \ tainted' : LevelInv(l)'
  <1>1. IndInv /\ TypeOK /\ OrdersInv /\ task[t] \in Task /\ Shape(task[t])
    BY DEF GridInv, IndInv, TypeOK, ShapeInv
  <1>2. /\ task[t].kind = "stop" /\ task[t].pc = "loaded" /\ task[t].new = task[t].old
        /\ UNCHANGED <<slot, next, tainted>> /\ \E S \in SUBSET Working : Cancel(S)
    BY <1>1 DEF StopAct, StopFails, Shape
  <1>3. OrdersKept
    BY <1>1, <1>2, CancelKeeps
  <1>4. /\ \A u \in Tasks \ {t} : task'[u] = task[u]
        /\ \/ task'[t] = Idle
           \/ /\ task'[t].kind = "stop" /\ task'[t].new = task[t].new
              /\ task'[t].old = task[t].old
    BY <1>1, <1>2 DEF StopAct, StopFails, End, TypeOK, Task
  <1>5. ShapeInv'
    <2>1. \A l \in Levels : Home(l, slot[l])'
      BY <1>2, <1>3, RowsAtHome
    <2>2. Shape(task[t])'
      <3>1. CASE task'[t] = Idle
        BY <3>1, IdleShape
      <3>2. CASE task'[t].kind = "stop" /\ task'[t].new = task[t].new
                 /\ task'[t].old = task[t].old
        <4>1. ASSUME NEW l \in Levels PROVE Home(l, task[t].old[l])'
          <5>1. PICK r \in Slot : r = task[t].old[l]
            BY <1>1 DEF Task
          <5>2. Links(l, r) /\ Home(l, r)
            BY <1>1, <5>1 DEF IndInv, TaskInv, Shape
          <5>3. Home(l, r)'
            BY <1>1, <1>3, <5>2, HomeStays
          <5> QED BY <3>2, <5>1, <5>3 DEF Home
        <4> QED BY <1>2, <3>2, <4>1 DEF Shape, Home
      <3> QED BY <1>4, <3>1, <3>2
    <2>3. \A u \in Tasks \ {t} : Shape(task[u])'
      BY <1>3, <1>4, ShapesStay
    <2> QED BY <2>1, <2>2, <2>3 DEF ShapeInv
  <1>6. ASSUME NEW l \in Levels \ tainted' PROVE LevelInv(l)'
    <2>1. NothingPlaced(l)
      <3>1. PICK S \in SUBSET Working : Cancel(S)
        BY <1>2
      <3>2. ASSUME NEW o \in Orders
            PROVE  /\ ord'[o].level = ord[o].level /\ ord'[o].side = ord[o].side
                   /\ \/ ord'[o].state = ord[o].state
                      \/ ord[o].state = "working" /\ ord'[o].state # "working"
        <4>1. ord[o] \in Order
          BY <1>1 DEF TypeOK
        <4>2. CASE o \in S
          <5>1. ord'[o] = [ord[o] EXCEPT !.state = "cancelled"] /\ ord[o].state = "working"
            BY <3>1, <4>2 DEF Cancel, Working
          <5> QED BY <4>1, <5>1 DEF Order
        <4>3. CASE o \notin S
          BY <3>1, <4>3 DEF Cancel
        <4> QED BY <4>2, <4>3
      <3> QED BY <3>2, NoneOfAny
    <2>2. NobodyBegins(l)
      <3>1. \A u \in Tasks :
               \/ task'[u].kind \notin {"start", "fill"}
               \/ /\ task'[u].kind = task[u].kind /\ task'[u].order = task[u].order
                  /\ task'[u].old = task[u].old
        BY <1>4, IdleTypes
      <3> QED BY <1>1, <1>3, <3>1, GoOn
    <2>3. Quiet(task[t], l)
      BY <1>2, LoadedIsQuiet
    <2>4. Quiet(task[t], l)'
      <3>1. CASE task'[t] = Idle
        BY <3>1, IdleIsQuiet
      <3>2. CASE task'[t].kind = "stop" /\ task'[t].new = task[t].new
                 /\ task'[t].old = task[t].old
        BY <1>2, <3>2 DEF Quiet, Turning, Handles, HandBuy, HandSell
      <3> QED BY <1>4, <3>1, <3>2
    <2> QED BY <1>1, <1>2, <1>3, <1>4, <2>1, <2>2, <2>3, <2>4, LevelFrame DEF GridInv
  <1> QED BY <1>5, <1>6

(* Coroutines that end without a commit: what they placed and did not       *)
(* record taints its level.                                                 *)
LEMMA EndLevels ==
    ASSUME GridInv, OrdersKept, slot' = slot, tainted \subseteq tainted',
           \A t \in Tasks : task'[t] = task[t] \/ task'[t] = Idle,
           \A l \in Levels \ tainted' :
              /\ NothingPlaced(l)
              /\ \A t \in Tasks : task'[t] = Idle => task[t] = Idle \/ Quiet(task[t], l)
    PROVE  ShapeInv' /\ \A l \in Levels \ tainted' : LevelInv(l)'
  <1>1. ShapeInv'
    BY RowsAtHome, ShapesStay DEF ShapeInv
  <1>2. ASSUME NEW l \in Levels \ tainted' PROVE LevelInv(l)'
    <2>1. NobodyBegins(l)
      <3>1. \A u \in Tasks :
               \/ task'[u].kind \notin {"start", "fill"}
               \/ /\ task'[u].kind = task[u].kind /\ task'[u].order = task[u].order
                  /\ task'[u].old = task[u].old
        BY IdleTypes
      <3> QED BY <3>1, GoOn DEF GridInv
    <2>2. \A u \in Tasks : task'[u] = task[u] \/ (Quiet(task[u], l) /\ Quiet(task[u], l)')
      BY <1>2, IdleIsQuiet
    <2>3. LevelInv(l) /\ NothingPlaced(l)
      BY <1>2 DEF GridInv
    <2> QED BY <2>1, <2>2, <2>3, LevelFrame DEF GridInv
  <1> QED BY <1>1, <1>2

LEMMA StartFailsLevels ==
    ASSUME GridInv, NEW t \in Tasks, NEW p, NEW l, NEW lost, StartFails(t, p, l, lost)
    PROVE  ShapeInv' /\ \A m \in Levels \ tainted' : LevelInv(m)'
  <1>1. TypeOK /\ OrdersInv
    BY DEF GridInv, IndInv
  <1>2. PICK placed : placed = {m \in ToBuy(task[t].old, p) : m < l \/ (lost /\ m = l)}
    OBVIOUS
  <1>3. /\ task[t].pc = "loaded" /\ Place(placed, "Buy") /\ tainted' = tainted \cup placed
        /\ slot' = slot /\ task' = [task EXCEPT ![t] = Idle] /\ placed \in SUBSET Levels
    BY <1>2 DEF StartFails, End, ToBuy
  <1>4. OrdersKept
    BY <1>1, <1>3, PlaceKeeps
  <1>5. ASSUME NEW m \in Levels \ tainted' PROVE NothingPlaced(m)
    BY <1>1, <1>3, <1>5, PlacedElsewhere
  <1>6. /\ task'[t] = Idle /\ \A u \in Tasks \ {t} : task'[u] = task[u]
    BY <1>1, <1>3 DEF TypeOK
  <1>7. \A m : Quiet(task[t], m)
    BY <1>3, LoadedIsQuiet
  <1> QED BY <1>3, <1>4, <1>5, <1>6, <1>7, EndLevels

LEMMA FillFailsLevels ==
    ASSUME GridInv, NEW t \in Tasks, NEW lost, FillFails(t, lost)
    PROVE  ShapeInv' /\ \A m \in Levels \ tainted' : LevelInv(m)'
  <1>1. TypeOK /\ OrdersInv /\ TaskInv(t)
    BY DEF GridInv, IndInv
  <1>2. FillLevel(t) \in Levels
    BY <1>1 DEF FillFails, TaskInv, FillLevel
  <1>3. PICK L, side : /\ L = (IF lost THEN {FillLevel(t)} ELSE {})
                       /\ side = (IF ord[task[t].order].side = "Buy" THEN "Sell" ELSE "Buy")
    OBVIOUS
  <1>4. L \in SUBSET Levels /\ side \in {"Buy", "Sell"}
    BY <1>2, <1>3
  <1>5. /\ task[t].pc = "loaded" /\ Place(L, side) /\ tainted' = tainted \cup L
        /\ slot' = slot /\ task' = [task EXCEPT ![t] = Idle]
    BY <1>3 DEF FillFails, End
  <1>6. OrdersKept
    BY <1>1, <1>4, <1>5, PlaceKeeps
  <1>7. ASSUME NEW m \in Levels \ tainted' PROVE NothingPlaced(m)
    BY <1>1, <1>4, <1>5, <1>7, PlacedElsewhere
  <1>8. /\ task'[t] = Idle /\ \A u \in Tasks \ {t} : task'[u] = task[u]
    BY <1>1, <1>5 DEF TypeOK
  <1>9. \A m : Quiet(task[t], m)
    BY <1>5, LoadedIsQuiet
  <1> QED BY <1>5, <1>6, <1>7, <1>8, <1>9, EndLevels

(* Whoever has acted on a level and recorded nothing of it has something    *)
(* unrecorded.                                                              *)
LEMMA RecordedIsQuiet ==
    ASSUME GridInv, NEW t \in Tasks, NEW l \in Levels, l \notin Unrecorded(t)
    PROVE  Quiet(task[t], l)
  <1>1. Shape(task[t])
    BY DEF GridInv, ShapeInv
  <1>2. ASSUME NEW o \in Orders PROVE ~HandBuy(task[t], l, o) /\ ~HandSell(task[t], l, o)
    BY DEF HandBuy, HandSell, Unrecorded
  <1>3. ASSUME Turning(task[t], l) PROVE FALSE
    <2>1. PICK n \in Orders : Turned(task[t], l, n)
      BY <1>1, <1>3 DEF Turning, Handles, Shape, FillShape
    <2>2. PICK x \in Slot : x = task[t].old[l]
      BY DEF GridInv, IndInv, TypeOK, Task
    <2>3. n # 0 /\ n # x.buy /\ n # x.sell
      BY <2>1, <2>2, Sizes DEF Turned
    <2>4. AfterBuy(x, n).sell = n /\ AfterSell(x, n).buy = n
      BY DEF AfterBuy, AfterSell, Slot
    <2>5. task[t].new[l].buy = n \/ task[t].new[l].sell = n
      BY <2>1, <2>2, <2>4 DEF Turned
    <2>6. HandBuy(task[t], l, n) \/ HandSell(task[t], l, n)
      BY <1>3, <2>2, <2>3, <2>5 DEF HandBuy, HandSell, Turning
    <2> QED BY <1>2, <2>6
  <1> QED BY <1>2, <1>3 DEF Quiet

LEMMA OutsideLevels ==
    ASSUME GridInv, Pause \/ Crash \/ (\E o \in Orders : Exchange(o)) \/ UNCHANGED vars
    PROVE  ShapeInv' /\ \A l \in Levels \ tainted' : LevelInv(l)'
  <1>1. TypeOK /\ OrdersInv
    BY DEF GridInv, IndInv
  <1>2. CASE Pause \/ UNCHANGED vars
    <2>1. UNCHANGED <<slot, ord, next, task, tainted>>
      BY <1>2 DEF Pause, vars
    <2>2. OrdersKept
      BY <1>1, <2>1, SameOrders
    <2>3. \A l : NothingPlaced(l)
      BY <2>1 DEF NothingPlaced
    <2> QED BY <2>1, <2>2, <2>3, EndLevels
  <1>3. CASE Crash
    <2>1. /\ UNCHANGED <<slot, ord, next>> /\ \A t \in Tasks : task'[t] = Idle
          /\ tainted' = tainted \cup UNION {Unrecorded(t) : t \in Tasks}
      BY <1>3 DEF Crash
    <2>2. OrdersKept
      BY <1>1, <2>1, SameOrders
    <2>3. \A l : NothingPlaced(l)
      BY <2>1 DEF NothingPlaced
    <2>4. ASSUME NEW l \in Levels \ tainted', NEW t \in Tasks PROVE Quiet(task[t], l)
      BY <2>1, <2>4, RecordedIsQuiet
    <2> QED BY <2>1, <2>2, <2>3, <2>4, EndLevels
  <1>4. ASSUME NEW o \in Orders, Exchange(o)
        PROVE  ShapeInv' /\ \A l \in Levels \ tainted' : LevelInv(l)'
    <2>1. UNCHANGED <<slot, next, task, tainted>>
      BY <1>4 DEF Exchange
    <2>2. OrdersKept
      BY <1>1, <1>4, ExchangeKeeps
    <2>3. ASSUME NEW l \in Levels PROVE NothingPlaced(l)
      <3>1. ASSUME NEW e \in Orders, ord'[e].level = l,
                   ord'[e].state \in {"working", "filled"}
            PROVE  /\ ord[e].level = l /\ ord[e].side = ord'[e].side
                   /\ ord[e].state \in {"working", "filled"}
                   /\ ord'[e].state = "working" => ord[e].state = "working"
        BY <1>1, <1>4, <3>1 DEF Exchange, TypeOK, Order
      <3> QED BY <3>1 DEF NothingPlaced
    <2> QED BY <2>1, <2>2, <2>3, EndLevels
  <1> QED BY <1>2, <1>3, <1>4

-----------------------------------------------------------------------------
(* Loading the rows. *)

LEMMA LoadShape ==
    ASSUME GridInv, OrdersKept, UNCHANGED <<slot, ord, next>>, NEW t \in Tasks,
           NEW kind \in {"start", "stop", "fill"}, NEW o, NEW seen, NEW L,
           Load(t, kind, o, seen, L), tainted \subseteq tainted',
           kind = "start" => o = 0,
           kind = "fill" => /\ o \in Orders /\ ord[o].level \in Levels
                            /\ L = {ord[o].level}
                            /\ o \in {slot[ord[o].level].buy, slot[ord[o].level].sell}
    PROVE  /\ task'[t].kind = kind /\ task'[t].pc = "loaded" /\ task'[t].order = o
           /\ \A l \in Levels : task'[t].old[l] = IF l \in L THEN slot[l] ELSE NewSlot
           /\ \A u \in Tasks \ {t} : task'[u] = task[u]
           /\ ShapeInv'
           /\ \A l \in Levels \ tainted' : MarketInv(l)'
  <1>1. TypeOK /\ OrdersInv /\ IndInv
    BY DEF GridInv, IndInv
  <1>2. /\ task'[t].kind = kind /\ task'[t].pc = "loaded" /\ task'[t].order = o
        /\ task'[t].new = task'[t].old
        /\ \A l \in Levels : task'[t].old[l] = IF l \in L THEN slot[l] ELSE NewSlot
        /\ \A u \in Tasks \ {t} : task'[u] = task[u]
        /\ task[t].kind = "idle"
    BY <1>1 DEF Load, TypeOK
  <1>3. ShapeInv'
    <2>1. \A l \in Levels : Home(l, slot[l])'
      BY RowsAtHome
    <2>2. \A l \in Levels : Home(l, task[t].old[l])' /\ Home(l, task[t].new[l])'
      <3>1. ASSUME NEW l \in Levels, l \in L
            PROVE  Home(l, task[t].old[l])'
        BY <1>2, <2>1, <3>1 DEF Home
      <3>2. ASSUME NEW l \in Levels, l \notin L
            PROVE  Home(l, task[t].old[l])'
        BY <1>2, <3>2, IdleTypes DEF Home
      <3> QED BY <1>2, <3>1, <3>2 DEF Home
    <2>3. kind = "fill" => FillShape(task[t])'
      <3>1. SUFFICES ASSUME kind = "fill" PROVE FillShape(task[t])'
        OBVIOUS
      <3>2. PICK l \in Levels : l = ord[o].level
        BY <3>1
      <3>3. /\ ord'[task'[t].order].level = l
            /\ task'[t].order = task'[t].old[l].buy \/ task'[t].order = task'[t].old[l].sell
            /\ \A m \in Levels \ {l} : task'[t].old[m] = NewSlot /\ task'[t].new[m] = NewSlot
            /\ task'[t].pc # "acted"
        BY <1>2, <3>1, <3>2
      <3> QED BY <3>3 DEF FillShape
    <2>4. kind = "start" => StartShape(task[t])'
      BY <1>2 DEF StartShape
    <2>5. Shape(task[t])'
      BY <1>2, <2>2, <2>3, <2>4 DEF Shape
    <2>6. \A u \in Tasks \ {t} : Shape(task[u])'
      BY <1>2, ShapesStay
    <2> QED BY <2>1, <2>5, <2>6 DEF ShapeInv
  <1>4. ASSUME NEW l \in Levels \ tainted' PROVE MarketInv(l)'
    <2>1. NothingPlaced(l)
      BY DEF NothingPlaced
    <2>2. Quiet(task[t], l)
      <3>1. Shape(task[t]) /\ task[t].kind # "start" /\ ~Handles(task[t], l)
        BY <1>2 DEF GridInv, ShapeInv, Handles
      <3> QED BY <3>1, OthersAreQuiet
    <2>3. Quiet(task[t], l)'
      <3>1. task'[t].pc # "acted"
        BY <1>2
      <3> QED BY <3>1 DEF Quiet, Turning, HandBuy, HandSell
    <2>4. MarketInv(l)
      BY <1>4 DEF GridInv, LevelInv
    <2> QED BY <1>1, <1>2, <2>1, <2>2, <2>3, <2>4, MarketFrame
  <1> QED BY <1>2, <1>3, <1>4

(* The rows of a level that none of those who handle it have changed, with  *)
(* a newcomer among them.                                                   *)
LEMMA StartLoadLevels ==
    ASSUME GridInv, NEW t \in Tasks, StartLoad(t)
    PROVE  ShapeInv' /\ \A l \in Levels \ tainted' : LevelInv(l)'
  <1>1. TypeOK /\ OrdersInv /\ IndInv
    BY DEF GridInv, IndInv
  <1>2. /\ Load(t, "start", 0, "paused", Levels) /\ UNCHANGED <<slot, ord, next>>
        /\ tainted' = IF Same(t, "start", 0) THEN Levels ELSE tainted
        /\ tainted \subseteq tainted'
    BY <1>1 DEF StartLoad, TypeOK
  <1>3. OrdersKept
    BY <1>1, <1>2, SameOrders
  <1>4. /\ task'[t].kind = "start" /\ \A l \in Levels : task'[t].old[l] = slot[l]
        /\ \A u \in Tasks \ {t} : task'[u] = task[u]
        /\ ShapeInv' /\ \A l \in Levels \ tainted' : MarketInv(l)'
    BY <1>2, <1>3, LoadShape
  <1>5. ASSUME NEW l \in Levels \ tainted' PROVE RowInv(l)'
    <2>1. RowInv(l) /\ l \notin tainted
      BY <1>2, <1>5 DEF GridInv, LevelInv
    <2>2. ASSUME NEW u \in Tasks \ {t} PROVE task[u].kind # "start"
      <3>1. ~Same(t, "start", 0)
        BY <1>2, <1>5
      <3>2. task[u].kind = "start" => task[u].order = 0
        BY DEF GridInv, ShapeInv, Shape, StartShape
      <3> QED BY <3>1, <3>2 DEF Same
    <2>3. \A u \in Tasks : Handles(task[u], l)' => u # t /\ Handles(task[u], l)
      BY <1>2, <1>4 DEF Handles
    <2>4. /\ slot'[l].buy = 0 \/ slot'[l].sell = 0
          /\ slot'[l].sell # 0 => slot'[l].status = "waiting_sell"
          /\ \A u \in Tasks : Handles(task[u], l)' =>
                /\ task'[u].old[l].buy = slot'[l].buy /\ task'[u].old[l].sell = slot'[l].sell
                /\ task'[u].old[l].status = "waiting_sell" =>
                      slot'[l].status = "waiting_sell"
          /\ \A u, v \in Tasks : Handles(task[u], l)' /\ Handles(task[v], l)' => u = v
      BY <1>2, <1>4, <2>1, <2>3 DEF RowInv
    <2>5. /\ \A u, v \in Tasks : task'[u].kind = "start" /\ task'[v].kind = "start" => u = v
          /\ \A u \in Tasks : task'[u].kind = "start" => u = t
      BY <1>4, <2>2
    <2>6. task'[t].old[l].status = "waiting_buy" /\ task'[t].old[l].buy = 0 =>
             slot'[l].buy = 0 /\ slot'[l].sell = 0
      BY <1>2, <1>4, <2>4
    <2> QED BY <2>4, <2>5, <2>6 DEF RowInv
  <1> QED BY <1>4, <1>5 DEF LevelInv

LEMMA StopLoadLevels ==
    ASSUME GridInv, NEW t \in Tasks, StopLoad(t)
    PROVE  ShapeInv' /\ \A l \in Levels \ tainted' : LevelInv(l)'
  <1>1. TypeOK /\ OrdersInv /\ IndInv
    BY DEF GridInv, IndInv
  <1>2. Load(t, "stop", 0, status, {}) /\ UNCHANGED <<slot, ord, next, tainted>>
    BY DEF StopLoad
  <1>3. OrdersKept
    BY <1>1, <1>2, SameOrders
  <1>4. /\ task'[t].kind = "stop" /\ \A u \in Tasks \ {t} : task'[u] = task[u]
        /\ ShapeInv' /\ \A l \in Levels \ tainted' : MarketInv(l)'
    BY <1>2, <1>3, LoadShape
  <1>5. ASSUME NEW l \in Levels \ tainted' PROVE RowInv(l)'
    <2>1. RowInv(l)
      BY <1>2, <1>5 DEF GridInv, LevelInv
    <2>2. NobodyBegins(l)
      BY <1>2, <1>4 DEF NobodyBegins, Handles
    <2> QED BY <1>2, <2>1, <2>2, RowFrame
  <1> QED BY <1>4, <1>5 DEF LevelInv

(* The order that a handler was called for is on its row. *)
LEMMA HandledOrder ==
    ASSUME GridInv, NEW t \in Tasks, NEW l \in Levels \ tainted, Handles(task[t], l)
    PROVE  /\ task[t].order \in Orders /\ ord[task[t].order].state = "filled"
           /\ \/ task[t].order = slot[l].buy /\ slot[l].sell = 0
              \/ task[t].order = slot[l].sell /\ slot[l].buy = 0
  <1>1. TaskInv(t) /\ Shape(task[t]) /\ RowInv(l)
    BY DEF GridInv, IndInv, ShapeInv, LevelInv
  <1>2. task[t].order \in Orders /\ ord[task[t].order].state = "filled" /\ task[t].order # 0
    BY <1>1, Sizes DEF TaskInv, Handles
  <1>3. task[t].order = task[t].old[l].buy \/ task[t].order = task[t].old[l].sell
    BY <1>1 DEF Shape, FillShape, Handles
  <1>4. task[t].old[l].buy = slot[l].buy /\ task[t].old[l].sell = slot[l].sell
    BY <1>1 DEF RowInv
  <1> QED BY <1>1, <1>2, <1>3, <1>4 DEF RowInv

LEMMA FillLoadLevels ==
    ASSUME GridInv, NEW t \in Tasks, NEW o \in Orders, FillLoad(t, o)
    PROVE  ShapeInv' /\ \A l \in Levels \ tainted' : LevelInv(l)'
  <1>1. TypeOK /\ OrdersInv /\ IndInv
    BY DEF GridInv, IndInv
  <1>2. PICK k \in Levels : slot[k].buy = o \/ slot[k].sell = o
    BY DEF FillLoad, slot_for_order_id
  <1>3. ord[o].level = k /\ o # 0
    BY <1>2, Sizes DEF GridInv, ShapeInv, Home
  <1>4. slot_for_order_id(o) = {k}
    BY <1>2, <1>3 DEF slot_for_order_id, GridInv, ShapeInv, Home
  <1>5. /\ Load(t, "fill", o, "paused", {k}) /\ UNCHANGED <<slot, ord, next>>
        /\ tainted' = IF Same(t, "fill", o) THEN tainted \cup {k} ELSE tainted
        /\ tainted \subseteq tainted'
    BY <1>3, <1>4 DEF FillLoad
  <1>6. OrdersKept
    BY <1>1, <1>5, SameOrders
  <1>7. /\ task'[t].kind = "fill" /\ task'[t].order = o
        /\ \A l \in Levels : task'[t].old[l] = IF l \in {k} THEN slot[l] ELSE NewSlot
        /\ \A u \in Tasks \ {t} : task'[u] = task[u]
        /\ ShapeInv' /\ \A l \in Levels \ tainted' : MarketInv(l)'
    BY <1>2, <1>3, <1>5, <1>6, LoadShape
  <1>8. ASSUME NEW l \in Levels \ tainted' PROVE RowInv(l)'
    <2>1. RowInv(l) /\ l \in Levels \ tainted
      BY <1>5, <1>8 DEF GridInv, LevelInv
    <2>2. CASE l # k
      <3>1. NobodyBegins(l)
        BY <1>3, <1>5, <1>7, <2>2 DEF NobodyBegins, Handles
      <3> QED BY <1>5, <2>1, <3>1, RowFrame
    <2>3. CASE l = k
      <3>1. ASSUME NEW u \in Tasks \ {t} PROVE ~Handles(task[u], l)
        <4>1. SUFFICES ASSUME Handles(task[u], l) PROVE task[u].order = o
          BY <1>5, <1>8, <2>3 DEF Same, Handles
        <4>2. /\ task[u].order \in Orders
              /\ \/ task[u].order = slot[l].buy /\ slot[l].sell = 0
                 \/ task[u].order = slot[l].sell /\ slot[l].buy = 0
          BY <2>1, <4>1, HandledOrder
        <4> QED BY <1>2, <1>3, <2>3, <4>2
      <3>2. \A u \in Tasks : Handles(task[u], l)' => u = t
        BY <1>5, <1>7, <3>1 DEF Handles
      <3>3. /\ task'[t].old[l] = slot'[l]
            /\ slot'[l].buy = 0 \/ slot'[l].sell = 0
            /\ slot'[l].sell # 0 => slot'[l].status = "waiting_sell"
        BY <1>5, <1>7, <2>1, <2>3 DEF RowInv
      <3>4. ASSUME NEW u \in Tasks, task'[u].kind = "start"
            PROVE  task[u].kind = "start" /\ task'[u].old = task[u].old
        BY <1>7, <3>4
      <3>5. /\ \A u, v \in Tasks : task'[u].kind = "start" /\ task'[v].kind = "start" => u = v
            /\ \A u \in Tasks : task'[u].kind = "start" /\ task'[u].old[l].status = "waiting_buy"
                                   /\ task'[u].old[l].buy = 0 =>
                  slot'[l].buy = 0 /\ slot'[l].sell = 0
        BY <1>5, <2>1, <3>4 DEF RowInv
      <3> QED BY <3>2, <3>3, <3>5 DEF RowInv
    <2> QED BY <2>2, <2>3
  <1> QED BY <1>7, <1>8 DEF LevelInv

-----------------------------------------------------------------------------
(* Placing orders. *)

(* What a coroutine has in hand it has as the handler of its level, or as   *)
(* the start that found the level without an order.                         *)
LEMMA InHand ==
    ASSUME GridInv, NEW t \in Tasks, NEW l \in Levels \ tainted, NEW o \in Orders,
           HandBuy(task[t], l, o) \/ HandSell(task[t], l, o)
    PROVE  \/ Handles(task[t], l)
           \/ /\ task[t].kind = "start" /\ slot[l].buy = 0 /\ slot[l].sell = 0
              /\ HandBuy(task[t], l, o)
  <1>1. Shape(task[t]) /\ RowInv(l)
    BY DEF GridInv, ShapeInv, LevelInv
  <1>2. CASE task[t].kind # "start" /\ ~Handles(task[t], l)
    <2>1. Quiet(task[t], l)
      BY <1>1, <1>2, OthersAreQuiet
    <2> QED BY <2>1 DEF Quiet
  <1>3. CASE task[t].kind = "start"
    <2>1. task[t].new[l].sell = task[t].old[l].sell
      BY <1>1, <1>3 DEF Shape, StartShape
    <2>2. HandBuy(task[t], l, o)
      BY <2>1 DEF HandBuy, HandSell
    <2>3. task[t].old[l].status = "waiting_buy" /\ task[t].old[l].buy = 0
      BY <1>1, <1>3, <2>2 DEF Shape, StartShape, HandBuy
    <2> QED BY <1>1, <1>3, <2>2, <2>3 DEF RowInv
  <1> QED BY <1>2, <1>3

(* While a fill is handled, nobody else has an order of the level in hand.  *)
LEMMA HandlerAlone ==
    ASSUME GridInv, NEW t \in Tasks, NEW l \in Levels \ tainted, Handles(task[t], l),
           NEW u \in Tasks \ {t}
    PROVE  /\ ~Handles(task[u], l)
           /\ \A o \in Orders : ~HandBuy(task[u], l, o) /\ ~HandSell(task[u], l, o)
           /\ task[u].kind = "start" =>
                 ~(task[u].old[l].status = "waiting_buy" /\ task[u].old[l].buy = 0)
  <1>1. RowInv(l)
    BY DEF GridInv, LevelInv
  <1>2. ~Handles(task[u], l)
    BY <1>1 DEF RowInv
  <1>3. slot[l].buy # 0 \/ slot[l].sell # 0
    BY HandledOrder, Sizes
  <1>4. ASSUME NEW o \in Orders, HandBuy(task[u], l, o) \/ HandSell(task[u], l, o)
        PROVE  FALSE
    BY <1>2, <1>3, <1>4, InHand
  <1> QED BY <1>1, <1>2, <1>3, <1>4 DEF RowInv

LEMMA StartedHome ==
    ASSUME TypeOK, NEW t \in Tasks, NEW p \in Nat,
           Place(ToBuy(task[t].old, p), "Buy"), NEW l \in Levels,
           NEW y, y = Started(task[t].old, p)[l], NEW x, x = task[t].old[l],
           Home(l, x)'
    PROVE  /\ Home(l, y)' /\ y.sell = x.sell /\ y.status \in {x.status, "waiting_sell"}
           /\ l \notin ToBuy(task[t].old, p) => y.buy = x.buy
           /\ l \in ToBuy(task[t].old, p) =>
                 /\ y.buy = IdAt(ToBuy(task[t].old, p), l)
                 /\ x.status = "waiting_buy" /\ x.buy = 0
  <1>1. PICK L \in SUBSET Levels : L = ToBuy(task[t].old, p)
    BY DEF ToBuy
  <1>2. x \in Slot
    BY DEF TypeOK, Task
  <1>3. PICK i : i = IdAt(L, l)
    OBVIOUS
  <1>4. l \in L => ord'[i].level = l /\ x.status = "waiting_buy" /\ x.buy = 0 /\ ~(l >= p)
    <2>1. ASSUME l \in L PROVE ord'[i].level = l
      <3>1. Place(L, "Buy")
        BY <1>1
      <3>2. ord'[i] = [level |-> l, side |-> "Buy", state |-> "working"]
        BY <1>3, <2>1, <3>1, PlacedOneSide
      <3> QED BY <3>2
    <2>2. p \in Nat /\ l \in Nat
      BY Sizes
    <2> QED BY <1>1, <2>1, <2>2 DEF ToBuy
  <1>5. y = IF l >= p THEN [x EXCEPT !.status = "waiting_sell"]
            ELSE IF l \in L THEN [x EXCEPT !.buy = i] ELSE x
    BY <1>1, <1>3 DEF Started
  <1>6. CASE l \in L
    <2>1. y.buy = i /\ y.sell = x.sell /\ y.status = x.status
      BY <1>2, <1>4, <1>5, <1>6 DEF Slot
    <2> QED BY <1>1, <1>3, <1>4, <1>6, <2>1 DEF Home
  <1>7. CASE l \notin L
    <2>1. y.buy = x.buy /\ y.sell = x.sell /\ y.status \in {x.status, "waiting_sell"}
      BY <1>2, <1>5, <1>7 DEF Slot
    <2> QED BY <1>1, <1>7, <2>1 DEF Home
  <1> QED BY <1>6, <1>7

LEMMA StartActLevels ==
    ASSUME GridInv, NEW t \in Tasks, NEW p \in 1..(N + 1), StartAct(t, p)
    PROVE  ShapeInv' /\ \A l \in Levels \ tainted' : LevelInv(l)'
  <1>1. TypeOK /\ OrdersInv /\ IndInv /\ Shape(task[t]) /\ TaskInv(t) /\ p \in Nat
    BY Sizes DEF GridInv, IndInv, ShapeInv
  <1>2. /\ Place(ToBuy(task[t].old, p), "Buy") /\ task[t].pc = "loaded"
        /\ UNCHANGED <<slot, tainted>> /\ task[t].kind = "start"
    BY DEF StartAct
  <1>3. PICK L \in SUBSET Levels : L = ToBuy(task[t].old, p)
    BY DEF ToBuy
  <1>4. OrdersKept
    BY <1>1, <1>2, <1>3, PlaceKeeps
  <1>5. /\ task'[t].kind = "start" /\ task'[t].pc = "acted" /\ task'[t].old = task[t].old
        /\ task'[t].new = Started(task[t].old, p) /\ task'[t].order = task[t].order
        /\ \A u \in Tasks \ {t} : task'[u] = task[u]
    BY <1>1, <1>2 DEF StartAct, TypeOK, Task
  <1>6. ASSUME NEW l \in Levels PROVE Home(l, task[t].old[l])'
    <2>1. PICK r \in Slot : r = task[t].old[l]
      BY <1>1 DEF TypeOK, Task
    <2>2. Links(l, r) /\ Home(l, r)
      BY <1>1, <2>1 DEF TaskInv, Shape
    <2>3. Home(l, r)'
      BY <1>1, <1>4, <2>2, HomeStays
    <2> QED BY <1>5, <2>1, <2>3 DEF Home
  <1>7. ASSUME NEW l \in Levels
        PROVE  /\ Home(l, task[t].new[l])'
               /\ task'[t].new[l].sell = task[t].old[l].sell
               /\ task'[t].new[l].status \in {task[t].old[l].status, "waiting_sell"}
               /\ l \notin L => task'[t].new[l].buy = task[t].old[l].buy
               /\ l \in L => /\ task'[t].new[l].buy = IdAt(L, l)
                             /\ task[t].old[l].status = "waiting_buy"
                             /\ task[t].old[l].buy = 0
    <2>1. PICK x : x = task[t].old[l]
      OBVIOUS
    <2>2. PICK y : y = Started(task[t].old, p)[l]
      OBVIOUS
    <2>3. Home(l, x)'
      BY <1>5, <1>6, <2>1 DEF Home
    <2>4. /\ Home(l, y)' /\ y.sell = x.sell /\ y.status \in {x.status, "waiting_sell"}
          /\ l \notin L => y.buy = x.buy
          /\ l \in L => y.buy = IdAt(L, l) /\ x.status = "waiting_buy" /\ x.buy = 0
      BY <1>1, <1>2, <1>3, <2>1, <2>2, <2>3, StartedHome
    <2> QED BY <1>5, <2>1, <2>2, <2>4 DEF Home
  <1>8. ShapeInv'
    <2>1. \A l \in Levels : Home(l, slot[l])'
      BY <1>2, <1>4, RowsAtHome
    <2>2. task[t].order = 0
      BY <1>1, <1>2 DEF Shape, StartShape
    <2>3. StartShape(task[t])'
      BY <1>5, <1>7, <2>2 DEF StartShape
    <2>4. Shape(task[t])'
      BY <1>5, <1>6, <1>7, <2>3 DEF Shape
    <2>5. \A u \in Tasks \ {t} : Shape(task[u])'
      BY <1>4, <1>5, ShapesStay
    <2> QED BY <2>1, <2>4, <2>5 DEF ShapeInv
  <1>9. ASSUME NEW l \in Levels \ tainted' PROVE LevelInv(l)'
    <2>1. NobodyBegins(l)
      <3>1. \A u \in Tasks :
               /\ task'[u].kind = task[u].kind /\ task'[u].order = task[u].order
               /\ task'[u].old = task[u].old
        BY <1>2, <1>5
      <3> QED BY <1>1, <1>4, <3>1, GoOn
    <2>2. RowInv(l) /\ MarketInv(l)
      BY <1>2, <1>9 DEF GridInv, LevelInv
    <2>3. RowInv(l)'
      BY <1>2, <2>1, <2>2, RowFrame
    <2>4. CASE l \notin L
      <3>1. NothingPlaced(l)
        BY <1>1, <1>2, <1>3, <2>4, PlacedElsewhere
      <3>2. Quiet(task[t], l)
        BY <1>2, LoadedIsQuiet
      <3>3. Quiet(task[t], l)'
        <4>1. /\ task'[t].new[l].buy = task'[t].old[l].buy
              /\ task'[t].new[l].sell = task'[t].old[l].sell
              /\ task'[t].kind # "fill"
          BY <1>5, <1>7, <2>4
        <4> QED BY <4>1 DEF Quiet, Turning, Handles, HandBuy, HandSell
      <3>4. MarketInv(l)'
        BY <1>1, <1>2, <1>4, <1>5, <2>2, <3>1, <3>2, <3>3, MarketFrame
      <3> QED BY <2>3, <3>4 DEF LevelInv
    <2>5. CASE l \in L
      <3>1. PICK i : i = IdAt(L, l)
        OBVIOUS
      <3>2. /\ i \in Orders /\ i # 0 /\ i > next
            /\ ord'[i] = [level |-> l, side |-> "Buy", state |-> "working"]
            /\ \A o \in Orders : o = i \/ ord'[o] = ord[o] \/ ord'[o].level # l
        BY <1>1, <1>2, <1>3, <2>5, <3>1, PlacedOneSide
      <3>3. HandBuy(task[t], l, i)'
        BY <1>5, <1>7, <2>5, <3>1, <3>2 DEF HandBuy
      <3>4. \A o \in Orders : HandBuy(task[t], l, o)' => o = i
        BY <1>5, <1>7, <2>5, <3>1 DEF HandBuy
      <3>5. \A o \in Orders : ~HandBuy(task[t], l, o) /\ ~HandSell(task[t], l, o)
        BY <1>2 DEF HandBuy, HandSell
      <3>6. ASSUME NEW o \in LiveAt(l)'
            PROVE  \/ o = slot'[l].buy \/ o = slot'[l].sell
                   \/ \E u \in Tasks : HandBuy(task[u], l, o)' \/ HandSell(task[u], l, o)'
        <4>1. CASE o = i
          BY <3>3, <4>1
        <4>2. CASE o # i
          <5>1. o \in LiveAt(l) /\ o \in Orders
            BY <3>2, <4>2 DEF LiveAt
          <5>2. \A u \in Tasks \ {t} : /\ HandBuy(task[u], l, o) => HandBuy(task[u], l, o)'
                                       /\ HandSell(task[u], l, o) => HandSell(task[u], l, o)'
            BY <1>5 DEF HandBuy, HandSell
          <5> QED BY <1>2, <2>2, <3>5, <5>1, <5>2 DEF MarketInv
        <4> QED BY <4>1, <4>2
      <3>7. SellsAt(l)' \subseteq SellsAt(l)
        BY <3>2 DEF SellsAt, Of
      <3>8. BoughtAt(l) \subseteq BoughtAt(l)' /\ i \notin BoughtAt(l)'
        BY <1>1, <1>4, <3>2, PlacedStay DEF BoughtAt, Of, OrdersKept
      <3>9. ASSUME NEW u \in Tasks, Turning(task[u], l) PROVE Turning(task[u], l)'
        <4>1. task'[u] = task[u] /\ TaskInv(u)
          BY <1>1, <1>2, <1>5, <3>9 DEF Turning, IndInv
        <4>2. ord'[task[u].order].level = ord[task[u].order].level
          BY <1>1, <1>4, <3>9, <4>1, PlacedStay DEF TaskInv, Turning, Handles
        <4> QED BY <3>9, <4>1, <4>2 DEF Turning, Handles
      <3>10. ASSUME NEW o \in Unturned(l)' PROVE o = i \/ o \in Unturned(l)
        <4>1. \A u \in Tasks \ {t} : HandBuy(task[u], l, o)' => HandBuy(task[u], l, o)
          BY <1>5 DEF HandBuy
        <4> QED BY <1>2, <3>4, <3>9, <4>1 DEF Unturned
      <3>11. Cardinality(SellsAt(l)') <= Cardinality(BoughtAt(l)' \ Unturned(l)')
        <4>1. BoughtAt(l) \ Unturned(l) \subseteq BoughtAt(l)' \ Unturned(l)'
          BY <3>8, <3>10
        <4>2. /\ SellsAt(l) \in SUBSET Orders /\ BoughtAt(l) \ Unturned(l) \in SUBSET Orders
              /\ BoughtAt(l)' \ Unturned(l)' \in SUBSET Orders
          BY DEF SellsAt, BoughtAt, Of
        <4>3. Cardinality(SellsAt(l)) <= Cardinality(BoughtAt(l) \ Unturned(l))
          BY <2>2 DEF MarketInv
        <4> QED BY <3>7, <4>1, <4>2, <4>3, StillCovered
      <3> QED BY <2>3, <3>6, <3>11 DEF LevelInv, MarketInv
    <2> QED BY <2>4, <2>5
  <1> QED BY <1>8, <1>9

LEMMA OneMore ==
    ASSUME NEW A \in SUBSET Orders, NEW n, NEW B \in SUBSET Orders, NEW o, o \notin B,
           Cardinality(A) <= Cardinality(B)
    PROVE  Cardinality(A \cup {n}) <= Cardinality(B \cup {o})
  <1>1. IsFiniteSet(A) /\ IsFiniteSet(B)
    BY Sizes, FS_Subset
  <1>2. Cardinality(A) \in Nat /\ Cardinality(B) \in Nat
    BY <1>1, FS_CardinalityType
  <1>3. Cardinality(B \cup {o}) = Cardinality(B) + 1
    BY <1>1, FS_AddElement
  <1>4. Cardinality(A \cup {n}) <= Cardinality(A) + 1
    <2>1. CASE n \in A
      <3>1. A \cup {n} = A
        BY <2>1
      <3>2. Cardinality(A \cup {n}) = Cardinality(A)
        BY <3>1
      <3> QED BY <1>2, <3>2
    <2>2. CASE n \notin A
      <3>1. Cardinality(A \cup {n}) = Cardinality(A) + 1
        BY <1>1, <2>2, FS_AddElement
      <3> QED BY <1>2, <3>1
    <2> QED BY <2>1, <2>2
  <1>5. Cardinality(A \cup {n}) \in Nat
    BY <1>1, FS_AddElement, FS_CardinalityType
  <1> QED BY <1>2, <1>3, <1>4, <1>5

(* A handler places the order of the other side. *)
LEMMA FilledLevel ==
    ASSUME GridInv, NEW t \in Tasks, task[t].kind = "fill"
    PROVE  /\ FillLevel(t) \in Levels /\ ord[task[t].order].level = FillLevel(t)
           /\ task[t].order \in Orders /\ ord[task[t].order].state = "filled"
           /\ \/ task[t].order = task[t].old[FillLevel(t)].buy
              \/ task[t].order = task[t].old[FillLevel(t)].sell
           /\ \A m \in Levels \ {FillLevel(t)} : task[t].old[m] = NewSlot
                                                 /\ task[t].new[m] = NewSlot
  <1>1. TaskInv(t) /\ Shape(task[t])
    BY DEF GridInv, IndInv, ShapeInv
  <1>2. /\ FillLevel(t) \in Levels
        /\ task[t].order \in {task[t].old[FillLevel(t)].buy, task[t].old[FillLevel(t)].sell}
        /\ task[t].order \in Orders /\ ord[task[t].order].state = "filled"
        /\ task[t].order # 0
    BY <1>1, Sizes DEF TaskInv, FillLevel
  <1>3. ord[task[t].order].level = FillLevel(t)
    BY <1>1, <1>2 DEF Shape, Home
  <1>4. \A m \in Levels \ {FillLevel(t)} : task[t].old[m] = NewSlot
                                           /\ task[t].new[m] = NewSlot
    BY <1>1, <1>3 DEF Shape, FillShape
  <1> QED BY <1>2, <1>3, <1>4

FillStep(t, l, n, x) ==
    /\ n \in Orders /\ n > next /\ n # 0 /\ n <= next' /\ OrdersKept
    /\ task[t].kind = "fill" /\ task[t].pc = "loaded"
    /\ UNCHANGED <<status, slot, tainted>>
    /\ x \in Slot
    /\ \A o \in Orders : o = n \/ ord'[o] = ord[o] \/ ord'[o].level # l
    /\ \E s : /\ task' = [task EXCEPT ![t].pc = "acted", ![t].new[l] = s]
              /\ \/ /\ ord[task[t].order].side = "Buy" /\ s = AfterBuy(x, n)
                    /\ ord'[n] = [level |-> l, side |-> "Sell", state |-> "working"]
                 \/ /\ ord[task[t].order].side = "Sell" /\ s = AfterSell(x, n)
                    /\ ord'[n] = [level |-> l, side |-> "Buy", state |-> "working"]

LEMMA FillActStep ==
    ASSUME GridInv, NEW t \in Tasks, FillAct(t), NEW l \in Levels, l = FillLevel(t),
           NEW n, n = next + 1, NEW x, x = task[t].old[l]
    PROVE  FillStep(t, l, n, x)
  <1>1. TypeOK /\ OrdersInv /\ x \in Slot
    BY DEF GridInv, IndInv, TypeOK, Task
  <1>2. ASSUME NEW side \in {"Buy", "Sell"}, Place({l}, side)
        PROVE  /\ n \in Orders /\ n > next /\ n # 0 /\ n <= next' /\ OrdersKept
               /\ ord'[n] = [level |-> l, side |-> side, state |-> "working"]
               /\ \A o \in Orders : o = n \/ ord'[o] = ord[o] \/ ord'[o].level # l
    <2>1. /\ next' = n /\ n \in Orders
          /\ ord'[n] = [level |-> l, side |-> side, state |-> "working"]
      BY <1>1, <1>2, PlacedOne
    <2>2. {l} \in SUBSET Levels /\ next \in Nat /\ n > next /\ n # 0 /\ n <= next'
      BY <1>1, <2>1, Sizes DEF TypeOK
    <2>3. OrdersKept
      BY <1>1, <1>2, <2>2, PlaceKeeps
    <2>4. \A o \in Orders : o <= next \/ o > next' => ord'[o] = ord[o]
      BY <1>1, <1>2, <2>2, Placed
    <2>5. \A o \in Orders : o = n \/ ord'[o] = ord[o]
      <3>1. \A o \in Orders : o \in Nat
        BY Sizes DEF Orders
      <3> QED BY <2>1, <2>2, <2>4, <3>1
    <2> QED BY <2>1, <2>2, <2>3, <2>5
  <1>3. CASE /\ ord[task[t].order].side = "Buy" /\ Place({l}, "Sell")
             /\ task' = [task EXCEPT ![t].pc = "acted", ![t].new[l] = AfterBuy(x, n)]
    <2>1. /\ n \in Orders /\ n > next /\ n # 0 /\ n <= next' /\ OrdersKept
          /\ ord'[n] = [level |-> l, side |-> "Sell", state |-> "working"]
          /\ \A o \in Orders : o = n \/ ord'[o] = ord[o] \/ ord'[o].level # l
      BY <1>2, <1>3
    <2> QED BY <1>1, <1>3, <2>1 DEF FillAct, FillStep
  <1>4. CASE /\ ord[task[t].order].side = "Sell" /\ Place({l}, "Buy")
             /\ task' = [task EXCEPT ![t].pc = "acted", ![t].new[l] = AfterSell(x, n)]
    <2>1. /\ n \in Orders /\ n > next /\ n # 0 /\ n <= next' /\ OrdersKept
          /\ ord'[n] = [level |-> l, side |-> "Buy", state |-> "working"]
          /\ \A o \in Orders : o = n \/ ord'[o] = ord[o] \/ ord'[o].level # l
      BY <1>2, <1>4
    <2> QED BY <1>1, <1>4, <2>1 DEF FillAct, FillStep
  <1> QED BY <1>3, <1>4 DEF FillAct

LEMMA FillActShape ==
    ASSUME GridInv, NEW t \in Tasks, FillAct(t)
    PROVE  ShapeInv'
  <1>1. TypeOK /\ OrdersInv /\ TaskInv(t) /\ Shape(task[t])
    BY DEF GridInv, IndInv, ShapeInv
  <1>2. PICK l : l = FillLevel(t)
    OBVIOUS
  <1>3. PICK n : n = next + 1
    OBVIOUS
  <1>4. PICK x : x = task[t].old[l]
    OBVIOUS
  <1>5. task[t].kind = "fill" /\ task[t].pc = "loaded" /\ task[t].new = task[t].old
    BY <1>1 DEF FillAct, TaskInv
  <1>6. /\ l \in Levels /\ ord[task[t].order].level = l
        /\ task[t].order \in Orders /\ ord[task[t].order].state = "filled"
        /\ task[t].order = x.buy \/ task[t].order = x.sell
        /\ \A m \in Levels \ {l} : task[t].old[m] = NewSlot /\ task[t].new[m] = NewSlot
    BY <1>2, <1>4, <1>5, FilledLevel
  <1>7. /\ n \in Orders /\ n > next /\ n # 0 /\ n <= next' /\ OrdersKept
        /\ UNCHANGED <<status, slot, tainted>> /\ x \in Slot
        /\ ord'[n].level = l /\ FillStep(t, l, n, x)
    <2>1. FillStep(t, l, n, x)
      BY <1>2, <1>3, <1>4, <1>6, FillActStep
    <2>2. ord'[n].level = l
      BY <2>1 DEF FillStep
    <2> QED BY <2>1, <2>2 DEF FillStep
  <1>8. PICK s : /\ task' = [task EXCEPT ![t].pc = "acted", ![t].new[l] = s]
                 /\ \/ ord[task[t].order].side = "Buy" /\ s = AfterBuy(x, n)
                    \/ ord[task[t].order].side = "Sell" /\ s = AfterSell(x, n)
    BY <1>7 DEF FillStep
  <1>9. /\ task'[t].kind = "fill" /\ task'[t].pc = "acted" /\ task'[t].old = task[t].old
        /\ task'[t].order = task[t].order /\ task'[t].new[l] = s
        /\ \A m \in Levels \ {l} : task'[t].new[m] = task[t].new[m]
        /\ \A u \in Tasks \ {t} : task'[u] = task[u]
    BY <1>1, <1>5, <1>6, <1>8 DEF TypeOK, Task
  <1>10. ASSUME NEW m \in Levels PROVE Home(m, task[t].old[m])'
    <2>1. PICK r \in Slot : r = task[t].old[m]
      BY <1>1 DEF TypeOK, Task
    <2>2. Links(m, r) /\ Home(m, r)
      BY <1>1, <2>1 DEF TaskInv, Shape
    <2>3. Home(m, r)'
      BY <1>1, <1>7, <2>2, HomeStays
    <2> QED BY <1>9, <2>1, <2>3 DEF Home
  <1>11. /\ x.sell # 0 => ord'[x.sell].level = l
         /\ x.buy # 0 => ord'[x.buy].level = l
    BY <1>4, <1>6, <1>9, <1>10 DEF Home
  <1>12. Home(l, s)'
    <2>1. AfterBuy(x, n).buy = 0 /\ AfterBuy(x, n).sell = n
          /\ AfterSell(x, n).sell = 0 /\ AfterSell(x, n).buy = n
      BY <1>7 DEF AfterBuy, AfterSell, Slot
    <2> QED BY <1>7, <1>8, <2>1 DEF Home
  <1>13. ASSUME NEW m \in Levels PROVE Home(m, task[t].new[m])'
    <2>1. CASE m = l
      BY <1>9, <1>12, <2>1 DEF Home
    <2>2. CASE m # l
      <3>1. task'[t].new[m] = task'[t].old[m]
        BY <1>6, <1>9, <2>2
      <3> QED BY <1>10, <3>1 DEF Home
    <2> QED BY <2>1, <2>2
  <1>14. x.buy <= next /\ x.sell <= next
    <2>1. Links(l, x) /\ next \in Nat
      BY <1>1, <1>4, <1>6, Sizes DEF TaskInv, TypeOK
    <2> QED BY <1>7, <2>1 DEF Links, Slot
  <1>15. n # x.buy /\ n # x.sell
    <2>1. next \in Nat /\ n \in Nat /\ x.buy \in Nat /\ x.sell \in Nat
      BY <1>1, <1>7, Sizes DEF TypeOK, Orders, Slot
    <2> QED BY <1>7, <1>14, <2>1
  <1>16. ord'[task[t].order].side = ord[task[t].order].side
         /\ ord'[task[t].order].level = l
    BY <1>1, <1>6, <1>7, PlacedStay
  <1>17. Turned(task[t], l, n)'
    BY <1>4, <1>7, <1>8, <1>9, <1>15, <1>16 DEF Turned
  <1>18. FillShape(task[t])'
    <2>1. /\ ord'[task'[t].order].level = l
          /\ task'[t].order = task'[t].old[l].buy \/ task'[t].order = task'[t].old[l].sell
          /\ \A m \in Levels \ {l} : task'[t].old[m] = NewSlot /\ task'[t].new[m] = NewSlot
      BY <1>4, <1>6, <1>9, <1>16
    <2> QED BY <1>6, <1>7, <1>17, <2>1 DEF FillShape
  <1>19. Shape(task[t])'
    BY <1>9, <1>10, <1>13, <1>18 DEF Shape
  <1>20. \A u \in Tasks \ {t} : Shape(task[u])'
    BY <1>7, <1>9, ShapesStay
  <1> QED BY <1>7, <1>19, <1>20, RowsAtHome DEF ShapeInv

LEMMA FillActMarket ==
    ASSUME GridInv, NEW t \in Tasks, FillAct(t), NEW l \in Levels \ tainted, l = FillLevel(t)
    PROVE  MarketInv(l)'
  <1>1. TypeOK /\ OrdersInv /\ TaskInv(t) /\ Shape(task[t]) /\ IndInv
    BY DEF GridInv, IndInv, ShapeInv
  <1>2. RowInv(l) /\ MarketInv(l)
    BY DEF GridInv, LevelInv
  <1>3. PICK n : n = next + 1
    OBVIOUS
  <1>4. PICK x : x = task[t].old[l]
    OBVIOUS
  <1>5. FillStep(t, l, n, x)
    BY <1>3, <1>4, FillActStep
  <1>6. /\ n \in Orders /\ n > next /\ n # 0 /\ OrdersKept /\ x \in Slot
        /\ task[t].kind = "fill" /\ task[t].pc = "loaded" /\ slot' = slot
        /\ \A e \in Orders : e = n \/ ord'[e] = ord[e] \/ ord'[e].level # l
    BY <1>5 DEF FillStep
  <1>7. PICK s : /\ task' = [task EXCEPT ![t].pc = "acted", ![t].new[l] = s]
                 /\ \/ /\ ord[task[t].order].side = "Buy" /\ s = AfterBuy(x, n)
                       /\ ord'[n] = [level |-> l, side |-> "Sell", state |-> "working"]
                    \/ /\ ord[task[t].order].side = "Sell" /\ s = AfterSell(x, n)
                       /\ ord'[n] = [level |-> l, side |-> "Buy", state |-> "working"]
    BY <1>5 DEF FillStep
  <1>8. /\ task'[t].kind = "fill" /\ task'[t].pc = "acted" /\ task'[t].old = task[t].old
        /\ task'[t].order = task[t].order /\ task'[t].new[l] = s
        /\ \A u \in Tasks \ {t} : task'[u] = task[u]
    BY <1>1, <1>6, <1>7 DEF TypeOK, Task
  <1>9. PICK o : o = task[t].order
    OBVIOUS
  <1>10. Handles(task[t], l)
    BY <1>6, FilledLevel DEF Handles
  <1>11. /\ o \in Orders /\ ord[o].state = "filled" /\ ord[o].level = l
         /\ \/ o = slot[l].buy /\ slot[l].sell = 0
            \/ o = slot[l].sell /\ slot[l].buy = 0
         /\ x.buy = slot[l].buy /\ x.sell = slot[l].sell
    BY <1>2, <1>4, <1>9, <1>10, HandledOrder DEF RowInv, Handles
  <1>12. 0 \notin Orders /\ o # 0
    BY <1>11, Sizes
  <1>13. Links(l, slot[l])
    BY <1>1 DEF IndInv
  <1>14. ASSUME NEW u \in Tasks, NEW e \in Orders
         PROVE  /\ ~HandBuy(task[u], l, e) /\ ~HandSell(task[u], l, e)
                /\ ~Turning(task[u], l)
    <2>1. CASE u = t
      BY <1>6, <2>1 DEF HandBuy, HandSell, Turning
    <2>2. CASE u # t
      BY <1>10, <2>2, HandlerAlone DEF Turning
    <2> QED BY <2>1, <2>2
  <1>15. ASSUME NEW u \in Tasks \ {t}, NEW e \in Orders
         PROVE  ~HandBuy(task[u], l, e)' /\ ~HandSell(task[u], l, e)'
    BY <1>8, <1>14 DEF HandBuy, HandSell
  <1>16. Turning(task[t], l)'
    <2>1. ord'[o].level = l
      BY <1>1, <1>6, <1>11, PlacedStay
    <2> QED BY <1>6, <1>8, <1>9, <2>1 DEF Turning, Handles
  <1>17. LiveAt(l) = {}
    BY <1>2, <1>11, <1>12, <1>14 DEF MarketInv, LiveAt
  <1>18. LiveAt(l)' \subseteq {n}
    BY <1>6, <1>17 DEF LiveAt
  <1>19. BoughtAt(l) \subseteq BoughtAt(l)'
    BY <1>1, <1>6, PlacedStay DEF BoughtAt, Of, OrdersKept
  <1>20. Cardinality(SellsAt(l)) <= Cardinality(BoughtAt(l) \ Unturned(l))
    BY <1>2 DEF MarketInv
  <1>21. /\ SellsAt(l) \in SUBSET Orders /\ BoughtAt(l) \ Unturned(l) \in SUBSET Orders
         /\ SellsAt(l)' \in SUBSET Orders /\ BoughtAt(l)' \ Unturned(l)' \in SUBSET Orders
    BY DEF SellsAt, BoughtAt, Of
  <1>22. CASE /\ ord[o].side = "Buy" /\ s = AfterBuy(x, n)
              /\ ord'[n] = [level |-> l, side |-> "Sell", state |-> "working"]
    <2>1. s.buy = 0 /\ s.sell = n
      BY <1>6, <1>22 DEF AfterBuy, Slot
    <2>2. o = slot[l].buy /\ slot[l].sell = 0
      BY <1>11, <1>12, <1>13, <1>22 DEF Links
    <2>3. HandSell(task[t], l, n)'
      BY <1>4, <1>6, <1>8, <1>11, <2>1, <2>2 DEF HandSell
    <2>4. ASSUME NEW e \in Unturned(l)' PROVE FALSE
      <3>1. ~HandBuy(task[t], l, e)'
        BY <1>8, <2>1 DEF HandBuy
      <3> QED BY <1>15, <1>16, <3>1 DEF Unturned
    <2>5. o \in Unturned(l) /\ o \in BoughtAt(l)
      BY <1>11, <1>14, <1>22, <2>2 DEF Unturned, BoughtAt, Of
    <2>6. SellsAt(l)' \subseteq SellsAt(l) \cup {n}
      BY <1>6 DEF SellsAt, Of
    <2>7. (BoughtAt(l) \ Unturned(l)) \cup {o} \subseteq BoughtAt(l)' \ Unturned(l)'
      BY <1>19, <2>4, <2>5
    <2>8. Cardinality(SellsAt(l) \cup {n}) <= Cardinality((BoughtAt(l) \ Unturned(l)) \cup {o})
      BY <1>20, <1>21, <2>5, OneMore
    <2>9. /\ SellsAt(l) \cup {n} \in SUBSET Orders
          /\ (BoughtAt(l) \ Unturned(l)) \cup {o} \in SUBSET Orders
      BY <1>6, <1>11, <1>21
    <2>10. Cardinality(SellsAt(l)') <= Cardinality(BoughtAt(l)' \ Unturned(l)')
      BY <1>21, <2>6, <2>7, <2>8, <2>9, StillCovered
    <2> QED BY <1>18, <2>3, <2>10 DEF MarketInv
  <1>23. CASE /\ ord[o].side = "Sell" /\ s = AfterSell(x, n)
              /\ ord'[n] = [level |-> l, side |-> "Buy", state |-> "working"]
    <2>1. s.buy = n /\ s.sell = 0
      BY <1>6, <1>23 DEF AfterSell, Slot
    <2>2. o = slot[l].sell /\ slot[l].buy = 0
      BY <1>11, <1>12, <1>13, <1>23 DEF Links
    <2>3. HandBuy(task[t], l, n)'
      BY <1>4, <1>6, <1>8, <1>11, <2>1, <2>2 DEF HandBuy
    <2>4. ASSUME NEW e \in Unturned(l)' PROVE e = n
      <3>1. HandBuy(task[t], l, e)' => e = n
        BY <1>8, <2>1 DEF HandBuy
      <3> QED BY <1>15, <1>16, <3>1 DEF Unturned
    <2>5. n \notin BoughtAt(l)
      <3>1. n \in BoughtAt(l) => ord'[n].state = "filled"
        BY <1>6 DEF BoughtAt, Of, OrdersKept
      <3> QED BY <1>23, <3>1
    <2>6. SellsAt(l)' \subseteq SellsAt(l)
      BY <1>6, <1>23 DEF SellsAt, Of
    <2>7. BoughtAt(l) \ Unturned(l) \subseteq BoughtAt(l)' \ Unturned(l)'
      BY <1>19, <2>4, <2>5
    <2>8. Cardinality(SellsAt(l)') <= Cardinality(BoughtAt(l)' \ Unturned(l)')
      BY <1>20, <1>21, <2>6, <2>7, StillCovered
    <2> QED BY <1>18, <2>3, <2>8 DEF MarketInv
  <1> QED BY <1>7, <1>9, <1>22, <1>23

LEMMA FillActLevels ==
    ASSUME GridInv, NEW t \in Tasks, FillAct(t)
    PROVE  ShapeInv' /\ \A l \in Levels \ tainted' : LevelInv(l)'
  <1>1. TypeOK /\ OrdersInv /\ IndInv
    BY DEF GridInv, IndInv
  <1>2. PICK k : k = FillLevel(t)
    OBVIOUS
  <1>3. PICK n : n = next + 1
    OBVIOUS
  <1>4. PICK x : x = task[t].old[k]
    OBVIOUS
  <1>5. task[t].kind = "fill" /\ tainted' = tainted
    BY DEF FillAct
  <1>6. /\ k \in Levels /\ ord[task[t].order].level = k
        /\ task[t].order \in Orders /\ ord[task[t].order].state = "filled"
        /\ \A m \in Levels \ {k} : task[t].old[m] = NewSlot /\ task[t].new[m] = NewSlot
    BY <1>2, <1>5, FilledLevel
  <1>7. FillStep(t, k, n, x)
    BY <1>2, <1>3, <1>4, <1>6, FillActStep
  <1>8. OrdersKept /\ slot' = slot
    BY <1>7 DEF FillStep
  <1>9. PICK s : task' = [task EXCEPT ![t].pc = "acted", ![t].new[k] = s]
    BY <1>7 DEF FillStep
  <1>10. /\ task'[t].kind = "fill" /\ task'[t].old = task[t].old
         /\ task'[t].order = task[t].order
         /\ \A m \in Levels \ {k} : task'[t].new[m] = task[t].new[m]
         /\ \A u \in Tasks \ {t} : task'[u] = task[u]
    BY <1>1, <1>5, <1>6, <1>9 DEF TypeOK, Task
  <1>11. ASSUME NEW l \in Levels \ tainted' PROVE LevelInv(l)'
    <2>1. RowInv(l) /\ MarketInv(l)
      BY <1>5, <1>11 DEF GridInv, LevelInv
    <2>2. NobodyBegins(l)
      <3>1. \A u \in Tasks :
               /\ task'[u].kind = task[u].kind /\ task'[u].order = task[u].order
               /\ task'[u].old = task[u].old
        BY <1>5, <1>10
      <3> QED BY <1>1, <1>8, <3>1, GoOn
    <2>3. RowInv(l)'
      BY <1>8, <2>1, <2>2, RowFrame
    <2>4. CASE l = k
      <3>1. MarketInv(l)'
        BY <1>2, <1>5, <1>11, <2>4, FillActMarket
      <3> QED BY <2>3, <3>1 DEF LevelInv
    <2>5. CASE l # k
      <3>1. NothingPlaced(l)
        <4>1. PICK side \in {"Buy", "Sell"} : Place({k}, side)
          BY <1>2 DEF FillAct
        <4>2. {k} \in SUBSET Levels /\ l \in Levels \ {k}
          BY <1>6, <2>5
        <4> QED BY <1>1, <4>1, <4>2, PlacedElsewhere
      <3>2. Quiet(task[t], l) /\ Quiet(task[t], l)'
        <4>1. ~Handles(task[t], l)
          BY <1>6, <2>5 DEF Handles
        <4>2. /\ task[t].new[l] = NewSlot /\ task[t].old[l] = NewSlot
              /\ task'[t].new[l] = NewSlot /\ task'[t].old[l] = NewSlot
          BY <1>6, <1>10, <2>5
        <4>3. ord'[task[t].order].level # l
          BY <1>1, <1>6, <1>8, <2>5, PlacedStay
        <4> QED BY <1>10, <4>1, <4>2, <4>3 DEF Quiet, Turning, Handles, HandBuy, HandSell
      <3>3. MarketInv(l)'
        BY <1>1, <1>8, <1>10, <2>1, <3>1, <3>2, MarketFrame
      <3> QED BY <2>3, <3>3 DEF LevelInv
    <2> QED BY <2>4, <2>5
  <1> QED BY <1>11, FillActShape

-----------------------------------------------------------------------------
(* Commits. *)

(* A commit writes what its coroutine has changed. *)
LEMMA Committed ==
    ASSUME GridInv, NEW t \in Tasks, Commit(t), NEW l \in Levels
    PROVE  /\ slot'[l].buy = IF task[t].new[l].buy # task[t].old[l].buy
                             THEN task[t].new[l].buy ELSE slot[l].buy
           /\ slot'[l].sell = IF task[t].new[l].sell # task[t].old[l].sell
                              THEN task[t].new[l].sell ELSE slot[l].sell
           /\ slot'[l].status = IF task[t].new[l].status # task[t].old[l].status
                                THEN task[t].new[l].status ELSE slot[l].status
           /\ task[t].new[l] = task[t].old[l] => slot'[l] = slot[l]
  <1>1. PICK x \in Slot : x = task[t].old[l]
    BY DEF GridInv, IndInv, TypeOK, Task
  <1>2. PICK y \in Slot : y = task[t].new[l]
    BY DEF GridInv, IndInv, TypeOK, Task
  <1>3. PICK z \in Slot : z = slot[l]
    BY DEF GridInv, IndInv, TypeOK
  <1>4. slot'[l] = Flush(z, x, y)
    BY <1>1, <1>2, <1>3 DEF Commit
  <1>5. DOMAIN z = {"status", "buy", "sell", "cycles"}
    BY DEF Slot
  <1>6. Flush(z, x, y).status = IF y.status # x.status THEN y.status ELSE z.status
    BY <1>5 DEF Flush
  <1>7. x = y => Flush(z, x, y) = z
    BY DEF Flush, Slot
  <1> QED BY <1>1, <1>2, <1>3, <1>4, <1>6, <1>7, FlushRow

LEMMA CommitStep ==
    ASSUME GridInv, NEW t \in Tasks, Commit(t)
    PROVE  /\ OrdersKept /\ UNCHANGED <<ord, next, tainted>> /\ task[t].pc = "acted"
           /\ task'[t] = Idle /\ \A u \in Tasks \ {t} : task'[u] = task[u]
           /\ \A l : NothingPlaced(l)
           /\ ShapeInv'
  <1>1. TypeOK /\ OrdersInv
    BY DEF GridInv, IndInv
  <1>2. /\ UNCHANGED <<ord, next, tainted>> /\ task[t].pc = "acted"
        /\ task'[t] = Idle /\ \A u \in Tasks \ {t} : task'[u] = task[u]
    BY <1>1 DEF Commit, End, TypeOK
  <1>3. OrdersKept
    BY <1>1, <1>2, SameOrders
  <1>4. \A l : NothingPlaced(l)
    BY <1>2 DEF NothingPlaced
  <1>5. ASSUME NEW l \in Levels PROVE Home(l, slot[l])'
    <2>1. Home(l, slot[l]) /\ Home(l, task[t].new[l])
      BY DEF GridInv, ShapeInv, Shape
    <2> QED BY <1>2, <2>1, Committed DEF Home
  <1>6. \A u \in Tasks : Shape(task[u])'
    BY <1>2, <1>3, ShapesStay
  <1> QED BY <1>2, <1>3, <1>4, <1>5, <1>6 DEF ShapeInv

(* A commit that changes nothing of the level. *)
LEMMA CommitElsewhere ==
    ASSUME GridInv, NEW t \in Tasks, Commit(t), NEW l \in Levels \ tainted,
           task[t].new[l] = task[t].old[l], ~Handles(task[t], l)
    PROVE  LevelInv(l)'
  <1>1. /\ OrdersKept /\ task'[t] = Idle /\ \A u \in Tasks \ {t} : task'[u] = task[u]
        /\ NothingPlaced(l)
    BY CommitStep
  <1>2. slot'[l] = slot[l]
    BY Committed
  <1>3. NobodyBegins(l)
    <2>1. \A u \in Tasks :
             \/ task'[u].kind \notin {"start", "fill"}
             \/ /\ task'[u].kind = task[u].kind /\ task'[u].order = task[u].order
                /\ task'[u].old = task[u].old
      BY <1>1, IdleTypes
    <2> QED BY <1>1, <2>1, GoOn DEF GridInv
  <1>4. Quiet(task[t], l) /\ Quiet(task[t], l)'
    BY <1>1, UnchangedIsQuiet, IdleIsQuiet
  <1> QED BY <1>1, <1>2, <1>3, <1>4, LevelFrame DEF GridInv, LevelInv

LEMMA CommitStart ==
    ASSUME GridInv, NEW t \in Tasks, Commit(t), NEW l \in Levels \ tainted,
           task[t].kind = "start"
    PROVE  LevelInv(l)'
  <1>1. /\ OrdersKept /\ task'[t] = Idle /\ \A u \in Tasks \ {t} : task'[u] = task[u]
        /\ NothingPlaced(l) /\ UNCHANGED <<ord, next, tainted>> /\ task[t].pc = "acted"
    BY CommitStep
  <1>2. RowInv(l) /\ MarketInv(l) /\ Shape(task[t]) /\ IndInv
    BY DEF GridInv, ShapeInv, LevelInv
  <1>3. /\ task[t].new[l].sell = task[t].old[l].sell
        /\ task[t].new[l].status \in {task[t].old[l].status, "waiting_sell"}
        /\ task[t].new[l].buy # task[t].old[l].buy =>
              task[t].old[l].status = "waiting_buy" /\ task[t].old[l].buy = 0
    BY <1>2 DEF Shape, StartShape
  <1>4. /\ slot'[l].sell = slot[l].sell
        /\ slot'[l].status = slot[l].status \/ slot'[l].status = "waiting_sell"
        /\ slot'[l].buy = IF task[t].new[l].buy # task[t].old[l].buy
                          THEN task[t].new[l].buy ELSE slot[l].buy
    BY <1>3, Committed
  <1>5. task[t].new[l].buy # task[t].old[l].buy =>
           /\ slot[l].buy = 0 /\ slot[l].sell = 0 /\ task[t].new[l].buy # 0
           /\ HandBuy(task[t], l, task[t].new[l].buy)
    BY <1>1, <1>2, <1>3 DEF RowInv, HandBuy
  <1>6. ASSUME NEW u \in Tasks, Handles(task[u], l)'
        PROVE  u # t /\ Handles(task[u], l) /\ task'[u] = task[u]
               /\ (slot[l].buy # 0 \/ slot[l].sell # 0)
    <2>1. u # t /\ Handles(task[u], l) /\ task'[u] = task[u]
      BY <1>1, <1>6, IdleTypes DEF Handles
    <2> QED BY <2>1, HandledOrder, Sizes
  <1>7. RowInv(l)'
    <2>1. ASSUME NEW u \in Tasks, Handles(task[u], l)'
          PROVE  /\ Handles(task[u], l) /\ task'[u].old[l].buy = slot'[l].buy
                 /\ task'[u].old[l].sell = slot'[l].sell
                 /\ task'[u].old[l].status = "waiting_sell" =>
                       slot'[l].status = "waiting_sell"
      BY <1>2, <1>4, <1>5, <1>6, <2>1 DEF RowInv
    <2>2. \A u \in Tasks : task'[u].kind # "start"
      BY <1>1, <1>2, IdleTypes DEF RowInv
    <2>3. /\ slot'[l].buy = 0 \/ slot'[l].sell = 0
          /\ slot'[l].sell # 0 => slot'[l].status = "waiting_sell"
      BY <1>2, <1>4, <1>5 DEF RowInv
    <2>4. \A u, v \in Tasks : Handles(task[u], l)' /\ Handles(task[v], l)' => u = v
      BY <1>2, <2>1 DEF RowInv
    <2> QED BY <2>1, <2>2, <2>3, <2>4 DEF RowInv
  <1>8. ASSUME NEW u \in Tasks \ {t}, NEW o \in Orders
        PROVE  /\ HandBuy(task[u], l, o)' <=> HandBuy(task[u], l, o)
               /\ HandSell(task[u], l, o)' <=> HandSell(task[u], l, o)
               /\ Turning(task[u], l) => Turning(task[u], l)'
    BY <1>1 DEF HandBuy, HandSell, Turning, Handles
  <1>9. \A o \in Orders : ~HandBuy(task[t], l, o)' /\ ~HandSell(task[t], l, o)'
    BY <1>1, IdleIsQuiet DEF Quiet
  <1>10. \A o \in Orders : /\ ~HandSell(task[t], l, o)
                           /\ HandBuy(task[t], l, o) => o = slot'[l].buy
    BY <1>3, <1>4 DEF HandBuy, HandSell
  <1>11. ~Turning(task[t], l)
    BY DEF Turning, Handles
  <1>12. LiveAt(l)' = LiveAt(l) /\ SellsAt(l)' = SellsAt(l) /\ BoughtAt(l)' = BoughtAt(l)
    BY <1>1 DEF LiveAt, SellsAt, BoughtAt, Of
  <1>13. ASSUME NEW o \in LiveAt(l)'
         PROVE  \/ o = slot'[l].buy \/ o = slot'[l].sell
                \/ \E u \in Tasks : HandBuy(task[u], l, o)' \/ HandSell(task[u], l, o)'
    <2>1. o \in LiveAt(l) /\ o \in Orders /\ o # 0
      BY <1>12, Sizes DEF LiveAt
    <2>2. CASE o = slot[l].buy \/ o = slot[l].sell
      BY <1>4, <1>5, <2>1, <2>2
    <2>3. ASSUME NEW u \in Tasks, HandBuy(task[u], l, o) \/ HandSell(task[u], l, o)
          PROVE  \/ o = slot'[l].buy
                 \/ \E v \in Tasks : HandBuy(task[v], l, o)' \/ HandSell(task[v], l, o)'
      BY <1>8, <1>10, <2>1, <2>3
    <2> QED BY <1>2, <2>1, <2>2, <2>3 DEF MarketInv
  <1>14. ASSUME NEW o \in Unturned(l)' PROVE o \in Unturned(l)
    <2>1. ASSUME o = slot'[l].buy, ~\E u \in Tasks : Turning(task[u], l)'
          PROVE  o \in Unturned(l)
      <3>1. ~\E u \in Tasks : Turning(task[u], l)
        <4>1. \A u \in Tasks \ {t} : Turning(task[u], l) => Turning(task[u], l)'
          BY <1>1 DEF Turning, Handles
        <4> QED BY <1>11, <2>1, <4>1
      <3> QED BY <1>4, <1>5, <2>1, <3>1 DEF Unturned
    <2>2. ASSUME NEW u \in Tasks, HandBuy(task[u], l, o)' PROVE o \in Unturned(l)
      <3>1. o \in Orders
        BY <1>14 DEF Unturned
      <3> QED BY <1>8, <1>9, <2>2, <3>1 DEF Unturned
    <2> QED BY <1>14, <2>1, <2>2 DEF Unturned
  <1>15. Cardinality(SellsAt(l)') <= Cardinality(BoughtAt(l)' \ Unturned(l)')
    <2>1. BoughtAt(l) \ Unturned(l) \subseteq BoughtAt(l)' \ Unturned(l)'
      BY <1>12, <1>14
    <2>2. /\ SellsAt(l) \in SUBSET Orders /\ BoughtAt(l) \ Unturned(l) \in SUBSET Orders
          /\ BoughtAt(l)' \ Unturned(l)' \in SUBSET Orders
      BY DEF SellsAt, BoughtAt, Of
    <2>3. Cardinality(SellsAt(l)) <= Cardinality(BoughtAt(l) \ Unturned(l))
      BY <1>2 DEF MarketInv
    <2> QED BY <1>12, <2>1, <2>2, <2>3, StillCovered
  <1> QED BY <1>7, <1>13, <1>15 DEF LevelInv, MarketInv

LEMMA CommitFill ==
    ASSUME GridInv, NEW t \in Tasks, Commit(t), NEW l \in Levels \ tainted,
           Handles(task[t], l)
    PROVE  LevelInv(l)'
  <1>1. /\ OrdersKept /\ task'[t] = Idle /\ \A u \in Tasks \ {t} : task'[u] = task[u]
        /\ UNCHANGED <<ord, next, tainted>> /\ task[t].pc = "acted"
    BY CommitStep
  <1>2. RowInv(l) /\ MarketInv(l) /\ Shape(task[t]) /\ IndInv
    BY DEF GridInv, ShapeInv, LevelInv
  <1>3. PICK n \in Orders : Turned(task[t], l, n)
    BY <1>1, <1>2 DEF Shape, FillShape, Handles
  <1>4. PICK x \in Slot : x = task[t].old[l]
    BY <1>2 DEF IndInv, TypeOK, Task
  <1>5. PICK y : y = task[t].new[l]
    OBVIOUS
  <1>6. PICK o : o = task[t].order
    OBVIOUS
  <1>7. /\ o \in Orders /\ ord[o].state = "filled" /\ o # 0 /\ n # 0
        /\ \/ o = slot[l].buy /\ slot[l].sell = 0
           \/ o = slot[l].sell /\ slot[l].buy = 0
        /\ x.buy = slot[l].buy /\ x.sell = slot[l].sell
        /\ x.status = "waiting_sell" => slot[l].status = "waiting_sell"
        /\ Links(l, slot[l])
    BY <1>2, <1>4, <1>6, HandledOrder, Sizes DEF RowInv, IndInv
  <1>8. \/ /\ o = slot[l].buy /\ slot[l].sell = 0 /\ y.buy = 0 /\ y.sell = n
           /\ y.status = "waiting_sell"
        \/ /\ o = slot[l].sell /\ slot[l].buy = 0 /\ y.buy = n /\ y.sell = 0
    <2>1. CASE ord[o].side = "Buy" /\ y = AfterBuy(x, n)
      <3>1. y.buy = 0 /\ y.sell = n /\ y.status = "waiting_sell"
        BY <2>1 DEF AfterBuy, Slot
      <3> QED BY <1>7, <2>1, <3>1 DEF Links
    <2>2. CASE ord[o].side = "Sell" /\ y = AfterSell(x, n)
      <3>1. y.buy = n /\ y.sell = 0
        BY <2>2 DEF AfterSell, Slot
      <3> QED BY <1>7, <2>2, <3>1 DEF Links
    <2> QED BY <1>3, <1>4, <1>5, <1>6, <2>1, <2>2 DEF Turned
  <1>9. n # x.buy /\ n # x.sell
    BY <1>3, <1>4 DEF Turned
  <1>10. /\ slot'[l].buy = IF y.buy # x.buy THEN y.buy ELSE slot[l].buy
         /\ slot'[l].sell = IF y.sell # x.sell THEN y.sell ELSE slot[l].sell
         /\ slot'[l].status = IF y.status # x.status THEN y.status ELSE slot[l].status
    BY <1>4, <1>5, Committed
  <1>11. \/ /\ slot'[l].buy = 0 /\ slot'[l].sell = n /\ slot'[l].status = "waiting_sell"
            /\ y.sell = n /\ x.sell # n /\ y.buy = 0
         \/ /\ slot'[l].buy = n /\ slot'[l].sell = 0 /\ y.buy = n /\ x.buy # n /\ y.sell = 0
    BY <1>7, <1>8, <1>9, <1>10
  <1>12. ASSUME NEW u \in Tasks
         PROVE  /\ ~Handles(task[u], l)'
                /\ task'[u].kind = "start" =>
                      ~(task'[u].old[l].status = "waiting_buy" /\ task'[u].old[l].buy = 0)
                /\ \A e \in Orders : ~HandBuy(task[u], l, e)' /\ ~HandSell(task[u], l, e)'
    <2>1. CASE u = t
      BY <1>1, <2>1, IdleTypes, IdleIsQuiet DEF Handles, Quiet
    <2>2. CASE u # t
      <3>1. /\ ~Handles(task[u], l) /\ task'[u] = task[u]
            /\ \A e \in Orders : ~HandBuy(task[u], l, e) /\ ~HandSell(task[u], l, e)
            /\ task[u].kind = "start" =>
                  ~(task[u].old[l].status = "waiting_buy" /\ task[u].old[l].buy = 0)
        BY <1>1, <2>2, HandlerAlone
      <3> QED BY <1>1, <3>1 DEF Handles, HandBuy, HandSell
    <2> QED BY <2>1, <2>2
  <1>13. RowInv(l)'
    <2>1. \A u, v \in Tasks : task'[u].kind = "start" /\ task'[v].kind = "start" => u = v
      BY <1>1, <1>2, IdleTypes DEF RowInv
    <2> QED BY <1>7, <1>11, <1>12, <2>1 DEF RowInv
  <1>14. LiveAt(l)' = LiveAt(l) /\ SellsAt(l)' = SellsAt(l) /\ BoughtAt(l)' = BoughtAt(l)
    BY <1>1 DEF LiveAt, SellsAt, BoughtAt, Of
  <1>15. ASSUME NEW e \in LiveAt(l)' PROVE e = slot'[l].buy \/ e = slot'[l].sell
    <2>1. e \in LiveAt(l) /\ e \in Orders /\ e # o /\ e # 0
      BY <1>7, <1>14, Sizes DEF LiveAt
    <2>2. PICK u \in Tasks : HandBuy(task[u], l, e) \/ HandSell(task[u], l, e)
      BY <1>2, <1>7, <2>1 DEF MarketInv
    <2>3. u = t
      BY <2>1, <2>2, HandlerAlone
    <2> QED BY <1>5, <1>11, <2>1, <2>2, <2>3 DEF HandBuy, HandSell
  <1>16. ASSUME NEW e \in Unturned(l)' PROVE e \in Unturned(l)
    <2>1. e \in Orders /\ e # 0 /\ e = slot'[l].buy
      BY <1>12, <1>16, Sizes DEF Unturned
    <2>2. HandBuy(task[t], l, e)
      BY <1>1, <1>4, <1>5, <1>7, <1>11, <2>1 DEF HandBuy
    <2> QED BY <2>1, <2>2 DEF Unturned
  <1>17. Cardinality(SellsAt(l)') <= Cardinality(BoughtAt(l)' \ Unturned(l)')
    <2>1. BoughtAt(l) \ Unturned(l) \subseteq BoughtAt(l)' \ Unturned(l)'
      BY <1>14, <1>16
    <2>2. /\ SellsAt(l) \in SUBSET Orders /\ BoughtAt(l) \ Unturned(l) \in SUBSET Orders
          /\ BoughtAt(l)' \ Unturned(l)' \in SUBSET Orders
      BY DEF SellsAt, BoughtAt, Of
    <2>3. Cardinality(SellsAt(l)) <= Cardinality(BoughtAt(l) \ Unturned(l))
      BY <1>2 DEF MarketInv
    <2> QED BY <1>14, <2>1, <2>2, <2>3, StillCovered
  <1> QED BY <1>13, <1>15, <1>17 DEF LevelInv, MarketInv

LEMMA CommitLevels ==
    ASSUME GridInv, NEW t \in Tasks, Commit(t)
    PROVE  ShapeInv' /\ \A l \in Levels \ tainted' : LevelInv(l)'
  <1>1. tainted' = tainted /\ ShapeInv' /\ Shape(task[t])
    BY CommitStep DEF GridInv, ShapeInv
  <1>2. ASSUME NEW l \in Levels \ tainted PROVE LevelInv(l)'
    <2>1. CASE task[t].kind = "start"
      BY <2>1, CommitStart
    <2>2. CASE Handles(task[t], l)
      BY <2>2, CommitFill
    <2>3. CASE task[t].kind # "start" /\ ~Handles(task[t], l)
      <3>1. task[t].new[l] = task[t].old[l]
        BY <1>1, <2>3 DEF Shape, FillShape, Handles
      <3> QED BY <2>3, <3>1, CommitElsewhere
    <2> QED BY <2>1, <2>2, <2>3
  <1> QED BY <1>1, <1>2

-----------------------------------------------------------------------------
LEMMA GridInit == Init => GridInv
  <1> SUFFICES ASSUME Init PROVE GridInv
    OBVIOUS
  <1>1. /\ \A l \in Levels : slot[l] = NewSlot
        /\ \A t \in Tasks : task[t] = Idle
        /\ \A o \in Orders : ord[o] = NoOrder
    BY DEF Init
  <1>2. ShapeInv
    <2>1. \A l \in Levels : Home(l, NewSlot)
      BY IdleTypes DEF Home
    <2>2. Idle.kind \notin {"fill", "start"} /\ Idle.new = Idle.old
      BY DEF Idle
    <2>3. Shape(Idle)
      BY <2>1, <2>2, IdleTypes DEF Shape
    <2> QED BY <1>1, <2>1, <2>3 DEF ShapeInv
  <1>3. ASSUME NEW l \in Levels PROVE LevelInv(l)
    <2>1. RowInv(l)
      BY <1>1, IdleTypes DEF RowInv, Handles
    <2>2. LiveAt(l) = {} /\ SellsAt(l) = {}
      BY <1>1 DEF LiveAt, SellsAt, Of, NoOrder
    <2>3. Cardinality(SellsAt(l)) <= Cardinality(BoughtAt(l) \ Unturned(l))
      <3>1. BoughtAt(l) \ Unturned(l) \in SUBSET Orders
        BY DEF BoughtAt, Of
      <3>2. IsFiniteSet(BoughtAt(l) \ Unturned(l))
        BY <3>1, Sizes, FS_Subset
      <3>3. Cardinality(BoughtAt(l) \ Unturned(l)) \in Nat /\ Cardinality(SellsAt(l)) = 0
        BY <2>2, <3>2, FS_CardinalityType, FS_EmptySet
      <3> QED BY <3>3
    <2> QED BY <2>1, <2>2, <2>3 DEF LevelInv, MarketInv
  <1> QED BY <1>2, <1>3, InitInd DEF GridInv

LEMMA GridNext == GridInv /\ [Next]_vars => GridInv'
  <1> SUFFICES ASSUME GridInv, [Next]_vars PROVE GridInv'
    OBVIOUS
  <1>1. IndInv'
    BY NextKeeps DEF GridInv
  <1>2. ASSUME NEW t \in Tasks,
               \/ StartLoad(t)
               \/ \E p \in 1..(N + 1) : StartAct(t, p)
               \/ \E p \in 1..(N + 1), l \in Levels, lost \in BOOLEAN :
                     StartFails(t, p, l, lost)
               \/ StopLoad(t) \/ StopAct(t) \/ StopFails(t)
               \/ \E o \in Orders : FillLoad(t, o)
               \/ FillAct(t)
               \/ \E lost \in BOOLEAN : FillFails(t, lost)
               \/ Commit(t)
        PROVE  ShapeInv' /\ \A l \in Levels \ tainted' : LevelInv(l)'
    BY <1>2, StartLoadLevels, StartActLevels, StartFailsLevels, StopLoadLevels,
       StopActLevels, FillLoadLevels, FillActLevels, FillFailsLevels, CommitLevels
  <1>3. ShapeInv' /\ \A l \in Levels \ tainted' : LevelInv(l)'
    BY <1>2, OutsideLevels DEF Next
  <1> QED BY <1>1, <1>3 DEF GridInv

(* What rows, copies and orders say of one another, whichever way starts,   *)
(* stops and handlers of fills interleave, for every number of levels,      *)
(* coroutines and orders.                                                   *)
THEOREM GridInductive == Spec => []GridInv
  BY GridInit, GridNext, PTL DEF Spec

(* One order in hand for each coroutine and level. *)
LEMMA OneInHand ==
    ASSUME GridInv, NEW t \in Tasks, NEW l \in Levels \ tainted,
           NEW o \in Orders, HandBuy(task[t], l, o) \/ HandSell(task[t], l, o),
           NEW e \in Orders, HandBuy(task[t], l, e) \/ HandSell(task[t], l, e)
    PROVE  o = e
  <1>1. Shape(task[t]) /\ o # 0 /\ e # 0
    BY Sizes DEF GridInv, ShapeInv
  <1>2. CASE Handles(task[t], l)
    <2>1. PICK n \in Orders : Turned(task[t], l, n)
      BY <1>1, <1>2 DEF Shape, FillShape, Handles, HandBuy, HandSell
    <2>2. PICK x \in Slot : x = task[t].old[l]
      BY DEF GridInv, IndInv, TypeOK, Task
    <2>3. /\ AfterBuy(x, n).buy = 0 /\ AfterBuy(x, n).sell = n
          /\ AfterSell(x, n).sell = 0 /\ AfterSell(x, n).buy = n
      BY DEF AfterBuy, AfterSell, Slot
    <2>4. /\ task[t].new[l].buy = 0 \/ task[t].new[l].buy = n
          /\ task[t].new[l].sell = 0 \/ task[t].new[l].sell = n
      BY <2>1, <2>2, <2>3 DEF Turned
    <2> QED BY <1>1, <2>4 DEF HandBuy, HandSell
  <1>3. CASE ~Handles(task[t], l)
    <2>1. HandBuy(task[t], l, o) /\ HandBuy(task[t], l, e)
      BY <1>3, InHand
    <2> QED BY <2>1 DEF HandBuy
  <1> QED BY <1>2, <1>3

LEMMA OneLive ==
    ASSUME GridInv, NEW l \in Levels \ tainted, NEW o \in LiveAt(l), NEW e \in LiveAt(l)
    PROVE  o = e
  <1>1. RowInv(l) /\ MarketInv(l)
    BY DEF GridInv, LevelInv
  <1>2. \A i \in LiveAt(l) : i \in Orders /\ i # 0 /\ ord[i].state = "working"
    BY Sizes DEF LiveAt
  <1>3. ASSUME NEW i \in LiveAt(l), i = slot[l].buy \/ i = slot[l].sell,
               NEW j \in Orders, NEW u \in Tasks,
               HandBuy(task[u], l, j) \/ HandSell(task[u], l, j)
        PROVE  FALSE
    <2>1. Handles(task[u], l)
      BY <1>2, <1>3, InHand
    <2>2. /\ ord[task[u].order].state = "filled"
          /\ \/ task[u].order = slot[l].buy /\ slot[l].sell = 0
             \/ task[u].order = slot[l].sell /\ slot[l].buy = 0
      BY <2>1, HandledOrder
    <2> QED BY <1>2, <1>3, <2>2
  <1>4. ASSUME NEW i \in Orders, NEW u \in Tasks,
               HandBuy(task[u], l, i) \/ HandSell(task[u], l, i),
               NEW j \in Orders, NEW v \in Tasks,
               HandBuy(task[v], l, j) \/ HandSell(task[v], l, j)
        PROVE  i = j
    <2>1. u = v
      <3>1. CASE Handles(task[u], l)
        BY <1>4, <3>1, HandlerAlone
      <3>2. CASE Handles(task[v], l)
        BY <1>4, <3>2, HandlerAlone
      <3>3. CASE ~Handles(task[u], l) /\ ~Handles(task[v], l)
        <4>1. task[u].kind = "start" /\ task[v].kind = "start"
          BY <1>4, <3>3, InHand
        <4> QED BY <1>1, <4>1 DEF RowInv
      <3> QED BY <3>1, <3>2, <3>3
    <2> QED BY <1>4, <2>1, OneInHand
  <1>5. \A i \in LiveAt(l) :
           \/ i = slot[l].buy \/ i = slot[l].sell
           \/ \E u \in Tasks : HandBuy(task[u], l, i) \/ HandSell(task[u], l, i)
    BY <1>1 DEF MarketInv
  <1>6. CASE o = slot[l].buy \/ o = slot[l].sell
    <2>1. e = slot[l].buy \/ e = slot[l].sell
      BY <1>2, <1>3, <1>5, <1>6
    <2> QED BY <1>1, <1>2, <1>6, <2>1 DEF RowInv
  <1>7. CASE e = slot[l].buy \/ e = slot[l].sell
    <2>1. o = slot[l].buy \/ o = slot[l].sell
      BY <1>2, <1>3, <1>5, <1>7
    <2> QED BY <1>1, <1>2, <1>7, <2>1 DEF RowInv
  <1>8. CASE /\ ~(o = slot[l].buy \/ o = slot[l].sell)
             /\ ~(e = slot[l].buy \/ e = slot[l].sell)
    BY <1>2, <1>4, <1>5, <1>8
  <1> QED BY <1>6, <1>7, <1>8

(* A level has at most one working order, through pauses, stops, restarts,  *)
(* late and repeated fill events, refusals and crashes, unless two starts   *)
(* or two handlers of one event overlapped or an order was placed and not   *)
(* recorded (GridRunner.start, GridRunner.stop, handle_order_fill).         *)
THEOREM OneWorking == Spec => []OneWorkingOrder
  <1>1. GridInv => OneWorkingOrder
    <2> SUFFICES ASSUME GridInv, NEW l \in Levels \ tainted
                 PROVE  Cardinality(Of(l, "Buy", {"working"}) \cup
                                    Of(l, "Sell", {"working"})) <= 1
      BY DEF OneWorkingOrder
    <2>1. PICK S : S = Of(l, "Buy", {"working"}) \cup Of(l, "Sell", {"working"})
      OBVIOUS
    <2>2. S \subseteq LiveAt(l)
      BY <2>1 DEF Of, LiveAt
    <2>3. CASE S = {}
      BY <2>1, <2>3, FS_EmptySet
    <2>4. CASE S # {}
      <3>1. PICK o : o \in S
        BY <2>4
      <3>2. S = {o}
        BY <2>2, <3>1, OneLive
      <3> QED BY <2>1, <3>2, FS_Singleton
    <2> QED BY <2>3, <2>4
  <1> QED BY <1>1, GridInductive, PTL

(* Under the same condition nothing is sold that was not bought: a level    *)
(* has no more sell orders out than buys filled (handle_order_fill).        *)
THEOREM SellsCovered == Spec => []SellsAreCovered
  <1>1. GridInv => SellsAreCovered
    <2> SUFFICES ASSUME GridInv, NEW l \in Levels \ tainted
                 PROVE  Cardinality(SellsAt(l)) <= Cardinality(BoughtAt(l))
      BY DEF SellsAreCovered, SellsAt, BoughtAt
    <2>1. Cardinality(SellsAt(l)) <= Cardinality(BoughtAt(l) \ Unturned(l))
      BY DEF GridInv, LevelInv, MarketInv
    <2>2. /\ SellsAt(l) \in SUBSET Orders /\ BoughtAt(l) \ Unturned(l) \in SUBSET Orders
          /\ BoughtAt(l) \in SUBSET Orders /\ BoughtAt(l) \ Unturned(l) \subseteq BoughtAt(l)
      BY DEF SellsAt, BoughtAt, Of
    <2> QED BY <2>1, <2>2, StillCovered
  <1> QED BY <1>1, GridInductive, PTL

=============================================================================
