---------------------------- MODULE TradePromise ----------------------------
(***************************************************************************)
(* What the life of a trade promises to whoever reads the journal and the  *)
(* daily statistics, without links, copies, passes or messages: a position *)
(* that the books show stays there until its exit is recorded, an exit is  *)
(* recorded only after the exchange filled one, and it is counted in the   *)
(* step that records it, once.                                             *)
(*                                                                         *)
(* The promise ends for a trade whose row was written from an outdated     *)
(* copy (torn).  What is left of it then is that nothing is counted that   *)
(* the exchange has not filled.                                            *)
(***************************************************************************)
EXTENDS Naturals

CONSTANT Trades

VARIABLES
    book,     \* what the row of a trade shows
    exited,   \* whether the exchange has filled an exit of the trade
    counted,  \* how often its outcome is in the statistics
    torn      \* whether an outdated copy was written over the row

promise == <<book, exited, counted, torn>>

(* A partial fill, of the entry or of a close, is a state of its own: it   *)
(* is the only way from a position back to an entry.                       *)
Books == {"entry", "partial", "position", "recorded"}

Init ==
    /\ book \in [Trades -> {"entry", "partial"}]
    /\ exited = [t \in Trades |-> FALSE]
    /\ counted = [t \in Trades |-> 0]
    /\ torn = [t \in Trades |-> FALSE]

(* The exchange fills an exit. *)
Exit(t) ==
    /\ exited' = [exited EXCEPT ![t] = TRUE]
    /\ UNCHANGED <<book, counted, torn>>

(* The books follow the orders. *)
Follow(t) ==
    /\ \E b \in Books \ {"recorded"} :
          /\ book[t] # "recorded"
          /\ book[t] = "position" => b # "entry"
          /\ book' = [book EXCEPT ![t] = b]
    /\ UNCHANGED <<exited, counted, torn>>

(* The exit is recorded and counted. *)
Record(t) ==
    /\ exited[t] /\ book[t] # "recorded"
    /\ book' = [book EXCEPT ![t] = "recorded"]
    /\ counted' = [counted EXCEPT ![t] = @ + 1]
    /\ UNCHANGED <<exited, torn>>

(* An outdated copy is written, or was. *)
Tear(t) ==
    /\ torn' = [torn EXCEPT ![t] = TRUE]
    /\ \E b \in Books : book' = [book EXCEPT ![t] = b]
    /\ \/ UNCHANGED counted
       \/ exited[t] /\ counted' = [counted EXCEPT ![t] = @ + 1]
    /\ UNCHANGED exited

Next == \E t \in Trades : Exit(t) \/ Follow(t) \/ Record(t) \/ Tear(t)

Spec == Init /\ [][Next]_promise

=============================================================================
