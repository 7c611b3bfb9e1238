--------------------------- MODULE TradeRefinement ---------------------------
(***************************************************************************)
(* TradeLifecycle keeps the promise of TradePromise: the refinement        *)
(* mapping and the property.                                               *)
(***************************************************************************)
EXTENDS TradeLifecycle

(* What a status shows. *)
BookOf(status) ==
    CASE status = "PNL_RECORDED" -> "recorded"
      [] status = "ORDER_PARTIALLY_FILLED" -> "partial"
      [] status \in {"POSITION_OPEN", "POSITION_CLOSE_PENDING", "POSITION_CLOSE_FAILED"}
           -> "position"
      [] OTHER -> "entry"

book == [t \in Trades |-> BookOf(row[t].status)]

exited == [t \in Trades |-> ExitFilledAtExchange(t)]

Promise == INSTANCE TradePromise WITH counted <- outcomes, torn <- stale

(* Every step of the WebSocket handler, the worker, the close requests, the *)
(* monitor and the replayed requests is a step of the promise for one trade *)
(* or changes nothing it speaks of, whatever is lost, repeated or reordered *)
(* and whenever a transaction fails or the process dies.                    *)
PromiseKept == Promise!Spec

=============================================================================
