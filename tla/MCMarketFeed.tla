---------------------------- MODULE MCMarketFeed ----------------------------
(***************************************************************************)
(* The two runners of the application for TLC.  They may run side by side, *)
(* but never on the same symbol (_validate_runner_configuration) and they  *)
(* share no state: a behaviour is one of the feed or one of the loop.      *)
(***************************************************************************)
EXTENDS MarketFeed, SignalLoop

VARIABLE runs  \* which of the two this behaviour is about

vars == <<runs, feedVars, loopVars>>

Init == runs \in {"feed", "loop"} /\ FeedInit /\ LoopInit
        /\ (runs = "feed" => clock = 1) /\ (runs = "loop" => now = 1)

Next ==
    /\ UNCHANGED runs
    /\ \/ runs = "feed" /\ FeedNext /\ UNCHANGED loopVars
       \/ runs = "loop" /\ LoopNext /\ UNCHANGED feedVars

Spec == Init /\ [][Next]_vars /\ FeedFairness /\ (runs = "loop" => LoopFairness)

=============================================================================
