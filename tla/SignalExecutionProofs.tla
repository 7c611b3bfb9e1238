----------------------- MODULE SignalExecutionProofs -----------------------
(***************************************************************************)
(* For any number of concurrent requests, recorded outcomes, fingerprints  *)
(* and signals: the tables keep their types, and the daily cap is overrun  *)
(* by at most the requests that were between its check and its count and   *)
(* the counts that outcomes have written over (CountsInv).                 *)
(*                                                                         *)
(* The second part follows one submission from its signal to its order:    *)
(* what trade and order say of each other (OrderInv), which request a      *)
(* signal, a trade and a copy belong to (OwnerInv), where the live trade   *)
(* of a fingerprint can be found again (FingerInv), and that an outcome is *)
(* recorded for a filled entry (CloserInv).                                *)
(***************************************************************************)
EXTENDS SignalExecution, FiniteSetTheorems, TLAPS

(* A set of requests that loses at most its own members does not grow ...   *)
LEMMA CardShrinks ==
    ASSUME NEW S, IsFiniteSet(S), NEW T, T \subseteq S
    PROVE  /\ IsFiniteSet(T)
           /\ Cardinality(T) \in Nat /\ Cardinality(S) \in Nat
           /\ Cardinality(T) <= Cardinality(S)
  BY FS_Subset, FS_CardinalityType

(* ... one that gains at most r grows by at most one ...                    *)
LEMMA CardJoins ==
    ASSUME NEW S, IsFiniteSet(S), NEW r, NEW T, T \subseteq S \cup {r}
    PROVE  /\ Cardinality(T) \in Nat /\ Cardinality(S) \in Nat
           /\ Cardinality(T) <= Cardinality(S) + 1
<1>1. /\ IsFiniteSet(S \cup {r})
      /\ Cardinality(S \cup {r}) \in {Cardinality(S), Cardinality(S) + 1}
  BY FS_AddElement
<1>2. /\ Cardinality(S) \in Nat
      /\ Cardinality(T) \in Nat /\ Cardinality(T) <= Cardinality(S \cup {r})
  BY <1>1, CardShrinks, FS_CardinalityType
<1> QED BY <1>1, <1>2

(* ... and one that loses r shrinks by at least one.                        *)
LEMMA CardLeaves ==
    ASSUME NEW S, IsFiniteSet(S), NEW r \in S, NEW T, T \subseteq S \ {r}
    PROVE  /\ Cardinality(T) \in Nat /\ Cardinality(S) \in Nat
           /\ Cardinality(T) + 1 <= Cardinality(S)
<1>1. IsFiniteSet(S \ {r}) /\ Cardinality(S \ {r}) = Cardinality(S) - 1
  BY FS_RemoveElement
<1>2. /\ Cardinality(S) \in Nat
      /\ Cardinality(T) \in Nat /\ Cardinality(T) <= Cardinality(S \ {r})
  BY <1>1, CardShrinks, FS_CardinalityType
<1> QED BY <1>1, <1>2

(* What the helpers return. *)
LEMMA HelperTypes ==
    /\ NoSubmission \in Submission
    /\ Idle \in Request
    /\ NotClosing \in Closer
    /\ \A o : map_remote_order_status(o) \in TradeStatus
    /\ \A k : EntryType(k) \in OrderType
  BY SettingsAssumption DEF NotClosing, NoOutcomes, Closer, NoSubmission, Submission,
     Idle, Request, Steps, TradeStatus, OrderType, Links, map_remote_order_status, EntryType

(* Updates of a request's record keep its type. *)
LEMMA RecordUpdates ==
    ASSUME NEW q \in Request
    PROVE  /\ \A c \in Steps : [q EXCEPT !.pc = c] \in Request /\ [q EXCEPT !.pc = c].pc = c
           /\ \A f \in Fingerprints : [q EXCEPT !.fp = f] \in Request
           /\ \A x \in Submission : [q EXCEPT !.loaded = x] \in Request
           /\ \A s \in 0..MaxSignals : [q EXCEPT !.signal = s] \in Request
           /\ \A t \in TradeStatus : [q EXCEPT !.status = t] \in Request
           /\ \A t \in OrderType : [q EXCEPT !.type = t] \in Request
           /\ \A k \in Links : [q EXCEPT !.link = k] \in Request
  BY DEF Request

LEMMA RequestSets ==
    /\ IsFiniteSet(Unregistered) /\ IsFiniteSet(Uncounted)
    /\ Unregistered \subseteq Requests /\ Uncounted \subseteq Requests
    /\ Cardinality(Requests) \in Nat
  BY SettingsAssumption, CardShrinks, FS_CardinalityType
     DEF Unregistered, Uncounted

LEMMA InitInv == Init => IndInv
<1> SUFFICES ASSUME Init PROVE IndInv
  OBVIOUS
<1>1. TypeOK
  <2>1. /\ sub \in [Fingerprints -> Submission] /\ req \in [Requests -> Request]
        /\ trade \in [Signals -> Trade] /\ ord \in [Signals -> [Links -> OrderState]]
    BY HelperTypes DEF Init, Trade, TradeStatus, OrderType, Links, OrderState
  <2>2. /\ last \in 0..MaxSignals /\ faults \in 0..MaxFaults /\ total \in Nat
        /\ holder \in Requests \cup Closers \cup {None}
        /\ switch \in {"off", "activating", "on"}
    BY SettingsAssumption DEF Init
  <2>3. today \in BOOLEAN /\ overlap \in [Fingerprints -> BOOLEAN]
    BY DEF Init
  <2>4. /\ closed \in [Outcomes -> Nat] /\ closer \in [Closers -> Closer]
        /\ revived \subseteq Signals /\ entered \in Nat /\ lost \in Nat
    BY HelperTypes DEF Init, NoOutcomes
  <2> QED BY <2>1, <2>2, <2>3, <2>4 DEF TypeOK
<1>2. Unregistered = {} /\ Uncounted = {}
  BY DEF Init, Idle, Unregistered, Uncounted
<1>3. CountsInv
  <2>1. Cardinality({}) = 0
    BY FS_EmptySet
  <2>2. Cardinality(Requests) \in Nat
    BY RequestSets
  <2> QED BY <1>2, <2>1, <2>2, SettingsAssumption DEF CountsInv, Init
<1> QED BY <1>1, <1>3 DEF IndInv

-----------------------------------------------------------------------------
(* The bookkeeping of CountsInv, one lemma per kind of step. *)

(* A step that brings no request before its registration or past the cap.   *)
LEMMA QuietStep ==
    ASSUME IndInv, UNCHANGED <<last, total, entered, lost>>,
           Unregistered' \subseteq Unregistered, Uncounted' \subseteq Uncounted
    PROVE  CountsInv'
<1>1. /\ Cardinality(Unregistered') <= Cardinality(Unregistered)
      /\ Cardinality(Unregistered') \in Nat /\ Cardinality(Unregistered) \in Nat
  BY RequestSets, CardShrinks
<1>2. /\ Cardinality(Uncounted') <= Cardinality(Uncounted)
      /\ Cardinality(Uncounted') \in Nat /\ Cardinality(Uncounted) \in Nat
  BY RequestSets, CardShrinks
<1>3. last \in Nat /\ total \in Nat /\ entered \in Nat /\ lost \in Nat
  BY DEF IndInv, TypeOK
<1>4. Cardinality(Requests) \in Nat
  BY RequestSets
<1> QED BY <1>1, <1>2, <1>3, <1>4, SettingsAssumption DEF IndInv, CountsInv

(* A request begins: there was room for one more signal. *)
LEMMA BeginCounts ==
    ASSUME IndInv, NEW r \in Requests, NEW f \in Fingerprints, Begin(r, f),
           Unregistered' \subseteq Unregistered \cup {r},
           Uncounted' \subseteq Uncounted
    PROVE  CountsInv'
<1> DEFINE Busy == {q \in Requests : req[q].pc # "idle"}
<1>1. /\ Cardinality(Unregistered') <= Cardinality(Unregistered) + 1
      /\ Cardinality(Unregistered') \in Nat /\ Cardinality(Unregistered) \in Nat
  BY RequestSets, CardJoins
<1>2. /\ Cardinality(Unregistered) <= Cardinality(Busy)
      /\ Cardinality(Busy) \in Nat
  <2>1. Unregistered \subseteq Busy /\ Busy \subseteq Requests
    BY DEF Unregistered
  <2>2. IsFiniteSet(Busy)
    BY <2>1, CardShrinks, SettingsAssumption
  <2> QED BY <2>1, <2>2, CardShrinks
<1>3. /\ Cardinality(Uncounted') <= Cardinality(Uncounted)
      /\ Cardinality(Uncounted') \in Nat /\ Cardinality(Uncounted) \in Nat
  BY RequestSets, CardShrinks
<1>4. /\ last \in Nat /\ total \in Nat /\ entered \in Nat /\ lost \in Nat
      /\ Cardinality(Requests) \in Nat
  BY RequestSets DEF IndInv, TypeOK
<1>5. /\ last + Cardinality(Busy) < MaxSignals
      /\ UNCHANGED <<last, total, entered, lost>>
  BY DEF Begin, closing
<1>6. last' + Cardinality(Unregistered') <= MaxSignals
  BY <1>1, <1>2, <1>4, <1>5, SettingsAssumption
<1>7. /\ entered' <= total' + lost'
      /\ entered' + Cardinality(Uncounted')
           <= MaxTradesPerDay - 1 + Cardinality(Requests) + lost'
  BY <1>3, <1>4, <1>5, SettingsAssumption DEF IndInv, CountsInv
<1> QED BY <1>6, <1>7 DEF CountsInv

(* A request registers: its reserved signal is used. *)
LEMMA RegisterCounts ==
    ASSUME IndInv, NEW r \in Unregistered, last' = last + 1,
           UNCHANGED <<total, entered, lost>>,
           Unregistered' \subseteq Unregistered \ {r},
           Uncounted' \subseteq Uncounted
    PROVE  last' \in 0..MaxSignals /\ CountsInv'
<1>1. /\ Cardinality(Unregistered') + 1 <= Cardinality(Unregistered)
      /\ Cardinality(Unregistered') \in Nat /\ Cardinality(Unregistered) \in Nat
  BY RequestSets, CardLeaves
<1>2. /\ Cardinality(Uncounted') <= Cardinality(Uncounted)
      /\ Cardinality(Uncounted') \in Nat /\ Cardinality(Uncounted) \in Nat
  BY RequestSets, CardShrinks
<1>3. /\ last \in Nat /\ total \in Nat /\ entered \in Nat /\ lost \in Nat
      /\ Cardinality(Requests) \in Nat
  BY RequestSets DEF IndInv, TypeOK
<1> QED BY <1>1, <1>2, <1>3, SettingsAssumption DEF IndInv, CountsInv

(* A request passes the daily cap: the counter is below it, and all of the  *)
(* requests are no more than all of the requests.                           *)
LEMMA LimitCounts ==
    ASSUME IndInv, UNCHANGED <<last, total, entered, lost>>, total < MaxTradesPerDay,
           Unregistered' \subseteq Unregistered, Uncounted' \subseteq Requests
    PROVE  CountsInv'
<1>1. /\ Cardinality(Unregistered') <= Cardinality(Unregistered)
      /\ Cardinality(Unregistered') \in Nat /\ Cardinality(Unregistered) \in Nat
  BY RequestSets, CardShrinks
<1>2. /\ Cardinality(Uncounted') <= Cardinality(Requests)
      /\ Cardinality(Uncounted') \in Nat /\ Cardinality(Requests) \in Nat
  BY CardShrinks, SettingsAssumption
<1>3. last \in Nat /\ total \in Nat /\ entered \in Nat /\ lost \in Nat
  BY DEF IndInv, TypeOK
<1> QED BY <1>1, <1>2, <1>3, SettingsAssumption DEF IndInv, CountsInv

(* A trade is counted: its request leaves the ones that were not.           *)
LEMMA CommitCounts ==
    ASSUME IndInv, NEW r \in Uncounted, UNCHANGED <<last, lost>>,
           total' = total + 1, entered' = entered + 1,
           Unregistered' \subseteq Unregistered,
           Uncounted' \subseteq Uncounted \ {r}
    PROVE  CountsInv'
<1>1. /\ Cardinality(Unregistered') <= Cardinality(Unregistered)
      /\ Cardinality(Unregistered') \in Nat /\ Cardinality(Unregistered) \in Nat
  BY RequestSets, CardShrinks
<1>2. /\ Cardinality(Uncounted') + 1 <= Cardinality(Uncounted)
      /\ Cardinality(Uncounted') \in Nat /\ Cardinality(Uncounted) \in Nat
  BY RequestSets, CardLeaves
<1>3. /\ last \in Nat /\ total \in Nat /\ entered \in Nat /\ lost \in Nat
      /\ Cardinality(Requests) \in Nat
  BY RequestSets DEF IndInv, TypeOK
<1> QED BY <1>1, <1>2, <1>3, SettingsAssumption DEF IndInv, CountsInv

-----------------------------------------------------------------------------
(* Steps of one request. *)

Early == {"recheck", "register"}
Late == {"exposure", "create", "submit", "resolve", "commit"}

(* The record of request r becomes q: what that does to the two sets. *)
LEMMA Moves ==
    ASSUME TypeOK, NEW r \in Requests, NEW q \in Request,
           req' = [req EXCEPT ![r] = q]
    PROVE  /\ req' \in [Requests -> Request]
           /\ Unregistered' \subseteq Unregistered \cup {r}
           /\ q.pc \notin Early => Unregistered' \subseteq Unregistered \ {r}
           /\ Uncounted' \subseteq Requests
           /\ q.pc \notin Late => Uncounted' \subseteq Uncounted \ {r}
           /\ r \in Uncounted => Uncounted' \subseteq Uncounted
           /\ r \in Unregistered => Unregistered' \subseteq Unregistered
<1>1. req \in [Requests -> Request]
  BY DEF TypeOK
<1>2. req' \in [Requests -> Request]
  BY <1>1
<1>3. req'[r] = q /\ \A p \in Requests \ {r} : req'[p] = req[p]
  BY <1>1
<1> QED BY <1>2, <1>3 DEF Unregistered, Uncounted, Early, Late

(* Goto and End are such updates. *)
LEMMA GotoMoves ==
    ASSUME TypeOK, NEW r \in Requests, NEW c \in Steps, Goto(r, c)
    PROVE  \E q \in Request : q.pc = c /\ req' = [req EXCEPT ![r] = q]
<1> DEFINE q == [req[r] EXCEPT !.pc = c]
<1>1. req \in [Requests -> Request] /\ req[r] \in Request
  BY DEF TypeOK
<1>2. q \in Request /\ q.pc = c
  BY <1>1 DEF Request
<1>3. req' = [req EXCEPT ![r] = q]
  BY <1>1 DEF Goto
<1> QED BY <1>2, <1>3

LEMMA EndMoves ==
    ASSUME NEW r \in Requests, End(r)
    PROVE  /\ Idle \in Request /\ Idle.pc = "idle"
           /\ req' = [req EXCEPT ![r] = Idle]
  BY HelperTypes DEF End, Idle

(* A request that is answered, or goes on to a step on the same side of     *)
(* registration and of the cap, disturbs neither count.                     *)
LEMMA QuietMove ==
    ASSUME IndInv, NEW r \in Requests, NEW q \in Request,
           req' = [req EXCEPT ![r] = q], UNCHANGED <<last, total, closing>>,
           q.pc \in Early => r \in Unregistered,
           q.pc \in Late => r \in Uncounted
    PROVE  req' \in [Requests -> Request] /\ CountsInv'
<1>1. TypeOK
  BY DEF IndInv
<1>2. /\ req' \in [Requests -> Request]
      /\ Unregistered' \subseteq Unregistered
      /\ Uncounted' \subseteq Uncounted
  BY <1>1, Moves
<1> QED BY <1>2, QuietStep DEF closing

-----------------------------------------------------------------------------
(* Every action keeps the invariant. *)

LEMMA BeginInv ==
    ASSUME IndInv, NEW r \in Requests, NEW f \in Fingerprints, Begin(r, f)
    PROVE  IndInv'
<1>1. TypeOK /\ sub[f] \in Submission
  BY DEF IndInv, TypeOK
<1>2. PICK q \in Request : req' = [req EXCEPT ![r] = q] /\ q.pc \in Early \cup {"idle"}
  <2> DEFINE q0 == [Idle EXCEPT !.fp = f, !.loaded = sub[f]]
  <2>1. q0 \in Request
    BY <1>1, HelperTypes, RecordUpdates
  <2>2. \A c \in Steps : [q0 EXCEPT !.pc = c] \in Request /\ [q0 EXCEPT !.pc = c].pc = c
    BY <2>1, RecordUpdates
  <2>3. Idle \in Request /\ Idle.pc = "idle"
    BY HelperTypes DEF Idle
  <2>4. \/ req' = [req EXCEPT ![r] = [q0 EXCEPT !.pc = "register"]]
        \/ req' = [req EXCEPT ![r] = [q0 EXCEPT !.pc = "recheck"]]
        \/ req' = [req EXCEPT ![r] = Idle]
    BY Zenon DEF Begin
  <2>5. {"register", "recheck"} \subseteq Steps
    BY DEF Steps
  <2> QED BY <2>2, <2>3, <2>4, <2>5 DEF Early
<1>3. /\ req' \in [Requests -> Request]
      /\ Unregistered' \subseteq Unregistered \cup {r}
      /\ Uncounted' \subseteq Uncounted
  BY <1>1, <1>2, Moves DEF Early, Late
<1>4. CountsInv'
  BY <1>3, BeginCounts
<1>5. TypeOK'
  <2>1. overlap' \in [Fingerprints -> BOOLEAN]
    BY <1>1 DEF Begin, TypeOK
  <2>2. UNCHANGED <<sub, trade, ord, last, holder, today, total, closing, switch, faults>>
    BY DEF Begin
  <2> QED BY <1>1, <1>3, <2>1, <2>2 DEF TypeOK, closing
<1> QED BY <1>4, <1>5 DEF IndInv

LEMMA RecheckInv ==
    ASSUME IndInv, NEW r \in Requests, Recheck(r)
    PROVE  IndInv'
<1>1. TypeOK
  BY DEF IndInv
<1>2. r \in Unregistered /\ UNCHANGED <<sub, ord, last, holder, today, total, closing, switch,
                   overlap, faults>>
  BY DEF Recheck, Unregistered
<1>3. Goto(r, "register") \/ End(r)
  BY Zenon DEF Recheck
<1>4. PICK q \in Request : req' = [req EXCEPT ![r] = q] /\ q.pc \in {"register", "idle"}
  BY <1>1, <1>3, GotoMoves, EndMoves DEF Steps
<1>5. req' \in [Requests -> Request] /\ CountsInv'
  BY <1>2, <1>4, QuietMove DEF Early, Late
<1>6. trade' \in [Signals -> Trade]
  <2> DEFINE t == get_trade_for_submission(req[r].loaded)
             found == map_remote_order_status(ord[t][trade[t].link])
  <2>1. trade \in [Signals -> Trade] /\ found \in TradeStatus
    BY <1>1, HelperTypes DEF TypeOK
  <2>2. trade' = trade \/ trade' = [trade EXCEPT ![t].status = found]
    BY Zenon DEF Recheck
  <2> HIDE DEF t, found
  <2> QED BY <2>1, <2>2 DEF Trade
<1> QED BY <1>1, <1>2, <1>5, <1>6 DEF IndInv, TypeOK, closing

LEMMA RegisterInv ==
    ASSUME IndInv, NEW r \in Requests, Register(r)
    PROVE  IndInv'
<1>1. TypeOK /\ req[r] \in Request /\ last \in Nat
  BY DEF IndInv, TypeOK
<1>2. r \in Unregistered /\ UNCHANGED <<trade, ord, holder, today, total, closing, switch, overlap, faults>>
  BY DEF Register, Unregistered
<1>3. CASE UNCHANGED <<sub, last>> /\ End(r)
  <2>1. req' \in [Requests -> Request] /\ CountsInv'
    BY <1>2, <1>3, EndMoves, QuietMove DEF Early, Late
  <2> QED BY <1>1, <1>2, <1>3, <2>1 DEF IndInv, TypeOK, closing
<1>4. CASE ~UNCHANGED <<sub, last>> \/ ~End(r)
  <2> DEFINE q0 == [req[r] EXCEPT !.pc = "limits", !.signal = last + 1]
  <2>1. /\ last' = last + 1
        /\ sub' = [sub EXCEPT ![req[r].fp] =
                     [signal |-> last + 1,
                      trade |-> IF req[r].loaded.trade # 0 THEN 0 ELSE @.trade]]
        /\ End(r) \/ req' = [req EXCEPT ![r].pc = "limits", ![r].signal = last + 1]
    BY <1>4, Zenon DEF Register
  <2>2. req' = [req EXCEPT ![r] = Idle] \/ req' = [req EXCEPT ![r] = q0]
    BY <1>1, <2>1, EndMoves DEF TypeOK
  <2>3. Unregistered' \subseteq Unregistered \ {r} /\ Uncounted' \subseteq Uncounted
    <3>1. \A p \in Requests \ {r} : req'[p] = req[p]
      BY <1>1, <2>2 DEF TypeOK
    <3>2. q0.pc = "limits" /\ Idle.pc = "idle"
      BY <1>1 DEF Idle, Request
    <3>3. req'[r] = Idle \/ req'[r] = q0
      BY <1>1, <2>2 DEF TypeOK
    <3> HIDE DEF q0
    <3> QED BY <3>1, <3>2, <3>3 DEF Unregistered, Uncounted
  <2>4. last' \in 0..MaxSignals /\ CountsInv'
    BY <1>2, <2>1, <2>3, RegisterCounts DEF closing
  <2>5. q0 \in Request
    BY <1>1, <2>1, <2>4 DEF Request, Steps
  <2>6. req' \in [Requests -> Request]
    BY <1>1, <2>2, <2>5, HelperTypes DEF TypeOK
  <2>7. sub' \in [Fingerprints -> Submission]
    <3>1. \A f \in Fingerprints : sub[f] \in Submission /\ sub[f].trade \in 0..MaxSignals
      BY <1>1 DEF TypeOK, Submission
    <3>2. \A v \in 0..MaxSignals : [signal |-> last + 1, trade |-> v] \in Submission
      BY <2>1, <2>4 DEF Submission
    <3>3. 0 \in 0..MaxSignals
      BY SettingsAssumption
    <3> QED BY <1>1, <2>1, <3>1, <3>2, <3>3 DEF TypeOK
  <2> QED BY <1>1, <1>2, <2>4, <2>6, <2>7 DEF IndInv, TypeOK, closing
<1> QED BY <1>3, <1>4

LEMMA CheckLimitsInv ==
    ASSUME IndInv, NEW r \in Requests, CheckLimits(r)
    PROVE  IndInv'
<1>1. TypeOK
  BY DEF IndInv
<1>2. /\ total < MaxTradesPerDay /\ Goto(r, "exposure")
      /\ holder' \in Requests \cup Closers \cup {None}
      /\ UNCHANGED <<sub, trade, ord, last, today, total, closing, switch, overlap,
                   faults>>
  BY <1>1 DEF CheckLimits, BelowDailyCap, TypeOK
<1>3. PICK q \in Request : req' = [req EXCEPT ![r] = q] /\ q.pc = "exposure"
  BY <1>1, <1>2, GotoMoves DEF Steps
<1>4. /\ req' \in [Requests -> Request]
      /\ Unregistered' \subseteq Unregistered /\ Uncounted' \subseteq Requests
  BY <1>1, <1>3, Moves DEF Early
<1>5. CountsInv'
  BY <1>2, <1>4, LimitCounts DEF closing
<1> QED BY <1>1, <1>2, <1>4, <1>5 DEF IndInv, TypeOK, closing

(* The guards after the cap, refusals and the way to the statistics row. *)
LEMMA GuardInv ==
    ASSUME IndInv, NEW r \in Requests, CheckExposure(r) \/ Refuse(r) \/ Create(r)
    PROVE  IndInv'
<1>1. TypeOK
  BY DEF IndInv
<1>2. /\ UNCHANGED <<sub, trade, ord, last, total, closing, switch, overlap, faults>>
      /\ holder' \in Requests \cup Closers \cup {None} /\ today' \in BOOLEAN
  BY <1>1 DEF CheckExposure, Refuse, Create, TypeOK
<1>3. \/ r \in Uncounted /\ (Goto(r, "create") \/ Goto(r, "submit"))
      \/ End(r)
  BY DEF CheckExposure, Refuse, Create, Uncounted
<1>4. PICK q \in Request : /\ req' = [req EXCEPT ![r] = q]
                           /\ q.pc = "idle" \/ (r \in Uncounted /\ q.pc \in Late)
  BY <1>1, <1>3, GotoMoves, EndMoves DEF Steps, Late
<1>5. req' \in [Requests -> Request] /\ CountsInv'
  BY <1>2, <1>4, QuietMove DEF Early, Late
<1> QED BY <1>1, <1>2, <1>5 DEF IndInv, TypeOK, closing

LEMMA SubmitInv ==
    ASSUME IndInv, NEW r \in Requests,
           \/ SubmitAccepted(r) \/ SubmitRefused(r) \/ PostOnlyRefused(r)
           \/ \E fate \in {"transit", "working"} : SubmitLost(r, fate)
    PROVE  IndInv'
<1>1. TypeOK /\ req[r] \in Request /\ req \in [Requests -> Request]
  BY DEF IndInv, TypeOK
<1>2. /\ r \in Uncounted
      /\ UNCHANGED <<sub, trade, last, holder, today, total, closing, switch,
                   overlap, faults>>
  BY DEF SubmitAccepted, SubmitRefused, PostOnlyRefused, SubmitLost, Uncounted
<1>3. ord' \in [Signals -> [Links -> OrderState]]
  <2>1. ord \in [Signals -> [Links -> OrderState]]
    BY <1>1 DEF TypeOK
  <2>2. \/ ord' = ord
        \/ \E o \in {"transit", "working"} :
              ord' = [ord EXCEPT ![req[r].signal][req[r].link] = o]
    BY DEF SubmitAccepted, SubmitRefused, PostOnlyRefused, SubmitLost
  <2> QED BY <2>1, <2>2 DEF OrderState
<1>4. PICK q \in Request : req' = [req EXCEPT ![r] = q] /\ q.pc \in Late
  <2>1. CASE SubmitAccepted(r)
    <3> DEFINE q == [[[req[r] EXCEPT !.pc = "commit"] EXCEPT !.status = "ORDER_SUBMITTED"]
                       EXCEPT !.type = EntryType(req[r].link)]
    <3>1. q \in Request /\ q.pc = "commit"
      BY <1>1, HelperTypes DEF Request, Steps, TradeStatus
    <3>2. req' = [req EXCEPT ![r] = q]
      BY <1>1, <2>1 DEF SubmitAccepted
    <3> QED BY <3>1, <3>2 DEF Late
  <2>2. CASE SubmitRefused(r)
    <3> DEFINE q == [[req[r] EXCEPT !.pc = "commit"] EXCEPT !.status = "ORDER_REJECTED"]
    <3>1. q \in Request /\ q.pc = "commit"
      BY <1>1 DEF Request, Steps, TradeStatus
    <3>2. req' = [req EXCEPT ![r] = q]
      BY <1>1, <2>2 DEF SubmitRefused
    <3> QED BY <3>1, <3>2 DEF Late
  <2>3. CASE PostOnlyRefused(r)
    <3> DEFINE q == [req[r] EXCEPT !.link = 2]
    <3>1. q \in Request /\ q.pc = "submit"
      BY <1>1, <2>3 DEF Request, Links, PostOnlyRefused
    <3>2. req' = [req EXCEPT ![r] = q]
      BY <1>1, <2>3 DEF PostOnlyRefused
    <3> QED BY <3>1, <3>2 DEF Late
  <2>4. CASE \E fate \in {"transit", "working"} : SubmitLost(r, fate)
    <3> DEFINE q == [[req[r] EXCEPT !.pc = "resolve"] EXCEPT !.status = "ORDER_PENDING_UNKNOWN"]
    <3>1. q \in Request /\ q.pc = "resolve"
      BY <1>1 DEF Request, Steps, TradeStatus
    <3>2. req' = [req EXCEPT ![r] = q]
      BY <1>1, <2>4 DEF SubmitLost
    <3> QED BY <3>1, <3>2 DEF Late
  <2> QED BY <2>1, <2>2, <2>3, <2>4
<1>5. req' \in [Requests -> Request] /\ CountsInv'
  BY <1>2, <1>4, QuietMove DEF Early, Late
<1> QED BY <1>1, <1>2, <1>3, <1>5 DEF IndInv, TypeOK, closing

LEMMA ResolveInv ==
    ASSUME IndInv, NEW r \in Requests, Resolve(r) \/ ResolveFails(r)
    PROVE  IndInv'
<1>1. TypeOK /\ req[r] \in Request /\ req \in [Requests -> Request]
  BY DEF IndInv, TypeOK
<1>2. /\ r \in Uncounted
      /\ UNCHANGED <<sub, trade, ord, last, today, total, closing, switch, overlap>>
  BY DEF Resolve, ResolveFails, Uncounted
<1>3. holder' \in Requests \cup Closers \cup {None} /\ faults' \in 0..MaxFaults
  BY <1>1, SettingsAssumption DEF Resolve, ResolveFails, TypeOK
<1>4. PICK q \in Request : req' = [req EXCEPT ![r] = q] /\ q.pc \in {"commit", "idle"}
  <2> DEFINE found == map_remote_order_status(ord[req[r].signal][req[r].link])
             q == [[req[r] EXCEPT !.pc = "commit"] EXCEPT !.status = found]
  <2>1. found \in TradeStatus
    BY HelperTypes
  <2>2. \/ req' = [req EXCEPT ![r].pc = "commit", ![r].status = found]
        \/ Goto(r, "commit") \/ End(r)
    BY Zenon DEF Resolve, ResolveFails
  <2> HIDE DEF found
  <2>3. q \in Request /\ q.pc = "commit"
    BY <1>1, <2>1 DEF Request, Steps
  <2>4. CASE req' = [req EXCEPT ![r].pc = "commit", ![r].status = found]
    <3>1. req' = [req EXCEPT ![r] = q]
      BY <1>1, <2>4
    <3> QED BY <2>3, <3>1
  <2>5. CASE Goto(r, "commit") \/ End(r)
    BY <1>1, <2>5, GotoMoves, EndMoves DEF Steps
  <2> QED BY <2>2, <2>4, <2>5
<1>5. req' \in [Requests -> Request] /\ CountsInv'
  BY <1>2, <1>4, QuietMove DEF Early, Late
<1> QED BY <1>1, <1>2, <1>3, <1>5 DEF IndInv, TypeOK, closing

LEMMA CommitInv ==
    ASSUME IndInv, NEW r \in Requests, Commit(r)
    PROVE  IndInv'
<1>1. TypeOK /\ req[r] \in Request
  BY DEF IndInv, TypeOK
<1>2. /\ r \in Uncounted /\ total' = total + 1 /\ holder' = None /\ today' = TRUE
      /\ entered' = entered + 1
      /\ UNCHANGED <<sub, ord, last, closed, closer, revived, lost, switch, overlap, faults>>
      /\ Goto(r, "link") \/ End(r)
      /\ trade' = [trade EXCEPT ![req[r].signal] = NewTrade(req[r])]
  BY DEF Commit, Released, Uncounted
<1>3. PICK q \in Request : req' = [req EXCEPT ![r] = q] /\ q.pc \in {"link", "idle"}
  BY <1>1, <1>2, GotoMoves, EndMoves DEF Steps
<1>4. /\ req' \in [Requests -> Request]
      /\ Unregistered' \subseteq Unregistered /\ Uncounted' \subseteq Uncounted \ {r}
  BY <1>1, <1>3, Moves DEF Early, Late
<1>5. CountsInv'
  BY <1>2, <1>4, CommitCounts
<1>6. trade' \in [Signals -> Trade]
  <2>1. NewTrade(req[r]) \in Trade
    BY <1>1 DEF NewTrade, Trade, Request
  <2> QED BY <1>1, <1>2, <2>1 DEF TypeOK
<1>7. total' \in Nat /\ entered' \in Nat
  BY <1>1, <1>2 DEF TypeOK
<1> QED BY <1>1, <1>2, <1>4, <1>5, <1>6, <1>7 DEF IndInv, TypeOK, closing

LEMMA LinkInv ==
    ASSUME IndInv, NEW r \in Requests, Link(r)
    PROVE  IndInv'
<1>1. TypeOK /\ req[r].signal \in 0..MaxSignals
  BY DEF IndInv, TypeOK, Request
<1>2. /\ UNCHANGED <<trade, ord, last, holder, today, total, closing, switch,
                   overlap, faults>>
      /\ End(r) /\ sub' = [sub EXCEPT ![req[r].fp].trade = req[r].signal]
  BY DEF Link
<1>3. req' \in [Requests -> Request] /\ CountsInv'
  BY <1>2, EndMoves, QuietMove DEF Early, Late
<1>4. sub' \in [Fingerprints -> Submission]
  BY <1>1, <1>2 DEF TypeOK, Submission
<1> QED BY <1>1, <1>2, <1>3, <1>4 DEF IndInv, TypeOK, closing

(* The exchange, the synchronisation and the kill switch leave the requests *)
(* alone.                                                                   *)
LEMMA SurroundingsInv ==
    ASSUME IndInv,
           \/ \E s \in Signals, k \in Links : Exchange(s, k)
           \/ \E s \in Signals : Sync(s)
           \/ \E S \in SUBSET Signals : ActivateKillSwitch(S)
           \/ KillSwitchOn
           \/ ResetKillSwitch
    PROVE  IndInv'
<1>1. TypeOK
  BY DEF IndInv
<1>2. UNCHANGED <<sub, last, req, holder, today, total, closed, closer, entered, lost,
                 overlap, faults>>
  BY DEF Exchange, Sync, ActivateKillSwitch, KillSwitchOn, ResetKillSwitch, closing
<1>3. CountsInv'
  <2>1. Unregistered' = Unregistered /\ Uncounted' = Uncounted
    BY <1>2 DEF Unregistered, Uncounted
  <2> QED BY <1>2, <2>1, QuietStep
<1>4. switch' \in {"off", "activating", "on"}
  BY <1>1 DEF Exchange, Sync, ActivateKillSwitch, KillSwitchOn, ResetKillSwitch, TypeOK
<1>5. ord' \in [Signals -> [Links -> OrderState]]
  <2>1. ord \in [Signals -> [Links -> OrderState]]
    BY <1>1 DEF TypeOK
  <2>2. CASE \E s \in Signals, k \in Links : Exchange(s, k)
    <3>1. PICK s \in Signals, k \in Links, o \in {"working"} \cup Endings :
             ord' = [ord EXCEPT ![s][k] = o]
      BY <2>2 DEF Exchange
    <3> QED BY <2>1, <3>1, SettingsAssumption DEF OrderState
  <2>3. CASE \E S \in SUBSET Signals : ActivateKillSwitch(S)
    <3>1. PICK S \in SUBSET Signals : ActivateKillSwitch(S)
      BY <2>3
    <3> QED BY <2>1, <3>1 DEF ActivateKillSwitch, OrderState
  <2>4. CASE ord' = ord
    BY <2>1, <2>4
  <2> QED BY <2>2, <2>3, <2>4 DEF Sync, KillSwitchOn, ResetKillSwitch
<1>6. trade' \in [Signals -> Trade]
  <2>1. trade \in [Signals -> Trade]
    BY <1>1 DEF TypeOK
  <2>2. \/ trade' = trade
        \/ \E s \in Signals, t \in TradeStatus : trade' = [trade EXCEPT ![s].status = t]
    BY DEF Exchange, Sync, ActivateKillSwitch, KillSwitchOn, ResetKillSwitch
  <2> QED BY <2>1, <2>2 DEF Trade
<1>7. revived' \subseteq Signals
  BY <1>1 DEF Exchange, Sync, ActivateKillSwitch, KillSwitchOn, ResetKillSwitch, TypeOK,
     closing
<1> QED BY <1>1, <1>2, <1>3, <1>4, <1>5, <1>6, <1>7 DEF IndInv, TypeOK

(* A session reads the statistics row ... *)
LEMMA BeginOutcomeInv ==
    ASSUME IndInv, NEW c \in Closers, NEW s \in Signals \cup {0}, BeginOutcome(c, s)
    PROVE  IndInv'
<1>1. TypeOK
  BY DEF IndInv
<1>2. /\ UNCHANGED <<sub, trade, ord, last, req, today, total, closed, revived, entered,
                    lost, switch, overlap, faults>>
      /\ closer' = [closer EXCEPT ![c] = [busy |-> TRUE, trade |-> s, total |-> total,
                                         closed |-> closed]]
      /\ holder' \in Requests \cup Closers \cup {None}
  BY <1>1 DEF BeginOutcome, TypeOK
<1>3. closer' \in [Closers -> Closer]
  <2>1. [busy |-> TRUE, trade |-> s, total |-> total, closed |-> closed] \in Closer
    BY <1>1, SettingsAssumption DEF Closer, Signals, TypeOK
  <2> QED BY <1>1, <1>2, <2>1 DEF TypeOK
<1>4. CountsInv'
  <2>1. Unregistered' = Unregistered /\ Uncounted' = Uncounted
    BY <1>2 DEF Unregistered, Uncounted
  <2> QED BY <1>2, <2>1, QuietStep
<1> QED BY <1>1, <1>2, <1>3, <1>4 DEF IndInv, TypeOK

(* ... and writes it: what it writes over is remembered as lost. *)
LEMMA EndOutcomeInv ==
    ASSUME IndInv, NEW c \in Closers, EndOutcome(c)
    PROVE  IndInv'
<1> DEFINE x == closer[c]
<1>1. TypeOK /\ CountsInv /\ x \in Closer
  BY DEF IndInv, TypeOK
<1>2. /\ x.total \in Nat /\ x.trade \in 0..MaxSignals /\ x.closed \in [Outcomes -> Nat]
      /\ total \in Nat /\ lost \in Nat /\ entered \in Nat /\ last \in Nat
  BY <1>1 DEF Closer, TypeOK
<1>3. /\ UNCHANGED <<sub, ord, last, req, revived, entered, switch, overlap, faults>>
      /\ today' = TRUE /\ holder' = None
  BY DEF EndOutcome
<1>4. PICK n \in Nat : /\ total' = n
                       /\ lost' = IF n < total THEN lost + total - n ELSE lost
  <2> DEFINE n == IF x.total <= x.closed["won"] + x.closed["lost"]
                  THEN x.total + 1 ELSE total
  <2>1. n \in Nat
    BY <1>2
  <2>2. total' = n /\ lost' = IF n < total THEN lost + total - n ELSE lost
    BY Zenon DEF EndOutcome
  <2> QED BY <2>1, <2>2
<1>5. lost' \in Nat /\ lost <= lost' /\ total + lost <= total' + lost'
  BY <1>2, <1>4
<1>6. CountsInv'
  <2>1. Unregistered' = Unregistered /\ Uncounted' = Uncounted
    BY <1>3 DEF Unregistered, Uncounted
  <2>2. /\ Cardinality(Uncounted) \in Nat /\ Cardinality(Requests) \in Nat
        /\ Cardinality(Unregistered) \in Nat
    BY RequestSets, FS_CardinalityType
  <2> QED BY <1>1, <1>2, <1>3, <1>4, <1>5, <2>1, <2>2, SettingsAssumption DEF CountsInv
<1>7. closed' \in [Outcomes -> Nat]
  <2>1. PICK k \in Outcomes : closed' = [closed EXCEPT ![k] = x.closed[k] + 1]
    BY DEF EndOutcome
  <2> QED BY <1>1, <1>2, <2>1 DEF TypeOK
<1>8. closer' \in [Closers -> Closer]
  BY <1>1, HelperTypes DEF EndOutcome, TypeOK
<1>9. trade' \in [Signals -> Trade]
  <2>1. trade' = trade \/ trade' = [trade EXCEPT ![x.trade].status = "PNL_RECORDED"]
    BY Zenon DEF EndOutcome
  <2>2. "PNL_RECORDED" \in TradeStatus
    BY DEF TradeStatus
  <2>3. trade \in [Signals -> Trade] /\ "PNL_RECORDED" \in TradeStatus
    BY <1>1, <2>2 DEF TypeOK
  <2>4. PICK u : u = x.trade
    OBVIOUS
  <2> HIDE DEF x
  <2> QED BY <2>1, <2>3, <2>4 DEF Trade
<1> QED BY <1>1, <1>3, <1>4, <1>5, <1>6, <1>7, <1>8, <1>9 DEF IndInv, TypeOK

LEMMA CrashInv ==
    ASSUME IndInv, Crash
    PROVE  IndInv'
<1>1. TypeOK
  BY DEF IndInv
<1>2. /\ UNCHANGED <<sub, trade, ord, last, today, total, closed, revived, entered, lost,
                    overlap>>
      /\ req' = [r \in Requests |-> Idle] /\ holder' = None
      /\ closer' \in [Closers -> Closer]
  BY HelperTypes DEF Crash
<1>3. faults' \in 0..MaxFaults /\ switch' \in {"off", "activating", "on"}
  BY <1>1, SettingsAssumption DEF Crash, TypeOK
<1>4. req' \in [Requests -> Request]
  BY <1>2, HelperTypes
<1>5. Unregistered' = {} /\ Uncounted' = {}
  BY <1>2 DEF Unregistered, Uncounted, Idle
<1>6. CountsInv'
  BY <1>2, <1>5, QuietStep
<1> QED BY <1>1, <1>2, <1>3, <1>4, <1>6 DEF IndInv, TypeOK, closing

LEMMA NextInv == IndInv /\ [Next]_vars => IndInv'
<1> SUFFICES ASSUME IndInv, [Next]_vars PROVE IndInv'
  OBVIOUS
<1>1. CASE \E r \in Requests, f \in Fingerprints : Begin(r, f)
  BY <1>1, BeginInv
<1>2. CASE \E r \in Requests : Serve(r)
  <2>1. PICK r \in Requests : Serve(r)
    BY <1>2
  <2>2. CASE Recheck(r)
    BY <2>2, RecheckInv
  <2>3. CASE Register(r)
    BY <2>3, RegisterInv
  <2>4. CASE CheckLimits(r)
    BY <2>4, CheckLimitsInv
  <2>5. CASE CheckExposure(r) \/ Refuse(r) \/ Create(r)
    BY <2>5, GuardInv
  <2>6. CASE \/ SubmitAccepted(r) \/ SubmitRefused(r) \/ PostOnlyRefused(r)
             \/ \E fate \in {"transit", "working"} : SubmitLost(r, fate)
    BY <2>6, SubmitInv
  <2>7. CASE Resolve(r) \/ ResolveFails(r)
    BY <2>7, ResolveInv
  <2>8. CASE Commit(r)
    BY <2>8, CommitInv
  <2>9. CASE Link(r)
    BY <2>9, LinkInv
  <2> QED BY <2>1, <2>2, <2>3, <2>4, <2>5, <2>6, <2>7, <2>8, <2>9 DEF Serve
<1>3. CASE \/ \E s \in Signals, k \in Links : Exchange(s, k)
           \/ \E s \in Signals : Sync(s)
           \/ \E S \in SUBSET Signals : ActivateKillSwitch(S)
           \/ KillSwitchOn
           \/ ResetKillSwitch
  BY <1>3, SurroundingsInv
<1>4. CASE \E c \in Closers, s \in Signals \cup {0} : BeginOutcome(c, s)
  BY <1>4, BeginOutcomeInv
<1>5. CASE \E c \in Closers : EndOutcome(c)
  BY <1>5, EndOutcomeInv
<1>6. CASE Crash
  BY <1>6, CrashInv
<1>7. CASE UNCHANGED vars
  <2>1. Unregistered' = Unregistered /\ Uncounted' = Uncounted
    BY <1>7 DEF vars, Unregistered, Uncounted
  <2>2. CountsInv'
    BY <1>7, <2>1, QuietStep DEF vars, closing
  <2> QED BY <1>7, <2>2 DEF vars, closing, IndInv, TypeOK
<1> QED BY <1>1, <1>2, <1>3, <1>4, <1>5, <1>6, <1>7 DEF Next

-----------------------------------------------------------------------------
(* The inductive invariant holds in every state, for any set of requests    *)
(* and fingerprints and any limits: every commit point of execute_signal    *)
(* and execute, a crash and the kill switch included, keeps it.             *)
THEOREM Inductive == Spec => []IndInv
  BY InitInv, NextInv, PTL DEF Spec

(* The tables, the exchange's orders and the requests keep their types: no  *)
(* step persists a signal id beyond the ones reserved, or a status that     *)
(* trade_journal does not know.                                             *)
THEOREM TypeCorrect == Spec => []TypeOK
<1>1. IndInv => TypeOK
  BY DEF IndInv
<1> QED BY Inductive, <1>1, PTL

(* However many requests run at once and outcomes are recorded, the trades  *)
(* of a day exceed the daily cap, checked before the order and counted      *)
(* after it, by at most the number of requests less one and the counts that *)
(* outcomes have written over.                                              *)
THEOREM CapOverrun == Spec => []CapOverrunBounded
<1>1. IndInv => CapOverrunBounded
  <2> SUFFICES ASSUME IndInv PROVE CapOverrunBounded
    OBVIOUS
  <2>1. Cardinality(Uncounted) \in Nat /\ Cardinality(Requests) \in Nat
    BY RequestSets, FS_CardinalityType
  <2> QED BY <2>1, SettingsAssumption DEF IndInv, CountsInv, TypeOK, CapOverrunBounded
<1> QED BY Inductive, <1>1, PTL

-----------------------------------------------------------------------------
(* What the exchange knows of an entry, what the row says of it and which   *)
(* request has it in hand: the invariant behind RowAgreesWithExchange and   *)
(* NoStrandedOrder.                                                         *)

Committed(s) == trade[s].status # "NONE"

(* The exchange has never seen an order of o. *)
Unsent(o) == \A k \in Links : o[k] = "none"

(* Of the orders o only k was sent, and status says nothing of it that is  *)
(* not so.                                                                  *)
Told(o, status, k) ==
    /\ \A j \in Links : j # k => o[j] = "none"
    /\ status = "ORDER_REJECTED" => o[k] \in {"none", "rejected"}
    /\ status = "ORDER_SUBMITTED" => Known(o[k])
    /\ status = "ORDER_CANCELLED" => o[k] = "cancelled"
    /\ status \in FilledStatus \cup {"PNL_RECORDED"} => o[k] = "filled"

(* A request with a registered signal, before and after its order is sent.  *)
Before == {"limits", "exposure", "create", "submit"}
After == {"resolve", "commit"}
AtWork(q) == q.pc \in Before \cup After

Hand(q) ==
    /\ AtWork(q) => q.signal \in 1..last /\ ~Committed(q.signal)
    /\ q.pc \in Before => Unsent(ord[q.signal])
    /\ q.pc \in After => /\ q.status # "NONE"
                         /\ Told(ord[q.signal], q.status, q.link)
    /\ q.pc = "resolve" => q.status = "ORDER_PENDING_UNKNOWN"

Row(s) ==
    /\ Committed(s) => s <= last /\ Told(ord[s], trade[s].status, trade[s].link)
    /\ ~Committed(s) => trade[s].fp = None
    /\ s > last => Unsent(ord[s])

(* Nobody but its request, or a fault, leaves a sent order without a row.   *)
Kept(s) ==
    ~Committed(s) /\ ~Unsent(ord[s]) =>
        faults > 0 \/ \E r \in Requests : AtWork(req[r]) /\ req[r].signal = s

OwnSignals ==
    \A r, q \in Requests :
        AtWork(req[r]) /\ AtWork(req[q]) /\ req[r].signal = req[q].signal => r = q

OrderInv ==
    /\ \A s \in Signals : Row(s) /\ Kept(s)
    /\ \A r \in Requests : Hand(req[r])
    /\ OwnSignals

Final == {"filled", "cancelled", "rejected"}

(* The exchange forgets no order and takes none back. *)
LEMMA StillTold ==
    ASSUME NEW o, NEW p, NEW status, NEW k \in Links,
           \A j \in Links : /\ (o[j] = "none") = (p[j] = "none")
                            /\ Known(o[j]) => Known(p[j])
                            /\ o[j] \in Final => p[j] = o[j]
    PROVE  /\ Unsent(o) = Unsent(p)
           /\ Told(o, status, k) => Told(p, status, k)
  BY DEF Unsent, Told, Final

LEMMA OrderTypes ==
    ASSUME TypeOK
    PROVE  /\ req \in [Requests -> Request] /\ trade \in [Signals -> Trade]
           /\ ord \in [Signals -> [Links -> OrderState]]
           /\ \A s \in Signals : trade[s].link \in Links /\ trade[s].status \in TradeStatus
           /\ \A r \in Requests : req[r].link \in Links /\ req[r].signal \in 0..MaxSignals
           /\ last \in Nat /\ last <= MaxSignals /\ faults \in Nat /\ MaxSignals \in Nat
           /\ 1..last \subseteq Signals
  BY SettingsAssumption DEF TypeOK, Trade, Request, Signals

LEMMA InitOrders == Init => OrderInv
  BY DEF Init, OrderInv, Row, Kept, Hand, OwnSignals, Committed, Unsent, AtWork,
     Idle, Before, After, Signals

(* A request ends, or goes on to another step with its signal. *)
LEMMA RequestMoves ==
    ASSUME TypeOK, OrderInv, NEW r \in Requests, NEW q,
           req' = [req EXCEPT ![r] = q], UNCHANGED <<trade, ord, last>>,
           faults' = faults \/ faults' > 0,
           AtWork(q) => AtWork(req[r]) /\ q.signal = req[r].signal /\ Hand(q),
           ~AtWork(q) /\ AtWork(req[r]) => faults' > 0 \/ Unsent(ord[req[r].signal])
    PROVE  OrderInv'
<1>1. /\ \A p \in Requests \ {r} : req'[p] = req[p]
      /\ req'[r] = q
  BY OrderTypes
<1>2. /\ \A s \in Signals : Row(s)' = Row(s)
      /\ \A s \in Signals : Committed(s)' = Committed(s)
      /\ \A p : Hand(p)' = Hand(p)
  BY Zenon DEF Row, Committed, Hand
<1>3. \A p \in Requests : Hand(req[p])'
  <2>1. \A p \in Requests : Hand(req'[p])
    <3>1. ~AtWork(q) => Hand(q)
      BY DEF Hand, AtWork, Before, After
    <3> QED BY <1>1, <3>1 DEF OrderInv
  <2> QED BY <2>1 DEF Hand, Committed
<1>4. \A s \in Signals : Kept(s)'
  <2> SUFFICES ASSUME NEW s \in Signals, ~Committed(s), ~Unsent(ord[s]), ~(faults' > 0)
               PROVE  \E p \in Requests : AtWork(req'[p]) /\ req'[p].signal = s
    BY DEF Kept, Committed
  <2>1. PICK p \in Requests : AtWork(req[p]) /\ req[p].signal = s
    BY DEF OrderInv, Kept
  <2> QED BY <1>1, <2>1
<1>5. OwnSignals'
  <2>1. \A p \in Requests : AtWork(req'[p]) => AtWork(req[p]) /\ req'[p].signal = req[p].signal
    BY <1>1
  <2> QED BY <2>1 DEF OrderInv, OwnSignals, AtWork
<1> QED BY <1>2, <1>3, <1>4, <1>5 DEF OrderInv
(* The exchange moves: no order appears, and what was told stays true. *)
LEMMA OrdersMove ==
    ASSUME TypeOK, OrderInv, UNCHANGED <<trade, last, req>>,
           faults' = faults \/ faults' > 0,
           \A s \in Signals : \A j \in Links :
               /\ (ord[s][j] = "none") = (ord'[s][j] = "none")
               /\ Known(ord[s][j]) => Known(ord'[s][j])
               /\ ord[s][j] \in Final => ord'[s][j] = ord[s][j]
    PROVE  OrderInv'
<1>1. \A s \in Signals : /\ Unsent(ord[s]) = Unsent(ord'[s])
                         /\ \A status : \A k \in Links :
                              Told(ord[s], status, k) => Told(ord'[s], status, k)
  <2> SUFFICES ASSUME NEW s \in Signals, NEW status, NEW k \in Links
               PROVE  /\ Unsent(ord[s]) = Unsent(ord'[s])
                      /\ Told(ord[s], status, k) => Told(ord'[s], status, k)
    BY DEF Links
  <2> QED BY StillTold
<1>2. \A s : Committed(s)' = Committed(s)
  BY DEF Committed
<1>3. \A s \in Signals : Row(s)' /\ Kept(s)'
  <2> SUFFICES ASSUME NEW s \in Signals PROVE Row(s)' /\ Kept(s)'
    OBVIOUS
  <2>1. Row(s) /\ Kept(s) /\ trade[s].link \in Links
    BY OrderTypes DEF OrderInv
  <2> QED BY <1>1, <1>2, <2>1 DEF Row, Kept
<1>4. \A r \in Requests : Hand(req[r])'
  <2> SUFFICES ASSUME NEW r \in Requests PROVE Hand(req[r])'
    OBVIOUS
  <2>1. Hand(req[r]) /\ req[r].link \in Links /\ (AtWork(req[r]) => req[r].signal \in Signals)
    BY OrderTypes DEF OrderInv, Hand
  <2> QED BY <1>1, <1>2, <2>1 DEF Hand, AtWork
<1>5. OwnSignals'
  BY DEF OrderInv, OwnSignals
<1> QED BY <1>3, <1>4, <1>5 DEF OrderInv

(* A committed row gets a status that the exchange has told; no request     *)
(* that is at work moves.                                                   *)
LEMMA StatusMoves ==
    ASSUME TypeOK, OrderInv, UNCHANGED <<ord, last, faults>>,
           NEW t \in Signals, Committed(t), NEW status,
           status # "NONE", Told(ord[t], status, trade[t].link),
           trade' = [trade EXCEPT ![t].status = status],
           \A r \in Requests : AtWork(req[r]) \/ AtWork(req'[r]) => req'[r] = req[r]
    PROVE  OrderInv'
<1>1. /\ \A s \in Signals \ {t} : trade'[s] = trade[s]
      /\ trade'[t].status = status /\ trade'[t].link = trade[t].link
  BY OrderTypes DEF Trade
<1>2. \A s \in Signals : Committed(s)' = Committed(s)
  BY <1>1 DEF Committed
<1>3. \A s \in Signals : Row(s)'
  <2> SUFFICES ASSUME NEW s \in Signals PROVE Row(s)'
    OBVIOUS
  <2>1. Row(s)
    BY DEF OrderInv
  <2> QED BY <1>1, <1>2, <2>1 DEF Row
<1>4. \A s \in Signals : Kept(s)'
  <2> SUFFICES ASSUME NEW s \in Signals PROVE Kept(s)'
    OBVIOUS
  <2>1. Kept(s)
    BY DEF OrderInv
  <2> QED BY <1>2, <2>1 DEF Kept
<1>5. \A r \in Requests : Hand(req[r])'
  <2> SUFFICES ASSUME NEW r \in Requests PROVE Hand(req[r])'
    OBVIOUS
  <2>1. CASE AtWork(req'[r])
    <3>1. Hand(req[r]) /\ req'[r] = req[r] /\ (AtWork(req[r]) => req[r].signal \in Signals)
      BY <2>1, OrderTypes DEF OrderInv, Hand
    <3> QED BY <1>2, <3>1 DEF Hand
  <2>2. CASE ~AtWork(req'[r])
    BY <2>2 DEF Hand, AtWork, Before, After
  <2> QED BY <2>1, <2>2
<1>6. OwnSignals'
  BY DEF OrderInv, OwnSignals, AtWork
<1> QED BY <1>3, <1>4, <1>5, <1>6 DEF OrderInv

(* A signal is new when it is persisted: nobody has it, nothing was sent. *)
LEMMA NewSignal ==
    ASSUME TypeOK, OrderInv, UNCHANGED <<trade, ord, faults>>,
           last' = last + 1, last' <= MaxSignals,
           NEW r \in Requests, NEW q, req' = [req EXCEPT ![r] = q], ~AtWork(req[r]),
           AtWork(q) => q.pc = "limits" /\ q.signal = last + 1
    PROVE  OrderInv'
<1>1. /\ \A p \in Requests \ {r} : req'[p] = req[p]
      /\ req'[r] = q
  BY OrderTypes
<1>2. last + 1 \in Signals /\ last \in Nat
  BY OrderTypes DEF Signals
<1>3. ~Committed(last + 1) /\ Unsent(ord[last + 1])
  <2>1. Row(last + 1) /\ last + 1 > last /\ ~(last + 1 <= last)
    BY <1>2 DEF OrderInv
  <2> QED BY <2>1 DEF Row
<1>4. \A s : Committed(s)' = Committed(s)
  BY DEF Committed
<1>5. \A s \in Signals : Row(s)'
  <2> SUFFICES ASSUME NEW s \in Signals PROVE Row(s)'
    OBVIOUS
  <2>1. Row(s) /\ s \in Int
    BY DEF OrderInv, Signals
  <2> QED BY <1>2, <1>4, <2>1 DEF Row
<1>6. \A s \in Signals : Kept(s)'
  <2> SUFFICES ASSUME NEW s \in Signals PROVE Kept(s)'
    OBVIOUS
  <2>1. Kept(s)
    BY DEF OrderInv
  <2> QED BY <1>1, <1>4, <2>1 DEF Kept
<1>7. \A p \in Requests : Hand(req[p])'
  <2> SUFFICES ASSUME NEW p \in Requests PROVE Hand(req[p])'
    OBVIOUS
  <2>1. CASE AtWork(req'[p]) /\ p # r
    <3>1. Hand(req[p]) /\ req'[p] = req[p] /\ 1..last \subseteq 1..(last + 1)
      BY <1>1, <1>2, <2>1 DEF OrderInv
    <3> QED BY <1>4, <3>1 DEF Hand
  <2>2. CASE AtWork(req'[p]) /\ p = r
    <3>1. req'[p].pc = "limits" /\ req'[p].signal = last + 1 /\ last + 1 \in 1..(last + 1)
      BY <1>1, <1>2, <2>2
    <3> QED BY <1>3, <1>4, <3>1 DEF Hand, After
  <2>3. CASE ~AtWork(req'[p])
    BY <2>3 DEF Hand, AtWork, Before, After
  <2> QED BY <2>1, <2>2, <2>3
<1>8. OwnSignals'
  <2>1. \A p \in Requests : AtWork(req[p]) => req[p].signal # last + 1
    BY <1>2 DEF OrderInv, Hand
  <2>2. \A p \in Requests : AtWork(req'[p]) =>
            \/ p # r /\ req'[p] = req[p]
            \/ p = r /\ req'[p].signal = last + 1
    BY <1>1
  <2> QED BY <2>1, <2>2 DEF OrderInv, OwnSignals, AtWork
<1> QED BY <1>5, <1>6, <1>7, <1>8 DEF OrderInv

(* A request sends its order; nobody else has the signal. *)
LEMMA OrderSent ==
    ASSUME TypeOK, OrderInv, UNCHANGED <<trade, last, faults>>,
           NEW r \in Requests, req[r].pc = "submit", NEW o \in {"transit", "working"},
           ord' = [ord EXCEPT ![req[r].signal][req[r].link] = o],
           NEW q, req' = [req EXCEPT ![r] = q],
           q.pc \in After, q.signal = req[r].signal, q.link = req[r].link,
           \/ q.pc = "commit" /\ q.status = "ORDER_SUBMITTED" /\ o = "working"
           \/ q.status = "ORDER_PENDING_UNKNOWN"
    PROVE  OrderInv'
<1> DEFINE s0 == req[r].signal
           k0 == req[r].link
<1>1. /\ \A p \in Requests \ {r} : req'[p] = req[p]
      /\ req'[r] = q
  BY OrderTypes
<1>2. /\ s0 \in Signals /\ s0 <= last /\ ~Committed(s0) /\ Unsent(ord[s0]) /\ k0 \in Links
      /\ AtWork(req[r]) /\ AtWork(q) /\ s0 \in 1..last
  BY OrderTypes DEF OrderInv, Hand, AtWork, Before
<1>3. /\ \A s \in Signals \ {s0} : ord'[s] = ord[s]
      /\ \A j \in Links : ord'[s0][j] = IF j = k0 THEN o ELSE ord[s0][j]
  BY <1>2, OrderTypes
<1>4. \A s : Committed(s)' = Committed(s)
  BY DEF Committed
<1>5. \A s \in Signals : Row(s)'
  <2> SUFFICES ASSUME NEW s \in Signals PROVE Row(s)'
    OBVIOUS
  <2>1. Row(s) /\ s \in Int /\ last \in Int
    BY OrderTypes DEF OrderInv, Signals
  <2>2. CASE s = s0
    BY <1>2, <1>4, <2>1, <2>2 DEF Row
  <2>3. CASE s # s0
    BY <1>3, <1>4, <2>1, <2>3 DEF Row
  <2> QED BY <2>2, <2>3
<1>6. \A s \in Signals : Kept(s)'
  <2> SUFFICES ASSUME NEW s \in Signals PROVE Kept(s)'
    OBVIOUS
  <2>1. CASE s = s0
    BY <1>1, <1>2, <2>1 DEF Kept
  <2>2. CASE s # s0
    <3>1. Kept(s) /\ ord'[s] = ord[s]
      BY <1>3, <2>2 DEF OrderInv
    <3> QED BY <1>1, <1>2, <1>4, <3>1, <2>2 DEF Kept
  <2> QED BY <2>1, <2>2
<1>7. \A p \in Requests : Hand(req[p])'
  <2> SUFFICES ASSUME NEW p \in Requests PROVE Hand(req[p])'
    OBVIOUS
  <2>1. CASE AtWork(req'[p]) /\ p # r
    <3>1. Hand(req[p]) /\ req'[p] = req[p]
      BY <1>1, <2>1 DEF OrderInv
    <3>2. req[p].signal # s0 /\ req[p].signal \in Signals
      BY <1>2, <2>1, <3>1, OrderTypes DEF OrderInv, OwnSignals, Hand
    <3> QED BY <1>3, <1>4, <3>1, <3>2 DEF Hand
  <2>2. CASE p = r
    <3>1. Told(ord'[s0], q.status, k0)
      BY <1>2, <1>3 DEF Told, Unsent, Known, FilledStatus
    <3> QED BY <1>1, <1>2, <1>4, <2>2, <3>1 DEF Hand, AtWork, Before, After
  <2>3. CASE ~AtWork(req'[p])
    BY <2>3 DEF Hand, AtWork, Before, After
  <2> QED BY <2>1, <2>2, <2>3
<1>8. OwnSignals'
  <2>1. \A p \in Requests : AtWork(req'[p]) => AtWork(req[p]) /\ req'[p].signal = req[p].signal
    BY <1>1, <1>2
  <2> QED BY <2>1 DEF OrderInv, OwnSignals, AtWork
<1> QED BY <1>5, <1>6, <1>7, <1>8 DEF OrderInv

(* The row is committed with what the request has been told. *)
LEMMA RowCommitted ==
    ASSUME TypeOK, OrderInv, NEW r \in Requests, Commit(r)
    PROVE  OrderInv'
<1> DEFINE s0 == req[r].signal
<1>1. /\ UNCHANGED <<ord, last, faults>>
      /\ \A p \in Requests \ {r} : req'[p] = req[p]
      /\ ~AtWork(req'[r])
  BY OrderTypes DEF Commit, Goto, End, Idle, AtWork, Before, After, Request
<1>2. /\ s0 \in Signals /\ s0 \in 1..last /\ ~Committed(s0) /\ AtWork(req[r])
      /\ req[r].status # "NONE" /\ Told(ord[s0], req[r].status, req[r].link)
  BY OrderTypes DEF Commit, OrderInv, Hand, AtWork, After
<1>3. /\ trade'[s0] = NewTrade(req[r])
      /\ \A s \in Signals \ {s0} : trade'[s] = trade[s]
  BY <1>2, OrderTypes DEF Commit
<1>4. \A s \in Signals : Committed(s)' = (s = s0 \/ Committed(s))
  BY <1>2, <1>3 DEF Committed, NewTrade
<1>5. \A s \in Signals : Row(s)' /\ Kept(s)'
  <2> SUFFICES ASSUME NEW s \in Signals PROVE Row(s)' /\ Kept(s)'
    OBVIOUS
  <2>1. CASE s = s0
    <3>1. s <= last /\ ~(s > last)
      BY <1>2, <2>1, OrderTypes
    <3>2. Committed(s)'
      BY <1>4, <2>1
    <3>3. trade'[s].status = req[r].status /\ trade'[s].link = req[r].link
      BY <1>3, <2>1 DEF NewTrade
    <3>4. Told(ord[s], req[r].status, req[r].link)
      BY <1>2, <2>1
    <3> QED BY <1>1, <3>1, <3>2, <3>3, <3>4 DEF Row, Kept
  <2>2. CASE s # s0
    <3>1. Row(s) /\ Kept(s)
      BY DEF OrderInv
    <3>2. Row(s)'
      BY <1>1, <1>3, <1>4, <2>2, <3>1 DEF Row
    <3>3. Kept(s)'
      BY <1>1, <1>4, <2>2, <3>1 DEF Kept
    <3> QED BY <3>2, <3>3
  <2> QED BY <2>1, <2>2
<1>6. \A p \in Requests : Hand(req[p])'
  <2> SUFFICES ASSUME NEW p \in Requests PROVE Hand(req[p])'
    OBVIOUS
  <2>1. CASE AtWork(req'[p])
    <3>1. p # r /\ Hand(req[p]) /\ req'[p] = req[p]
      BY <1>1, <2>1 DEF OrderInv
    <3>2. req[p].signal # s0 /\ req[p].signal \in Signals
      BY <1>2, <2>1, <3>1, OrderTypes DEF OrderInv, OwnSignals, Hand
    <3> QED BY <1>1, <1>4, <3>1, <3>2 DEF Hand
  <2>2. CASE ~AtWork(req'[p])
    BY <2>2 DEF Hand, AtWork, Before, After
  <2> QED BY <2>1, <2>2
<1>7. OwnSignals'
  <2>1. \A p \in Requests : AtWork(req'[p]) => req'[p] = req[p]
    BY <1>1
  <2> QED BY <2>1 DEF OrderInv, OwnSignals, AtWork
<1> QED BY <1>5, <1>6, <1>7 DEF OrderInv

-----------------------------------------------------------------------------
(* Which fingerprint a signal and its trade belong to, and where its        *)
(* submission leads: the invariant behind LiveTradeIsFound and OneLiveOrder.*)

Names(x, s) == x.signal = s \/ x.trade = s

Belongs(s, f) ==
    \/ Names(sub[f], s)
    \/ trade[s].fp = f
    \/ \E r \in Requests : req[r].fp = f /\ (req[r].signal = s \/ Names(req[r].loaded, s))

(* A signal is persisted for one fingerprint. *)
OneOwner ==
    \A s \in Signals, f \in Fingerprints :
        Belongs(s, f) => s <= last /\ \A g \in Fingerprints : Belongs(s, g) => f = g

(* A trade id that a submission names, or a request is about to write into  *)
(* it, is that of a committed trade.                                        *)
Session(q) ==
    /\ q.loaded.trade # 0 => Committed(q.loaded.trade)
    /\ q.pc = "recheck" =>
          \/ q.loaded.trade # 0
          \/ q.loaded.signal \in Signals /\ Committed(q.loaded.signal)
    /\ q.pc = "link" => q.signal \in Signals /\ Committed(q.signal)
    /\ q.pc # "idle" => q.fp \in Fingerprints
    /\ AtWork(q) \/ q.pc = "link" \/ q.signal = 0

OwnerInv ==
    /\ OneOwner
    /\ \A s \in Signals : Committed(s) => trade[s].fp \in Fingerprints
    /\ \A f \in Fingerprints : sub[f].trade # 0 => Committed(sub[f].trade)
    /\ \A r \in Requests : Session(req[r])

(* A signal without a live trade, but for one that lives again. *)
Over(s) == s \in Signals /\ Live(s) => s \in revived

Finds(f) ==
    \A s \in Signals :
        Live(s) /\ trade[s].fp = f => s = sub[f].signal \/ s \in revived

(* What the only request q of a fingerprint knows of its submission x. *)
Serving(q, x) ==
    /\ q.pc \in Early => q.loaded = x
    /\ q.pc = "register" => Over(x.signal)
    /\ AtWork(q) \/ q.pc = "link" => x = [signal |-> q.signal, trade |-> 0]

Alone(f) == \A r, q \in Requests : req[r].fp = f /\ req[q].fp = f => r = q

Followed(f) ==
    /\ Alone(f)
    /\ Finds(f)
    /\ sub[f].trade \in {0, sub[f].signal}
    /\ \A r \in Requests : req[r].fp = f => Serving(req[r], sub[f])

FingerInv == \A f \in Fingerprints : ~overlap[f] => Followed(f)

LEMMA LinkTypes ==
    ASSUME TypeOK
    PROVE  /\ \A f \in Fingerprints : sub[f] \in Submission
           /\ \A r \in Requests : req[r].loaded \in Submission /\ req[r] \in Request
           /\ \A x \in Submission : /\ x.signal \in 0..MaxSignals /\ x.trade \in 0..MaxSignals
                                    /\ get_trade_for_submission(x) \in 0..MaxSignals
                                    /\ x = [signal |-> x.signal, trade |-> x.trade]
           /\ 0..MaxSignals = Signals \cup {0} /\ 0 \notin Signals
           /\ None \notin Fingerprints
  BY SettingsAssumption DEF TypeOK, Request, Submission, get_trade_for_submission, Signals

LEMMA InitLinks == Init => OwnerInv /\ FingerInv
<1> SUFFICES ASSUME Init PROVE OwnerInv /\ FingerInv
  OBVIOUS
<1>1. /\ \A s \in Signals : /\ trade[s].status = "NONE" /\ trade[s].fp = None /\ s # 0
                            /\ ~Committed(s) /\ ~Live(s)
      /\ \A f \in Fingerprints : sub[f] = NoSubmission
      /\ \A r \in Requests : req[r] = Idle
      /\ None \notin Fingerprints
  BY SettingsAssumption DEF Init, Signals, Committed, Live
<1>2. /\ Idle.fp = None /\ Idle.pc = "idle" /\ Idle.signal = 0 /\ Idle.loaded = NoSubmission
      /\ NoSubmission.signal = 0 /\ NoSubmission.trade = 0
  BY DEF Idle, NoSubmission
<1>3. \A s \in Signals, f \in Fingerprints : ~Belongs(s, f)
  BY <1>1, <1>2 DEF Belongs, Names
<1>4. OwnerInv
  BY <1>1, <1>2, <1>3 DEF OwnerInv, OneOwner, Session
<1>5. FingerInv
  BY <1>1, <1>2 DEF FingerInv, Followed, Alone, Finds
<1> QED BY <1>4, <1>5

(* Without a new signal nothing gets a new owner. *)
LEMMA OwnersStay ==
    ASSUME TypeOK, OneOwner, last' = last,
           \A s \in Signals, f \in Fingerprints : Belongs(s, f)' => Belongs(s, f)
    PROVE  OneOwner'
  BY Zenon DEF OneOwner

(* Requests that end, go on with what they have, or are untouched; trades   *)
(* that live on or end.                                                     *)
LEMMA SessionsMove ==
    ASSUME TypeOK, OwnerInv, FingerInv, UNCHANGED <<sub, last>>,
           \A f \in Fingerprints : overlap[f] => overlap'[f],
           revived \subseteq revived',
           \A s \in Signals : /\ Committed(s)' = Committed(s)
                              /\ trade'[s].fp = trade[s].fp
                              /\ Live(s)' => Live(s) \/ s \in revived',
           \A r \in Requests :
               \/ req'[r] = Idle
               \/ /\ req'[r].fp = req[r].fp /\ req'[r].loaded = req[r].loaded
                  /\ req'[r].signal = req[r].signal
                  /\ req'[r].pc = req[r].pc \/ (AtWork(req[r]) /\ AtWork(req'[r]))
    PROVE  OwnerInv' /\ FingerInv'
<1>1. /\ Idle.fp = None /\ Idle.pc = "idle" /\ Idle.signal = 0 /\ Idle.loaded = NoSubmission
      /\ NoSubmission.signal = 0 /\ NoSubmission.trade = 0
  BY DEF Idle, NoSubmission
<1>2. \A s \in Signals, f \in Fingerprints : Belongs(s, f)' => Belongs(s, f)
  <2> SUFFICES ASSUME NEW s \in Signals, NEW f \in Fingerprints, Belongs(s, f)'
               PROVE  Belongs(s, f)
    OBVIOUS
  <2>1. \A r \in Requests : req'[r].fp = f => /\ req'[r].fp = req[r].fp
                                              /\ req'[r].loaded = req[r].loaded
                                              /\ req'[r].signal = req[r].signal
    BY <1>1, LinkTypes
  <2> QED BY <2>1 DEF Belongs, Names
<1>3. \A r \in Requests : Session(req[r])'
  <2> SUFFICES ASSUME NEW r \in Requests PROVE Session(req[r])'
    OBVIOUS
  <2>1. Session(req[r]) /\ req[r].loaded.trade \in Signals \cup {0}
    BY LinkTypes DEF OwnerInv
  <2>2. CASE req'[r] = Idle
    BY <1>1, <2>2 DEF Session
  <2>3. CASE req'[r] # Idle
    BY <2>1, <2>3 DEF Session, AtWork, Before, After
  <2> QED BY <2>2, <2>3
<1>4. OwnerInv'
  <2>1. \A f \in Fingerprints : sub'[f].trade # 0 => Committed(sub[f].trade)'
    BY LinkTypes DEF OwnerInv
  <2> QED BY <1>2, <1>3, <2>1, OwnersStay DEF OwnerInv
<1>5. ASSUME NEW f \in Fingerprints, ~overlap'[f] PROVE Followed(f)'
  <2>1. Followed(f)
    BY <1>5 DEF FingerInv
  <2>2. \A r \in Requests : req'[r].fp = f => req'[r].fp = req[r].fp /\ req'[r] # Idle
    BY <1>1, LinkTypes
  <2>3. \A s : Over(s) => Over(s)'
    BY DEF Over
  <2>4. Alone(f)'
    BY <2>1, <2>2 DEF Followed, Alone
  <2>5. Finds(f)'
    BY <2>1 DEF Followed, Finds
  <2>6. ASSUME NEW r \in Requests, req'[r].fp = f PROVE Serving(req[r], sub[f])'
    <3>1. Serving(req[r], sub[f])
      BY <2>1, <2>2, <2>6 DEF Followed
    <3>2. Over(sub[f].signal) => Over(sub[f].signal)'
      <4>1. PICK u : u = sub[f].signal
        OBVIOUS
      <4> QED BY <2>3, <4>1 DEF Over
    <3> QED BY <2>2, <3>2, <2>6, <3>1 DEF Serving, AtWork, Before, After, Early
  <2> QED BY <2>1, <2>4, <2>5, <2>6 DEF Followed
<1>6. FingerInv'
  BY <1>5 DEF FingerInv
<1> QED BY <1>4, <1>6

(* A request arrives. *)
LEMMA BeginSession ==
    ASSUME TypeOK, OwnerInv, FingerInv, NEW r \in Requests, NEW f \in Fingerprints, Begin(r, f)
    PROVE  OwnerInv' /\ FingerInv'
<1> DEFINE x == sub[f]
           t == get_trade_for_submission(x)
           q0 == [Idle EXCEPT !.fp = f, !.loaded = x]
<1>1. /\ UNCHANGED <<sub, trade, ord, last>> /\ req[r].pc = "idle"
      /\ overlap \in [Fingerprints -> BOOLEAN]
      /\ overlap' = [overlap EXCEPT ![f] = @ \/ Active(f) # {}]
      /\ \/ req' = [req EXCEPT ![r] = Idle]
         \/ req' = [req EXCEPT ![r] = [q0 EXCEPT !.pc = "recheck"]] /\ t # 0
         \/ /\ req' = [req EXCEPT ![r] = [q0 EXCEPT !.pc = "register"]]
            /\ t = 0 \/ is_trade_terminal(trade[t].status)
  BY Zenon DEF Begin, TypeOK
<1>2. /\ \A p \in Requests \ {r} : req'[p] = req[p]
      /\ \/ req'[r] = Idle
         \/ /\ req'[r].pc \in Early /\ req'[r].fp = f /\ req'[r].loaded = sub[f]
            /\ req'[r].signal = 0 /\ (req'[r].pc = "recheck" => t # 0)
            /\ req'[r].pc = "register" => t = 0 \/ is_trade_terminal(trade[t].status)
  <2>1. PICK q : /\ req' = [req EXCEPT ![r] = q]
                 /\ \/ q = Idle
                    \/ q = [q0 EXCEPT !.pc = "recheck"] /\ t # 0
                    \/ /\ q = [q0 EXCEPT !.pc = "register"]
                       /\ t = 0 \/ is_trade_terminal(trade[t].status)
    BY <1>1
  <2>2. \/ q = Idle
        \/ /\ q.pc \in Early /\ q.fp = f /\ q.loaded = sub[f] /\ q.signal = 0
           /\ (q.pc = "recheck" => t # 0)
           /\ q.pc = "register" => t = 0 \/ is_trade_terminal(trade[t].status)
    <3> HIDE DEF t
    <3> QED BY <2>1 DEF Early, Idle
  <2> HIDE DEF q0, t
  <2>3. req'[r] = q /\ \A p \in Requests \ {r} : req'[p] = req[p]
    BY <2>1, OrderTypes
  <2> QED BY <2>2, <2>3
<1>3. /\ \A s : Committed(s)' = Committed(s) /\ Live(s)' = Live(s)
      /\ \A g \in Fingerprints : overlap[g] => overlap'[g]
      /\ ~overlap'[f] => Active(f) = {}
  BY <1>1 DEF Committed, Live
<1>6. revived' = revived
  <2>1. closing' = closing
    BY Zenon DEF Begin
  <2> QED BY <2>1 DEF closing
<1>4. CASE req'[r] = Idle
  BY <1>1, <1>2, <1>3, <1>4, <1>6, SessionsMove
<1>5. CASE req'[r] # Idle
  <2>1. /\ req'[r].pc \in Early /\ req'[r].fp = f /\ req'[r].loaded = sub[f]
        /\ req'[r].signal = 0 /\ (req'[r].pc = "recheck" => t # 0)
        /\ req'[r].pc # "idle" /\ req'[r].pc # "link" /\ ~AtWork(req'[r])
        /\ req'[r].pc = "register" => t = 0 \/ is_trade_terminal(trade[t].status)
    BY <1>2, <1>5 DEF Early, AtWork, Before, After
  <2>2. \A s \in Signals, g \in Fingerprints : Belongs(s, g)' => Belongs(s, g)
    <3> SUFFICES ASSUME NEW s \in Signals, NEW g \in Fingerprints, Belongs(s, g)'
                 PROVE  Belongs(s, g)
      OBVIOUS
    <3>1. s # 0 /\ trade' = trade /\ sub' = sub
      BY <1>1, LinkTypes
    <3> QED BY <1>2, <2>1, <3>1 DEF Belongs, Names
  <2>3. \A p \in Requests : Session(req[p])'
    <3> SUFFICES ASSUME NEW p \in Requests PROVE Session(req[p])'
      OBVIOUS
    <3>1. CASE p = r
      <4>1. t # 0 => \/ sub[f].trade # 0
                     \/ sub[f].signal \in Signals /\ Committed(sub[f].signal)
        BY LinkTypes DEF get_trade_for_submission, Committed
      <4> QED BY <1>1, <1>3, <2>1, <3>1, <4>1 DEF OwnerInv, Session
    <3>2. CASE p # r
      <4>1. Session(req[p]) /\ req'[p] = req[p]
        BY <1>2, <3>2 DEF OwnerInv
      <4> QED BY <1>3, <4>1 DEF Session
    <3> QED BY <3>1, <3>2
  <2>4. OwnerInv'
    <3>1. \A g \in Fingerprints : sub'[g].trade # 0 => Committed(sub[g].trade)'
      BY <1>1, <1>3 DEF OwnerInv
    <3>2. \A s \in Signals : Committed(s)' => trade'[s].fp \in Fingerprints
      BY <1>1, <1>3 DEF OwnerInv
    <3> QED BY <1>1, <2>2, <2>3, <3>1, <3>2, OwnersStay DEF OwnerInv
  <2>5. ASSUME NEW g \in Fingerprints, ~overlap'[g] PROVE Followed(g)'
    <3>1. Followed(g)
      BY <1>3, <2>5 DEF FingerInv
    <3>2. /\ \A s : Over(s)' = Over(s)
          /\ Finds(g)' /\ sub'[g] = sub[g] /\ sub'[g].trade \in {0, sub'[g].signal}
      BY <1>1, <1>3, <1>6, <3>1 DEF Followed, Finds, Over
    <3>4. CASE g = f
      <4>1. \A p \in Requests \ {r} : req'[p].fp # f
        BY <1>2, <1>3, <2>5, <3>4 DEF Active
      <4>2. Alone(g)'
        BY <3>4, <4>1 DEF Alone
      <4>3. req'[r].pc = "register" => Over(sub[f].signal)
        <5>1. SUFFICES ASSUME req'[r].pc = "register", sub[f].signal \in Signals,
                              Live(sub[f].signal)
                       PROVE  sub[f].signal \in revived
          BY DEF Over
        <5>2. t = sub[f].signal
          BY <3>1, <3>4, <5>1, LinkTypes DEF Followed, get_trade_for_submission, Live
        <5> QED BY <2>1, <5>1, <5>2, LinkTypes DEF Live
      <4>4. Serving(req[r], sub[f])'
        <5>1. PICK u : u = sub[f].signal
          OBVIOUS
        <5>2. req'[r].pc = "register" => Over(u)'
          BY <3>2, <4>3, <5>1 DEF Over
        <5> QED BY <1>1, <2>1, <5>1, <5>2 DEF Serving, AtWork, Over
      <4> QED BY <3>2, <3>4, <4>1, <4>2, <4>4 DEF Followed
    <3>5. CASE g # f
      <4>1. \A p \in Requests : req'[p].fp = g => p # r /\ req'[p] = req[p]
        BY <1>2, <2>1, <3>5
      <4>2. Alone(g)'
        BY <3>1, <4>1 DEF Followed, Alone
      <4>3. ASSUME NEW p \in Requests, req'[p].fp = g PROVE Serving(req[p], sub[g])'
        <5>1. req'[p] = req[p] /\ sub'[g] = sub[g] /\ Serving(req[p], sub[g])
          BY <1>1, <3>1, <4>1, <4>3 DEF Followed
        <5>2. Over(sub[g].signal) = Over(sub[g].signal)'
          BY <1>1, <1>3, <1>6 DEF Over
        <5> QED BY <5>1, <5>2 DEF Serving, AtWork
      <4> QED BY <3>2, <4>2, <4>3 DEF Followed
    <3> QED BY <3>4, <3>5
  <2>6. FingerInv'
    BY <2>5 DEF FingerInv
  <2> QED BY <2>4, <2>6
<1> QED BY <1>4, <1>5

(* An uncertain trade is found: it is the trade of the request's own        *)
(* fingerprint, and the submission leads to it.                             *)
LEMMA RecheckSession ==
    ASSUME TypeOK, OwnerInv, FingerInv, NEW r \in Requests,
           UNCHANGED <<sub, last, overlap, revived>>, req[r].pc = "recheck",
           NEW t \in Signals, t = get_trade_for_submission(req[r].loaded), Committed(t),
           NEW status \in {"ORDER_CONFIRMED", "ORDER_CANCELLED", "ORDER_REJECTED"},
           trade' = [trade EXCEPT ![t].status = status],
           IF is_trade_terminal(status) THEN Goto(r, "register") ELSE End(r)
    PROVE  OwnerInv' /\ FingerInv'
<1>1. /\ \A s \in Signals \ {t} : trade'[s] = trade[s]
      /\ trade'[t].status = status /\ trade'[t].fp = trade[t].fp
  BY OrderTypes DEF Trade
<1>2. /\ \A s \in Signals : Committed(s)' = Committed(s)
      /\ \A s \in Signals \ {t} : Live(s)' = Live(s)
      /\ \A s \in Signals : trade'[s].fp = trade[s].fp
      /\ Live(t)' = (status = "ORDER_CONFIRMED")
  BY <1>1 DEF Committed, Live, is_trade_terminal
<1>3. \A p \in Requests \ {r} : req'[p] = req[p]
  BY OrderTypes DEF Goto, End
<1>4. \/ status = "ORDER_CONFIRMED" /\ req'[r] = Idle
      \/ /\ status # "ORDER_CONFIRMED" /\ req'[r].pc = "register"
         /\ req'[r].fp = req[r].fp /\ req'[r].loaded = req[r].loaded
         /\ req'[r].signal = req[r].signal
  BY OrderTypes DEF Goto, End, is_trade_terminal, Request
<1>5. /\ Idle.fp = None /\ Idle.pc = "idle" /\ Idle.signal = 0 /\ Idle.loaded = NoSubmission
      /\ NoSubmission.signal = 0 /\ NoSubmission.trade = 0
  BY DEF Idle, NoSubmission
<1>6. req[r].fp \in Fingerprints
  BY DEF OwnerInv, Session
<1>7. Belongs(t, req[r].fp)
  <2>1. Names(req[r].loaded, t)
    BY LinkTypes DEF get_trade_for_submission, Names
  <2> QED BY <2>1 DEF Belongs
<1>8. \A s \in Signals, f \in Fingerprints : Belongs(s, f)' => Belongs(s, f)
  <2> SUFFICES ASSUME NEW s \in Signals, NEW f \in Fingerprints, Belongs(s, f)'
               PROVE  Belongs(s, f)
    OBVIOUS
  <2>1. \A p \in Requests : req'[p].fp = f => /\ req'[p].fp = req[p].fp
                                              /\ req'[p].loaded = req[p].loaded
                                              /\ req'[p].signal = req[p].signal
    BY <1>3, <1>4, <1>5, LinkTypes
  <2> QED BY <1>2, <2>1 DEF Belongs, Names
<1>9. OwnerInv'
  <2>1. \A f \in Fingerprints : sub'[f].trade # 0 => Committed(sub[f].trade)'
    BY <1>2, LinkTypes DEF OwnerInv
  <2>2. ASSUME NEW p \in Requests PROVE Session(req[p])'
    <3>1. Session(req[p]) /\ req[p].loaded.trade \in Signals \cup {0}
      BY LinkTypes DEF OwnerInv
    <3>2. CASE req'[p] = Idle
      BY <1>5, <3>2 DEF Session
    <3>3. CASE p = r /\ req'[p] # Idle
      BY <1>2, <1>4, <1>6, <3>1, <3>3 DEF Session, AtWork, Before, After
    <3>4. CASE p # r
      BY <1>2, <1>3, <3>1, <3>4 DEF Session
    <3> QED BY <3>2, <3>3, <3>4
  <2>3. \A s \in Signals : Committed(s)' => trade'[s].fp \in Fingerprints
    BY <1>2 DEF OwnerInv
  <2> QED BY <1>8, <2>1, <2>2, <2>3, OwnersStay DEF OwnerInv
<1>10. ASSUME NEW f \in Fingerprints, ~overlap'[f] PROVE Followed(f)'
  <2>1. Followed(f) /\ sub'[f] = sub[f]
    BY <1>10 DEF FingerInv
  <2>2. \A p \in Requests : req'[p].fp = f => req[p].fp = f /\ req'[p] # Idle
    BY <1>3, <1>4, <1>5, LinkTypes
  <2>3. Alone(f)'
    BY <2>1, <2>2 DEF Followed, Alone
  <2>4. PICK u : u = sub[f].signal /\ u \in Signals \cup {0}
    BY LinkTypes
  <2>5. CASE f = req[r].fp
    <3>1. /\ req[r].loaded = sub[f]
          /\ \A p \in Requests : req'[p].fp = f => p = r
      BY <2>1, <2>2, <2>5 DEF Followed, Serving, Early, Alone
    <3>2. t = u
      BY <2>1, <2>4, <3>1, LinkTypes DEF Followed, get_trade_for_submission
    <3>3. Finds(f)'
      BY <1>2, <2>1, <2>4, <3>2 DEF Followed, Finds
    <3>4. status # "ORDER_CONFIRMED" => Over(u)'
      BY <1>2, <3>2 DEF Over
    <3>5. req'[r].fp = f => Serving(req[r], sub[f])'
      <4>1. Serving(req[r], sub[f])
        BY <2>1, <2>5 DEF Followed
      <4> QED BY <1>4, <2>1, <2>2, <2>4, <3>4, <4>1
           DEF Serving, AtWork, Before, After, Early, Over
    <3> QED BY <2>1, <2>3, <3>1, <3>3, <3>5 DEF Followed
  <2>6. CASE f # req[r].fp
    <3>1. ~Belongs(t, f)
      BY <1>6, <1>7, <2>6 DEF OwnerInv, OneOwner
    <3>2. trade[t].fp # f /\ u # t
      BY <2>4, <3>1 DEF Belongs, Names
    <3>3. Finds(f)'
      BY <1>2, <2>1, <3>2 DEF Followed, Finds
    <3>4. Over(u) => Over(u)'
      BY <1>2, <3>2 DEF Over
    <3>5. ASSUME NEW p \in Requests, req'[p].fp = f PROVE Serving(req[p], sub[f])'
      <4>1. Serving(req[p], sub[f]) /\ req'[p] = req[p]
        BY <1>3, <2>1, <2>2, <2>6, <3>5 DEF Followed
      <4> QED BY <2>1, <2>4, <3>4, <4>1 DEF Serving, AtWork, Over
    <3> QED BY <2>1, <2>3, <3>3, <3>5 DEF Followed
  <2> QED BY <2>5, <2>6
<1>11. FingerInv'
  BY <1>10 DEF FingerInv
<1> QED BY <1>9, <1>11

(* A signal is persisted, and the submission leads to it and no further:    *)
(* the trade it led to has ended.                                           *)
LEMMA RegisterSession ==
    ASSUME TypeOK, OwnerInv, FingerInv, NEW r \in Requests, req[r].pc = "register",
           UNCHANGED <<trade, overlap, revived>>, last' = last + 1, last' \in Signals,
           sub' = [sub EXCEPT ![req[r].fp] =
                     [signal |-> last + 1,
                      trade |-> IF req[r].loaded.trade # 0 THEN 0 ELSE @.trade]],
           \/ End(r)
           \/ req' = [req EXCEPT ![r].pc = "limits", ![r].signal = last + 1]
    PROVE  OwnerInv' /\ FingerInv'
<1> DEFINE n == last + 1
<1>1. /\ \A p \in Requests \ {r} : req'[p] = req[p]
      /\ \/ req'[r] = Idle
         \/ /\ req'[r].pc = "limits" /\ req'[r].fp = req[r].fp
            /\ req'[r].loaded = req[r].loaded /\ req'[r].signal = n
  BY OrderTypes DEF End, Request
<1>2. req[r].fp \in Fingerprints
  BY DEF OwnerInv, Session
<1>3. PICK f0 \in Fingerprints : f0 = req[r].fp
  BY <1>2
<1>4. /\ \A f \in Fingerprints \ {f0} : sub'[f] = sub[f]
      /\ sub'[f0].signal = n
      /\ sub'[f0].trade = IF req[r].loaded.trade # 0 THEN 0 ELSE sub[f0].trade
      /\ sub'[f0] = [signal |-> sub'[f0].signal, trade |-> sub'[f0].trade]
  BY <1>3 DEF TypeOK
<1>5. /\ Idle.fp = None /\ Idle.pc = "idle" /\ Idle.signal = 0 /\ Idle.loaded = NoSubmission
      /\ NoSubmission.signal = 0 /\ NoSubmission.trade = 0
  BY DEF Idle, NoSubmission
<1>6. \A s : Committed(s)' = Committed(s) /\ Live(s)' = Live(s)
  BY DEF Committed, Live
<1>7. \A f \in Fingerprints : ~Belongs(n, f)
  BY OrderTypes DEF OwnerInv, OneOwner
<1>8. ASSUME NEW s \in Signals, NEW f \in Fingerprints, Belongs(s, f)'
      PROVE  Belongs(s, f) \/ (s = n /\ f = f0)
  <2>1. s # 0
    BY LinkTypes
  <2>2. CASE Names(sub'[f], s)
    BY <1>3, <1>4, <2>1, <2>2 DEF Belongs, Names
  <2>3. CASE trade'[s].fp = f
    BY <2>3 DEF Belongs
  <2>4. CASE \E p \in Requests : req'[p].fp = f /\ (req'[p].signal = s \/ Names(req'[p].loaded, s))
    BY <1>1, <1>3, <1>5, <2>1, <2>4, LinkTypes DEF Belongs, Names
  <2> QED BY <1>8, <2>2, <2>3, <2>4 DEF Belongs, Names
<1>9. OneOwner'
  <2> SUFFICES ASSUME NEW s \in Signals, NEW f \in Fingerprints, Belongs(s, f)'
               PROVE  s <= last' /\ \A g \in Fingerprints : Belongs(s, g)' => f = g
    BY Zenon DEF OneOwner
  <2>1. CASE s = n
    BY <1>7, <1>8, <2>1, OrderTypes
  <2>2. CASE s # n
    <3>1. Belongs(s, f)
      BY <1>8, <2>2
    <3>2. s <= last /\ \A g \in Fingerprints : Belongs(s, g) => f = g
      BY <3>1 DEF OwnerInv, OneOwner
    <3>3. s <= last'
      BY <3>2, OrderTypes DEF Signals
    <3> QED BY <1>8, <2>2, <3>2, <3>3
  <2> QED BY <2>1, <2>2
<1>10. OwnerInv'
  <2>1. \A f \in Fingerprints : sub'[f].trade # 0 => Committed(sub[f].trade)'
    BY <1>4, <1>6 DEF OwnerInv
  <2>2. ASSUME NEW p \in Requests PROVE Session(req[p])'
    <3>1. Session(req[p])
      BY DEF OwnerInv
    <3>2. CASE p = r
      BY <1>1, <1>2, <1>5, <1>6, <3>1, <3>2 DEF Session, AtWork, Before
    <3>3. CASE p # r
      BY <1>1, <1>6, <3>1, <3>3 DEF Session
    <3> QED BY <3>2, <3>3
  <2>3. \A s \in Signals : Committed(s)' => trade'[s].fp \in Fingerprints
    BY <1>6 DEF OwnerInv
  <2> QED BY <1>9, <2>1, <2>2, <2>3 DEF OwnerInv
<1>11. ASSUME NEW f \in Fingerprints, ~overlap'[f] PROVE Followed(f)'
  <2>1. Followed(f)
    BY <1>11 DEF FingerInv
  <2>2. \A p \in Requests : req'[p].fp = f => req[p].fp = f /\ req'[p] # Idle
    BY <1>1, <1>5, LinkTypes
  <2>3. Alone(f)'
    BY <2>1, <2>2 DEF Followed, Alone
  <2>4. CASE f = f0
    <3>1. /\ req[r].loaded = sub[f] /\ Over(sub[f].signal)
          /\ \A p \in Requests : req'[p].fp = f => p = r
      BY <1>3, <2>1, <2>2, <2>4 DEF Followed, Serving, Early, Alone
    <3>2. sub'[f] = [signal |-> n, trade |-> 0]
      BY <1>4, <2>4, <3>1
    <3>3. \A s \in Signals : Live(s) /\ trade[s].fp = f => s \in revived
      BY <2>1, <3>1 DEF Followed, Finds, Over
    <3>4. Finds(f)'
      BY <1>6, <3>3 DEF Finds
    <3>5. req'[r].fp = f => Serving(req[r], sub[f])'
      BY <1>1, <2>2, <3>2 DEF Serving, Early
    <3> QED BY <2>3, <3>1, <3>2, <3>4, <3>5 DEF Followed
  <2>5. CASE f # f0
    <3>1. \A p \in Requests : req'[p].fp = f => p # r /\ req'[p] = req[p]
      BY <1>1, <1>3, <2>2, <2>5
    <3>2. sub'[f] = sub[f] /\ Over(sub[f].signal)' = Over(sub[f].signal)
      BY <1>4, <1>6, <2>5 DEF Over
    <3>3. Finds(f)'
      BY <1>6, <2>1, <3>2 DEF Followed, Finds
    <3>4. ASSUME NEW p \in Requests, req'[p].fp = f PROVE Serving(req[p], sub[f])'
      <4>1. Serving(req[p], sub[f]) /\ req'[p] = req[p]
        BY <2>1, <3>1, <3>4 DEF Followed
      <4> QED BY <3>2, <4>1 DEF Serving, AtWork
    <3> QED BY <2>1, <2>3, <3>2, <3>3, <3>4 DEF Followed
  <2> QED BY <2>4, <2>5
<1>12. FingerInv'
  BY <1>11 DEF FingerInv
<1> QED BY <1>10, <1>12

(* The row of a signal is committed: the submission led to the signal, and  *)
(* now leads to its trade.                                                  *)
LEMMA CommitSession ==
    ASSUME TypeOK, OrderInv, OwnerInv, FingerInv, NEW r \in Requests, Commit(r)
    PROVE  OwnerInv' /\ FingerInv'
<1>1. PICK s0 \in Signals : /\ s0 = req[r].signal /\ ~Committed(s0) /\ AtWork(req[r])
                            /\ req[r].status # "NONE"
  BY OrderTypes DEF Commit, OrderInv, Hand, AtWork, After
<1>2. PICK f0 \in Fingerprints : f0 = req[r].fp
  BY DEF OwnerInv, Session, Commit
<1>3. /\ UNCHANGED <<sub, last, overlap, revived>>
      /\ \A p \in Requests \ {r} : req'[p] = req[p]
      /\ \/ req'[r] = Idle
         \/ /\ req'[r].pc = "link" /\ req'[r].fp = f0 /\ req'[r].signal = s0
            /\ req'[r].loaded = req[r].loaded
  BY <1>1, <1>2, OrderTypes DEF Commit, Goto, End, Request
<1>4. /\ trade'[s0].status = req[r].status /\ trade'[s0].fp = f0
      /\ \A s \in Signals \ {s0} : trade'[s] = trade[s]
  BY <1>1, <1>2, OrderTypes DEF Commit, NewTrade
<1>5. /\ \A s \in Signals : Committed(s)' = (Committed(s) \/ s = s0)
      /\ \A s \in Signals \ {s0} : Live(s)' = Live(s)
  BY <1>1, <1>4 DEF Committed, Live
<1>6. /\ Idle.fp = None /\ Idle.pc = "idle" /\ Idle.signal = 0 /\ Idle.loaded = NoSubmission
      /\ NoSubmission.signal = 0 /\ NoSubmission.trade = 0
  BY DEF Idle, NoSubmission
<1>7. Belongs(s0, f0)
  BY <1>1, <1>2 DEF Belongs
<1>8. \A s \in Signals, f \in Fingerprints : Belongs(s, f)' => Belongs(s, f)
  <2> SUFFICES ASSUME NEW s \in Signals, NEW f \in Fingerprints, Belongs(s, f)'
               PROVE  Belongs(s, f)
    OBVIOUS
  <2>1. \A p \in Requests : req'[p].fp = f => /\ req'[p].fp = req[p].fp
                                              /\ req'[p].loaded = req[p].loaded
                                              /\ req'[p].signal = req[p].signal
    BY <1>1, <1>2, <1>3, <1>6, LinkTypes
  <2>2. trade'[s].fp = f => trade[s].fp = f \/ (s = s0 /\ f = f0)
    BY <1>4
  <2> QED BY <1>3, <1>7, <2>1, <2>2 DEF Belongs, Names
<1>9. OwnerInv'
  <2>1. \A f \in Fingerprints : sub'[f].trade # 0 => Committed(sub[f].trade)'
    BY <1>3, <1>5, LinkTypes DEF OwnerInv
  <2>2. ASSUME NEW p \in Requests PROVE Session(req[p])'
    <3>1. Session(req[p]) /\ req[p].loaded.trade \in Signals \cup {0}
      BY LinkTypes DEF OwnerInv
    <3>2. CASE req'[p] = Idle
      BY <1>6, <3>2 DEF Session
    <3>3. CASE p = r /\ req'[p] # Idle
      BY <1>1, <1>2, <1>3, <1>5, <3>1, <3>3 DEF Session
    <3>4. CASE p # r
      BY <1>3, <1>5, <3>1, <3>4 DEF Session
    <3> QED BY <3>2, <3>3, <3>4
  <2>3. \A s \in Signals : Committed(s)' => trade'[s].fp \in Fingerprints
    BY <1>2, <1>4, <1>5 DEF OwnerInv
  <2> QED BY <1>3, <1>8, <2>1, <2>2, <2>3, OwnersStay DEF OwnerInv
<1>10. ASSUME NEW f \in Fingerprints, ~overlap'[f] PROVE Followed(f)'
  <2>1. Followed(f) /\ sub'[f] = sub[f]
    BY <1>3, <1>10 DEF FingerInv
  <2>2. \A p \in Requests : req'[p].fp = f => req[p].fp = f /\ req'[p] # Idle
    BY <1>2, <1>3, <1>6, LinkTypes
  <2>3. Alone(f)'
    BY <2>1, <2>2 DEF Followed, Alone
  <2>4. CASE f = f0
    <3>1. /\ sub[f] = [signal |-> s0, trade |-> 0]
          /\ \A p \in Requests : req'[p].fp = f => p = r
      BY <1>1, <1>2, <2>1, <2>2, <2>4 DEF Followed, Serving, Alone
    <3>2. Finds(f)'
      BY <1>3, <1>4, <1>5, <2>1, <3>1 DEF Followed, Finds
    <3>3. req'[r].fp = f => Serving(req[r], sub[f])'
      BY <1>3, <2>1, <2>2, <3>1 DEF Serving, Early
    <3> QED BY <2>1, <2>3, <3>1, <3>2, <3>3 DEF Followed
  <2>5. CASE f # f0
    <3>1. \A p \in Requests : req'[p].fp = f => p # r /\ req'[p] = req[p]
      BY <1>2, <1>3, <2>2, <2>5
    <3>2. ~Belongs(s0, f)
      BY <1>7, <2>5 DEF OwnerInv, OneOwner
    <3>3. PICK u : u = sub[f].signal /\ u # s0
      BY <3>2 DEF Belongs, Names
    <3>4. Finds(f)'
      BY <1>3, <1>4, <1>5, <2>1, <2>5 DEF Followed, Finds
    <3>5. Over(u) => Over(u)'
      BY <1>3, <1>5, <3>3 DEF Over
    <3>6. ASSUME NEW p \in Requests, req'[p].fp = f PROVE Serving(req[p], sub[f])'
      <4>1. Serving(req[p], sub[f]) /\ req'[p] = req[p]
        BY <2>1, <3>1, <3>6 DEF Followed
      <4> QED BY <2>1, <3>3, <3>5, <4>1 DEF Serving, AtWork, Over
    <3> QED BY <2>1, <2>3, <3>4, <3>6 DEF Followed
  <2> QED BY <2>4, <2>5
<1>11. FingerInv'
  BY <1>10 DEF FingerInv
<1> QED BY <1>9, <1>11

(* The trade is written into the submission that already leads to it.       *)
LEMMA LinkSession ==
    ASSUME TypeOK, OwnerInv, FingerInv, NEW r \in Requests, Link(r)
    PROVE  OwnerInv' /\ FingerInv'
<1>1. PICK s0 \in Signals : s0 = req[r].signal /\ Committed(s0)
  BY DEF OwnerInv, Session, Link
<1>2. PICK f0 \in Fingerprints : f0 = req[r].fp
  BY DEF OwnerInv, Session, Link
<1>3. /\ UNCHANGED <<trade, last, overlap, revived>> /\ req[r].pc = "link"
      /\ \A p \in Requests \ {r} : req'[p] = req[p]
      /\ req'[r] = Idle
  BY OrderTypes DEF Link, End, closing
<1>4. /\ sub'[f0].signal = sub[f0].signal /\ sub'[f0].trade = s0
      /\ \A f \in Fingerprints \ {f0} : sub'[f] = sub[f]
  BY <1>1, <1>2, LinkTypes DEF Link, TypeOK, Submission
<1>5. /\ Idle.fp = None /\ Idle.pc = "idle" /\ Idle.signal = 0 /\ Idle.loaded = NoSubmission
      /\ NoSubmission.signal = 0 /\ NoSubmission.trade = 0
  BY DEF Idle, NoSubmission
<1>6. /\ \A s : Committed(s)' = Committed(s) /\ Live(s)' = Live(s)
      /\ \A x : Over(x)' = Over(x)
  BY <1>3 DEF Committed, Live, Over
<1>7. Belongs(s0, f0)
  BY <1>1, <1>2 DEF Belongs
<1>8. \A s \in Signals, f \in Fingerprints : Belongs(s, f)' => Belongs(s, f)
  <2> SUFFICES ASSUME NEW s \in Signals, NEW f \in Fingerprints, Belongs(s, f)'
               PROVE  Belongs(s, f)
    OBVIOUS
  <2>1. \A p \in Requests : req'[p].fp = f => req'[p] = req[p]
    BY <1>3, <1>5, LinkTypes
  <2>2. Names(sub'[f], s) => Names(sub[f], s) \/ (s = s0 /\ f = f0)
    BY <1>4 DEF Names
  <2> QED BY <1>3, <1>7, <2>1, <2>2 DEF Belongs
<1>9. OwnerInv'
  <2>1. \A f \in Fingerprints : sub'[f].trade # 0 => Committed(sub[f].trade)'
    BY <1>1, <1>4, <1>6 DEF OwnerInv
  <2>2. ASSUME NEW p \in Requests PROVE Session(req[p])'
    <3>1. Session(req[p])
      BY DEF OwnerInv
    <3> QED BY <1>3, <1>5, <1>6, <3>1 DEF Session
  <2>3. \A s \in Signals : Committed(s)' => trade'[s].fp \in Fingerprints
    BY <1>3, <1>6 DEF OwnerInv
  <2> QED BY <1>3, <1>8, <2>1, <2>2, <2>3, OwnersStay DEF OwnerInv
<1>10. ASSUME NEW f \in Fingerprints, ~overlap'[f] PROVE Followed(f)'
  <2>1. Followed(f)
    BY <1>3, <1>10 DEF FingerInv
  <2>2. \A p \in Requests : req'[p].fp = f => req[p].fp = f /\ p # r /\ req'[p] = req[p]
    BY <1>3, <1>5, LinkTypes
  <2>3. Alone(f)'
    BY <2>1, <2>2 DEF Followed, Alone
  <2>4. sub'[f].signal = sub[f].signal
    BY <1>4
  <2>5. Finds(f)'
    BY <1>3, <1>6, <2>1, <2>4 DEF Followed, Finds
  <2>6. CASE f = f0
    <3>1. /\ sub[f] = [signal |-> s0, trade |-> 0]
          /\ \A p \in Requests : req'[p].fp # f
      BY <1>1, <1>2, <1>3, <2>1, <2>2, <2>6 DEF Followed, Serving, Alone
    <3> QED BY <1>4, <2>3, <2>4, <2>5, <2>6, <3>1 DEF Followed
  <2>7. CASE f # f0
    <3>1. sub'[f] = sub[f]
      BY <1>4, <2>7
    <3>2. ASSUME NEW p \in Requests, req'[p].fp = f PROVE Serving(req[p], sub[f])'
      <4>1. Serving(req[p], sub[f]) /\ req'[p] = req[p]
        BY <2>1, <2>2, <3>2 DEF Followed
      <4> QED BY <1>6, <3>1, <4>1 DEF Serving, AtWork
    <3> QED BY <2>1, <2>3, <2>5, <3>1, <3>2 DEF Followed
  <2> QED BY <2>6, <2>7
<1>11. FingerInv'
  BY <1>10 DEF FingerInv
<1> QED BY <1>9, <1>11

(* A request, and nothing else, moves on with the signal it has, or ends.   *)
LEMMA OneMoves ==
    ASSUME TypeOK, OrderInv, OwnerInv, FingerInv, NEW r \in Requests, NEW q,
           req' = [req EXCEPT ![r] = q],
           UNCHANGED <<sub, trade, ord, last, overlap, revived>>,
           faults' = faults \/ faults' > 0,
           \/ q = Idle
           \/ /\ AtWork(req[r]) /\ AtWork(q) /\ Hand(q)
              /\ q.signal = req[r].signal /\ q.fp = req[r].fp /\ q.loaded = req[r].loaded,
           q = Idle /\ AtWork(req[r]) => faults' > 0 \/ Unsent(ord[req[r].signal])
    PROVE  OrderInv' /\ OwnerInv' /\ FingerInv'
<1>1. ~AtWork(Idle)
  BY DEF AtWork, Idle, Before, After
<1>2. OrderInv'
  BY <1>1, RequestMoves
<1>3. /\ \A s \in Signals : /\ Committed(s)' = Committed(s)
                            /\ trade'[s].fp = trade[s].fp
                            /\ Live(s)' => Live(s)
      /\ \A p \in Requests :
               \/ req'[p] = Idle
               \/ /\ req'[p].fp = req[p].fp /\ req'[p].loaded = req[p].loaded
                  /\ req'[p].signal = req[p].signal
                  /\ req'[p].pc = req[p].pc \/ (AtWork(req[p]) /\ AtWork(req'[p]))
  BY OrderTypes DEF Committed, Live
<1>4. OwnerInv' /\ FingerInv'
  BY <1>3, SessionsMove
<1> QED BY <1>2, <1>4

(* A request sends its order. *)
LEMMA OneSends ==
    ASSUME TypeOK, OrderInv, OwnerInv, FingerInv,
           UNCHANGED <<sub, trade, last, overlap, revived, faults>>,
           NEW r \in Requests, req[r].pc = "submit", NEW o \in {"transit", "working"},
           ord' = [ord EXCEPT ![req[r].signal][req[r].link] = o],
           NEW q, req' = [req EXCEPT ![r] = q],
           q.pc \in After, q.signal = req[r].signal, q.link = req[r].link,
           q.fp = req[r].fp, q.loaded = req[r].loaded,
           \/ q.pc = "commit" /\ q.status = "ORDER_SUBMITTED" /\ o = "working"
           \/ q.status = "ORDER_PENDING_UNKNOWN"
    PROVE  OrderInv' /\ OwnerInv' /\ FingerInv'
<1>1. OrderInv'
  BY OrderSent
<1>2. AtWork(req[r]) /\ AtWork(q)
  BY DEF AtWork, Before
<1>3. /\ \A s \in Signals : /\ Committed(s)' = Committed(s)
                            /\ trade'[s].fp = trade[s].fp
                            /\ Live(s)' => Live(s)
      /\ \A p \in Requests :
               \/ req'[p] = Idle
               \/ /\ req'[p].fp = req[p].fp /\ req'[p].loaded = req[p].loaded
                  /\ req'[p].signal = req[p].signal
                  /\ req'[p].pc = req[p].pc \/ (AtWork(req[p]) /\ AtWork(req'[p]))
  BY <1>2, OrderTypes DEF Committed, Live
<1>4. OwnerInv' /\ FingerInv'
  BY <1>3, SessionsMove
<1> QED BY <1>1, <1>4

(* The guards between registration and submission. *)
LEMMA GuardTables ==
    ASSUME TypeOK, OrderInv, OwnerInv, FingerInv, NEW r \in Requests,
           CheckLimits(r) \/ CheckExposure(r) \/ Refuse(r) \/ Create(r)
    PROVE  OrderInv' /\ OwnerInv' /\ FingerInv'
<1>1. /\ UNCHANGED <<sub, trade, ord, last, overlap, revived, faults>>
      /\ req[r].pc \in Before
      /\ \/ \E c \in {"exposure", "create", "submit"} : req' = [req EXCEPT ![r].pc = c]
         \/ req' = [req EXCEPT ![r] = Idle]
  BY DEF CheckLimits, CheckExposure, Refuse, Create, Goto, End, Before, closing
<1>2. AtWork(req[r]) /\ Hand(req[r]) /\ req[r] \in Request
  BY <1>1, OrderTypes DEF AtWork, OrderInv
<1>3. CASE req' = [req EXCEPT ![r] = Idle]
  BY <1>1, <1>2, <1>3, OneMoves DEF Hand
<1>4. CASE \E c \in {"exposure", "create", "submit"} : req' = [req EXCEPT ![r].pc = c]
  <2>1. PICK c \in {"exposure", "create", "submit"} : req' = [req EXCEPT ![r].pc = c]
    BY <1>4
  <2> DEFINE q == [req[r] EXCEPT !.pc = c]
  <2>2. /\ q.pc = c /\ q.signal = req[r].signal /\ q.fp = req[r].fp
        /\ q.loaded = req[r].loaded /\ req' = [req EXCEPT ![r] = q]
    BY <1>2, <2>1, OrderTypes DEF Request
  <2>3. AtWork(q) /\ Hand(q) /\ ~(q = Idle)
    BY <1>1, <1>2, <2>1, <2>2 DEF Hand, AtWork, Before, After, Idle
  <2> HIDE DEF q
  <2> QED BY <1>1, <1>2, <2>2, <2>3, OneMoves
<1> QED BY <1>1, <1>3, <1>4

(* Accepted, refused, refused as post-only or lost. *)
LEMMA SubmitTables ==
    ASSUME TypeOK, OrderInv, OwnerInv, FingerInv, NEW r \in Requests,
           \/ SubmitAccepted(r) \/ SubmitRefused(r) \/ PostOnlyRefused(r)
           \/ \E fate \in {"transit", "working"} : SubmitLost(r, fate)
    PROVE  OrderInv' /\ OwnerInv' /\ FingerInv'
<1>1. /\ UNCHANGED <<sub, trade, last, overlap, revived, faults>> /\ req[r].pc = "submit"
  BY DEF SubmitAccepted, SubmitRefused, PostOnlyRefused, SubmitLost, closing
<1>2. AtWork(req[r]) /\ Hand(req[r]) /\ req[r] \in Request /\ Unsent(ord[req[r].signal])
  BY <1>1, OrderTypes DEF AtWork, OrderInv, Hand, Before
<1>3. CASE SubmitRefused(r)
  <2> DEFINE q == [[req[r] EXCEPT !.pc = "commit"] EXCEPT !.status = "ORDER_REJECTED"]
  <2>1. /\ q.pc = "commit" /\ q.status = "ORDER_REJECTED" /\ q.signal = req[r].signal
        /\ q.fp = req[r].fp /\ q.loaded = req[r].loaded /\ q.link = req[r].link
    BY <1>2 DEF Request
  <2>2. req' = [req EXCEPT ![r] = q] /\ ord' = ord
    BY <1>2, <1>3 DEF SubmitRefused
  <2> HIDE DEF q
  <2>3. q.link \in Links
    BY <1>2, <2>1 DEF Request
  <2>4. AtWork(q) /\ Hand(q) /\ ~(q = Idle)
    BY <1>2, <2>1, <2>3
      DEF Hand, AtWork, Before, After, Idle, Told, Unsent, FilledStatus
  <2> QED BY <1>1, <1>2, <2>1, <2>2, <2>4, OneMoves
<1>4. CASE PostOnlyRefused(r)
  <2> DEFINE q == [req[r] EXCEPT !.link = 2]
  <2>1. /\ q.pc = "submit" /\ q.signal = req[r].signal
        /\ q.fp = req[r].fp /\ q.loaded = req[r].loaded
    BY <1>1, <1>2 DEF Request
  <2>2. req' = [req EXCEPT ![r] = q] /\ ord' = ord
    BY <1>2, <1>4 DEF PostOnlyRefused
  <2> HIDE DEF q
  <2>3. AtWork(q) /\ Hand(q) /\ ~(q = Idle)
    BY <1>2, <2>1 DEF Hand, AtWork, Before, After, Idle
  <2> QED BY <1>1, <1>2, <2>1, <2>2, <2>3, OneMoves
<1>5. CASE SubmitAccepted(r)
  <2> DEFINE q == [[[req[r] EXCEPT !.pc = "commit"] EXCEPT !.status = "ORDER_SUBMITTED"]
                     EXCEPT !.type = EntryType(req[r].link)]
  <2>1. /\ q.pc = "commit" /\ q.status = "ORDER_SUBMITTED" /\ q.signal = req[r].signal
        /\ q.fp = req[r].fp /\ q.loaded = req[r].loaded /\ q.link = req[r].link
    BY <1>2 DEF Request
  <2>2. /\ req' = [req EXCEPT ![r] = q]
        /\ ord' = [ord EXCEPT ![req[r].signal][req[r].link] = "working"]
    BY <1>2, <1>5 DEF SubmitAccepted
  <2> HIDE DEF q
  <2> QED BY <1>1, <2>1, <2>2, OneSends DEF After
<1>6. CASE \E fate \in {"transit", "working"} : SubmitLost(r, fate)
  <2> DEFINE q == [[req[r] EXCEPT !.pc = "resolve"] EXCEPT !.status = "ORDER_PENDING_UNKNOWN"]
  <2>1. /\ q.pc = "resolve" /\ q.status = "ORDER_PENDING_UNKNOWN" /\ q.signal = req[r].signal
        /\ q.fp = req[r].fp /\ q.loaded = req[r].loaded /\ q.link = req[r].link
    BY <1>2 DEF Request
  <2>2. PICK o \in {"transit", "working"} :
          /\ req' = [req EXCEPT ![r] = q]
          /\ ord' = [ord EXCEPT ![req[r].signal][req[r].link] = o]
    BY <1>2, <1>6 DEF SubmitLost
  <2> HIDE DEF q
  <2> QED BY <1>1, <2>1, <2>2, OneSends DEF After
<1> QED BY <1>3, <1>4, <1>5, <1>6

(* The lost order is asked for. *)
LEMMA ResolveTables ==
    ASSUME TypeOK, OrderInv, OwnerInv, FingerInv, NEW r \in Requests,
           Resolve(r) \/ ResolveFails(r)
    PROVE  OrderInv' /\ OwnerInv' /\ FingerInv'
<1>1. /\ UNCHANGED <<sub, trade, ord, last, overlap, revived>> /\ req[r].pc = "resolve"
  BY DEF Resolve, ResolveFails, closing
<1>2. AtWork(req[r]) /\ Hand(req[r]) /\ req[r] \in Request /\ req[r].status = "ORDER_PENDING_UNKNOWN"
  BY <1>1, OrderTypes DEF AtWork, OrderInv, Hand, After
<1>3. CASE ResolveFails(r)
  <2>1. req' = [req EXCEPT ![r] = Idle] /\ faults' > 0
    BY <1>3, OrderTypes DEF ResolveFails, End
  <2> QED BY <1>1, <2>1, OneMoves
<1>4. CASE Resolve(r)
  <2>1. faults' = faults
    BY <1>4 DEF Resolve
  <2>2. PICK o : o = ord[req[r].signal][req[r].link]
    OBVIOUS
  <2>3. \/ Known(o) /\ req' = [req EXCEPT ![r].pc = "commit", ![r].status = map_remote_order_status(o)]
        \/ req' = [req EXCEPT ![r].pc = "commit"]
    BY <1>4, <2>2, Zenon DEF Resolve, Goto
  <2>4. PICK status : /\ \/ status = map_remote_order_status(o)
                         \/ status = "ORDER_PENDING_UNKNOWN"
                      /\ req' = [req EXCEPT ![r] =
                                   [[req[r] EXCEPT !.pc = "commit"] EXCEPT !.status = status]]
    <3>1. CASE req' = [req EXCEPT ![r].pc = "commit"]
      <4>1. [req[r] EXCEPT !.pc = "commit"] =
              [[req[r] EXCEPT !.pc = "commit"] EXCEPT !.status = "ORDER_PENDING_UNKNOWN"]
        BY <1>2 DEF Request
      <4> QED BY <3>1, <4>1, OrderTypes
    <3>2. CASE req' = [req EXCEPT ![r].pc = "commit", ![r].status = map_remote_order_status(o)]
      BY <3>2, OrderTypes
    <3> QED BY <2>3, <3>1, <3>2
  <2> DEFINE q == [[req[r] EXCEPT !.pc = "commit"] EXCEPT !.status = status]
  <2>5. /\ q.pc = "commit" /\ q.status = status /\ q.signal = req[r].signal
        /\ q.fp = req[r].fp /\ q.loaded = req[r].loaded /\ q.link = req[r].link
        /\ req' = [req EXCEPT ![r] = q]
    BY <1>2, <2>4 DEF Request
  <2> HIDE DEF q
  <2>6. Told(ord[req[r].signal], status, req[r].link) /\ status # "NONE"
    BY <1>1, <1>2, <2>2, <2>4
      DEF Hand, After, Told, map_remote_order_status, FilledStatus
  <2>7. AtWork(q) /\ Hand(q) /\ ~(q = Idle)
    BY <1>1, <1>2, <2>5, <2>6 DEF Hand, AtWork, Before, After, Idle
  <2> QED BY <1>1, <1>2, <2>1, <2>5, <2>7, OneMoves
<1> QED BY <1>3, <1>4

(* What a submission leads to is committed, and the exchange's answer about *)
(* it is what the row then says.                                            *)
LEMMA RecheckTables ==
    ASSUME TypeOK, OrderInv, OwnerInv, FingerInv, NEW r \in Requests, Recheck(r)
    PROVE  OrderInv' /\ OwnerInv' /\ FingerInv'
<1>1. /\ UNCHANGED <<sub, ord, last, overlap, revived, faults>>
      /\ req[r].pc = "recheck" /\ ~AtWork(req[r]) /\ req[r] \in Request
  BY OrderTypes DEF Recheck, AtWork, Before, After, closing
<1>2. PICK t : t = get_trade_for_submission(req[r].loaded)
  OBVIOUS
<1>3. PICK found : found = map_remote_order_status(ord[t][trade[t].link])
  OBVIOUS
<1>4. \/ End(r) /\ UNCHANGED trade
      \/ /\ found # "ORDER_PENDING_UNKNOWN"
         /\ trade' = [trade EXCEPT ![t].status = found]
         /\ IF is_trade_terminal(found) THEN Goto(r, "register") ELSE End(r)
  BY <1>2, <1>3, Zenon DEF Recheck
<1>5. t \in Signals /\ Committed(t)
  <2>1. Session(req[r]) /\ req[r].loaded \in Submission
    BY LinkTypes DEF OwnerInv
  <2> QED BY <1>1, <1>2, <2>1, LinkTypes DEF get_trade_for_submission, Session, Committed
<1>6. CASE End(r) /\ UNCHANGED trade
  BY <1>1, <1>6, OneMoves DEF End
<1>7. CASE /\ found # "ORDER_PENDING_UNKNOWN"
           /\ trade' = [trade EXCEPT ![t].status = found]
           /\ IF is_trade_terminal(found) THEN Goto(r, "register") ELSE End(r)
  <2>1. /\ found \in {"ORDER_CONFIRMED", "ORDER_CANCELLED", "ORDER_REJECTED"}
        /\ found = "ORDER_CONFIRMED" => ord[t][trade[t].link] = "filled"
        /\ found = "ORDER_CANCELLED" => ord[t][trade[t].link] = "cancelled"
        /\ found = "ORDER_REJECTED" => ord[t][trade[t].link] = "rejected"
    BY <1>3, <1>7 DEF map_remote_order_status
  <2>2. \A p \in Requests : AtWork(req[p]) \/ AtWork(req'[p]) => req'[p] = req[p]
    <3>1. /\ \A p \in Requests \ {r} : req'[p] = req[p]
          /\ req'[r].pc \in {"register", "idle"}
      BY <1>1, <1>7, OrderTypes DEF Goto, End, Idle, Request
    <3> QED BY <1>1, <3>1 DEF AtWork, Before, After
  <2>3. Told(ord[t], found, trade[t].link)
    <3>1. Row(t)
      BY <1>5 DEF OrderInv
    <3> QED BY <1>5, <2>1, <3>1 DEF Row, Told, FilledStatus
  <2>4. OrderInv'
    BY <1>1, <1>5, <1>7, <2>1, <2>2, <2>3, StatusMoves
  <2>5. OwnerInv' /\ FingerInv'
    BY <1>1, <1>2, <1>5, <1>7, <2>1, RecheckSession
  <2> QED BY <2>4, <2>5
<1> QED BY <1>4, <1>6, <1>7

LEMMA RegisterTables ==
    ASSUME TypeOK, OrderInv, OwnerInv, FingerInv, NEW r \in Requests, Register(r),
           last' \in 0..MaxSignals
    PROVE  OrderInv' /\ OwnerInv' /\ FingerInv'
<1>1. /\ UNCHANGED <<trade, ord, overlap, revived, faults>> /\ req[r] \in Request
      /\ req[r].pc = "register" /\ ~AtWork(req[r])
  BY OrderTypes DEF Register, AtWork, Before, After, closing
<1>2. \/ End(r) /\ UNCHANGED <<sub, last>>
      \/ /\ last' = last + 1
         /\ sub' = [sub EXCEPT ![req[r].fp] =
                      [signal |-> last + 1,
                       trade |-> IF req[r].loaded.trade # 0 THEN 0 ELSE @.trade]]
         /\ \/ End(r)
            \/ req' = [req EXCEPT ![r].pc = "limits", ![r].signal = last + 1]
  BY Zenon DEF Register
<1>3. CASE End(r) /\ UNCHANGED <<sub, last>>
  BY <1>1, <1>3, OneMoves DEF End
<1>4. CASE /\ last' = last + 1
           /\ sub' = [sub EXCEPT ![req[r].fp] =
                        [signal |-> last + 1,
                         trade |-> IF req[r].loaded.trade # 0 THEN 0 ELSE @.trade]]
           /\ \/ End(r)
              \/ req' = [req EXCEPT ![r].pc = "limits", ![r].signal = last + 1]
  <2>1. last' \in Signals /\ last' <= MaxSignals
    BY <1>4, OrderTypes DEF Signals
  <2>2. OwnerInv' /\ FingerInv'
    BY <1>1, <1>4, <2>1, RegisterSession
  <2>3. OrderInv'
    <3>1. CASE End(r)
      <4>1. ~AtWork(Idle)
        BY DEF AtWork, Before, After, Idle
      <4> QED BY <1>1, <1>4, <2>1, <3>1, <4>1, NewSignal DEF End
    <3>2. CASE req' = [req EXCEPT ![r].pc = "limits", ![r].signal = last + 1]
      <4> DEFINE q == [[req[r] EXCEPT !.pc = "limits"] EXCEPT !.signal = last + 1]
      <4>1. q.pc = "limits" /\ q.signal = last + 1 /\ req' = [req EXCEPT ![r] = q]
        BY <1>1, <3>2, OrderTypes DEF Request
      <4> HIDE DEF q
      <4> QED BY <1>1, <1>4, <2>1, <4>1, NewSignal
    <3> QED BY <1>4, <3>1, <3>2
  <2> QED BY <2>2, <2>3
<1> QED BY <1>2, <1>3, <1>4

LEMMA BeginTables ==
    ASSUME TypeOK, OrderInv, OwnerInv, FingerInv,
           NEW r \in Requests, NEW f \in Fingerprints, Begin(r, f)
    PROVE  OrderInv' /\ OwnerInv' /\ FingerInv'
<1>1. OwnerInv' /\ FingerInv'
  BY BeginSession
<1>2. OrderInv'
  <2> DEFINE q0 == [Idle EXCEPT !.fp = f, !.loaded = sub[f]]
  <2>1. /\ UNCHANGED <<trade, ord, last, faults>> /\ req[r].pc = "idle"
        /\ \/ req' = [req EXCEPT ![r] = Idle]
           \/ req' = [req EXCEPT ![r] = [q0 EXCEPT !.pc = "recheck"]]
           \/ req' = [req EXCEPT ![r] = [q0 EXCEPT !.pc = "register"]]
    BY Zenon DEF Begin
  <2>2. /\ ~AtWork(req[r]) /\ ~AtWork(Idle)
        /\ ~AtWork([q0 EXCEPT !.pc = "recheck"]) /\ ~AtWork([q0 EXCEPT !.pc = "register"])
    BY <2>1 DEF AtWork, Before, After, Idle
  <2> HIDE DEF q0
  <2> QED BY <2>1, <2>2, RequestMoves
<1> QED BY <1>1, <1>2

(* The request that writes the trade into the submission is not at work.    *)
LEMMA LastCommits ==
    ASSUME TypeOK, OrderInv, OwnerInv, FingerInv, NEW r \in Requests, Commit(r) \/ Link(r)
    PROVE  OrderInv' /\ OwnerInv' /\ FingerInv'
<1>1. CASE Commit(r)
  BY <1>1, RowCommitted, CommitSession
<1>2. CASE Link(r)
  <2>1. /\ UNCHANGED <<trade, ord, last, faults>> /\ req' = [req EXCEPT ![r] = Idle]
        /\ ~AtWork(req[r]) /\ ~AtWork(Idle)
    BY <1>2 DEF Link, End, AtWork, Before, After, Idle
  <2> QED BY <1>2, <2>1, RequestMoves, LinkSession
<1> QED BY <1>1, <1>2

(* A committed row takes a status that the exchange has told; a trade that  *)
(* had ended is remembered when it lives again.                             *)
LEMMA StatusTables ==
    ASSUME TypeOK, OrderInv, OwnerInv, FingerInv,
           UNCHANGED <<sub, ord, last, req, overlap, faults>>, revived \subseteq revived',
           NEW s \in Signals, Committed(s), NEW status,
           status # "NONE", Told(ord[s], status, trade[s].link),
           trade' = [trade EXCEPT ![s].status = status],
           is_trade_terminal(status) \/ Live(s) \/ s \in revived'
    PROVE  OrderInv' /\ OwnerInv' /\ FingerInv'
<1>1. OrderInv'
  BY StatusMoves
<1>2. \A u \in Signals : /\ Committed(u)' = Committed(u)
                         /\ trade'[u].fp = trade[u].fp
                         /\ Live(u)' => Live(u) \/ u \in revived'
  <2> SUFFICES ASSUME NEW u \in Signals
               PROVE  /\ Committed(u)' = Committed(u)
                      /\ trade'[u].fp = trade[u].fp
                      /\ Live(u)' => Live(u) \/ u \in revived'
    OBVIOUS
  <2>1. /\ u # s => trade'[u] = trade[u]
        /\ u = s => trade'[u].status = status /\ trade'[u].fp = trade[u].fp
    BY OrderTypes DEF Trade
  <2> QED BY <2>1 DEF Committed, Live
<1>3. OwnerInv' /\ FingerInv'
  BY <1>2, SessionsMove
<1> QED BY <1>1, <1>3

(* What a synchronisation writes is what became of the order. *)
LEMMA SyncTables ==
    ASSUME TypeOK, OrderInv, OwnerInv, FingerInv, NEW s \in Signals, Sync(s)
    PROVE  OrderInv' /\ OwnerInv' /\ FingerInv'
<1> DEFINE o == ord[s][trade[s].link]
<1>1. /\ UNCHANGED <<sub, ord, last, req, overlap, faults>>
      /\ Committed(s)
  BY Zenon DEF Sync, Committed
<1>2. PICK status \in TradeStatus :
         /\ \/ o \in {"cancelled", "rejected"} /\ status = map_remote_order_status(o)
            \/ o = "filled" /\ status \in FilledStatus
         /\ trade' = [trade EXCEPT ![s].status = status]
         /\ revived' = IF /\ trade[s].status \in {"POSITION_CLOSE_FAILED", "PNL_RECORDED"}
                          /\ status # "POSITION_CLOSE_FAILED"
                       THEN revived \cup {s} ELSE revived
  BY Zenon DEF Sync
<1>3. Told(ord[s], trade[s].status, trade[s].link)
  BY <1>1 DEF OrderInv, Row
<1>4. status # "NONE" /\ Told(ord[s], status, trade[s].link)
  BY <1>2, <1>3 DEF Told, FilledStatus, map_remote_order_status
<1>5. is_trade_terminal(status) \/ Live(s) \/ s \in revived'
  <2>1. CASE o \in {"cancelled", "rejected"}
    BY <1>2, <2>1 DEF map_remote_order_status, is_trade_terminal
  <2>2. CASE o = "filled"
    BY <1>1, <1>2, <1>3, <2>2 DEF Told, Live, Committed, is_trade_terminal
  <2> QED BY <1>2, <2>1, <2>2
<1>6. revived \subseteq revived'
  BY <1>2
<1> QED BY <1>1, <1>2, <1>4, <1>5, <1>6, StatusTables

(* The tables are as they were, and the exchange takes no word back.        *)
LEMMA OrdersTables ==
    ASSUME TypeOK, OrderInv, OwnerInv, FingerInv,
           UNCHANGED <<sub, trade, last, req, overlap, revived, faults>>,
           \A s \in Signals : \A j \in Links :
               /\ (ord[s][j] = "none") = (ord'[s][j] = "none")
               /\ Known(ord[s][j]) => Known(ord'[s][j])
               /\ ord[s][j] \in Final => ord'[s][j] = ord[s][j]
    PROVE  OrderInv' /\ OwnerInv' /\ FingerInv'
<1>1. OrderInv'
  BY OrdersMove
<1>2. \A s \in Signals : /\ Committed(s)' = Committed(s)
                         /\ trade'[s].fp = trade[s].fp
                         /\ Live(s)' => Live(s)
  BY DEF Committed, Live
<1>3. OwnerInv' /\ FingerInv'
  BY <1>2, SessionsMove
<1> QED BY <1>1, <1>3

(* Orders end, and the kill switch cancels some that work. *)
LEMMA OrdersEnd ==
    ASSUME TypeOK,
           \/ \E s \in Signals, k \in Links : Exchange(s, k)
           \/ \E S \in SUBSET Signals : ActivateKillSwitch(S)
    PROVE  \A s \in Signals : \A j \in Links :
               /\ (ord[s][j] = "none") = (ord'[s][j] = "none")
               /\ Known(ord[s][j]) => Known(ord'[s][j])
               /\ ord[s][j] \in Final => ord'[s][j] = ord[s][j]
<1>1. CASE \E s \in Signals, k \in Links : Exchange(s, k)
  <2>1. PICK s \in Signals, k \in Links : Exchange(s, k)
    BY <1>1
  <2>2. PICK o \in {"working"} \cup Final :
           /\ ord' = [ord EXCEPT ![s][k] = o]
           /\ ord[s][k] \in {"transit", "working"}
    BY <2>1, SettingsAssumption DEF Exchange, Final
  <2>3. \A u \in Signals : \A j \in Links :
           ord'[u][j] = IF u = s /\ j = k THEN o ELSE ord[u][j]
    BY <2>2, OrderTypes
  <2> QED BY <2>2, <2>3 DEF Known, Final
<1>2. CASE \E S \in SUBSET Signals : ActivateKillSwitch(S)
  <2>1. PICK S \in SUBSET Signals : ActivateKillSwitch(S)
    BY <1>2
  <2>2. \A u \in Signals : \A j \in Links :
           \/ ord'[u][j] = ord[u][j]
           \/ ord'[u][j] = "cancelled" /\ ord[u][j] = "working"
    BY <2>1 DEF ActivateKillSwitch
  <2> QED BY <2>2 DEF Known, Final
<1> QED BY <1>1, <1>2

(* Orders end, the switch goes up and down, outcomes are begun. *)
LEMMA SurroundingsTables ==
    ASSUME TypeOK, OrderInv, OwnerInv, FingerInv,
           \/ \E s \in Signals, k \in Links : Exchange(s, k)
           \/ \E S \in SUBSET Signals : ActivateKillSwitch(S)
           \/ KillSwitchOn
           \/ ResetKillSwitch
           \/ \E c \in Closers, s \in Signals \cup {0} : BeginOutcome(c, s)
    PROVE  OrderInv' /\ OwnerInv' /\ FingerInv'
<1>1. UNCHANGED <<sub, trade, last, req, overlap, revived, faults>>
  BY DEF Exchange, ActivateKillSwitch, KillSwitchOn, ResetKillSwitch, BeginOutcome, closing
<1>2. CASE \/ \E s \in Signals, k \in Links : Exchange(s, k)
           \/ \E S \in SUBSET Signals : ActivateKillSwitch(S)
  BY <1>1, <1>2, OrdersEnd, OrdersTables
<1>3. CASE \/ KillSwitchOn \/ ResetKillSwitch
           \/ \E c \in Closers, s \in Signals \cup {0} : BeginOutcome(c, s)
  <2>1. ord' = ord
    BY <1>3 DEF KillSwitchOn, ResetKillSwitch, BeginOutcome
  <2> QED BY <1>1, <2>1, OrdersTables
<1> QED BY <1>2, <1>3

(* The trade whose outcome is being recorded is committed, and its order    *)
(* filled.                                                                  *)
Filled(s) == Committed(s) /\ ord[s][trade[s].link] = "filled"

CloserInv ==
    \A c \in Closers : closer[c].busy /\ closer[c].trade # 0 =>
        closer[c].trade \in Signals /\ Filled(closer[c].trade)

(* ... as it stays, whatever happens. *)
LEMMA FilledStays ==
    ASSUME TypeOK, OrderInv, OwnerInv, [Next]_vars
    PROVE  \A s \in Signals : Filled(s) => Filled(s)'
<1>1. CASE UNCHANGED <<trade, ord>>
  BY <1>1 DEF Filled, Committed
<1>2. ASSUME NEW t, NEW status, status # "NONE", ord' = ord,
             trade' = [trade EXCEPT ![t].status = status]
      PROVE  \A s \in Signals : Filled(s) => Filled(s)'
  BY <1>2, OrderTypes DEF Filled, Committed, Trade
<1>3. ASSUME NEW r \in Requests, Commit(r)
      PROVE  \A s \in Signals : Filled(s) => Filled(s)'
  <2>1. req[r].signal \in Signals /\ ~Committed(req[r].signal)
    BY <1>3, OrderTypes DEF Commit, OrderInv, Hand, AtWork, After
  <2>2. ord' = ord /\ \A s \in Signals : s # req[r].signal => trade'[s] = trade[s]
    BY <1>3, OrderTypes DEF Commit
  <2> QED BY <2>1, <2>2 DEF Filled, Committed
<1>4. ASSUME NEW r \in Requests, req[r].pc = "submit", trade' = trade,
             NEW o, ord' = [ord EXCEPT ![req[r].signal][req[r].link] = o]
      PROVE  \A s \in Signals : Filled(s) => Filled(s)'
  <2>1. req[r].signal \in Signals /\ ~Committed(req[r].signal)
    BY <1>4, OrderTypes DEF OrderInv, Hand, AtWork, Before
  <2>2. \A s \in Signals : s # req[r].signal => ord'[s] = ord[s]
    BY <1>4, OrderTypes
  <2> QED BY <1>4, <2>1, <2>2 DEF Filled, Committed
<1>5. CASE \/ \E s \in Signals, k \in Links : Exchange(s, k)
           \/ \E S \in SUBSET Signals : ActivateKillSwitch(S)
  <2>1. trade' = trade
    BY <1>5 DEF Exchange, ActivateKillSwitch
  <2> QED BY <1>5, <2>1, OrdersEnd, OrderTypes DEF Filled, Committed, Final
<1>6. CASE \E r \in Requests : Serve(r)
  <2>1. PICK r \in Requests : Serve(r)
    BY <1>6
  <2>2. CASE Recheck(r)
    <3>1. PICK t : t = get_trade_for_submission(req[r].loaded)
      OBVIOUS
    <3>2. PICK found : found = map_remote_order_status(ord[t][trade[t].link])
      OBVIOUS
    <3>3. ord' = ord /\ (trade' = trade \/ trade' = [trade EXCEPT ![t].status = found])
      BY <2>2, <3>1, <3>2, Zenon DEF Recheck
    <3>4. found # "NONE"
      BY <3>2 DEF map_remote_order_status
    <3> QED BY <1>1, <1>2, <3>3, <3>4
  <2>3. CASE Commit(r)
    BY <1>3, <2>3
  <2>4. CASE SubmitAccepted(r)
    <3>1. /\ req[r].pc = "submit" /\ trade' = trade
          /\ ord' = [ord EXCEPT ![req[r].signal][req[r].link] = "working"]
      BY <2>4 DEF SubmitAccepted
    <3> QED BY <1>4, <3>1
  <2>5. CASE \E fate \in {"transit", "working"} : SubmitLost(r, fate)
    <3>1. PICK fate : SubmitLost(r, fate)
      BY <2>5
    <3>2. /\ req[r].pc = "submit" /\ trade' = trade
          /\ ord' = [ord EXCEPT ![req[r].signal][req[r].link] = fate]
      BY <3>1 DEF SubmitLost
    <3> QED BY <1>4, <3>2
  <2>6. CASE ~\/ Recheck(r) \/ Commit(r) \/ SubmitAccepted(r)
              \/ \E fate \in {"transit", "working"} : SubmitLost(r, fate)
    <3>1. UNCHANGED <<trade, ord>>
      BY <2>1, <2>6 DEF Serve, Register, CheckLimits, CheckExposure, Refuse, Create,
         SubmitRefused, PostOnlyRefused, Resolve, ResolveFails, Link
    <3> QED BY <1>1, <3>1
  <2> QED BY <2>2, <2>3, <2>4, <2>5, <2>6
<1>7. CASE \E s \in Signals : Sync(s)
  <2>1. PICK s \in Signals : Sync(s)
    BY <1>7
  <2>2. PICK status : /\ trade' = [trade EXCEPT ![s].status = status]
                      /\ \/ status = map_remote_order_status(ord[s][trade[s].link])
                         \/ status \in FilledStatus
    BY <2>1, Zenon DEF Sync
  <2>3. ord' = ord /\ status # "NONE"
    BY <2>1, <2>2 DEF Sync, map_remote_order_status, FilledStatus
  <2> QED BY <1>2, <2>2, <2>3
<1>8. CASE \E c \in Closers : EndOutcome(c)
  <2>1. PICK c \in Closers : EndOutcome(c)
    BY <1>8
  <2>2. /\ ord' = ord
        /\ \/ trade' = trade
           \/ trade' = [trade EXCEPT ![closer[c].trade].status = "PNL_RECORDED"]
    BY <2>1, Zenon DEF EndOutcome
  <2>3. PICK t : t = closer[c].trade
    OBVIOUS
  <2> QED BY <1>1, <1>2, <2>2, <2>3
<1>9. CASE \/ \E r \in Requests, f \in Fingerprints : Begin(r, f)
           \/ \E c \in Closers, s \in Signals \cup {0} : BeginOutcome(c, s)
           \/ KillSwitchOn \/ ResetKillSwitch \/ Crash \/ UNCHANGED vars
  <2>1. UNCHANGED <<trade, ord>>
    BY <1>9 DEF Begin, BeginOutcome, KillSwitchOn, ResetKillSwitch, Crash, vars
  <2> QED BY <1>1, <2>1
<1> QED BY <1>5, <1>6, <1>7, <1>8, <1>9 DEF Next

LEMMA InitClosers == Init => CloserInv
  BY DEF Init, CloserInv, NotClosing

LEMMA NextClosers ==
    ASSUME TypeOK, OrderInv, OwnerInv, CloserInv, [Next]_vars
    PROVE  CloserInv'
<1>1. \A s \in Signals : Filled(s) => Filled(s)'
  BY FilledStays
<1>2. ASSUME \A c \in Closers : closer'[c] = closer[c] \/ ~closer'[c].busy
      PROVE  CloserInv'
  <2> SUFFICES ASSUME NEW c \in Closers, closer'[c].busy, closer'[c].trade # 0
               PROVE  closer'[c].trade \in Signals /\ Filled(closer[c].trade)'
    BY DEF CloserInv
  <2>1. PICK s : s = closer[c].trade
    OBVIOUS
  <2>2. closer'[c].trade = s /\ s \in Signals /\ Filled(s)
    BY <1>2, <2>1 DEF CloserInv
  <2> QED BY <1>1, <2>2 DEF Filled, Committed
<1>3. CASE \E c \in Closers, s \in Signals \cup {0} : BeginOutcome(c, s)
  <2>1. PICK c \in Closers, s \in Signals \cup {0} : BeginOutcome(c, s)
    BY <1>3
  <2>2. /\ \A d \in Closers \ {c} : closer'[d] = closer[d]
        /\ closer'[c].trade = s
    BY <2>1 DEF BeginOutcome, TypeOK
  <2>3. s # 0 => Filled(s)
    BY <2>1 DEF BeginOutcome, Filled, Committed, FilledStatus
  <2> SUFFICES ASSUME NEW d \in Closers, closer'[d].busy, closer'[d].trade # 0
               PROVE  closer'[d].trade \in Signals /\ Filled(closer[d].trade)'
    BY DEF CloserInv
  <2>4. PICK u : u = closer'[d].trade
    OBVIOUS
  <2>5. u \in Signals /\ Filled(u)
    BY <2>2, <2>3, <2>4 DEF CloserInv
  <2> QED BY <1>1, <2>4, <2>5 DEF Filled, Committed
<1>4. CASE (\E c \in Closers : EndOutcome(c)) \/ Crash
  <2>1. \A c \in Closers : closer'[c] = closer[c] \/ closer'[c] = NotClosing
    BY <1>4 DEF EndOutcome, Crash, TypeOK
  <2> QED BY <1>2, <2>1 DEF NotClosing
<1>5. CASE ~\/ \E c \in Closers, s \in Signals \cup {0} : BeginOutcome(c, s)
            \/ \E c \in Closers : EndOutcome(c)
            \/ Crash
  <2>1. closer' = closer
    <3>1. CASE \E r \in Requests : Serve(r)
      BY <3>1 DEF Serve, Recheck, Register, CheckLimits, CheckExposure, Refuse, Create,
         SubmitAccepted, SubmitRefused, PostOnlyRefused, SubmitLost, Resolve, ResolveFails,
         Commit, Link, closing
    <3>2. CASE ~\E r \in Requests : Serve(r)
      BY <1>5, <3>2 DEF Next, vars, Begin, Exchange, Sync, ActivateKillSwitch, KillSwitchOn,
         ResetKillSwitch, closing
    <3> QED BY <3>1, <3>2
  <2> QED BY <1>2, <2>1
<1> QED BY <1>3, <1>4, <1>5

(* An outcome is written into a trade whose order has filled.               *)
LEMMA EndOutcomeTables ==
    ASSUME TypeOK, OrderInv, OwnerInv, FingerInv, CloserInv, NEW c \in Closers, EndOutcome(c)
    PROVE  OrderInv' /\ OwnerInv' /\ FingerInv'
<1>1. UNCHANGED <<sub, ord, last, req, overlap, revived, faults>> /\ closer[c].busy
  BY Zenon DEF EndOutcome
<1>2. PICK s : s = closer[c].trade
  OBVIOUS
<1>3. CASE s = 0
  <2>1. trade' = trade
    BY <1>2, <1>3, Zenon DEF EndOutcome
  <2> QED BY <1>1, <2>1, OrdersTables
<1>4. CASE s # 0
  <2>1. trade' = [trade EXCEPT ![s].status = "PNL_RECORDED"]
    BY <1>2, <1>4, Zenon DEF EndOutcome
  <2>2. s \in Signals /\ Filled(s)
    BY <1>1, <1>2, <1>4 DEF CloserInv
  <2>3. Told(ord[s], trade[s].status, trade[s].link) /\ Committed(s)
    BY <2>2 DEF OrderInv, Row, Filled
  <2>4. Told(ord[s], "PNL_RECORDED", trade[s].link)
    BY <2>2, <2>3 DEF Told, Filled
  <2>5. is_trade_terminal("PNL_RECORDED")
    BY DEF is_trade_terminal
  <2> QED BY <1>1, <2>1, <2>2, <2>3, <2>4, <2>5, StatusTables
<1> QED BY <1>3, <1>4

(* A crash forgets every request, and counts as a fault. *)
LEMMA CrashTables ==
    ASSUME TypeOK, OrderInv, OwnerInv, FingerInv, Crash
    PROVE  OrderInv' /\ OwnerInv' /\ FingerInv'
<1>1. /\ UNCHANGED <<sub, trade, ord, last, overlap, revived>> /\ faults' > 0
      /\ \A r \in Requests : req'[r] = Idle
  BY OrderTypes DEF Crash
<1>2. ~AtWork(Idle)
  BY DEF AtWork, Before, After, Idle
<1>3. OrderInv'
  <2>1. \A s \in Signals : Row(s)' /\ Kept(s)'
    <3>1. \A s \in Signals : Row(s)' = Row(s)
      BY <1>1 DEF Row, Committed
    <3> QED BY <1>1, <3>1 DEF OrderInv, Kept
  <2>2. \A r \in Requests : Hand(req[r])'
    BY <1>1, <1>2 DEF Hand, AtWork, Before, After
  <2>3. OwnSignals'
    <3>1. \A r \in Requests : ~AtWork(req'[r])
      BY <1>1, <1>2
    <3> QED BY <3>1 DEF OwnSignals, AtWork
  <2> QED BY <2>1, <2>2, <2>3 DEF OrderInv
<1>4. \A s \in Signals : /\ Committed(s)' = Committed(s)
                         /\ trade'[s].fp = trade[s].fp
                         /\ Live(s)' => Live(s)
  BY <1>1 DEF Committed, Live
<1>5. OwnerInv' /\ FingerInv'
  BY <1>1, <1>4, SessionsMove
<1> QED BY <1>3, <1>5

TableInv == IndInv /\ OrderInv /\ OwnerInv /\ FingerInv /\ CloserInv

LEMMA NextTables == TableInv /\ [Next]_vars => TableInv'
<1> SUFFICES ASSUME TableInv, [Next]_vars PROVE TableInv'
  OBVIOUS
<1>1. /\ IndInv' /\ last' \in 0..MaxSignals
      /\ TypeOK /\ OrderInv /\ OwnerInv /\ FingerInv /\ CloserInv
  BY NextInv DEF TableInv, IndInv, TypeOK
<1> SUFFICES OrderInv' /\ OwnerInv' /\ FingerInv'
  BY <1>1, NextClosers DEF TableInv
<1>2. CASE \E r \in Requests, f \in Fingerprints : Begin(r, f)
  BY <1>1, <1>2, BeginTables
<1>3. CASE \E r \in Requests : Serve(r)
  <2>1. PICK r \in Requests : Serve(r)
    BY <1>3
  <2>2. CASE Recheck(r)
    BY <1>1, <2>2, RecheckTables
  <2>3. CASE Register(r)
    BY <1>1, <2>3, RegisterTables
  <2>4. CASE CheckLimits(r) \/ CheckExposure(r) \/ Refuse(r) \/ Create(r)
    BY <1>1, <2>4, GuardTables
  <2>5. CASE \/ SubmitAccepted(r) \/ SubmitRefused(r) \/ PostOnlyRefused(r)
             \/ \E fate \in {"transit", "working"} : SubmitLost(r, fate)
    BY <1>1, <2>5, SubmitTables
  <2>6. CASE Resolve(r) \/ ResolveFails(r)
    BY <1>1, <2>6, ResolveTables
  <2>7. CASE Commit(r) \/ Link(r)
    BY <1>1, <2>7, LastCommits
  <2> QED BY <2>1, <2>2, <2>3, <2>4, <2>5, <2>6, <2>7 DEF Serve
<1>4. CASE \/ \E s \in Signals, k \in Links : Exchange(s, k)
           \/ \E S \in SUBSET Signals : ActivateKillSwitch(S)
           \/ KillSwitchOn
           \/ ResetKillSwitch
           \/ \E c \in Closers, s \in Signals \cup {0} : BeginOutcome(c, s)
  BY <1>1, <1>4, SurroundingsTables
<1>5. CASE \E s \in Signals : Sync(s)
  BY <1>1, <1>5, SyncTables
<1>6. CASE \E c \in Closers : EndOutcome(c)
  BY <1>1, <1>6, EndOutcomeTables
<1>7. CASE Crash
  BY <1>1, <1>7, CrashTables
<1>8. CASE UNCHANGED vars
  <2>1. UNCHANGED <<sub, trade, ord, last, req, overlap, revived, faults>>
    BY <1>8 DEF vars, closing
  <2> QED BY <1>1, <2>1, OrdersTables
<1> QED BY <1>2, <1>3, <1>4, <1>5, <1>6, <1>7, <1>8 DEF Next

-----------------------------------------------------------------------------
(* The rows, the exchange's orders, the requests in flight and the          *)
(* submissions fit together after every step, for any set of requests and   *)
(* fingerprints, any settings and any number of faults.                     *)
THEOREM TablesInductive == Spec => []TableInv
<1>1. Init => TableInv
  BY InitInv, InitOrders, InitLinks, InitClosers DEF TableInv
<1> QED BY <1>1, NextTables, PTL DEF Spec

(* A committed trade never contradicts the exchange, whoever wrote its row  *)
(* last (the request, a replay, exchange_sync or a recorded outcome):       *)
(* ORDER_REJECTED only if no order of it was taken or the one that was has  *)
(* been rejected since, ORDER_CANCELLED only if it was cancelled, and a     *)
(* position or an outcome only from a filled order.                         *)
THEOREM RowAgrees == Spec => []RowAgreesWithExchange
<1>1. TableInv => RowAgreesWithExchange
  <2> SUFFICES ASSUME TableInv, NEW s \in Signals
               PROVE  LET o == ord[s][trade[s].link]
                      IN  /\ trade[s].status = "ORDER_REJECTED" =>
                                \A k \in Links : ord[s][k] \in {"none", "rejected"}
                          /\ trade[s].status = "ORDER_SUBMITTED" => Known(o)
                          /\ trade[s].status = "ORDER_CANCELLED" => o = "cancelled"
                          /\ trade[s].status \in FilledStatus \cup {"PNL_RECORDED"} =>
                                o = "filled"
    BY DEF RowAgreesWithExchange
  <2>1. Row(s)
    BY DEF TableInv, OrderInv
  <2>2. "NONE" \notin FilledStatus
    BY DEF FilledStatus
  <2> QED BY <2>1, <2>2 DEF Row, Committed, Told
<1> QED BY TablesInductive, <1>1, PTL

(* Without a fault every order that execute has sent is named by its row or *)
(* in the hands of the request that sent it.                                *)
THEOREM NothingStranded == Spec => []NoStrandedOrder
<1>1. TableInv => NoStrandedOrder
  <2> SUFFICES ASSUME TableInv, NEW s \in Signals, NEW k \in Links, ord[s][k] # "none"
               PROVE  \/ trade[s].status # "NONE" /\ trade[s].link = k
                      \/ InHand(s, k)
                      \/ faults > 0
    BY DEF NoStrandedOrder
  <2>1. Row(s) /\ Kept(s) /\ ~Unsent(ord[s])
    BY DEF TableInv, OrderInv, Unsent
  <2>2. CASE Committed(s)
    BY <2>1, <2>2 DEF Row, Told, Committed
  <2>3. CASE ~Committed(s) /\ ~(faults > 0)
    <3>1. PICK r \in Requests : AtWork(req[r]) /\ req[r].signal = s
      BY <2>1, <2>3 DEF Kept
    <3>2. Hand(req[r])
      BY DEF TableInv, OrderInv
    <3>3. req[r].pc \in After /\ req[r].link = k
      BY <2>1, <3>1, <3>2 DEF Hand, AtWork, Told
    <3> QED BY <3>1, <3>3 DEF InHand, After
  <2> QED BY <2>2, <2>3
<1> QED BY TablesInductive, <1>1, PTL

(* Requests of a fingerprint that never overlap always find its live trade  *)
(* (get_trade_for_submission), whatever commit a crash came after, unless   *)
(* the trade had ended, gave way to a newer signal and lives again (a       *)
(* retried close, an outdated copy written over its row).                   *)
THEOREM LiveTradeFound == Spec => []LiveTradeIsFound
<1>1. TableInv => LiveTradeIsFound
  <2> SUFFICES ASSUME TableInv, NEW s \in Signals, NEW f, f = trade[s].fp,
                      Live(s), ~overlap[f], ~Superseded(s, f)
               PROVE  get_trade_for_submission(sub[f]) = s
    BY DEF LiveTradeIsFound
  <2>1. TypeOK
    BY DEF TableInv, IndInv
  <2>2. f \in Fingerprints
    BY DEF Live, TableInv, OwnerInv, Committed
  <2>3. s = sub[f].signal /\ sub[f].trade \in {0, s}
    BY <2>2 DEF TableInv, FingerInv, Followed, Finds, Superseded
  <2> QED BY <2>1, <2>3 DEF get_trade_for_submission, Live, Signals
<1> QED BY TablesInductive, <1>1, PTL

(* ... and so there is never a second order in the market for the same      *)
(* fingerprint, but for such a trade.                                       *)
THEOREM AtMostOneLiveOrder == Spec => []OneLiveOrder
<1>1. TableInv => OneLiveOrder
  <2> SUFFICES ASSUME TableInv, NEW f \in Fingerprints, ~overlap[f]
               PROVE  Cardinality({s \in Signals :
                        /\ trade[s].fp = f \/ \E r \in Active(f) : req[r].signal = s
                        /\ \E k \in Links : ord[s][k] \in {"transit", "working", "filled"}
                        /\ ~is_trade_terminal(trade[s].status)
                        /\ ~Superseded(s, f)}) <= 1
    BY DEF OneLiveOrder
  <2> DEFINE Mine == {s \in Signals :
                        /\ trade[s].fp = f \/ \E r \in Active(f) : req[r].signal = s
                        /\ \E k \in Links : ord[s][k] \in {"transit", "working", "filled"}
                        /\ ~is_trade_terminal(trade[s].status)
                        /\ ~Superseded(s, f)}
  <2> DEFINE u == sub[f].signal
  <2>1. TypeOK /\ Finds(f) /\ \A r \in Active(f) : Serving(req[r], sub[f])
    BY DEF TableInv, IndInv, FingerInv, Followed, Active
  <2>2. ASSUME NEW s \in Mine PROVE s = u
    <3>1. CASE trade[s].fp = f
      <4>1. Row(s) /\ f # None
        BY <2>1, LinkTypes DEF TableInv, OrderInv
      <4>2. Live(s)
        BY <3>1, <4>1 DEF Row, Committed, Live
      <4> QED BY <2>1, <3>1, <4>2 DEF Finds, Superseded
    <3>2. CASE \E r \in Active(f) : req[r].signal = s
      <4>1. PICK r \in Active(f) : req[r].signal = s
        BY <3>2
      <4>2. s # 0 /\ Session(req[r])
        BY <2>1, <4>1, LinkTypes DEF TableInv, OwnerInv, Active
      <4>3. sub[f] = [signal |-> s, trade |-> 0]
        BY <2>1, <4>1, <4>2 DEF Session, Serving
      <4> QED BY <4>3
    <3> QED BY <3>1, <3>2
  <2>3. Mine \subseteq {u}
    BY <2>2
  <2>4. IsFiniteSet({u}) /\ Cardinality({u}) = 1
    BY FS_Singleton
  <2>5. Cardinality(Mine) <= 1
    <3> HIDE DEF Mine, u
    <3> QED BY <2>3, <2>4, CardShrinks
  <2> QED BY <2>5
<1> QED BY TablesInductive, <1>1, PTL

=============================================================================
