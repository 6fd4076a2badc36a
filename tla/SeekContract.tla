---------------------------- MODULE SeekContract ----------------------------
(***************************************************************************)
(* What the seek service promises its callers, with no queue, no process   *)
(* and no cache in it: a transaction_id is held by at most one call at a   *)
(* time, a call is turned away only while another one holds its id, every  *)
(* call has at most one answer, and an on-seek callback goes only to a     *)
(* call that was taken up and that is not answered with the result itself. *)
(***************************************************************************)
CONSTANTS Request, Txn, TxnOf

VARIABLES
  holder,       \* the call that holds each transaction_id, as a set of one
  phase,        \* whether the call was taken up or turned away
  answer,       \* its HTTP answer
  onSeek        \* calls whose on-seek callback was delivered

contractVars == <<holder, phase, answer, onSeek>>

Init ==
  /\ holder = [t \in Txn |-> {}]
  /\ phase = [r \in Request |-> "open"]
  /\ answer = [r \in Request |-> "none"]
  /\ onSeek = {}

TakeUp(r) ==
  /\ phase[r] = "open" /\ answer[r] = "none"
  /\ holder[TxnOf[r]] = {}
  /\ holder' = [holder EXCEPT ![TxnOf[r]] = {r}]
  /\ phase' = [phase EXCEPT ![r] = "taken"]
  /\ UNCHANGED <<answer, onSeek>>

TurnAway(r) ==
  /\ phase[r] = "open" /\ answer[r] = "none"
  /\ holder[TxnOf[r]] # {}
  /\ phase' = [phase EXCEPT ![r] = "turned_away"]
  /\ UNCHANGED <<holder, answer, onSeek>>

\* Calls come to hold an id for a limited time only.
Release(t) ==
  /\ holder[t] # {}
  /\ holder' = [holder EXCEPT ![t] = {}]
  /\ UNCHANGED <<phase, answer, onSeek>>

Answers(r) ==
  CASE phase[r] = "open"        -> {"bad_request"}
    [] phase[r] = "turned_away" -> {"duplicate"}
    [] phase[r] = "taken"       -> {"ack", "queue_unavailable"} \cup
                                   IF r \in onSeek THEN {} ELSE {"result", "internal_error"}

Reply(r) ==
  /\ answer[r] = "none"
  /\ \E a \in Answers(r) : answer' = [answer EXCEPT ![r] = a]
  /\ UNCHANGED <<holder, phase, onSeek>>

Deliver(r) ==
  /\ phase[r] = "taken"
  /\ answer[r] \notin {"result", "internal_error"}
  /\ onSeek' = onSeek \cup {r}
  /\ UNCHANGED <<holder, phase, answer>>

Next ==
  \/ \E r \in Request : TakeUp(r) \/ TurnAway(r) \/ Reply(r) \/ Deliver(r)
  \/ \E t \in Txn : Release(t)

Spec == Init /\ [][Next]_contractVars

-----------------------------------------------------------------------------
(***************************************************************************)
(* asyncHandler.js:35-38: a call that is turned away gets its 409 and      *)
(* nothing else, ever.                                                     *)
(***************************************************************************)
TurnedAwayForGood ==
  \A r \in Request :
    phase[r] = "turned_away" => answer[r] \in {"none", "duplicate"} /\ r \notin onSeek

(***************************************************************************)
(* asyncHandler.js:43-66, syncHandler.js:88-100: no call is served both    *)
(* ways, by a callback and in its answer.                                  *)
(***************************************************************************)
ServedOneWay ==
  \A r \in Request : r \in onSeek => answer[r] \notin {"result", "internal_error"}

(***************************************************************************)
(* asyncHandler.js:53-66: what happens after the ACK, or any other answer, *)
(* changes it no more and adds no second one.                              *)
(***************************************************************************)
AnswersAreFinal ==
  [][\A r \in Request : answer[r] # "none" => answer'[r] = answer[r]]_contractVars
=============================================================================
