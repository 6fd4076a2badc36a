--------------------------- MODULE StaleRegister ---------------------------
(***************************************************************************)
(* What a cached lookup promises, with no Redis and no query in it: the    *)
(* row is changed now and then, and a lookup that returns does so in one   *)
(* step, with the answer of a state of the row that is current, or that    *)
(* was replaced no longer ago than the bound.                              *)
(***************************************************************************)
EXTENDS Naturals

CONSTANTS
  Client,       \* the calls that look the row up
  Version,      \* the states the row goes through, numbered from 0
  Occupied,     \* those in which it exists
  Bound         \* how long a replaced state may still be returned

VARIABLES
  now, table, superseded,   \* the clock, the state, when earlier ones ended
  answer                    \* where each call is: its answer, once it has one

registerVars == <<now, table, superseded, answer>>

Init ==
  /\ now = 0 /\ table = 0
  /\ superseded = [v \in Version |-> 0]
  /\ answer = [r \in Client |-> "idle"]

Tick ==
  /\ now' = now + 1
  /\ UNCHANGED <<table, superseded, answer>>

Change ==
  /\ table + 1 \in Version
  /\ table' = table + 1
  /\ superseded' = [superseded EXCEPT ![table] = now]
  /\ UNCHANGED <<now, answer>>

\* The states a lookup may answer with.
Recent ==
  {v \in Version : v = table \/ (v < table /\ now <= superseded[v] + Bound)}

Goes(r, from, to) ==
  /\ answer[r] \in from
  /\ answer' = [answer EXCEPT ![r] = to]
  /\ UNCHANGED <<now, table, superseded>>

Ask(r)   == Goes(r, {"idle"}, "reading")
Fail(r)  == Goes(r, {"reading"}, "thrown")
Leave(r) == Goes(r, {"row", "no_row", "thrown"}, "idle")
Return(r) ==
  \E v \in Recent : Goes(r, {"reading"}, IF v \in Occupied THEN "row" ELSE "no_row")

Next ==
  \/ Tick \/ Change
  \/ \E r \in Client : Ask(r) \/ Return(r) \/ Fail(r) \/ Leave(r)

Spec == Init /\ [][Next]_registerVars
=============================================================================
