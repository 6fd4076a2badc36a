---------------------------- MODULE AtLeastOnce ----------------------------
(***************************************************************************)
(* What a consumer group promises of one topic, without the process that   *)
(* consumes, its crashes, its position or the broker's failures: messages  *)
(* are handled in the order of the log, the group's offset passes only     *)
(* what was handled, and messages are passed over only by a group that has *)
(* no offset yet, and only if it does not start from the beginning.        *)
(***************************************************************************)
EXTENDS Integers

CONSTANT FromBeginning      \* where a group without an offset starts

VARIABLES
  sent,         \* length of the log
  base,         \* messages 1..base were passed over
  acked,        \* the group's offset, or NoOffset
  handled       \* the messages whose handler ended

groupVars == <<sent, base, acked, handled>>

NoOffset == -1

Init ==
  /\ sent = 0
  /\ base = 0
  /\ acked = 0 \/ (acked = NoOffset /\ ~FromBeginning)
  /\ handled = {}

Send ==
  /\ sent' = sent + 1
  /\ UNCHANGED <<base, acked, handled>>

PassOver ==
  /\ ~FromBeginning /\ acked = NoOffset
  /\ base' = sent
  /\ UNCHANGED <<sent, acked, handled>>

\* Everything of the log up to n that was not passed over was handled.
HandledUpTo(n) == (base + 1)..n \subseteq handled

\* A message handled before may be handled again: the step then shows nothing.
Handle(i) ==
  /\ base < i /\ i <= sent
  /\ HandledUpTo(i - 1)
  /\ handled' = handled \cup {i}
  /\ UNCHANGED <<sent, base, acked>>

Ack(n) ==
  /\ base < n /\ n <= sent /\ acked < n
  /\ HandledUpTo(n)
  /\ acked' = n
  /\ UNCHANGED <<sent, base, handled>>

Next ==
  \/ Send \/ PassOver
  \/ \E n \in 1..sent : Handle(n) \/ Ack(n)

Spec == Init /\ [][Next]_groupVars
=============================================================================
