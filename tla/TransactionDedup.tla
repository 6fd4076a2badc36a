-------------------------- MODULE TransactionDedup --------------------------
(***************************************************************************)
(* src/orchestrator/transactionDedup.js: the Redis key                     *)
(* "dpe:seek:transaction:<transaction_id>", taken by one SET ... NX EX,    *)
(* and the fire-and-forget audit row written to ClickHouse.  Redis is a    *)
(* process of its own, so its keys outlive the API process.                *)
(*                                                                         *)
(* The key's TTL is the only clock: a key may expire at any moment after   *)
(* it was set.  window[t] counts the expiries of t's key, so two decisions *)
(* taken in the same window were taken within one lifetime of the key.     *)
(***************************************************************************)
EXTENDS Naturals

CONSTANTS
  Txn,          \* transaction_id values
  MaxWindow     \* bound: expiries of one key

ASSUME DedupAssumption == MaxWindow \in Nat

VARIABLES
  dedupKeys,    \* transaction ids whose Redis key exists
  window,       \* expiries so far (history)
  auditing      \* ids whose insert into seek_transaction_dedup is in flight

dedupVars == <<dedupKeys, window, auditing>>

DedupTypeOK ==
  /\ dedupKeys \subseteq Txn
  /\ window \in [Txn -> 0..MaxWindow]
  /\ auditing \subseteq Txn

DedupInit ==
  /\ dedupKeys = {}
  /\ window = [t \in Txn |-> 0]
  /\ auditing = {}

\* SET NX found no key: it is set, and the audit insert starts, unawaited.
SetTaken(t) ==
  /\ t \notin dedupKeys
  /\ dedupKeys' = dedupKeys \cup {t}
  /\ auditing' = auditing \cup {t}
  /\ UNCHANGED window

\* SET NX found the key: node-redis answers null, nothing is written.
SetRefused(t) ==
  /\ t \in dedupKeys
  /\ UNCHANGED dedupVars

\* The EX timeout of the key fires.
ExpireKey(t) ==
  /\ t \in dedupKeys
  /\ window[t] < MaxWindow
  /\ dedupKeys' = dedupKeys \ {t}
  /\ window' = [window EXCEPT ![t] = @ + 1]
  /\ UNCHANGED auditing

\* The insert ends, or its .catch logs the error: nothing else depends on it.
AuditEnds(t) ==
  /\ t \in auditing
  /\ auditing' = auditing \ {t}
  /\ UNCHANGED <<dedupKeys, window>>

\* Mutant: the ids are kept in the API process, which forgets them on exit.
IdsForgottenOnExit ==
  /\ auditing' = {}
  /\ dedupKeys' = {}
  /\ UNCHANGED window

\* The API process exits: inserts it had in flight are not retried.
AuditAbandoned ==
  /\ auditing' = {}
  /\ UNCHANGED <<dedupKeys, window>>
=============================================================================
