------------------------------ MODULE AuditLog ------------------------------
(***************************************************************************)
(* What the audit log promises: a log that only grows at its end, in which *)
(* every entry is an event that was recorded, and no event is twice.       *)
(* AuditChain implements it.  No order is promised and an event may never  *)
(* arrive: record says so of a full queue, write_with_retry of a database  *)
(* that does not answer.                                                   *)
(***************************************************************************)
EXTENDS Sequences

CONSTANT Events

VARIABLES recorded, log

logVars == <<recorded, log>>

Entries == {log[i] : i \in DOMAIN log}

Init == recorded = {} /\ log = << >>

Record(e) ==
  /\ e \notin recorded
  /\ recorded' = recorded \cup {e}
  /\ UNCHANGED log

Append1(e) ==
  /\ e \in recorded \ Entries
  /\ log' = Append(log, e)
  /\ UNCHANGED recorded

Next == \E e \in Events : Record(e) \/ Append1(e)

Spec == Init /\ [][Next]_logVars
=============================================================================
