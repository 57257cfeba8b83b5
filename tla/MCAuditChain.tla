---------------------------- MODULE MCAuditChain ----------------------------
(* Bounded instances of AuditChain.                                         *)
EXTENDS AuditChain, TLC
=============================================================================
