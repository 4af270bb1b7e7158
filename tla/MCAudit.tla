------------------------------- MODULE MCAudit -------------------------------
(* The instances of MCMemoryStore, with the audit command. *)
EXTENDS MCMemoryStore, Audit
=============================================================================
