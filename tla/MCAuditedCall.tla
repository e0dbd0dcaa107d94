---------------------------- MODULE MCAuditedCall ----------------------------
(* Two writes, of one and of two transactions, beside a read. *)
EXTENDS AuditedCall

CONSTANTS remember, rebuild, recall

MCCalls == {remember, rebuild, recall}
MCWrites == {remember, rebuild}
MCTxns == [c \in MCCalls |->
             CASE c = remember -> 1
               [] c = rebuild -> 2
               [] OTHER -> 0]
=============================================================================
