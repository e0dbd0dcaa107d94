--------------------------- MODULE MCAuditedMemory ---------------------------
(* One call of each tool, over one content of one chunk. *)
EXTENDS AuditedMemory, TLC

CONSTANTS short, rem, fgt, rec

MCSessions == {rem, fgt, rec}
MCKeys == {short}
MCChunks == short :> 1
MCTool == (rem :> "remember") @@ (fgt :> "forget") @@ (rec :> "recall")
=============================================================================
