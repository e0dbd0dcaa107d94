----------------------------- MODULE MCInitWizard -----------------------------
(* Of the names of postgres.dsn ILMA_PG_DSN, ILMA_DSN and PG_MEM_DB_CONN_STR;
   among them, in the order of _ENV_TO_DOTTED, is one of another key,
   ILMA_VECTORS_EMBEDDER. *)
EXTENDS InitWizard, TLC

CONSTANTS pgdsn, embedder, ilma, legacy, postgres, vectors, here, there

MCNames == <<pgdsn, embedder, ilma, legacy>>
MCFieldOf == [n \in NameSet |-> IF n = embedder THEN vectors ELSE postgres]
MCDefault == [f \in {postgres, vectors} |-> Blank]
MCWritten == {External, OllamaLocal}
MCValues == Passwords \cup {External, OllamaLocal}

AlikeDirs == Permutations({here, there})

(* Files of two entries are for the programs before the wizard's first run;
   after it there is one, with the user's database or nothing.  Which name of
   a key a block has it under then makes no difference. *)
Plain(e) ==
    IF e.kind = "direct"
    THEN e.value \in {External, Blank}
    ELSE /\ e.names[pgdsn] \in {External, Blank}
         /\ e.names[embedder] \in {External, Blank}
         /\ e.names[ilma] = Blank
         /\ e.names[legacy] = Blank

Modest == run = 0 \/ (Len(read) <= 1 /\ \A i \in DOMAIN read : Plain(read[i]))
=============================================================================
