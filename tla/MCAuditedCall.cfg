\* IlmaService.call and the write-ahead audit log: safety, refinement, liveness.
CONSTANTS
    remember = remember
    rebuild = rebuild
    recall = recall
    Calls <- MCCalls
    Writes <- MCWrites
    Txns <- MCTxns

SPECIFICATION FairSpec

INVARIANTS
    EffectsAreLogged
    VerdictIsTruthful

PROPERTIES
    ImplementsWriteAhead
    EveryCallEnds

\* Every call is made once and the system then stops.
CHECK_DEADLOCK FALSE
