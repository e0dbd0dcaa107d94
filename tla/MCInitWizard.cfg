\* Two runs of the wizard in two directories, and other programs between them.
CONSTANTS
    pgdsn = pgdsn
    embedder = embedder
    ilma = ilma
    legacy = legacy
    postgres = postgres
    vectors = vectors
    here = here
    there = there
    External = external
    OllamaLocal = ollama
    Blank = none
    Fields = {postgres, vectors}
    Names <- MCNames
    FieldOf <- MCFieldOf
    Values <- MCValues
    Written <- MCWritten
    Default <- MCDefault
    MaxEntries = 2
    DsnField = postgres
    DsnName = ilma
    LegacyName = legacy
    VectorNames = {embedder}
    Dirs = {here, there}
    MaxRuns = 2

SPECIFICATION Spec

SYMMETRY AlikeDirs

CONSTRAINT Modest

INVARIANTS
    ConfigIsResolved
    SuccessIsComplete
    ConfiguredIsInitialised
    PasswordsAgree

