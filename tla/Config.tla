-------------------------------- MODULE Config --------------------------------
(***************************************************************************)
(* IlmaConfig.from_env (config.py): the defaults, over them the YAML files *)
(* in their order, over these the process environment.  A key of the       *)
(* configuration may be set in a file directly (by section, by its dotted  *)
(* name or by one of its environment names), or in the file's env block,   *)
(* which is applied as an environment is: of several names for one key the *)
(* first in the order of _ENV_TO_DOTTED with a value that is not blank.    *)
(*                                                                         *)
(* What a file says is chosen when it is read, entry by entry.             *)
(***************************************************************************)
EXTENDS Naturals, Sequences

CONSTANTS
    Fields,      \* the dotted keys
    Names,       \* the environment names, in the order of _ENV_TO_DOTTED
    FieldOf,     \* FieldOf[n]: the dotted key that name n stands for
    Values,      \* what a key may be set to
    Written,     \* what the files set keys to
    Blank,       \* nothing: a name that is not set, a key set to no text
    Default,     \* Default[f]: the default of f
    MaxEntries   \* bound: the entries of all the files together

NameSet == {Names[i] : i \in DOMAIN Names}

ASSUME ConfigAssumption ==
    /\ Names \in Seq(NameSet)
    /\ \A i, j \in DOMAIN Names : Names[i] = Names[j] => i = j
    /\ FieldOf \in [NameSet -> Fields]
    /\ Blank \notin Values
    /\ Written \subseteq Values
    /\ Default \in [Fields -> Values \cup {Blank}]
    /\ MaxEntries \in Nat

VARIABLES
    env,        \* os.environ, as far as it names ilma's keys
    loading,    \* where from_env stands
    values,     \* the values so far
    sources,    \* and where they come from
    read        \* history: the entries of the files, in order

configVars == <<loading, values, sources, read>>

Environments == [NameSet -> Values \cup {Blank}]

Direct == [kind : {"direct"}, field : Fields, value : Written \cup {Blank}]
Block == [kind : {"block"}, names : [NameSet -> Written \cup {Blank}]]
Entries == Direct \cup Block

(***************************************************************************)
(* Type invariant.                                                         *)
(***************************************************************************)
ConfigTypeOK ==
    /\ env \in Environments
    /\ loading \in {"idle", "files", "done", "raised"}
    /\ values \in [Fields -> Values \cup {Blank}]
    /\ sources \in [Fields -> {"default", "yaml", "env"}]
    /\ read \in Seq(Entries)

ConfigInit ==
    /\ loading = "idle"
    /\ values = Default
    /\ sources = [f \in Fields |-> "default"]
    /\ read = <<>>

(* The configuration of a new process. *)
ConfigReset ==
    /\ loading' = "idle"
    /\ values' = Default
    /\ sources' = [f \in Fields |-> "default"]
    /\ read' = <<>>

(* The place of the first name of f that is set, if one is. *)
Chosen(names, f) ==
    {i \in DOMAIN Names : /\ FieldOf[Names[i]] = f
                          /\ names[Names[i]] # Blank
                          /\ \A j \in 1..(i - 1) :
                                FieldOf[Names[j]] = f => names[Names[j]] = Blank}

Mentions(names, f) == Chosen(names, f) # {}

Pick(names, f) == names[Names[CHOOSE i \in Chosen(names, f) : TRUE]]

(* Mutant: an env block overrides whatever was there. *)
AppliesAlways(names, f, source) == Mentions(names, f)

(* _apply_env passes over a key that this kind of source has set already. *)
Applies(names, f, source) == Mentions(names, f) /\ sources[f] # source

ApplyEnv(names, source) ==
    /\ values' = [f \in Fields |-> IF Applies(names, f, source) THEN Pick(names, f) ELSE values[f]]
    /\ sources' = [f \in Fields |-> IF Applies(names, f, source) THEN source ELSE sources[f]]

BeginLoad ==
    /\ loading = "idle"
    /\ loading' = "files"
    /\ UNCHANGED <<env, values, sources, read>>

(* _apply_mapping, one entry of it. *)
ApplyEntry(e) ==
    /\ loading = "files"
    /\ Len(read) < MaxEntries
    /\ read' = Append(read, e)
    /\ IF e.kind = "block"
       THEN ApplyEnv(e.names, "yaml")
       ELSE /\ values' = [values EXCEPT ![e.field] = e.value]
            /\ sources' = [sources EXCEPT ![e.field] = "yaml"]
    /\ UNCHANGED <<env, loading>>

ApplyEnvironment ==
    /\ loading = "files"
    /\ ApplyEnv(env, "env")
    /\ loading' = "done"
    /\ UNCHANGED <<env, read>>

(* A file that cannot be read or is no mapping, a value that cannot be
   coerced. *)
RaiseConfig ==
    /\ loading = "files"
    /\ loading' = "raised"
    /\ UNCHANGED <<env, values, sources, read>>

Load ==
    \/ BeginLoad
    \/ \E e \in Entries : ApplyEntry(e)
    \/ ApplyEnvironment
    \/ RaiseConfig

-----------------------------------------------------------------------------
(* What must hold.                                                         *)

Directs(f) == {i \in DOMAIN read : read[i].kind = "direct" /\ read[i].field = f}

Blocks(f) == {i \in DOMAIN read : read[i].kind = "block" /\ Mentions(read[i].names, f)}

(* What a configuration is, whatever the order of its parts: the environment
   before the files, of the direct settings in the files the last, of the
   env blocks - which only count for a key no file has set - the first, and
   the default when nothing is said; and source_of tells which it was. *)
Resolved(f) ==
    /\ Mentions(env, f) => values[f] = Pick(env, f) /\ sources[f] = "env"
    /\ ~ Mentions(env, f) =>
          /\ \A i \in Directs(f) :
                (\A j \in Directs(f) : j <= i) => values[f] = read[i].value
          /\ Directs(f) = {} =>
                \A i \in Blocks(f) :
                   (\A j \in Blocks(f) : i <= j) => values[f] = Pick(read[i].names, f)
          /\ Directs(f) \cup Blocks(f) = {} => values[f] = Default[f]
          /\ sources[f] = IF Directs(f) \cup Blocks(f) = {} THEN "default" ELSE "yaml"

ConfigIsResolved == loading = "done" => \A f \in Fields : Resolved(f)
=============================================================================
