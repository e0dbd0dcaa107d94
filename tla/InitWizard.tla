------------------------------ MODULE InitWizard ------------------------------
(***************************************************************************)
(* ilma init (api/cli.py): the wizard's nine steps, before them the local  *)
(* compose stack when no DSN is given, and at their end the configuration  *)
(* as IlmaConfig reads it (Config).  The wizard may be run again and again *)
(* and from any directory, may fail at every step and may be killed        *)
(* between any two.  Between its runs other programs of ilma start, each   *)
(* in a shell of its own: a service takes its DSN from two names           *)
(* (_dsn_from_env), Hermes from the configuration.                         *)
(*                                                                         *)
(* A DSN is the number of the run that generated its password, or External *)
(* for a database that is not the stack's.  A deployment has a compose.yaml*)
(* and an .env in its directory, but all have one volume, whose database   *)
(* keeps the password it was first started with.                           *)
(***************************************************************************)
EXTENDS Config

CONSTANTS
    DsnField,    \* postgres.dsn
    DsnName,     \* ILMA_DSN
    LegacyName,  \* PG_MEM_DB_CONN_STR
    VectorNames, \* ILMA_VECTORS_*, which the wizard sets unless they are set
    External,    \* the DSN of a database the user has
    OllamaLocal, \* what it sets them to
    Dirs,        \* the deploy directories
    MaxRuns      \* bound: how often the wizard is run

Passwords == 1..MaxRuns
NoPassword == 0

ASSUME WizardAssumption ==
    /\ MaxRuns \in Nat
    /\ External \notin Passwords \cup {NoPassword}
    /\ Blank \notin Passwords \cup {NoPassword}
    /\ Passwords \cup {External, OllamaLocal} \subseteq Values
    /\ {DsnName, LegacyName} \subseteq NameSet
    /\ \A i, j \in DOMAIN Names : Names[i] = DsnName /\ Names[j] = LegacyName => i < j
    /\ DsnField \in Fields
    /\ FieldOf[DsnName] = DsnField
    /\ FieldOf[LegacyName] = DsnField
    /\ VectorNames \subseteq {n \in NameSet : FieldOf[n] # DsnField}
    /\ Dirs # {}

VARIABLES
    run,       \* the number of the wizard's run
    at,        \* where it stands
    given,     \* its --dsn
    forced,    \* its --force
    dir,       \* its --deploy-dir, resolved
    dsn,       \* resolved_dsn; of another program, the DSN of its service
    compose,   \* compose[d]: whether compose.yaml is in d
    dotenv,    \* dotenv[d]: the password of the .env in d
    known,     \* the DSNs the user has seen
    stack,     \* what docker runs
    volume,    \* the password of the database in the volume
    made,      \* made[d]: what the wizard has created in the database of d
    clobbered  \* history: some run overwrote a deployment

args == <<run, given, forced, dir>>
disk == <<compose, dotenv, known>>
docker == <<stack, volume>>
vars == <<env, configVars, at, args, dsn, disk, docker, made, clobbered>>

Steps == <<"connect", "extension", "schema", "tables", "surfaces", "audit", "embedder", "config">>

Pieces == {"extension", "schema", "tables", "surfaces", "audit"}

(* The database a DSN names. *)
Database(d) == IF d = External THEN "external" ELSE "stack"

TypeOK ==
    /\ ConfigTypeOK
    /\ run \in 0..MaxRuns
    /\ at \in {"idle", "scaffold", "dotenv", "up", "resolve", "ok", "failed", "program"}
              \cup {Steps[i] : i \in DOMAIN Steps}
    /\ given \in known \cup {Blank}
    /\ forced \in BOOLEAN
    /\ dir \in Dirs
    /\ dsn \in Values \cup {Blank}
    /\ compose \in [Dirs -> BOOLEAN]
    /\ dotenv \in [Dirs -> Passwords \cup {NoPassword}]
    /\ known \in SUBSET (Passwords \cup {External})
    /\ External \in known
    /\ stack \in [at : {"down", "starting", "ready"}, password : Passwords \cup {NoPassword}]
    /\ volume \in Passwords \cup {NoPassword}
    /\ made \in [{"stack", "external"} -> SUBSET Pieces]
    /\ clobbered \in BOOLEAN

(* The environments the user starts a program of ilma in: a name of the DSN
   may be set to any DSN the user has seen, another one to something. *)
Shells ==
    {shell \in [NameSet -> known \cup {Blank}] :
        \A n \in NameSet : FieldOf[n] # DsnField => shell[n] \in {Blank, External}}

NoEnv == [n \in NameSet |-> Blank]

Init ==
    /\ ConfigInit
    /\ env = NoEnv
    /\ run = 0
    /\ at = "idle"
    /\ given = Blank
    /\ forced = FALSE
    /\ dir \in Dirs
    /\ dsn = Blank
    /\ compose = [d \in Dirs |-> FALSE]
    /\ dotenv = [d \in Dirs |-> NoPassword]
    /\ known = {External}
    /\ stack = [at |-> "down", password |-> NoPassword]
    /\ volume = NoPassword
    /\ made = [d \in {"stack", "external"} |-> {}]
    /\ clobbered = FALSE

-----------------------------------------------------------------------------
FirstOf(d, e) == IF d # Blank THEN d ELSE e

(* A run of the command, with its options, in some shell. *)
Start ==
    /\ at = "idle"
    /\ run < MaxRuns
    /\ run' = run + 1
    /\ env' \in Shells
    /\ given' \in known \cup {Blank}
    /\ forced' \in BOOLEAN
    /\ dir' \in Dirs
    /\ \E deploy \in BOOLEAN :   \* --deploy-method compose
          at' = IF deploy /\ given' = Blank /\ env'[DsnName] = Blank
                THEN "scaffold" ELSE "resolve"
    /\ UNCHANGED <<configVars, dsn, disk, docker, made, clobbered>>

(* Another program of ilma, and the DSN its service finds. *)
StartProgram ==
    /\ at = "idle"
    /\ at' = "program"
    /\ env' \in Shells
    /\ dsn' = FirstOf(env'[DsnName], env'[LegacyName])
    /\ UNCHANGED <<configVars, args, disk, docker, made, clobbered>>

(* A process is over, and with it its environment and configuration. *)
Exit ==
    /\ at \in {"ok", "failed", "program"}
    /\ at' = "idle"
    /\ env' = NoEnv
    /\ given' = Blank
    /\ forced' = FALSE
    /\ dsn' = Blank
    /\ ConfigReset
    /\ UNCHANGED <<run, dir, disk, docker, made, clobbered>>

(* Any exception ends the run, as does a kill; what was done stays done. *)
Fail ==
    /\ at \notin {"idle", "ok", "failed", "program"}
    /\ at' = "failed"
    /\ UNCHANGED <<env, configVars, args, dsn, disk, docker, made, clobbered>>

(* Mutant: an existing deployment is overwritten without --force. *)
ScaffoldOver ==
    /\ at = "scaffold"
    /\ compose' = [compose EXCEPT ![dir] = TRUE]
    /\ clobbered' = (clobbered \/ (forced /\ dotenv[dir] # NoPassword))
    /\ at' = "dotenv"
    /\ UNCHANGED <<env, configVars, args, dsn, dotenv, known, docker, made>>

(* scaffold_compose_stack refuses (Fail) to overwrite without --force what
   is in its directory ... *)
Scaffold ==
    /\ at = "scaffold"
    /\ forced \/ (~ compose[dir] /\ dotenv[dir] = NoPassword)
    /\ compose' = [compose EXCEPT ![dir] = TRUE]
    /\ clobbered' = (clobbered \/ dotenv[dir] # NoPassword)
    /\ at' = "dotenv"
    /\ UNCHANGED <<env, configVars, args, dsn, dotenv, known, docker, made>>

(* ... and writes a new password there. *)
WriteDotenv ==
    /\ at = "dotenv"
    /\ dotenv' = [dotenv EXCEPT ![dir] = run]
    /\ known' = known \cup {run}
    /\ at' = "up"
    /\ UNCHANGED <<env, configVars, args, dsn, compose, docker, made, clobbered>>

(* The environment of the process with the stack's DSN in it, and the names
   of the embedder that were not set. *)
WithStack(unset) ==
    [n \in NameSet |-> IF n = DsnName THEN dotenv[dir]
                       ELSE IF n \in unset THEN OllamaLocal ELSE env[n]]

(* docker compose up -d creates the containers anew, as their environment
   has changed, and returns when they are started; it may fail after that.
   setdefault leaves a name that is set to no text as it is. *)
ComposeUp ==
    /\ at = "up"
    /\ stack' = [at |-> "starting", password |-> dotenv[dir]]
    /\ \/ /\ at' = "resolve"
          /\ \E unset \in SUBSET {n \in VectorNames : env[n] = Blank} : env' = WithStack(unset)
       \/ at' = "failed" /\ UNCHANGED env
    /\ UNCHANGED <<configVars, args, dsn, disk, volume, made, clobbered>>

(* The database comes up: on an empty volume with the password of its
   environment, on another with the one it has. *)
StackReady ==
    /\ stack.at = "starting"
    /\ stack' = [stack EXCEPT !.at = "ready"]
    /\ volume' = IF volume = NoPassword THEN stack.password ELSE volume
    /\ UNCHANGED <<env, configVars, at, args, dsn, disk, made, clobbered>>

(* Mutant: the resolved DSN stays a local variable. *)
ResolveOnly ==
    /\ at = "resolve"
    /\ \E asked \in known :
          dsn' = FirstOf(given, FirstOf(env[DsnName], FirstOf(env[LegacyName], asked)))
    /\ at' = "connect"
    /\ UNCHANGED <<env, configVars, args, disk, docker, made, clobbered>>

(* _resolve_init_dsn: --dsn, ILMA_DSN, PG_MEM_DB_CONN_STR, or the prompt. *)
Resolve ==
    /\ at = "resolve"
    /\ \E asked \in known :
          dsn' = FirstOf(given, FirstOf(env[DsnName], FirstOf(env[LegacyName], asked)))
    /\ env' = [env EXCEPT ![DsnName] = dsn']
    /\ at' = "connect"
    /\ UNCHANGED <<configVars, args, disk, docker, made, clobbered>>

(* A connection with this DSN is possible. *)
Reachable(d) == d = External \/ (stack.at = "ready" /\ volume = d)

NextOf(step) == Steps[1 + CHOOSE i \in 1..7 : Steps[i] = step]

(* Mutant: nobody looks at the result of ilma_migrate, which reports its
   exceptions in it. *)
StepUnchecked ==
    /\ at \in {Steps[i] : i \in 1..6}
    /\ Reachable(dsn)
    /\ \/ made' = [made EXCEPT ![Database(dsn)] = @ \cup ({at} \cap Pieces)]
       \/ at = "surfaces" /\ UNCHANGED made
    /\ at' = NextOf(at)
    /\ UNCHANGED <<env, configVars, args, dsn, disk, docker, clobbered>>

(* Steps 2 to 7.  Each of them may be repeated on what is there already. *)
Step ==
    /\ at \in {Steps[i] : i \in 1..6}
    /\ Reachable(dsn)
    /\ made' = [made EXCEPT ![Database(dsn)] = @ \cup ({at} \cap Pieces)]
    /\ at' = NextOf(at)
    /\ UNCHANGED <<env, configVars, args, dsn, disk, docker, clobbered>>

(* Step 8: the embedder answers, or the check is skipped. *)
VerifyEmbedder ==
    /\ at = "embedder"
    /\ at' = "config"
    /\ UNCHANGED <<env, configVars, args, dsn, disk, docker, made, clobbered>>

(* Step 9, in the wizard's own process, and Hermes in its: IlmaConfig.from_env. *)
ReadConfig ==
    /\ at \in {"config", "program"}
    /\ Load
    /\ at' = IF at = "program" \/ loading' = "files" THEN at
             ELSE IF loading' = "done" THEN "ok" ELSE "failed"
    /\ UNCHANGED <<args, dsn, disk, docker, made, clobbered>>

Next ==
    \/ Start
    \/ StartProgram
    \/ Exit
    \/ Fail
    \/ Scaffold
    \/ WriteDotenv
    \/ ComposeUp
    \/ StackReady
    \/ Resolve
    \/ Step
    \/ VerifyEmbedder
    \/ ReadConfig

Spec == Init /\ [][Next]_vars

-----------------------------------------------------------------------------
(* What must hold.                                                         *)

(* A wizard that reports success leaves the database its DSN names complete,
   whatever earlier runs left half done there. *)
SuccessIsComplete ==
    at = "ok" => dsn # Blank /\ made[Database(dsn)] = Pieces

(* Where two readers of one environment look: the wizard and the services
   take the DSN from ILMA_DSN and PG_MEM_DB_CONN_STR, the configuration from
   all the names of postgres.dsn and from files.  After a success the
   configuration in the wizard's process (step 9) names the database that was
   initialised; and in a program started later Hermes opens the database
   which the services do, whenever these find one.  The exception is
   another name of postgres.dsn that comes before the one the DSN is from,
   and then that name's value is the configuration's. *)
Overruled ==
    \E i, j \in DOMAIN Names :
       /\ i < j
       /\ Names[j] \in {DsnName, LegacyName}
       /\ env[Names[j]] = dsn
       /\ Names[i] \notin {DsnName, LegacyName}
       /\ FieldOf[Names[i]] = DsnField
       /\ env[Names[i]] # Blank
       /\ values[DsnField] = env[Names[i]]

ConfiguredIsInitialised ==
    at \in {"ok", "program"} /\ loading = "done" /\ dsn # Blank =>
       values[DsnField] = dsn \/ Overruled

(* As long as no run was told to overwrite a deployment, the password of the
   database in the volume is in one of the deployments: whatever was run
   where and stopped when, it is never lost. *)
PasswordsAgree ==
    ~ clobbered /\ volume # NoPassword => \E d \in Dirs : dotenv[d] = volume
=============================================================================
