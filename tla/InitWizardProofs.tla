--------------------------- MODULE InitWizardProofs ---------------------------
(***************************************************************************)
(* Config and InitWizard for any names, keys and files, and any number of  *)
(* runs of the wizard.                                                     *)
(***************************************************************************)
EXTENDS InitWizard, FiniteSetTheorems, WellFoundedInduction, TLAPS

(* What the files have made of key f, read so far. *)
FileInv(f) ==
    /\ \A i \in Directs(f) : (\A j \in Directs(f) : j <= i) => values[f] = read[i].value
    /\ Directs(f) = {} =>
          \A i \in Blocks(f) :
             (\A j \in Blocks(f) : i <= j) => values[f] = Pick(read[i].names, f)
    /\ Directs(f) \cup Blocks(f) = {} => values[f] = Default[f]
    /\ sources[f] = IF Directs(f) \cup Blocks(f) = {} THEN "default" ELSE "yaml"

ConfigInv ==
    /\ loading \in {"idle", "files"} => \A f \in Fields : FileInv(f)
    /\ ConfigIsResolved

(* The wizard reads the configuration last, another program at any time. *)
Reading ==
    /\ at \notin {"config", "ok", "failed", "program"} => loading = "idle"
    /\ at = "config" => loading \in {"idle", "files"}
    /\ at = "ok" => loading = "done"

(* The DSN of the run is in its environment, and every step before this one
   has left its piece in the database the DSN names. *)
Pointed ==
    /\ at \in {Steps[i] : i \in DOMAIN Steps} \cup {"ok"} => dsn \in Values /\ env[DsnName] = dsn
    /\ at = "program" => dsn = FirstOf(env[DsnName], env[LegacyName])

Behind ==
    /\ \A k \in 1..8 : at = Steps[k] =>
          \A j \in 1..(k - 1) : Steps[j] \in Pieces => Steps[j] \in made[Database(dsn)]
    /\ at = "ok" => made[Database(dsn)] = Pieces

(* Where the passwords of the deployments have got to. *)
Deployed ==
    /\ at \in {"scaffold", "dotenv", "up"} => run \in Passwords
    /\ at = "up" => dotenv[dir] # NoPassword
    /\ stack.at # "down" => stack.password # NoPassword
    /\ ~ clobbered /\ at = "dotenv" => dotenv[dir] = NoPassword
    /\ ~ clobbered /\ stack.at # "down" => \E d \in Dirs : dotenv[d] = stack.password
    /\ PasswordsAgree

IInv ==
    /\ TypeOK
    /\ ConfigInv
    /\ Reading
    /\ Pointed
    /\ Behind
    /\ Deployed

-----------------------------------------------------------------------------
(* The names of a key.                                                     *)

LEMMA Least ==
    ASSUME NEW T \in SUBSET Nat, T # {}
    PROVE  \E x \in T : \A y \in T : x <= y
<1> DEFINE Upto(x) == T \cap (0..x)
           U == {Upto(x) : x \in T}
<1>1. U \subseteq FiniteSubsetsOf(Nat) /\ U # {}
  <2>1. ASSUME NEW x \in T PROVE IsFiniteSet(Upto(x)) /\ Upto(x) \subseteq Nat
    <3>1. IsFiniteSet(0..x)
      BY FS_Interval
    <3> QED
      BY <3>1, FS_Subset
  <2> QED
    BY <2>1 DEF FiniteSubsetsOf
<1> HIDE DEF U
<1>2. PICK u \in U : \A v \in U : ~ (<<v, u>> \in StrictSubsetOrdering(Nat))
  BY <1>1, FS_StrictSubsetOrderingWellFounded, WFMin
<1>3. PICK x \in T : u = Upto(x)
  BY DEF U
<1>4. ASSUME NEW y \in T PROVE x <= y
  <2> SUFFICES ASSUME y < x PROVE FALSE
    OBVIOUS
  <2>1. Upto(y) \in U /\ Upto(y) \subseteq Upto(x) /\ Upto(y) # Upto(x)
    <3>1. x \in Upto(x) /\ x \notin Upto(y)
      OBVIOUS
    <3> QED
      BY <3>1 DEF U
  <2> QED
    BY <1>2, <1>3, <2>1 DEF StrictSubsetOrdering
<1> QED
  BY <1>4

LEMMA NamesFacts ==
    /\ DOMAIN Names \subseteq Nat
    /\ \A i \in DOMAIN Names : Names[i] \in NameSet
BY ConfigAssumption DEF NameSet

(* A key is mentioned as soon as one of its names is set. *)
LEMMA SetIsMentioned ==
    ASSUME NEW names, NEW f, NEW k \in DOMAIN Names,
           FieldOf[Names[k]] = f, names[Names[k]] # Blank
    PROVE  Mentions(names, f)
<1> DEFINE T == {i \in DOMAIN Names : FieldOf[Names[i]] = f /\ names[Names[i]] # Blank}
<1>1. T \in SUBSET Nat /\ T # {}
  BY NamesFacts
<1>2. PICK x \in T : \A y \in T : x <= y
  BY <1>1, Least
<1>3. ASSUME NEW j \in 1..(x - 1), FieldOf[Names[j]] = f PROVE names[Names[j]] = Blank
  <2>1. x \in DOMAIN Names /\ x \in Nat /\ DOMAIN Names = 1..Len(Names) /\ Len(Names) \in Nat
    BY <1>1, ConfigAssumption
  <2>2. j \in DOMAIN Names /\ ~ (x <= j)
    BY <2>1
  <2> QED
    BY <1>2, <1>3, <2>2
<1>4. x \in Chosen(names, f)
  BY <1>3 DEF Chosen
<1> QED
  BY <1>4 DEF Mentions

(* The name that is picked is set, and none before it is. *)
LEMMA PickFacts ==
    ASSUME NEW names, NEW f, Mentions(names, f)
    PROVE  \E i \in Chosen(names, f) : Pick(names, f) = names[Names[i]]
BY DEF Mentions, Pick

LEMMA PickTyped ==
    ASSUME NEW S, NEW names \in [NameSet -> S], NEW f, Mentions(names, f)
    PROVE  Pick(names, f) \in S
<1>1. PICK i \in Chosen(names, f) : Pick(names, f) = names[Names[i]]
  BY PickFacts
<1>2. Names[i] \in NameSet
  BY NamesFacts DEF Chosen
<1> QED
  BY <1>1, <1>2

-----------------------------------------------------------------------------
(* The configuration.                                                      *)

LEMMA EntryFacts ==
    ASSUME NEW e \in Entries
    PROVE  /\ e.kind = "direct" => e.field \in Fields /\ e.value \in Values \cup {Blank}
           /\ e.kind # "direct" => e.kind = "block" /\ e.names \in [NameSet -> Values \cup {Blank}]
<1>1. CASE e \in Direct
  BY <1>1, ConfigAssumption DEF Direct
<1>2. CASE e \in Block
  <2>1. e.kind = "block" /\ e.names \in [NameSet -> Written \cup {Blank}]
    BY <1>2 DEF Block
  <2>2. e.names \in [NameSet -> Values \cup {Blank}]
    BY <2>1, ConfigAssumption
  <2> QED
    BY <2>1, <2>2
<1> QED
  BY <1>1, <1>2 DEF Entries

LEMMA ApplyEnvFacts ==
    ASSUME ConfigTypeOK, NEW names \in [NameSet -> Values \cup {Blank}],
           NEW source \in {"yaml", "env"}, ApplyEnv(names, source)
    PROVE  /\ values' \in [Fields -> Values \cup {Blank}]
           /\ sources' \in [Fields -> {"default", "yaml", "env"}]
           /\ \A f \in Fields :
                 /\ Applies(names, f, source) => values'[f] = Pick(names, f) /\ sources'[f] = source
                 /\ ~ Applies(names, f, source) => values'[f] = values[f] /\ sources'[f] = sources[f]
<1>1. \A f \in Fields : Applies(names, f, source) => Pick(names, f) \in Values \cup {Blank}
  BY PickTyped DEF Applies
<1> QED
  BY <1>1 DEF ApplyEnv, ConfigTypeOK

LEMMA LoadTyped ==
    ASSUME ConfigTypeOK, Load
    PROVE  ConfigTypeOK' /\ UNCHANGED env
<1>1. CASE BeginLoad \/ RaiseConfig
  BY <1>1 DEF BeginLoad, RaiseConfig, ConfigTypeOK
<1>2. ASSUME NEW e \in Entries, ApplyEntry(e) PROVE ConfigTypeOK' /\ UNCHANGED env
  <2>1. read' \in Seq(Entries) /\ UNCHANGED <<env, loading>>
    BY <1>2 DEF ApplyEntry, ConfigTypeOK
  <2>2. /\ values' \in [Fields -> Values \cup {Blank}]
        /\ sources' \in [Fields -> {"default", "yaml", "env"}]
    <3>1. CASE e.kind = "block"
      BY <1>2, <3>1, EntryFacts, ApplyEnvFacts DEF ApplyEntry
    <3>2. CASE e.kind # "block"
      BY <1>2, <3>2, EntryFacts DEF ApplyEntry, ConfigTypeOK
    <3> QED
      BY <3>1, <3>2
  <2> QED
    BY <2>1, <2>2 DEF ConfigTypeOK
<1>3. CASE ApplyEnvironment
  BY <1>3, ApplyEnvFacts DEF ApplyEnvironment, ConfigTypeOK, Environments
<1> QED
  BY <1>1, <1>2, <1>3 DEF Load

(* The entry that is read last. *)
LEMMA EntryInv ==
    ASSUME ConfigTypeOK, NEW e \in Entries, ApplyEntry(e), NEW f \in Fields, FileInv(f)
    PROVE  FileInv(f)'
<1> DEFINE n == Len(read) + 1
<1>1. /\ read \in Seq(Entries) /\ DOMAIN read = 1..Len(read) /\ Len(read) \in Nat
      /\ DOMAIN read' = 1..n /\ read'[n] = e
      /\ \A i \in DOMAIN read : read'[i] = read[i]
  BY DEF ConfigTypeOK, ApplyEntry
<1> HIDE DEF n
<1>2. n = Len(read) + 1 /\ n \notin DOMAIN read /\ n \in DOMAIN read' /\ n \in Nat
      /\ (\A i \in DOMAIN read : i < n /\ i \in Nat) /\ DOMAIN read' = DOMAIN read \cup {n}
  BY <1>1 DEF n
<1>3. CASE e.kind = "direct" /\ e.field = f
  <2>1. values'[f] = e.value /\ sources'[f] = "yaml"
    BY <1>3 DEF ApplyEntry, ConfigTypeOK
  <2>2. Directs(f)' = Directs(f) \cup {n} /\ Directs(f) \subseteq DOMAIN read
    BY <1>1, <1>2, <1>3 DEF Directs
  <2>3. ASSUME NEW i \in Directs(f)', \A j \in Directs(f)' : j <= i PROVE i = n
    BY <1>2, <2>2, <2>3
  <2> QED
    BY <1>1, <2>1, <2>2, <2>3 DEF FileInv
<1>4. CASE e.kind = "block" /\ Mentions(e.names, f)
  <2>1. /\ Applies(e.names, f, "yaml") => values'[f] = Pick(e.names, f) /\ sources'[f] = "yaml"
        /\ ~ Applies(e.names, f, "yaml") => values'[f] = values[f] /\ sources'[f] = sources[f]
    BY <1>4, EntryFacts, ApplyEnvFacts DEF ApplyEntry
  <2>2. /\ Directs(f)' = Directs(f) /\ Directs(f) \subseteq DOMAIN read
        /\ Blocks(f)' = Blocks(f) \cup {n} /\ Blocks(f) \subseteq DOMAIN read
    BY <1>1, <1>2, <1>4 DEF Directs, Blocks
  <2>3. CASE sources[f] = "yaml"
    <3>1. values'[f] = values[f] /\ sources'[f] = "yaml"
      BY <2>1, <2>3 DEF Applies
    <3>2. Directs(f) \cup Blocks(f) # {}
      BY <2>3 DEF FileInv
    <3>3. ASSUME NEW i \in Directs(f)', \A j \in Directs(f)' : j <= i PROVE values'[f] = read'[i].value
      BY <1>1, <2>2, <3>1, <3>3 DEF FileInv
    <3>4. ASSUME Directs(f)' = {}, NEW i \in Blocks(f)', \A j \in Blocks(f)' : i <= j
          PROVE  values'[f] = Pick(read'[i].names, f)
      <4>1. i # n
        BY <1>2, <2>2, <3>2, <3>4
      <4>2. i \in Blocks(f) /\ read'[i] = read[i]
        BY <1>1, <2>2, <3>4, <4>1
      <4> QED
        BY <2>2, <3>1, <3>4, <4>2 DEF FileInv
    <3> QED
      BY <2>2, <3>1, <3>2, <3>3, <3>4 DEF FileInv
  <2>4. CASE sources[f] # "yaml"
    <3>1. Directs(f) \cup Blocks(f) = {}
      BY <2>4 DEF FileInv
    <3>2. values'[f] = Pick(e.names, f) /\ sources'[f] = "yaml"
      BY <1>4, <2>1, <2>4 DEF Applies
    <3> QED
      BY <1>1, <2>2, <3>1, <3>2 DEF FileInv
  <2> QED
    BY <2>3, <2>4
<1>5. CASE /\ ~ (e.kind = "direct" /\ e.field = f)
           /\ ~ (e.kind = "block" /\ Mentions(e.names, f))
  <2>1. values'[f] = values[f] /\ sources'[f] = sources[f]
    <3>1. CASE e.kind = "block"
      BY <1>5, <3>1, EntryFacts, ApplyEnvFacts DEF ApplyEntry, Applies
    <3>2. CASE e.kind # "block"
      BY <1>5, <3>2, EntryFacts DEF ApplyEntry, ConfigTypeOK
    <3> QED
      BY <3>1, <3>2
  <2>2. /\ Directs(f)' = Directs(f) /\ Directs(f) \subseteq DOMAIN read
        /\ Blocks(f)' = Blocks(f) /\ Blocks(f) \subseteq DOMAIN read
    BY <1>1, <1>2, <1>5 DEF Directs, Blocks
  <2>3. \A i \in Directs(f) \cup Blocks(f) : read'[i] = read[i]
    BY <1>1, <2>2
  <2> QED
    BY <2>1, <2>2, <2>3 DEF FileInv
<1> QED
  BY <1>3, <1>4, <1>5

LEMMA LoadInv ==
    ASSUME ConfigTypeOK, ConfigInv, Load
    PROVE  ConfigInv'
<1>1. CASE BeginLoad
  BY <1>1 DEF BeginLoad, ConfigInv, ConfigIsResolved, FileInv, Directs, Blocks
<1>2. CASE RaiseConfig
  BY <1>2 DEF RaiseConfig, ConfigInv, ConfigIsResolved
<1>3. ASSUME NEW e \in Entries, ApplyEntry(e) PROVE ConfigInv'
  <2>1. loading = "files" /\ loading' = "files"
    BY <1>3 DEF ApplyEntry
  <2> QED
    BY <1>3, <2>1, EntryInv DEF ConfigInv, ConfigIsResolved
<1>4. CASE ApplyEnvironment
  <2>1. /\ loading = "files" /\ loading' = "done" /\ UNCHANGED <<env, read>>
        /\ \A f \in Fields :
              /\ Applies(env, f, "env") => values'[f] = Pick(env, f) /\ sources'[f] = "env"
              /\ ~ Applies(env, f, "env") => values'[f] = values[f] /\ sources'[f] = sources[f]
    BY <1>4, ApplyEnvFacts DEF ApplyEnvironment, ConfigTypeOK, Environments
  <2>2. ASSUME NEW f \in Fields PROVE Resolved(f)'
    <3>1. FileInv(f) /\ sources[f] # "env"
      BY <2>1, <2>2 DEF ConfigInv, FileInv
    <3>2. Directs(f)' = Directs(f) /\ Blocks(f)' = Blocks(f)
      BY <2>1 DEF Directs, Blocks
    <3>3. Mentions(env', f) = Mentions(env, f) /\ Pick(env', f) = Pick(env, f)
      BY <2>1
    <3> QED
      BY <2>1, <2>2, <3>1, <3>2, <3>3 DEF Resolved, FileInv, Applies
  <2> QED
    BY <2>1, <2>2 DEF ConfigInv, ConfigIsResolved
<1> QED
  BY <1>1, <1>2, <1>3, <1>4 DEF Load

-----------------------------------------------------------------------------
(* The wizard.                                                             *)

LEMMA StepsFacts ==
    /\ DOMAIN Steps = 1..8
    /\ \A i, j \in 1..8 : Steps[i] = Steps[j] => i = j
    /\ \A i \in 1..8 : Steps[i] \notin {"idle", "scaffold", "dotenv", "up", "resolve", "ok", "failed", "program"}
    /\ Steps[1] = "connect" /\ Steps[7] = "embedder" /\ Steps[8] = "config"
    /\ Pieces = {Steps[i] : i \in 2..6}
<1>1. DOMAIN Steps = 1..8
  BY DEF Steps
<1>2. /\ Steps[1] = "connect" /\ Steps[2] = "extension" /\ Steps[3] = "schema"
      /\ Steps[4] = "tables" /\ Steps[5] = "surfaces" /\ Steps[6] = "audit"
      /\ Steps[7] = "embedder" /\ Steps[8] = "config"
  BY DEF Steps
<1>3. \A i \in 1..8 : i \in {1, 2, 3, 4, 5, 6, 7, 8}
  OBVIOUS
<1>4. \A x : x \in Pieces <=> x \in {Steps[i] : i \in 2..6}
  <2>1. \A i \in 2..6 : i \in {2, 3, 4, 5, 6}
    OBVIOUS
  <2> QED
    BY <1>2, <2>1 DEF Pieces
<1>5. \A i, j \in 1..8 : Steps[i] = Steps[j] => i = j
  BY <1>2, <1>3
<1>6. \A i \in 1..8 : Steps[i] \notin {"idle", "scaffold", "dotenv", "up", "resolve", "ok", "failed", "program"}
  BY <1>2, <1>3
<1> QED
  BY <1>1, <1>2, <1>4, <1>5, <1>6

LEMMA NextOfFacts ==
    ASSUME NEW k \in 1..6
    PROVE  NextOf(Steps[k]) = Steps[k + 1]
<1>1. (CHOOSE i \in 1..7 : Steps[i] = Steps[k]) = k
  BY StepsFacts
<1>2. 1 + k = k + 1
  OBVIOUS
<1> QED
  BY <1>1, <1>2, Zenon DEF NextOf

(* Every action but two leaves the environment and the configuration. *)
LEMMA SameConfig ==
    ASSUME ConfigInv, UNCHANGED configVars, loading = "idle" \/ UNCHANGED env
    PROVE  ConfigInv'
BY DEF ConfigInv, ConfigIsResolved, FileInv, Resolved, Directs, Blocks, configVars

LEMMA InitIInv == Init => IInv
<1> SUFFICES ASSUME Init PROVE IInv
  OBVIOUS
<1> USE DEF Init, ConfigInit
<1>1. TypeOK
  <2>1. ConfigTypeOK
    <3>1. env \in Environments
      BY DEF NoEnv, Environments
    <3> QED
      BY <3>1, ConfigAssumption DEF ConfigTypeOK
  <2> QED
    <3>1. stack \in [at : {"down", "starting", "ready"}, password : Passwords \cup {NoPassword}]
      OBVIOUS
    <3>2. made \in [{"stack", "external"} -> SUBSET Pieces]
      OBVIOUS
    <3>3. run \in 0..MaxRuns
      BY WizardAssumption
    <3> QED
      BY <2>1, <3>1, <3>2, <3>3 DEF TypeOK
<1>2. ConfigInv
  BY DEF ConfigInv, ConfigIsResolved, FileInv, Directs, Blocks
<1>3. Reading /\ Pointed /\ Behind /\ Deployed
  <2>1. at \notin {Steps[i] : i \in DOMAIN Steps} \cup {"ok"}
    BY StepsFacts
  <2> QED
    BY <2>1, StepsFacts DEF Reading, Pointed, Behind, Deployed, PasswordsAgree, NoPassword
<1> QED
  BY <1>1, <1>2, <1>3 DEF IInv

(* What the shells name is a value. *)
LEMMA ShellsFacts ==
    ASSUME TypeOK, NEW shell \in Shells
    PROVE  /\ shell \in Environments
           /\ FirstOf(shell[DsnName], shell[LegacyName]) \in Values \cup {Blank}
<1>1. known \cup {Blank} \subseteq Values \cup {Blank}
  BY WizardAssumption DEF TypeOK
<1>2. shell \in [NameSet -> Values \cup {Blank}]
  BY <1>1 DEF Shells
<1> QED
  BY <1>2, WizardAssumption DEF Environments, FirstOf

(* The DSN the wizard resolves. *)
LEMMA ResolvedTyped ==
    ASSUME TypeOK, Resolve
    PROVE  dsn' \in Values /\ env' = [env EXCEPT ![DsnName] = dsn'] /\ env' \in Environments
<1>1. env[DsnName] \in Values \cup {Blank} /\ env[LegacyName] \in Values \cup {Blank}
  BY WizardAssumption DEF TypeOK, ConfigTypeOK, Environments
<1>2. given \in Values \cup {Blank} /\ known \subseteq Values
  BY WizardAssumption DEF TypeOK
<1>3. PICK asked \in known :
         dsn' = FirstOf(given, FirstOf(env[DsnName], FirstOf(env[LegacyName], asked)))
  BY DEF Resolve
<1>4. asked \in Values /\ asked # Blank
  BY <1>2, <1>3, ConfigAssumption
<1>5. dsn' \in Values
  BY <1>1, <1>2, <1>3, <1>4 DEF FirstOf
<1>6. env' = [env EXCEPT ![DsnName] = dsn']
  BY DEF Resolve
<1> QED
  BY <1>5, <1>6 DEF TypeOK, ConfigTypeOK, Environments

LEMMA StepTyped ==
    ASSUME IInv, [Next]_vars
    PROVE  TypeOK'
<1> USE DEF args, disk, docker
<1>0. TypeOK /\ Deployed /\ ConfigTypeOK
  BY DEF IInv, TypeOK
<1>1. CASE UNCHANGED vars
  BY <1>0, <1>1 DEF vars, TypeOK, ConfigTypeOK, configVars
<1>2. CASE Start
  <2>1. ConfigTypeOK'
    BY <1>0, <1>2, ShellsFacts DEF Start, ConfigTypeOK, configVars
  <2>2. run' \in 0..MaxRuns /\ at' \in {"scaffold", "resolve"} /\ dsn' = dsn
    BY <1>0, <1>2, WizardAssumption DEF Start, TypeOK
  <2> QED
    BY <1>0, <1>2, <2>1, <2>2 DEF Start, TypeOK
<1>11. CASE StartProgram
  <2>1. ConfigTypeOK'
    BY <1>0, <1>11, ShellsFacts DEF StartProgram, ConfigTypeOK, configVars
  <2>2. dsn' \in Values \cup {Blank}
    BY <1>0, <1>11, ShellsFacts DEF StartProgram
  <2> QED
    BY <1>0, <1>11, <2>1, <2>2 DEF StartProgram, TypeOK
<1>12. CASE Exit
  <2>1. env' \in Environments
    BY <1>12 DEF Exit, NoEnv, Environments
  <2>2. ConfigTypeOK'
    BY <1>12, <2>1, ConfigAssumption DEF Exit, ConfigReset, ConfigTypeOK
  <2> QED
    BY <1>0, <1>12, <2>2 DEF Exit, TypeOK
<1>3. CASE Fail \/ StackReady \/ VerifyEmbedder
  <2>1. UNCHANGED <<env, configVars, args, dsn, disk, made, clobbered>>
    BY <1>3 DEF Fail, StackReady, VerifyEmbedder
  <2>2. ConfigTypeOK'
    BY <1>0, <2>1 DEF ConfigTypeOK, configVars
  <2>3. at' = at \/ at' \in {"failed", Steps[8]}
    BY <1>0, <1>3, StepsFacts DEF Fail, StackReady, VerifyEmbedder, TypeOK
  <2>4. /\ stack' \in [at : {"down", "starting", "ready"}, password : Passwords \cup {NoPassword}]
        /\ volume' \in Passwords \cup {NoPassword}
    BY <1>0, <1>3 DEF Fail, StackReady, VerifyEmbedder, TypeOK
  <2> QED
    BY <1>0, <2>1, <2>2, <2>3, <2>4, StepsFacts DEF TypeOK
<1>13. CASE Scaffold
  <2>1. ConfigTypeOK'
    BY <1>0, <1>13 DEF Scaffold, ConfigTypeOK, configVars
  <2>2. compose' \in [Dirs -> BOOLEAN] /\ clobbered' \in BOOLEAN
    BY <1>0, <1>13 DEF Scaffold, TypeOK
  <2> QED
    BY <1>0, <1>13, <2>1, <2>2 DEF Scaffold, TypeOK
<1>4. CASE WriteDotenv
  <2>1. ConfigTypeOK'
    BY <1>0, <1>4 DEF WriteDotenv, ConfigTypeOK, configVars
  <2>2. run \in Passwords /\ at' = "up"
    BY <1>0, <1>4 DEF WriteDotenv, Deployed
  <2>3. /\ dotenv' \in [Dirs -> Passwords \cup {NoPassword}]
        /\ known' \in SUBSET (Passwords \cup {External})
        /\ External \in known' /\ given' \in known' \cup {Blank}
    BY <1>0, <1>4, <2>2 DEF WriteDotenv, TypeOK
  <2> QED
    BY <1>0, <1>4, <2>1, <2>2, <2>3 DEF WriteDotenv, TypeOK
<1>5. CASE ComposeUp
  <2>1. dotenv[dir] \in Passwords /\ dotenv[dir] \in Values /\ OllamaLocal \in Values
    BY <1>0, <1>5, WizardAssumption DEF ComposeUp, Deployed, TypeOK
  <2>2. env' \in Environments /\ at' \in {"resolve", "failed"}
    <3>1. ASSUME NEW unset PROVE WithStack(unset) \in Environments
      BY <1>0, <2>1 DEF WithStack, ConfigTypeOK, Environments
    <3> QED
      BY <1>0, <1>5, <3>1 DEF ComposeUp, ConfigTypeOK
  <2>3. ConfigTypeOK'
    BY <1>0, <1>5, <2>2 DEF ComposeUp, ConfigTypeOK, configVars
  <2>4. stack' \in [at : {"down", "starting", "ready"}, password : Passwords \cup {NoPassword}]
    BY <1>5, <2>1 DEF ComposeUp
  <2> QED
    BY <1>0, <1>5, <2>2, <2>3, <2>4 DEF ComposeUp, TypeOK
<1>6. CASE Resolve
  <2>1. dsn' \in Values /\ env' \in Environments /\ at' = Steps[1]
    BY <1>0, <1>6, ResolvedTyped, StepsFacts DEF Resolve
  <2>2. ConfigTypeOK'
    BY <1>0, <1>6, <2>1 DEF Resolve, ConfigTypeOK, configVars
  <2> QED
    BY <1>0, <1>6, <2>1, <2>2, StepsFacts DEF Resolve, TypeOK
<1>7. CASE Step
  <2>1. ConfigTypeOK'
    BY <1>0, <1>7 DEF Step, ConfigTypeOK, configVars
  <2>2. at' \in {Steps[i] : i \in DOMAIN Steps}
    <3>1. PICK k \in 1..6 : at = Steps[k]
      BY <1>7 DEF Step
    <3>2. at' = Steps[k + 1] /\ k + 1 \in 1..8
      BY <1>7, <3>1, NextOfFacts DEF Step
    <3> QED
      BY <3>2, StepsFacts
  <2>3. made' \in [{"stack", "external"} -> SUBSET Pieces]
    BY <1>0, <1>7 DEF Step, TypeOK
  <2> QED
    BY <1>0, <1>7, <2>1, <2>2, <2>3 DEF Step, TypeOK
<1>8. CASE ReadConfig
  <2>1. ConfigTypeOK'
    BY <1>0, <1>8, LoadTyped DEF ReadConfig
  <2>2. at' \in {at, "ok", "failed"}
    BY <1>8 DEF ReadConfig
  <2> QED
    BY <1>0, <1>8, <2>1, <2>2 DEF ReadConfig, TypeOK
<1> QED
  BY <1>1, <1>2, <1>3, <1>4, <1>5, <1>6, <1>7, <1>8, <1>11, <1>12, <1>13 DEF Next

LEMMA StepConfig ==
    ASSUME IInv, [Next]_vars
    PROVE  ConfigInv' /\ Reading'
<1>0. ConfigInv /\ Reading /\ ConfigTypeOK
  BY DEF IInv, TypeOK
<1>1. CASE UNCHANGED vars
  BY <1>0, <1>1, SameConfig DEF vars, Reading, configVars
<1>2. CASE Exit
  <2>1. /\ loading' = "idle" /\ values' = Default /\ read' = <<>>
        /\ sources' = [f \in Fields |-> "default"]
        /\ at' = "idle"
    BY <1>2 DEF Exit, ConfigReset
  <2> QED
    BY <2>1 DEF ConfigInv, ConfigIsResolved, FileInv, Directs, Blocks, Reading
<1>3. CASE Fail \/ Scaffold \/ WriteDotenv \/ StackReady \/ VerifyEmbedder \/ Step
  <2>1. UNCHANGED <<env, configVars>>
    BY <1>3 DEF Fail, Scaffold, WriteDotenv, StackReady, VerifyEmbedder, Step
  <2>2. ASSUME Step
        PROVE  /\ at \notin {"config", "ok", "failed", "program"}
               /\ at' \notin {"ok"}
    <3>1. PICK k \in 1..6 : at = Steps[k]
      BY <2>2 DEF Step
    <3>2. at' = Steps[k + 1] /\ k + 1 \in 1..8 /\ k # 8 /\ k \in 1..8
      BY <2>2, <3>1, NextOfFacts DEF Step
    <3> QED
      BY <3>1, <3>2, StepsFacts
  <2>3. Reading'
    BY <1>0, <1>3, <2>1, <2>2
       DEF Fail, Scaffold, WriteDotenv, StackReady, VerifyEmbedder, Reading, configVars
  <2> QED
    BY <1>0, <2>1, <2>3, SameConfig
<1>4. CASE Start \/ StartProgram \/ ComposeUp \/ Resolve
  <2>1. UNCHANGED configVars /\ loading = "idle"
    BY <1>0, <1>4 DEF Start, StartProgram, ComposeUp, Resolve, Reading
  <2>2. Reading'
    BY <2>1, <1>4 DEF Start, StartProgram, ComposeUp, Resolve, Reading, configVars
  <2> QED
    BY <1>0, <2>1, <2>2, SameConfig
<1>5. CASE ReadConfig
  <2>1. ConfigInv'
    BY <1>0, <1>5, LoadInv DEF ReadConfig
  <2>2. Reading'
    <3>1. loading' \in {"files", "done", "raised"}
      BY <1>5 DEF ReadConfig, Load, BeginLoad, ApplyEntry, ApplyEnvironment, RaiseConfig
    <3> QED
      BY <1>5, <3>1 DEF ReadConfig, Reading
  <2> QED
    BY <2>1, <2>2
<1> QED
  BY <1>1, <1>2, <1>3, <1>4, <1>5 DEF Next

(* One step of the wizard goes on to the next with its piece made. *)
LEMMA StepBehind ==
    ASSUME IInv, [Next]_vars
    PROVE  Pointed' /\ Behind'
<1>0. Pointed /\ Behind /\ TypeOK /\ ConfigTypeOK
  BY DEF IInv, TypeOK
<1>1. CASE UNCHANGED <<env, at, dsn, made>>
  BY <1>0, <1>1 DEF Pointed, Behind, Database
<1>2. ASSUME at' \in {"idle", "scaffold", "dotenv", "up", "resolve", "failed"}
      PROVE  Pointed' /\ Behind'
  BY <1>2, StepsFacts DEF Pointed, Behind
<1>10. CASE StartProgram
  BY <1>10, StepsFacts DEF StartProgram, Pointed, Behind
<1>3. CASE Resolve
  <2>1. dsn' \in Values /\ env' = [env EXCEPT ![DsnName] = dsn'] /\ at' = Steps[1]
    BY <1>0, <1>3, ResolvedTyped, StepsFacts DEF Resolve
  <2>2. env'[DsnName] = dsn'
    BY <1>0, <2>1, WizardAssumption DEF ConfigTypeOK, Environments
  <2>3. \A k \in 1..8 : at' = Steps[k] => 1..(k - 1) = {}
    BY <2>1, StepsFacts
  <2> QED
    BY <2>1, <2>2, <2>3, StepsFacts DEF Pointed, Behind
<1>4. CASE Step
  <2>1. PICK k \in 1..6 : at = Steps[k]
    BY <1>4 DEF Step
  <2>2. at' = Steps[k + 1] /\ k + 1 \in 1..8 /\ k \in 1..8
    BY <1>4, <2>1, NextOfFacts DEF Step
  <2>3. UNCHANGED <<env, dsn>> /\ dsn \in Values /\ env[DsnName] = dsn
    BY <1>0, <1>4, <2>1, <2>2, StepsFacts DEF Step, Pointed
  <2>4. made'[Database(dsn)] = made[Database(dsn)] \cup ({at} \cap Pieces)
    BY <1>0, <1>4 DEF Step, TypeOK, Database
  <2>5. Pointed'
    BY <2>2, <2>3, StepsFacts DEF Pointed
  <2>6. ASSUME NEW l \in 1..8, at' = Steps[l], NEW j \in 1..(l - 1), Steps[j] \in Pieces
        PROVE  Steps[j] \in made'[Database(dsn)]
    <3>1. l = k + 1
      BY <2>2, <2>6, StepsFacts
    <3>2. CASE j = k
      BY <2>1, <2>4, <2>6, <3>2
    <3>3. CASE j # k
      <4>1. j \in 1..(k - 1)
        BY <3>1, <3>3
      <4> QED
        BY <1>0, <2>1, <2>2, <2>4, <2>6, <4>1 DEF Behind
    <3> QED
      BY <3>2, <3>3
  <2> QED
    BY <2>2, <2>3, <2>5, <2>6, StepsFacts DEF Behind, Database
<1>5. CASE VerifyEmbedder
  <2>1. at = Steps[7] /\ at' = Steps[8] /\ UNCHANGED <<env, dsn, made>>
    BY <1>5, StepsFacts DEF VerifyEmbedder
  <2>2. Pointed'
    BY <1>0, <2>1, StepsFacts DEF Pointed
  <2>3. ASSUME NEW l \in 1..8, at' = Steps[l], NEW j \in 1..(l - 1), Steps[j] \in Pieces
        PROVE  Steps[j] \in made[Database(dsn)]
    <3>1. l = 8
      <4>1. 8 \in 1..8 /\ Steps[l] = Steps[8]
        BY <2>1, <2>3
      <4> QED
        BY <4>1, StepsFacts
    <3>2. j \in 1..7 /\ Steps[7] \notin Pieces
      BY <3>1 DEF Steps, Pieces
    <3>3. j \in 1..(7 - 1)
      BY <2>3, <3>2
    <3> QED
      BY <1>0, <2>1, <2>3, <3>3 DEF Behind
  <2> QED
    BY <2>1, <2>2, <2>3, StepsFacts DEF Behind, Database
<1>6. CASE ReadConfig
  <2>1. UNCHANGED <<env, dsn, made>>
    BY <1>0, <1>6, LoadTyped DEF ReadConfig
  <2>2. CASE at' # "ok"
    BY <1>1, <1>2, <1>6, <2>1, <2>2 DEF ReadConfig
  <2>3. CASE at' = "ok"
    <3>1. at = Steps[8] \/ at = "ok"
      BY <1>6, <2>3, StepsFacts DEF ReadConfig
    <3>2. dsn \in Values /\ env[DsnName] = dsn
      BY <1>0, <3>1, StepsFacts DEF Pointed
    <3>3. Pieces \subseteq made[Database(dsn)]
      <4>1. ASSUME NEW j \in 2..6 PROVE Steps[j] \in made[Database(dsn)]
        <5>1. j \in 1..(8 - 1) /\ Steps[j] \in Pieces
          BY StepsFacts
        <5> QED
          BY <1>0, <3>1, <5>1 DEF Behind
      <4> QED
        BY <4>1, StepsFacts
    <3>4. made[Database(dsn)] \subseteq Pieces
      BY <1>0 DEF TypeOK, Database
    <3> QED
      BY <2>1, <2>3, <3>2, <3>3, <3>4, StepsFacts DEF Pointed, Behind, Database
  <2> QED
    BY <2>2, <2>3
<1>7. CASE UNCHANGED vars \/ StackReady
  BY <1>1, <1>7 DEF vars, StackReady
<1>8. CASE Fail \/ Scaffold \/ WriteDotenv \/ ComposeUp
  BY <1>2, <1>8 DEF Fail, Scaffold, WriteDotenv, ComposeUp
<1>9. CASE Start \/ Exit
  BY <1>2, <1>9 DEF Start, Exit
<1> QED
  BY <1>3, <1>4, <1>5, <1>6, <1>7, <1>8, <1>9, <1>10 DEF Next

LEMMA StepDeployed ==
    ASSUME IInv, [Next]_vars
    PROVE  Deployed'
<1> USE DEF disk, docker, NoPassword
<1>0. Deployed /\ TypeOK
  BY DEF IInv
<1>1. ASSUME UNCHANGED <<run, dir, dotenv, docker, clobbered>>,
             at' \notin {"scaffold", "dotenv", "up"} \/ at' = at
      PROVE  Deployed'
  BY <1>0, <1>1 DEF Deployed, PasswordsAgree
<1>2. CASE Start
  <2>1. /\ run' \in Passwords /\ at' \in {"scaffold", "resolve"}
        /\ UNCHANGED <<dotenv, docker, clobbered>>
    BY <1>0, <1>2, WizardAssumption DEF Start, TypeOK, Passwords
  <2> QED
    BY <1>0, <2>1 DEF Deployed, PasswordsAgree
<1>3. CASE UNCHANGED vars
  BY <1>1, <1>3 DEF vars, args
<1>4. CASE Fail \/ Resolve \/ VerifyEmbedder \/ StartProgram \/ Exit
  BY <1>1, <1>4 DEF Fail, Resolve, VerifyEmbedder, StartProgram, Exit, args
<1>5. CASE Step
  <2>1. PICK k \in 1..6 : at = Steps[k]
    BY <1>5 DEF Step
  <2>2. at' = Steps[k + 1] /\ k + 1 \in 1..8 /\ k \in 1..8
    BY <1>5, <2>1, NextOfFacts DEF Step
  <2> QED
    BY <1>1, <1>5, <2>1, <2>2, StepsFacts DEF Step, args
<1>6. CASE ReadConfig
  BY <1>1, <1>6 DEF ReadConfig, args
<1>7. CASE Scaffold
  <2>1. /\ at = "scaffold" /\ at' = "dotenv" /\ UNCHANGED <<run, dir, dotenv, docker>>
        /\ ~ clobbered' => ~ clobbered /\ dotenv[dir] = NoPassword
    BY <1>7 DEF Scaffold, args
  <2> QED
    BY <1>0, <2>1 DEF Deployed, PasswordsAgree
<1>8. CASE WriteDotenv
  <2>1. /\ at = "dotenv" /\ at' = "up" /\ run \in Passwords
        /\ dotenv' = [dotenv EXCEPT ![dir] = run]
        /\ UNCHANGED <<run, dir, docker, clobbered>>
    BY <1>0, <1>8 DEF WriteDotenv, Deployed, args
  <2>2. dir \in Dirs /\ dotenv' [dir] # 0 /\ \A d \in Dirs : d # dir => dotenv' [d] = dotenv[d]
    BY <1>0, <2>1 DEF Passwords, TypeOK
  <2>3. ASSUME NEW p, p # 0, ~ clobbered, \E d \in Dirs : dotenv[d] = p
        PROVE  \E d \in Dirs : dotenv' [d] = p
    BY <1>0, <2>1, <2>2, <2>3 DEF Deployed
  <2>4. /\ stack.at # "down" => stack.password # 0
        /\ ~ clobbered /\ stack.at # "down" => \E d \in Dirs : dotenv[d] = stack.password
        /\ ~ clobbered /\ volume # 0 => \E d \in Dirs : dotenv[d] = volume
    BY <1>0 DEF Deployed, PasswordsAgree
  <2>5. ~ clobbered /\ stack.at # "down" => \E d \in Dirs : dotenv' [d] = stack.password
    BY <2>3, <2>4
  <2>6. ~ clobbered /\ volume # 0 => \E d \in Dirs : dotenv' [d] = volume
    BY <2>3, <2>4
  <2> QED
    BY <2>1, <2>2, <2>4, <2>5, <2>6 DEF Deployed, PasswordsAgree
<1>9. CASE ComposeUp
  <2>1. /\ at = "up" /\ at' \in {"resolve", "failed"} /\ dotenv[dir] # 0 /\ dir \in Dirs
        /\ stack'.at = "starting" /\ stack'.password = dotenv[dir]
        /\ UNCHANGED <<run, dir, dotenv, volume, clobbered>>
    BY <1>0, <1>9 DEF ComposeUp, Deployed, TypeOK, args
  <2> QED
    BY <1>0, <2>1 DEF Deployed, PasswordsAgree
<1>10. CASE StackReady
  <2>1. /\ stack.at = "starting" /\ stack'.at = "ready" /\ stack'.password = stack.password
        /\ volume' = IF volume = 0 THEN stack.password ELSE volume
        /\ UNCHANGED <<run, dir, at, dotenv, clobbered>>
    BY <1>0, <1>10 DEF StackReady, TypeOK, args
  <2> QED
    BY <1>0, <2>1 DEF Deployed, PasswordsAgree
<1> QED
  BY <1>2, <1>3, <1>4, <1>5, <1>6, <1>7, <1>8, <1>9, <1>10 DEF Next

-----------------------------------------------------------------------------
(* The inductive invariant holds, and what the run checks follows.         *)

LEMMA Inductive == IInv /\ [Next]_vars => IInv'
BY StepTyped, StepConfig, StepBehind, StepDeployed DEF IInv

(* Every reachable state of the wizard and the configuration is well typed. *)
THEOREM TypeCorrect == Spec => []TypeOK
<1> QED
  BY InitIInv, Inductive, PTL DEF Spec, IInv

(* Whatever the files say, and however many names a key has: reading entry
   by entry and name by name gives the configuration that is described
   without an order. *)
THEOREM ConfigIsAlwaysResolved == Spec => []ConfigIsResolved
<1>1. IInv => ConfigIsResolved
  BY DEF IInv, ConfigInv
<1> QED
  BY <1>1, InitIInv, Inductive, PTL DEF Spec

(* However often the wizard was run before and wherever it stopped, its
   success means that the whole database is there. *)
THEOREM SuccessIsAlwaysComplete == Spec => []SuccessIsComplete
<1>1. IInv => SuccessIsComplete
  BY WizardAssumption, ConfigAssumption DEF IInv, Pointed, Behind, SuccessIsComplete
<1> QED
  BY <1>1, InitIInv, Inductive, PTL DEF Spec

(* As long as no deployment was overwritten by force, the password of the
   volume is in one of the deployments, in whatever directories the wizard
   was run and wherever it stopped. *)
THEOREM PasswordsAlwaysAgree == Spec => []PasswordsAgree
<1>1. IInv => PasswordsAgree
  BY DEF IInv, Deployed
<1> QED
  BY <1>1, InitIInv, Inductive, PTL DEF Spec

(* The DSN of a process is in its environment, under one of the two names
   that services look at. *)
LEMMA DsnIsNamed ==
    ASSUME IInv, at \in {"ok", "program"}, dsn # Blank
    PROVE  \E j \in DOMAIN Names : Names[j] \in {DsnName, LegacyName} /\ env[Names[j]] = dsn
<1>1. \E n \in {DsnName, LegacyName} : env[n] = dsn
  BY DEF IInv, Pointed, FirstOf
<1> QED
  BY <1>1, WizardAssumption DEF NameSet

(* The configuration names the database the wizard worked on, in its own
   process, and the database a service finds, in a program started later:
   but for another name of postgres.dsn that comes first, which then
   decides. *)
THEOREM ConfiguredIsAlwaysInitialised == Spec => []ConfiguredIsInitialised
<1>1. IInv => ConfiguredIsInitialised
  <2> SUFFICES ASSUME IInv, at \in {"ok", "program"}, loading = "done", dsn # Blank,
                      values[DsnField] # dsn
               PROVE  Overruled
    BY DEF ConfiguredIsInitialised
  <2>1. PICK j \in DOMAIN Names : Names[j] \in {DsnName, LegacyName} /\ env[Names[j]] = dsn
    BY DsnIsNamed
  <2>2. env[Names[j]] # Blank /\ FieldOf[Names[j]] = DsnField
    BY <2>1, WizardAssumption
  <2>3. Mentions(env, DsnField)
    BY <2>2, SetIsMentioned
  <2>4. values[DsnField] = Pick(env, DsnField)
    BY <2>3, WizardAssumption DEF IInv, ConfigInv, ConfigIsResolved, Resolved
  <2>5. PICK i \in Chosen(env, DsnField) : Pick(env, DsnField) = env[Names[i]]
    BY <2>3, PickFacts
  <2>6. /\ i \in DOMAIN Names /\ FieldOf[Names[i]] = DsnField /\ env[Names[i]] # Blank
        /\ \A k \in 1..(i - 1) : FieldOf[Names[k]] = DsnField => env[Names[k]] = Blank
    BY <2>5 DEF Chosen
  <2>7. i # j
    BY <2>1, <2>4, <2>5
  <2>8. i \in Nat /\ j \in Nat /\ j >= 1
    BY <2>6, ConfigAssumption
  <2>9. i < j
    <3> SUFFICES ASSUME j < i PROVE FALSE
      BY <2>7, <2>8
    <3>1. j \in 1..(i - 1)
      BY <2>8
    <3> QED
      BY <2>2, <2>6, <3>1
  <2>10. Names[i] \notin {DsnName, LegacyName}
    <3> SUFFICES ASSUME Names[i] \in {DsnName, LegacyName} PROVE FALSE
      OBVIOUS
    <3>1. CASE env[DsnName] # Blank
      <4>1. dsn = env[DsnName]
        BY <3>1 DEF IInv, Pointed, FirstOf
      <4>2. Names[i] = LegacyName
        BY <2>4, <2>5, <4>1
      <4>3. PICK k \in DOMAIN Names : Names[k] = DsnName
        BY WizardAssumption DEF NameSet
      <4>4. k < i /\ FieldOf[Names[k]] = DsnField
        BY <2>6, <4>2, <4>3, WizardAssumption
      <4>5. k \in 1..(i - 1)
        BY <2>8, <4>3, <4>4, ConfigAssumption
      <4> QED
        BY <2>6, <3>1, <4>3, <4>4, <4>5
    <3>2. CASE env[DsnName] = Blank
      <4>1. at = "program" /\ dsn = env[LegacyName]
        BY <3>2, ConfigAssumption DEF IInv, Pointed, FirstOf
      <4>2. Names[i] = LegacyName
        BY <2>6, <3>2
      <4> QED
        BY <2>4, <2>5, <4>1, <4>2
    <3> QED
      BY <3>1, <3>2
  <2> QED
    BY <2>1, <2>4, <2>5, <2>6, <2>9, <2>10 DEF Overruled
<1> QED
  BY <1>1, InitIInv, Inductive, PTL DEF Spec
=============================================================================
