------------------------------ MODULE Startup ------------------------------
(***************************************************************************)
(* What a server process does before and beside serving, with the files    *)
(* that outlive it: the log categories (logx.go), the schema of the        *)
(* database (migrations.go) and the certificate (tls.go), in the order of  *)
(* main.go.  The service and a second process, started by hand to create   *)
(* an administrator, may run at once; each may be killed at any step, and  *)
(* is started again.                                                       *)
(*                                                                         *)
(* A file is truncated in one step and written in another.  A migration is *)
(* one transaction.  What --create-admin does to the tables is in Accounts.*)
(***************************************************************************)
EXTENDS Integers, FiniteSets

CONSTANTS
    Process, NoProcess,
    Request,    \* PUT /api/admin/logs/{category} under way
    Category,   \* of the log
    Latest,     \* last of the migrations
    NoFile, Half,   \* a file that is missing, or truncated
    MaxCerts    \* bound: certificates generated

ASSUME StartupAssumption ==
    /\ NoProcess \notin Process /\ Latest \in Nat /\ MaxCerts \in Nat /\ NoFile # Half
    /\ {NoFile, Half} \cap (Int \cup [Category -> BOOLEAN]) = {}

VARIABLES
    logFile,    \* log_config.json
    schema,     \* the migrations that have been applied
    certFile, keyFile,
    generatedCerts,     \* how many certificates have been generated
    bound,      \* process that listens on each port
    at,         \* where each process is
    enabled,    \* defaultLogger.cfg of each process
    version,    \* latestVersion that it has read
    cert,       \* certificate that it has generated or loaded
    toggle,     \* the requests: where each is, and its copy
    raced       \* history: files that two have been at, one of them writing

startupVars == <<logFile, schema, certFile, keyFile, generatedCerts, bound, at, enabled,
                 version, cert, toggle, raced>>
certVars  == <<certFile, keyFile, generatedCerts>>
diskVars  == <<logFile, schema, certVars>>

Config == [Category -> BOOLEAN]
DefaultConfig == [c \in Category |-> TRUE]
NoRequest == [at |-> "idle", copy |-> DefaultConfig]
Port   == {"https", "tcp"}
Stages == {"off", "logs", "default", "defaulting", "version", "migrate", "certs",
            "cert", "certing", "key", "keying", "load", "listen"}

StartupInit ==
    /\ logFile = NoFile /\ schema = {}
    /\ certFile = NoFile /\ keyFile = NoFile /\ generatedCerts = 0
    /\ bound = [o \in Port |-> NoProcess]
    /\ at = [p \in Process |-> "off"] /\ enabled = [p \in Process |-> DefaultConfig]
    /\ version = [p \in Process |-> 0] /\ cert = [p \in Process |-> 0]
    /\ toggle = [r \in Request |-> NoRequest]
    /\ raced = {}

-----------------------------------------------------------------------------
To(p, s) == at' = [at EXCEPT ![p] = s]

\* The toggles are those of the one process that listens for them.
Serving(p) == bound["https"] = p
Toggling == {r \in Request : toggle[r] # NoRequest}

Start(p) ==
    /\ at[p] = "off" /\ To(p, "logs")
    /\ enabled' = [enabled EXCEPT ![p] = DefaultConfig]
    /\ UNCHANGED <<diskVars, bound, version, cert, toggle, raced>>

\* Killed, or log.Fatal at whatever fails; requests end with their process.
Exit(p) ==
    /\ at[p] # "off" /\ To(p, "off")
    /\ bound' = [o \in Port |-> IF bound[o] = p THEN NoProcess ELSE bound[o]]
    /\ version' = [version EXCEPT ![p] = 0] /\ cert' = [cert EXCEPT ![p] = 0]
    /\ toggle' = IF Serving(p) THEN [r \in Request |-> NoRequest] ELSE toggle
    /\ UNCHANGED <<diskVars, enabled, raced>>

-----------------------------------------------------------------------------
(* logx *)

\* Processes that have looked at the file, which may change behind them.
LogReaders == {p \in Process : at[p] \notin {"off", "logs"}}
LogWriters == {p \in Process : at[p] \in {"default", "defaulting"}}
RaceForLog(others) ==
    raced' = IF others = {} THEN raced ELSE raced \cup {"log"}

\* Every file that the program writes names its categories: one edited by hand
\* that does not (the default is taken for it, in memory) is not modelled.
ReadLogConfig(p) ==
    /\ at[p] = "logs"
    /\ RaceForLog(LogWriters \cup Toggling)
    /\ \/ /\ logFile = NoFile
          /\ To(p, "default") /\ UNCHANGED enabled
       \/ /\ logFile \notin {NoFile, Half}
          /\ enabled' = [enabled EXCEPT ![p] = logFile]
          /\ To(p, "version")
    /\ UNCHANGED <<diskVars, bound, version, cert, toggle>>

WriteDefault(p) ==
    /\ \/ at[p] = "default" /\ logFile' = Half /\ To(p, "defaulting")
       \/ at[p] = "defaulting" /\ logFile' = DefaultConfig /\ To(p, "version")
    /\ UNCHANGED <<schema, certVars, bound, enabled, version, cert, toggle, raced>>

\* GetConfig's copy, with the category changed.
CopyConfig(p, r, c, on) ==
    /\ Serving(p) /\ toggle[r] = NoRequest
    /\ toggle' = [toggle EXCEPT ![r] =
                    [at |-> "open", copy |-> [enabled[p] EXCEPT ![c] = on]]]
    /\ RaceForLog((LogReaders \ {p}) \cup Toggling)
    /\ UNCHANGED <<diskVars, bound, at, enabled, version, cert>>

\* SaveConfig: the file, and then the memory, unless the file fails.
SaveLogFile(r) ==
    /\ \/ toggle[r].at = "open" /\ logFile' = Half
          /\ toggle' = [toggle EXCEPT ![r].at = "fill"]
       \/ toggle[r].at = "fill" /\ logFile' = toggle[r].copy
          /\ toggle' = [toggle EXCEPT ![r].at = "memory"]
    /\ UNCHANGED <<schema, certVars, bound, at, enabled, version, cert, raced>>

SaveFails(r) ==
    /\ toggle[r].at \in {"open", "fill"}
    /\ toggle' = [toggle EXCEPT ![r] = NoRequest]
    /\ UNCHANGED <<diskVars, bound, at, enabled, version, cert, raced>>

(* Mutant: the change is lost in memory.                                    *)
InMemoryStill(p, r) == enabled
InMemory(p, r) == [enabled EXCEPT ![p] = toggle[r].copy]
SetConfig(p, r) ==
    /\ Serving(p) /\ toggle[r].at = "memory"
    /\ enabled' = InMemory(p, r)
    /\ toggle' = [toggle EXCEPT ![r] = NoRequest]
    /\ UNCHANGED <<diskVars, bound, at, version, cert, raced>>

-----------------------------------------------------------------------------
(* Migrations *)

ReadVersion(p) ==
    /\ at[p] = "version" /\ To(p, "migrate")
    /\ version' = [version EXCEPT ![p] =
                     CHOOSE v \in schema \cup {0} : \A w \in schema : w <= v]
    /\ UNCHANGED <<diskVars, bound, enabled, cert, toggle, raced>>

(* In one transaction, the row in schema_migrations included.               *)
ApplyMigration(p) ==
    /\ at[p] = "migrate" /\ version[p] < Latest /\ version[p] + 1 \notin schema
    /\ schema' = schema \cup {version[p] + 1}
    /\ version' = [version EXCEPT ![p] = @ + 1]
    /\ UNCHANGED <<logFile, certVars, bound, at, enabled, cert, toggle, raced>>

(* The columns, or the row, are there already, another process having       *)
(* applied it since; or the database is locked, or the disk full.  Mutant:  *)
(* the process goes on to the next migration.                               *)
GoesOn(p) ==
    /\ version' = [version EXCEPT ![p] = @ + 1]
    /\ UNCHANGED <<diskVars, bound, at, enabled, cert, toggle, raced>>
GivesUpStarting(p) == Exit(p)
MigrationFails(p) ==
    /\ at[p] = "migrate" /\ version[p] < Latest
    /\ GivesUpStarting(p)

Migrated(p) ==
    /\ at[p] = "migrate" /\ version[p] = Latest
    /\ To(p, "certs")
    /\ UNCHANGED <<diskVars, bound, enabled, version, cert, toggle, raced>>

-----------------------------------------------------------------------------
(* Certificate *)

CertWriters == {p \in Process : at[p] \in {"cert", "certing", "key", "keying"}}

(* EnsureCert: if one of the files is missing, both are written.  Mutant:   *)
(* only the key is, if it is the one that is missing.                       *)
FilesExist(p) ==
    /\ at[p] = "certs" /\ NoFile \notin {certFile, keyFile}
    /\ To(p, "load")
    /\ UNCHANGED <<diskVars, bound, enabled, version, cert, toggle, raced>>

FirstMissing(p) == IF certFile = NoFile THEN "cert" ELSE "key"
FirstFile(p) == "cert"
GenerateCert(p) ==
    /\ at[p] = "certs" /\ NoFile \in {certFile, keyFile} /\ generatedCerts < MaxCerts
    /\ generatedCerts' = generatedCerts + 1
    /\ cert' = [cert EXCEPT ![p] = generatedCerts']
    /\ To(p, FirstFile(p))
    /\ raced' = IF CertWriters = {} THEN raced ELSE raced \cup {"cert"}
    /\ UNCHANGED <<logFile, schema, certFile, keyFile, bound, enabled, version, toggle>>

WriteCert(p) ==
    /\ \/ at[p] = "cert" /\ certFile' = Half /\ To(p, "certing")
       \/ at[p] = "certing" /\ certFile' = cert[p] /\ To(p, "key")
    /\ UNCHANGED <<logFile, schema, keyFile, generatedCerts, bound, enabled, version,
                   cert, toggle, raced>>

WriteKey(p) ==
    /\ \/ at[p] = "key" /\ keyFile' = Half /\ To(p, "keying")
       \/ at[p] = "keying" /\ keyFile' = cert[p] /\ To(p, "load")
    /\ UNCHANGED <<logFile, schema, certFile, generatedCerts, bound, enabled, version,
                   cert, toggle, raced>>

\* LoadX509KeyPair: both whole, and of one pair.
LoadPair(p) ==
    /\ at[p] = "load" /\ certFile \in 1 .. MaxCerts /\ keyFile = certFile
    /\ cert' = [cert EXCEPT ![p] = certFile]
    /\ To(p, "listen")
    /\ UNCHANGED <<diskVars, bound, enabled, version, toggle, raced>>

\* Two goroutines, each for a port.  One that fails ends the process.
Listen(p, o) ==
    /\ at[p] = "listen" /\ bound[o] = NoProcess
    /\ bound' = [bound EXCEPT ![o] = p]
    /\ UNCHANGED <<diskVars, at, enabled, version, cert, toggle, raced>>

-----------------------------------------------------------------------------
ProcessStep(p) ==
    \/ Start(p) \/ Exit(p) \/ ReadLogConfig(p) \/ WriteDefault(p)
    \/ ReadVersion(p) \/ ApplyMigration(p) \/ MigrationFails(p) \/ Migrated(p)
    \/ FilesExist(p) \/ GenerateCert(p) \/ WriteCert(p) \/ WriteKey(p) \/ LoadPair(p)
    \/ \E o \in Port : Listen(p, o)
    \/ \E r \in Request :
          \/ SetConfig(p, r)
          \/ \E c \in Category, on \in BOOLEAN : CopyConfig(p, r, c, on)

StartupNext ==
    \/ \E p \in Process : ProcessStep(p)
    \/ \E r \in Request : SaveLogFile(r) \/ SaveFails(r)

StartupSpec == StartupInit /\ [][StartupNext]_startupVars

-----------------------------------------------------------------------------
(* Properties *)

(* The types of files, processes and requests. *)
StartupTypeOK ==
    /\ logFile \in {NoFile, Half} \cup Config
    /\ schema \subseteq 1 .. Latest
    /\ {certFile, keyFile} \subseteq {NoFile, Half} \cup 1 .. MaxCerts
    /\ bound \in [Port -> Process \cup {NoProcess}]
    /\ at \in [Process -> Stages] /\ enabled \in [Process -> Config]
    /\ version \in [Process -> 0 .. Latest] /\ cert \in [Process -> 0 .. MaxCerts]
    /\ \A r \in Request : toggle[r].at \in {"idle", "open", "fill", "memory"}

(* A process that listens has the whole schema under it, whichever of two   *)
(* that started together applied which migration, and however often one     *)
(* stopped between two of them (migrate, applyMigration).                   *)
ServesSchema == \A p \in Process : at[p] = "listen" => schema = 1 .. Latest

(* A certificate and a key that are both whole belong together, wherever    *)
(* processes were killed, unless two were writing them at once: a server    *)
(* that finds them can use them (EnsureCert, LoadX509KeyPair).              *)
CertPairs ==
    "cert" \notin raced /\ certFile \in 1 .. MaxCerts /\ keyFile \in 1 .. MaxCerts =>
        certFile = keyFile

(* What the serving process logs is what the file will tell the next one,   *)
(* unless a toggle is under way or two have raced (SaveConfig).             *)
LogAgrees ==
    "log" \notin raced /\ Toggling = {} /\ logFile # Half =>
        \A p \in Process : Serving(p) => enabled[p] = logFile

=============================================================================
