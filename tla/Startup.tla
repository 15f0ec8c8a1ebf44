------------------------------- MODULE Startup -------------------------------
(***************************************************************************)
(* Server processes that start against one database: the configuration     *)
(* (api/v1/config.go), the pings and migrations                            *)
(* (storage/v1/database/postgres/migrate.go, which calls mattes/migrate),  *)
(* and the listener (cmd/server/v1/main.go).  Whatever goes wrong before   *)
(* the listener ends the process with log.Fatal.                           *)
(*                                                                         *)
(* mattes/migrate writes the version down as dirty, runs the script, and   *)
(* writes it down as clean.  SetVersion begins a transaction and then      *)
(* truncates and inserts on other connections, so that each of the two     *)
(* takes effect by itself, and then commits the transaction, which is lost *)
(* if its connection is.  The advisory lock belongs to one connection of   *)
(* the pool: it is lost with it, and pg_advisory_unlock, sent on another,  *)
(* does not release it.                                                    *)
(***************************************************************************)
EXTENDS Naturals

CONSTANTS
  Server,     \* the server processes that may be started
  Configs,    \* the configurations they may be started with
  Last,       \* how many up scripts there are; the last loads example data
  Repeatable, \* the scripts that succeed a second time (IF NOT EXISTS all over)
  MaxPings,   \* maxConnectionAttempts
  Budgets,    \* bounds: how many starts and outages of the database there are
  None

Script == 1..Last

\* image_storage is never missing: it has a default.  "plugin" is one that
\* loads, "noPlugin" one that has no path, or cannot be loaded.
Config == [file     : {"read", "missing", "broken"},
           database : {"none", "postgres", "other"},
           images   : {"local", "plugin", "noPlugin"},
           secret   : {"default", "long", "short"},
           migrateExampleData : BOOLEAN]

ASSUME StartupAssumption ==
  /\ Configs \subseteq {c \in Config : c.file = "missing" => c.database = "none"}
  /\ Last \in Nat \ {0}
  /\ Repeatable \subseteq Script
  /\ MaxPings \in Nat \ {0}
  /\ \A b \in Budgets : b.starts \in Nat /\ b.outages \in Nat
  /\ None \notin Server \cup Configs

VARIABLES
  dbUp,         \* the database accepts connections
  versionTable, \* schema_migrations exists
  version,      \* its rows: the script, and whether it is dirty
  ran,          \* the scripts that have taken effect
  lock,         \* the server whose connection holds the advisory lock
  begun,        \* the servers that have the transaction of SetVersion open
  proc,         \* where main is, in each server process
  config,
  pings,        \* numberOfUnsuccessfulAttempts
  todo,         \* the script in hand
  budget

database == <<versionTable, version, ran>>
session  == <<lock, begun>>
process  == <<config, pings, todo>>
startupVars == <<dbUp, database, session, proc, process, budget>>

\* What main is about to do; "off" before the first start.
Migrating == {"version", "clearDirty", "insertDirty", "run", "clearClean", "insertClean", "unlock"}
OnDatabase == {"ensureTable", "createTable", "lock"} \cup Migrating
Starting == {"configure", "ping"} \cup OnDatabase
Running == Starting \cup {"listening"}

StartupTypeOK ==
  /\ dbUp \in BOOLEAN /\ versionTable \in BOOLEAN
  /\ version \subseteq Script \X BOOLEAN
  /\ ran \subseteq Script
  /\ lock \in Server \cup {None}
  /\ begun \subseteq Server
  /\ proc \in [Server -> Running \cup {"off", "exited"}]
  /\ config \in [Server -> Configs \cup {None}]
  /\ pings \in [Server -> 0..(MaxPings - 1)]
  /\ todo \in [Server -> Script]

\* A database nobody has migrated, reachable or not.
StartupInit ==
  /\ dbUp \in BOOLEAN /\ versionTable = FALSE /\ version = {} /\ ran = {}
  /\ lock = None /\ begun = {}
  /\ proc = [s \in Server |-> "off"]
  /\ config = [s \in Server |-> None]
  /\ pings = [s \in Server |-> 0]
  /\ todo = [s \in Server |-> 1]
  /\ budget \in Budgets

-----------------------------------------------------------------------------

Goto(s, label) == proc' = [proc EXCEPT ![s] = label]

\* log.Fatal, or a kill: the connections of the process close.
Exit(s) ==
  /\ Goto(s, "exited")
  /\ lock' = IF lock = s THEN None ELSE lock
  /\ begun' = begun \ {s}
  /\ config' = [config EXCEPT ![s] = None]
  /\ pings' = [pings EXCEPT ![s] = 0]
  /\ todo' = [todo EXCEPT ![s] = 1]

Start(s) ==
  /\ proc[s] \in {"off", "exited"}
  /\ budget.starts > 0
  /\ budget' = [budget EXCEPT !.starts = @ - 1]
  /\ \E c \in Configs : config' = [config EXCEPT ![s] = c]
  /\ Goto(s, "configure")
  /\ UNCHANGED <<dbUp, database, session, pings, todo>>

\* A file that is not found is no error yet.
Loaded(c) == c.file # "broken"

\* sql.Open knows no driver but lib/pq, so that no database plugin is reached.
DatabaseBuilt(c) == c.database = "postgres"
ImageStorerBuilt(c) == c.images \in {"local", "plugin"}
CookieStorageSetUp(c) == c.secret # "short"

Accepted(c) ==
  /\ Loaded(c)
  /\ DatabaseBuilt(c)
  /\ ImageStorerBuilt(c)
  /\ CookieStorageSetUp(c)

\* The image directory that cannot be made is one of ServerDies.
Configure(s) ==
  /\ proc[s] = "configure"
  /\ \/ Accepted(config[s]) /\ Goto(s, "ping") /\ UNCHANGED <<session, process>>
     \/ ~Accepted(config[s]) /\ Exit(s)
  /\ UNCHANGED <<dbUp, database, budget>>

\* databaseIsAvailable
Ping(s) ==
  /\ proc[s] = "ping"
  /\ dbUp
  /\ Goto(s, "ensureTable")
  /\ pings' = [pings EXCEPT ![s] = 0]
  /\ UNCHANGED <<dbUp, database, session, config, todo, budget>>

PingFails_OffByOne(s) ==  \* mutant: compared before it is counted
  /\ proc[s] = "ping"
  /\ ~dbUp
  /\ \/ /\ pings[s] < MaxPings
        /\ pings' = [pings EXCEPT ![s] = @ + 1]
        /\ UNCHANGED <<proc, session, config, todo>>
     \/ pings[s] = MaxPings /\ Exit(s)
  /\ UNCHANGED <<dbUp, database, budget>>
PingFails(s) ==
  /\ proc[s] = "ping"
  /\ ~dbUp
  /\ \/ /\ pings[s] + 1 < MaxPings
        /\ pings' = [pings EXCEPT ![s] = @ + 1]
        /\ UNCHANGED <<proc, session, config, todo>>
     \/ pings[s] + 1 = MaxPings /\ Exit(s)
  /\ UNCHANGED <<dbUp, database, budget>>

\* A step of main that is a statement on the database.
Runs(s, statement) == proc[s] = statement /\ dbUp

EnsureVersionTable(s) ==
  /\ Runs(s, "ensureTable")
  /\ Goto(s, IF versionTable THEN "lock" ELSE "createTable")
  /\ UNCHANGED <<dbUp, database, session, process, budget>>

\* Another server may have created it in the meantime.
CreateVersionTable(s) ==
  /\ Runs(s, "createTable")
  /\ \/ ~versionTable /\ versionTable' = TRUE /\ Goto(s, "lock") /\ UNCHANGED <<session, process>>
     \/ versionTable /\ Exit(s) /\ UNCHANGED versionTable
  /\ UNCHANGED <<dbUp, version, ran, budget>>

\* pg_try_advisory_lock does not wait: ErrLocked.
Lock_Waits(s) ==  \* mutant: pg_advisory_lock
  /\ Runs(s, "lock")
  /\ lock = None
  /\ lock' = s
  /\ Goto(s, "version")
  /\ UNCHANGED <<dbUp, database, begun, process, budget>>
Lock(s) ==
  /\ Runs(s, "lock")
  /\ \/ lock = None /\ lock' = s /\ Goto(s, "version") /\ UNCHANGED <<begun, process>>
     \/ lock # None /\ Exit(s)
  /\ UNCHANGED <<dbUp, database, budget>>

\* Migrate.readUp sends the next script on its way to the database.
TakeUp(s, script) ==
  /\ todo' = [todo EXCEPT ![s] = script]
  /\ Goto(s, "clearDirty")
  /\ UNCHANGED <<session, config, pings>>

\* Up: nothing in the table is version -1, and LIMIT 1 takes any row.  With
\* the last version there is nothing to do, and the unlock goes out on the
\* only connection there is.
ReadVersion_IgnoresDirty(s) ==  \* mutant: without ErrDirty
  /\ Runs(s, "version")
  /\ \/ version = {} /\ TakeUp(s, 1)
     \/ \E row \in version :
          \/ row[1] < Last /\ TakeUp(s, row[1] + 1)
          \/ /\ row[1] = Last
             /\ Goto(s, "listening")
             /\ lock' = IF lock = s THEN None ELSE lock
             /\ UNCHANGED <<begun, process>>
  /\ UNCHANGED <<dbUp, database, budget>>
ReadVersion(s) ==
  /\ Runs(s, "version")
  /\ \/ version = {} /\ TakeUp(s, 1)
     \/ \E v \in Script \ {Last} :
          /\ <<v, FALSE>> \in version
          /\ TakeUp(s, v + 1)
     \/ /\ <<Last, FALSE>> \in version
        /\ Goto(s, "listening")
        /\ lock' = IF lock = s THEN None ELSE lock
        /\ UNCHANGED <<begun, process>>
     \/ \E v \in Script : <<v, TRUE>> \in version /\ Exit(s)
  /\ UNCHANGED <<dbUp, database, budget>>

\* SetVersion: Begin and TRUNCATE, then INSERT, which a row of the same
\* version refuses, and Commit, which fails when the database has restarted.
ClearVersion(s, from, to) ==
  /\ Runs(s, from)
  /\ version' = {}
  /\ begun' = begun \cup {s}
  /\ Goto(s, to)
  /\ UNCHANGED <<dbUp, versionTable, ran, lock, process, budget>>

InsertVersion(s, from, dirty, to) ==
  /\ Runs(s, from)
  /\ \/ /\ \A d \in BOOLEAN : <<todo[s], d>> \notin version
        /\ version' = version \cup {<<todo[s], dirty>>}
        /\ \/ s \in begun /\ begun' = begun \ {s} /\ Goto(s, to) /\ UNCHANGED <<lock, process>>
           \/ s \notin begun /\ Exit(s)
     \/ /\ \E d \in BOOLEAN : <<todo[s], d>> \in version
        /\ Exit(s)
        /\ UNCHANGED version
  /\ UNCHANGED <<dbUp, versionTable, ran, budget>>

\* A script is one implicit transaction.  The asset of the example data is
\* empty unless the configuration asks for it.
IsEmpty(s) == todo[s] = Last /\ ~config[s].migrateExampleData

RunScript(s) ==
  /\ Runs(s, "run")
  /\ \/ /\ IsEmpty(s) \/ todo[s] \notin ran \/ todo[s] \in Repeatable
        /\ ran' = IF IsEmpty(s) THEN ran ELSE ran \cup {todo[s]}
        /\ Goto(s, "clearClean")
        /\ UNCHANGED <<session, process>>
     \/ ~IsEmpty(s) /\ todo[s] \in ran \ Repeatable /\ Exit(s) /\ UNCHANGED ran
  /\ UNCHANGED <<dbUp, versionTable, version, budget>>

\* After its last script the version is clean and the lock is given back, or
\* stays with the connection it was taken on.
NextScript(s) ==
  /\ proc[s] = "unlock"
  /\ todo[s] < Last
  /\ TakeUp(s, todo[s] + 1)
  /\ UNCHANGED <<dbUp, database, budget>>

Unlock(s) ==
  /\ Runs(s, "unlock")
  /\ todo[s] = Last
  /\ lock' \in {lock, IF lock = s THEN None ELSE lock}
  /\ Goto(s, "listening")
  /\ todo' = [todo EXCEPT ![s] = 1]
  /\ UNCHANGED <<dbUp, database, begun, config, pings, budget>>

\* A statement on a database that is gone fails, and so does the start.
DatabaseIsGone(s) ==
  /\ proc[s] \in OnDatabase
  /\ ~dbUp
  /\ Exit(s)
  /\ UNCHANGED <<dbUp, database, budget>>

\* Killed, or failed by a statement for reasons of its own.
ServerDies(s) ==
  /\ proc[s] \in Running
  /\ Exit(s)
  /\ UNCHANGED <<dbUp, database, budget>>

\* The database restarts: every connection is closed, those with the lock and
\* a transaction too, and database/sql opens others without a word.
Outage ==
  /\ dbUp
  /\ budget.outages > 0
  /\ budget' = [budget EXCEPT !.outages = @ - 1]
  /\ dbUp' = FALSE
  /\ lock' = None
  /\ begun' = {}
  /\ UNCHANGED <<database, proc, process>>

Recovery ==
  /\ ~dbUp
  /\ dbUp' = TRUE
  /\ UNCHANGED <<database, session, proc, process, budget>>

SetVersion(s) ==
  \/ ClearVersion(s, "clearDirty", "insertDirty")
  \/ InsertVersion(s, "insertDirty", TRUE, "run")
  \/ ClearVersion(s, "clearClean", "insertClean")
  \/ InsertVersion(s, "insertClean", FALSE, "unlock")

\* main, from Start to the listener.
Main(s) ==
  \/ Configure(s) \/ Ping(s) \/ PingFails(s) \/ EnsureVersionTable(s) \/ CreateVersionTable(s)
  \/ Lock(s) \/ ReadVersion(s) \/ SetVersion(s) \/ RunScript(s) \/ NextScript(s) \/ Unlock(s)
  \/ DatabaseIsGone(s)

StartupNext ==
  \/ \E s \in Server : Start(s) \/ Main(s) \/ ServerDies(s)
  \/ Outage
  \/ Recovery

StartupSpec == StartupInit /\ [][StartupNext]_startupVars

-----------------------------------------------------------------------------
(* Properties *)

Schema == INSTANCE SchemaHistory WITH
            schema <- ran, serving <- {s \in Server : proc[s] = "listening"}

\* Whatever dies, restarts or loses its lock half way, the scripts take effect
\* in their order and no server listens on a part of the schema, not even when
\* two migrate at once.  (migr.Up before ListenAndServe; ErrDirty.)
SchemaGrowsInOrder == Schema!Spec

\* A start comes to an end, whatever the database and other servers do: five
\* pings are all, and nobody waits for a lock that may never be given back.
EveryStartEnds ==
  \A s \in Server : proc[s] \in Starting ~> proc[s] \in {"listening", "exited"}
=============================================================================
