-------------------------- MODULE Deployment_proofs --------------------------
(***************************************************************************)
(* Theorems of Startup and Discounts, for any number of servers, scripts,  *)
(* starts, outages, discounts and calls.                                   *)
(***************************************************************************)
EXTENDS Discounts, TLAPS

(* Start-up: what a server that migrates may rely on *)

\* The scripts before k have taken effect.
Before(k) == \A j \in Script : j < k => j \in ran

\* A clean version, and a server with a script in hand, vouch for all of the
\* scripts before; after its script has run, for that one too.  Who holds the
\* lock plays no part.
SchemaInv ==
  /\ \A k \in ran : Before(k)
  /\ \A v \in Script : <<v, FALSE>> \in version => Before(v) /\ (v = Last \/ v \in ran)
  /\ \A s \in Server : proc[s] \in {"clearDirty", "insertDirty", "run"} => Before(todo[s])
  /\ \A s \in Server : proc[s] \in {"clearClean", "insertClean", "unlock"} =>
       Before(todo[s]) /\ (todo[s] = Last \/ todo[s] \in ran)

StartupInv == StartupTypeOK /\ SchemaInv

LEMMA StartupInvInit == StartupInit => StartupInv
<1> SUFFICES ASSUME StartupInit PROVE StartupInv
  OBVIOUS
<1>1. 1 \in Script /\ 0 \in 0..(MaxPings - 1)
  BY StartupAssumption DEF Script
<1>2. StartupTypeOK
  BY <1>1 DEF StartupInit, StartupTypeOK
<1>3. SchemaInv
  BY DEF StartupInit, SchemaInv
<1> QED BY <1>2, <1>3 DEF StartupInv

\* What a step of main, a death or a start may do to the schema and to those
\* who serve it.
SchemaKept == ran' = ran /\ \A x \in Server : proc'[x] = "listening" <=> proc[x] = "listening"
Serves(s) ==
  /\ ran' = ran /\ Before(Last)
  /\ \A x \in Server : proc'[x] = "listening" <=> x = s \/ proc[x] = "listening"
Stops(s) ==
  /\ ran' = ran /\ proc[s] = "listening"
  /\ \A x \in Server : proc'[x] = "listening" <=> x # s /\ proc[x] = "listening"
Loads(s) ==
  /\ todo[s] \in Script /\ Before(todo[s]) /\ ran' = ran \cup {todo[s]}
  /\ \A x \in Server : proc'[x] = "listening" <=> proc[x] = "listening"

SchemaMoves == SchemaKept \/ \E s \in Server : Serves(s) \/ Stops(s) \/ Loads(s)

\* A process that ends leaves the schema to the others.
LEMMA WrittenExitMoves ==
  ASSUME StartupInv, NEW s \in Server, Exit(s), UNCHANGED <<dbUp, versionTable, ran>>,
         version' \subseteq Script \X BOOLEAN,
         \A v \in Script : <<v, FALSE>> \in version' => Before(v) /\ (v = Last \/ v \in ran)
  PROVE  StartupInv' /\ SchemaMoves
<1> USE StartupAssumption DEF StartupInv, Exit, Goto
<1>1. StartupTypeOK'
  BY DEF StartupTypeOK, Script, Running, Starting, OnDatabase, Migrating
<1>2. SchemaInv'
  BY DEF SchemaInv, Before, StartupTypeOK
<1>3. SchemaMoves
  <2>1. CASE proc[s] = "listening"
    <3>1. Stops(s)
      BY <2>1 DEF Stops, StartupTypeOK
    <3> QED BY <3>1 DEF SchemaMoves
  <2>2. CASE proc[s] # "listening"
    <3>1. SchemaKept
      BY <2>2 DEF SchemaKept, StartupTypeOK
    <3> QED BY <3>1 DEF SchemaMoves
  <2> QED BY <2>1, <2>2
<1> QED BY <1>1, <1>2, <1>3

LEMMA ExitMoves ==
  ASSUME StartupInv, NEW s \in Server, Exit(s), UNCHANGED <<dbUp, database>>
  PROVE  StartupInv' /\ SchemaMoves
<1>1. /\ version' \subseteq Script \X BOOLEAN
      /\ \A v \in Script : <<v, FALSE>> \in version' => Before(v) /\ (v = Last \/ v \in ran)
  BY DEF StartupInv, StartupTypeOK, SchemaInv, database
<1> QED BY <1>1, WrittenExitMoves DEF database

\* The steps that neither end a process nor have to do with versions.
LEMMA QuietMoves ==
  ASSUME StartupInv, NEW s \in Server, UNCHANGED <<version, ran>>,
         dbUp' \in BOOLEAN, versionTable' \in BOOLEAN, lock' \in Server \cup {None},
         begun' \subseteq Server,
         config' \in [Server -> Configs \cup {None}], pings' \in [Server -> 0..(MaxPings - 1)],
         UNCHANGED todo,
         \/ UNCHANGED proc
         \/ \E label \in {"configure", "ping", "ensureTable", "createTable", "lock", "version"} :
              proc[s] # "listening" /\ proc' = [proc EXCEPT ![s] = label]
  PROVE  StartupInv' /\ SchemaMoves
<1> USE DEF StartupInv
<1>1. StartupTypeOK'
  BY DEF StartupTypeOK, Running, Starting, OnDatabase, Migrating
<1>2. SchemaInv'
  BY DEF SchemaInv, Before, StartupTypeOK
<1>3. SchemaKept
  BY DEF SchemaKept, StartupTypeOK
<1> QED BY <1>1, <1>2, <1>3 DEF SchemaMoves

\* Taking up a script whose predecessors have taken effect.
LEMMA TakeUpMoves ==
  ASSUME StartupInv, NEW s \in Server, NEW script \in Script, Before(script),
         TakeUp(s, script), UNCHANGED <<dbUp, database>>, proc[s] # "listening"
  PROVE  StartupInv' /\ SchemaMoves
<1> USE DEF StartupInv, TakeUp, Goto, database, session
<1>1. StartupTypeOK'
  BY DEF StartupTypeOK, Running, Starting, OnDatabase, Migrating
<1>2. SchemaInv'
  BY DEF SchemaInv, Before, StartupTypeOK
<1>3. SchemaKept
  BY DEF SchemaKept, StartupTypeOK
<1> QED BY <1>1, <1>2, <1>3 DEF SchemaMoves

\* Listening, with all scripts but the last in effect.
LEMMA ListenMoves ==
  ASSUME StartupInv, NEW s \in Server, Before(Last), Goto(s, "listening"),
         lock' \in Server \cup {None}, UNCHANGED <<dbUp, database, begun, config, pings>>,
         todo' \in [Server -> Script], \A x \in Server : x # s => todo'[x] = todo[x]
  PROVE  StartupInv' /\ SchemaMoves
<1> USE DEF StartupInv, Goto, database
<1>1. StartupTypeOK'
  BY DEF StartupTypeOK, Running, Starting, OnDatabase, Migrating
<1>2. SchemaInv'
  BY DEF SchemaInv, Before, StartupTypeOK
<1>3. Serves(s)
  BY DEF Serves, StartupTypeOK
<1> QED BY <1>1, <1>2, <1>3 DEF SchemaMoves

LEMMA ReadVersionMoves ==
  ASSUME StartupInv, NEW s \in Server, ReadVersion(s)
  PROVE  StartupInv' /\ SchemaMoves
<1> USE DEF ReadVersion, Runs
<1>1. CASE version = {} /\ TakeUp(s, 1)
  <2>1. 1 \in Script /\ Before(1)
    BY StartupAssumption DEF Script, Before
  <2> QED BY <1>1, <2>1, TakeUpMoves
<1>2. ASSUME NEW v \in Script \ {Last}, <<v, FALSE>> \in version, TakeUp(s, v + 1)
      PROVE  StartupInv' /\ SchemaMoves
  <2>1. Before(v) /\ v \in ran
    BY <1>2 DEF StartupInv, SchemaInv
  <2>2. v + 1 \in Script /\ Before(v + 1)
    BY <2>1, StartupAssumption DEF Script, Before
  <2> QED BY <1>2, <2>2, TakeUpMoves
<1>3. CASE /\ <<Last, FALSE>> \in version
           /\ Goto(s, "listening")
           /\ lock' = IF lock = s THEN None ELSE lock
           /\ UNCHANGED <<begun, process>>
  <2>1. Last \in Script
    BY StartupAssumption DEF Script
  <2>2. Before(Last)
    BY <1>3, <2>1 DEF StartupInv, SchemaInv
  <2> QED BY <1>3, <2>2, ListenMoves DEF StartupInv, StartupTypeOK, process
<1>4. CASE Exit(s)
  BY <1>4, ExitMoves
<1> QED BY <1>1, <1>2, <1>3, <1>4

LEMMA SetVersionMoves ==
  ASSUME StartupInv, NEW s \in Server, SetVersion(s)
  PROVE  StartupInv' /\ SchemaMoves
<1> USE DEF StartupInv, Runs, Goto, process, session
<1>1. ASSUME NEW from, NEW to, ClearVersion(s, from, to),
             <<from, to>> \in {<<"clearDirty", "insertDirty">>, <<"clearClean", "insertClean">>}
      PROVE  StartupInv' /\ SchemaMoves
  <2> USE <1>1 DEF ClearVersion
  <2>1. StartupTypeOK'
    BY DEF StartupTypeOK, Running, Starting, OnDatabase, Migrating
  <2>2. SchemaInv'
    BY DEF SchemaInv, Before, StartupTypeOK
  <2>3. SchemaKept
    BY DEF SchemaKept, StartupTypeOK
  <2> QED BY <2>1, <2>2, <2>3 DEF SchemaMoves
<1>2. ASSUME NEW from, NEW dirty \in BOOLEAN, NEW to, InsertVersion(s, from, dirty, to),
             \/ from = "insertDirty" /\ dirty = TRUE /\ to = "run"
             \/ from = "insertClean" /\ dirty = FALSE /\ to = "unlock"
      PROVE  StartupInv' /\ SchemaMoves
  <2>1. CASE Exit(s) /\ UNCHANGED version
    BY <1>2, <2>1, ExitMoves DEF InsertVersion, database
  <2>2. CASE /\ version' = version \cup {<<todo[s], dirty>>}
             /\ Goto(s, to)
             /\ s \in begun /\ begun' = begun \ {s}
             /\ UNCHANGED <<lock, process>>
    <3> USE <1>2, <2>2 DEF InsertVersion
    <3>1. StartupTypeOK'
      BY DEF StartupTypeOK, Running, Starting, OnDatabase, Migrating
    <3>2. SchemaInv'
      BY DEF SchemaInv, Before, StartupTypeOK
    <3>3. SchemaKept
      BY DEF SchemaKept, StartupTypeOK
    <3> QED BY <3>1, <3>2, <3>3 DEF SchemaMoves
  <2>3. CASE version' = version \cup {<<todo[s], dirty>>} /\ Exit(s)
    <3> USE <1>2, <2>3 DEF InsertVersion
    <3>1. todo[s] \in Script /\ version' \subseteq Script \X BOOLEAN
      BY DEF StartupTypeOK
    <3>2. \A v \in Script : <<v, FALSE>> \in version' => Before(v) /\ (v = Last \/ v \in ran)
      BY <3>1 DEF SchemaInv
    <3> QED BY <3>1, <3>2, WrittenExitMoves
  <2> QED BY <1>2, <2>1, <2>2, <2>3 DEF InsertVersion
<1> QED BY <1>1, <1>2 DEF SetVersion

LEMMA RunScriptMoves ==
  ASSUME StartupInv, NEW s \in Server, RunScript(s)
  PROVE  StartupInv' /\ SchemaMoves
<1> USE DEF StartupInv, Runs, Goto, process, session
<1>1. CASE Exit(s) /\ UNCHANGED ran
  BY <1>1, ExitMoves DEF RunScript, database
<1>2. CASE /\ ran' = IF IsEmpty(s) THEN ran ELSE ran \cup {todo[s]}
           /\ Goto(s, "clearClean")
           /\ UNCHANGED <<session, process>>
  <2> USE <1>2 DEF RunScript
  <2>1. StartupTypeOK'
    BY DEF StartupTypeOK, Running, Starting, OnDatabase, Migrating
  <2>2. todo[s] \in Script /\ Before(todo[s])
    BY DEF SchemaInv, StartupTypeOK
  <2>3. SchemaInv'
    BY <2>2 DEF SchemaInv, Before, StartupTypeOK, IsEmpty
  <2>4. SchemaMoves
    <3>1. CASE IsEmpty(s)
      BY <3>1 DEF SchemaMoves, SchemaKept, StartupTypeOK
    <3>2. CASE ~IsEmpty(s)
      <4>1. Loads(s)
        BY <2>2, <3>2 DEF Loads, StartupTypeOK
      <4> QED BY <4>1 DEF SchemaMoves
    <3> QED BY <3>1, <3>2
  <2> QED BY <2>1, <2>3, <2>4
<1> QED BY <1>1, <1>2 DEF RunScript

LEMMA MainMoves ==
  ASSUME StartupInv, NEW s \in Server, Main(s)
  PROVE  StartupInv' /\ SchemaMoves
<1> USE DEF Goto, database, process, session
<1>1. CASE Configure(s)
  BY <1>1, ExitMoves, QuietMoves DEF Configure, StartupInv, StartupTypeOK
<1>2. CASE Ping(s)
  <2>1. pings' \in [Server -> 0..(MaxPings - 1)]
    BY <1>2, StartupAssumption DEF Ping, StartupInv, StartupTypeOK
  <2> QED BY <1>2, <2>1, QuietMoves DEF Ping, StartupInv, StartupTypeOK
<1>3. CASE PingFails(s)
  BY <1>3, ExitMoves, QuietMoves, StartupAssumption DEF PingFails, StartupInv, StartupTypeOK
<1>4. CASE EnsureVersionTable(s)
  BY <1>4, QuietMoves DEF EnsureVersionTable, Runs, StartupInv, StartupTypeOK
<1>5. CASE CreateVersionTable(s)
  BY <1>5, ExitMoves, QuietMoves DEF CreateVersionTable, Runs, StartupInv, StartupTypeOK
<1>6. CASE Lock(s)
  BY <1>6, ExitMoves, QuietMoves DEF Lock, Runs, StartupInv, StartupTypeOK
<1>7. CASE NextScript(s)
  <2>1. todo[s] \in Script /\ Before(todo[s]) /\ todo[s] \in ran
    BY <1>7 DEF NextScript, StartupInv, SchemaInv, StartupTypeOK, Script
  <2>2. todo[s] + 1 \in Script /\ Before(todo[s] + 1)
    BY <1>7, <2>1, StartupAssumption DEF NextScript, Script, Before
  <2> QED BY <1>7, <2>2, TakeUpMoves DEF NextScript
<1>8. CASE Unlock(s)
  <2>1. Before(Last)
    BY <1>8 DEF Unlock, Runs, StartupInv, SchemaInv
  <2>2. lock' \in Server \cup {None} /\ todo' \in [Server -> Script]
        /\ \A x \in Server : x # s => todo'[x] = todo[x]
    BY <1>8, StartupAssumption DEF Unlock, StartupInv, StartupTypeOK, Script
  <2> QED BY <1>8, <2>1, <2>2, ListenMoves DEF Unlock
<1>9. CASE DatabaseIsGone(s)
  BY <1>9, ExitMoves DEF DatabaseIsGone
<1> QED BY <1>1, <1>2, <1>3, <1>4, <1>5, <1>6, <1>7, <1>8, <1>9, ReadVersionMoves,
           SetVersionMoves, RunScriptMoves DEF Main

LEMMA StartupMoves ==
  ASSUME StartupInv, [StartupNext]_startupVars
  PROVE  StartupInv' /\ SchemaMoves
<1> USE DEF database, process, session, Goto
<1>1. CASE UNCHANGED startupVars
  BY <1>1 DEF startupVars, StartupInv, StartupTypeOK, SchemaInv, Before, SchemaMoves, SchemaKept
<1>2. ASSUME NEW s \in Server, Start(s) PROVE StartupInv' /\ SchemaMoves
  <2>1. config' \in [Server -> Configs \cup {None}] /\ proc[s] # "listening"
    BY <1>2 DEF Start, StartupInv, StartupTypeOK
  <2> QED BY <1>2, <2>1, QuietMoves DEF Start, StartupInv, StartupTypeOK
<1>3. ASSUME NEW s \in Server, ServerDies(s) PROVE StartupInv' /\ SchemaMoves
  BY <1>3, ExitMoves DEF ServerDies
<1>4. CASE Outage \/ Recovery
  BY <1>4 DEF Outage, Recovery, StartupInv, StartupTypeOK, SchemaInv, Before, SchemaMoves,
              SchemaKept
<1> QED BY <1>1, <1>2, <1>3, <1>4, MainMoves DEF StartupNext

\* The moves are those of SchemaHistory.
LEMMA SchemaMovesAreHistory ==
  ASSUME StartupInv, StartupInv', SchemaMoves
  PROVE  [Schema!Next]_(Schema!vars)
<1> DEFINE listening == {x \in Server : proc[x] = "listening"}
<1>1. ran \subseteq 1..Last /\ Last \in Nat \ {0}
  BY StartupAssumption DEF StartupInv, StartupTypeOK, Script
<1>2. CASE SchemaKept
  BY <1>2 DEF SchemaKept, Schema!vars
<1>3. ASSUME NEW s \in Server, Serves(s) PROVE Schema!Next
  <2>1. 1..(Last - 1) \subseteq ran
    BY <1>1, <1>3 DEF Serves, Before, Script
  <2>2. listening' = listening \cup {s}
    BY <1>3 DEF Serves
  <2>3. Schema!Serve
    BY <1>3, <2>1, <2>2 DEF Serves, Schema!Serve
  <2> QED BY <2>3 DEF Schema!Next
<1>4. ASSUME NEW s \in Server, Stops(s) PROVE Schema!Next
  <2>1. s \in listening /\ listening' = listening \ {s}
    BY <1>4 DEF Stops
  <2>2. Schema!Stop
    BY <1>4, <2>1 DEF Stops, Schema!Stop
  <2> QED BY <2>2 DEF Schema!Next
<1>5. ASSUME NEW s \in Server, Loads(s) PROVE [Schema!Next]_(Schema!vars)
  <2>1. listening' = listening
    BY <1>5 DEF Loads
  <2>2. CASE todo[s] \in ran
    <3>1. ran' = ran
      BY <1>5, <2>2 DEF Loads
    <3> QED BY <2>1, <3>1 DEF Schema!vars
  <2>3. CASE todo[s] \notin ran
    <3>1. todo[s] \in 1..Last /\ \A j \in 1..Last : j < todo[s] => j \in ran
      BY <1>5 DEF Loads, Before, Script
    <3>2. \A k \in ran : \A j \in 1..Last : j < k => j \in ran
      BY DEF StartupInv, SchemaInv, Before, Script
    <3>3. ran = 1..(todo[s] - 1)
      <4>1. ASSUME NEW k \in ran PROVE k \in 1..(todo[s] - 1)
        BY <1>1, <2>3, <3>1, <3>2, <4>1
      <4>2. 1..(todo[s] - 1) \subseteq ran
        BY <1>1, <3>1
      <4> QED BY <4>1, <4>2
    <3>4. ran' = 1..todo[s]
      BY <1>1, <1>5, <3>1, <3>3 DEF Loads
    <3>5. Schema!Load
      BY <2>1, <3>1, <3>3, <3>4 DEF Schema!Load
    <3> QED BY <3>5 DEF Schema!Next
  <2> QED BY <2>2, <2>3
<1> QED BY <1>2, <1>3, <1>4, <1>5 DEF SchemaMoves

LEMMA StartupInvariant == StartupSpec => []StartupInv
<1>1. StartupInv /\ [StartupNext]_startupVars => StartupInv'
  BY StartupMoves
<1> QED BY <1>1, StartupInvInit, PTL DEF StartupSpec

LEMMA StartupImplementsHistory == StartupSpec => SchemaGrowsInOrder
<1>1. StartupInit => Schema!Init
  BY DEF StartupInit, Schema!Init
<1>2. StartupInv /\ StartupInv' /\ [StartupNext]_startupVars => [Schema!Next]_(Schema!vars)
  BY StartupMoves, SchemaMovesAreHistory
<1> QED BY <1>1, <1>2, StartupInvariant, PTL DEF StartupSpec, SchemaGrowsInOrder, Schema!Spec

-----------------------------------------------------------------------------
(* The deployment is one of servers that start *)

LEMMA DeploymentStartsServers == DeploymentSpec => StartupSpec
<1>1. DiscountsInit => StartupInit
  BY DEF DiscountsInit
<1>2. [DeploymentNext]_deploymentVars => [StartupNext]_startupVars
  BY DEF DeploymentNext, deploymentVars, StartServer, MainStep, ServerDiesWithHandlers, MakeCall,
     Receive, Timeout, Handle, FindDiscount, ListDiscounts, WriteDiscount, StatementFails,
     DatabaseRestarts, DatabaseRecovers, StartupNext
<1> QED BY <1>1, <1>2, PTL DEF DeploymentSpec, StartupSpec

\* Whatever dies, restarts or loses its lock half way, the scripts take effect
\* in their order, and no server listens on a part of the schema.
\* (postgres.Migrate before ListenAndServe.)
THEOREM ScriptsRunInOrder == DeploymentSpec => SchemaGrowsInOrder
BY DeploymentStartsServers, StartupImplementsHistory, PTL

-----------------------------------------------------------------------------
(* Discounts *)

\* What a handler has done by the time it is at its next statement, and what
\* its answer and its client's reading of it then say about that.
CallOK(call, rows) ==
  /\ call.at \in AtStatement =>
       /\ call.input \in DiscountInputs /\ call.answer = None
       /\ call.client \in {"waiting", "timeout"}
       /\ call.effects > 0 => call.sentAgain
  /\ call.at = "gone" => call.answer = None /\ (call.effects > 0 => call.sentAgain)
  /\ call.at = "idle" => call.answer = None
  /\ call.at \in {"idle", "find", "count", "select"} => call.effects = 0
  /\ call.at = "find" => call.input.op \in {"update", "delete", "get"}
  /\ call.at \in {"count", "select"} => call.input.op = "list"
  /\ call.at = "insert" => call.input.op = "create"
  /\ call.at = "update" => call.input.op = "update"
  /\ call.at = "archive" => call.input.op = "delete" /\ rows[call.input.id].state # "absent"
  /\ call.client = "idle" => call.at = "idle"
  /\ call.client # "idle" /\ call.at # "idle" => call.input \in DiscountInputs
  /\ call.answer \in {"400", "404"} => call.effects = 0
  /\ call.answer \in {"200", "201"} =>
       /\ call.input.op \in {"create", "update", "delete"} => call.effects >= 1
       /\ call.input.op = "delete" => rows[call.input.id].state = "archived"
  /\ call.effects > 1 \/ (call.answer = "500" /\ call.effects > 0) => call.sentAgain
  /\ call.client \in {"object", "typedNil"} => call.answer \in {"200", "201"}

TablesOK == discounts \in [DiscountId -> Discount] /\ calls \in [Call -> CallState]

DiscountsInv == StartupInv /\ TablesOK /\ \A c \in Call : CallOK(calls[c], discounts)

\* How a row may change.
Appear == \A d \in DiscountId :
            \/ discounts'[d].state = discounts[d].state
            \/ discounts[d].state = "absent" /\ discounts'[d].state = "active"
Vanish == \A d \in DiscountId :
            \/ discounts'[d].state = discounts[d].state
            \/ discounts[d].state = "active" /\ discounts'[d].state = "archived"
RowsTurn == discounts' \in [DiscountId -> Discount] /\ (Appear \/ Vanish)

LEMMA InputFields ==
  ASSUME NEW i \in DiscountInputs
  PROVE  /\ i.op \in {"create", "update", "delete", "get", "list"} /\ i.id \in DiscountId
         /\ i.bodyId \in DiscountId \cup {None} /\ i.code \in Codes \cup {NoCode}
         /\ i.requiresCode \in BOOLEAN /\ i.startsOn \in {"given", "zero"}
BY DiscountsAssumption DEF DiscountInput

\* A call nobody touches is as good after the rows have turned.
LEMMA OtherCalls ==
  ASSUME TablesOK, RowsTurn, NEW c \in Call, CallOK(calls[c], discounts),
         calls'[c] = calls[c]
  PROVE  CallOK(calls'[c], discounts')
<1>1. ASSUME calls[c].input \in DiscountInputs
      PROVE  /\ discounts[calls[c].input.id].state # "absent"
                  => discounts'[calls[c].input.id].state # "absent"
             /\ discounts[calls[c].input.id].state = "archived"
                  => discounts'[calls[c].input.id].state = "archived"
  BY <1>1, InputFields DEF RowsTurn, Appear, Vanish
<1>2. calls[c].answer \in {"200", "201"} => calls[c].input \in DiscountInputs
  <2>1. (calls[c].at # "gone" /\ calls[c].at # "idle") \/ calls[c].answer \notin {"200", "201"}
    BY DiscountsAssumption DEF CallOK, Status
  <2> QED BY <2>1 DEF CallOK
<1> QED BY <1>1, <1>2 DEF CallOK, AtStatement

LEMMA OneCallMoves ==
  ASSUME TablesOK, \A d \in Call : CallOK(calls[d], discounts), RowsTurn,
         NEW c \in Call, calls' \in [Call -> CallState],
         \A d \in Call : d # c => calls'[d] = calls[d], CallOK(calls'[c], discounts')
  PROVE  TablesOK' /\ \A d \in Call : CallOK(calls'[d], discounts')
<1>1. TablesOK'
  BY DEF TablesOK, RowsTurn
<1>2. \A d \in Call : CallOK(calls'[d], discounts')
  BY OtherCalls
<1> QED BY <1>1, <1>2

LEMMA UnchangedTurns ==
  ASSUME TablesOK, UNCHANGED discounts
  PROVE  RowsTurn
BY DEF TablesOK, RowsTurn, Appear

\* The example data come after all that is there.
LEMMA LoadTurns ==
  ASSUME TablesOK, LoadDiscounts
  PROVE  RowsTurn
<1>1. CASE UNCHANGED discounts
  BY <1>1, UnchangedTurns
<1>2. ASSUME NEW d \in DiscountId, NextId(d),
             discounts' = [e \in DiscountId |->
               IF e \in d..(d + Examples - 1) THEN ExampleDiscount ELSE discounts[e]]
      PROVE  RowsTurn
  <2>1. ExampleDiscount \in Discount /\ ExampleDiscount.state = "active"
    BY DEF ExampleDiscount, Absent, Discount
  <2>2. discounts' \in [DiscountId -> Discount]
    BY <1>2, <2>1 DEF TablesOK
  <2>3. \A e \in DiscountId : e \in d..(d + Examples - 1) => discounts[e].state = "absent"
    BY <1>2, DiscountsAssumption DEF NextId, DiscountId
  <2>4. Appear
    BY <1>2, <2>1, <2>3 DEF Appear
  <2> QED BY <2>2, <2>4 DEF RowsTurn
<1> QED BY <1>1, <1>2 DEF LoadDiscounts

LEMMA WriteTurns ==
  ASSUME TablesOK, NEW c \in Call, CallOK(calls[c], discounts), NEW result, Write(c, result)
  PROVE  /\ RowsTurn
         /\ calls[c].at \in {"insert", "update", "archive"}
         /\ calls[c].at = "archive" => discounts'[calls[c].input.id].state = "archived"
<1> DEFINE i == calls[c].input
<1>1. calls[c].at \in {"insert", "update", "archive"}
  BY DEF Write
<1>2. i \in DiscountInputs
  BY <1>1 DEF CallOK, AtStatement
<1>3. calls[c].found \in Discount /\ calls[c] \in CallState
  BY DEF TablesOK, CallState
<1>4. CASE calls[c].at = "insert" /\ Insert(c, result)
  <2> DEFINE row == [state |-> "active", code |-> i.code, requiresCode |-> i.requiresCode,
                     startsOn |-> i.startsOn]
  <2>1. row \in Discount
    BY <1>2, InputFields DEF Discount
  <2>2. CASE UNCHANGED discounts
    BY <1>4, <2>2, UnchangedTurns
  <2>3. ASSUME NEW d \in DiscountId, NextId(d), discounts' = [discounts EXCEPT ![d] = row]
        PROVE  RowsTurn
    <3>1. discounts[d].state = "absent"
      BY <2>3 DEF NextId, DiscountId
    <3>2. discounts' \in [DiscountId -> Discount]
      BY <2>1, <2>3 DEF TablesOK
    <3>3. Appear
      BY <2>3, <3>1 DEF Appear, TablesOK
    <3> QED BY <3>2, <3>3 DEF RowsTurn
  <2> QED BY <1>4, <2>2, <2>3 DEF Insert
<1>5. CASE calls[c].at = "update" /\ Update(c, result)
  <2> DEFINE d == Target(c)
             row == [state |-> discounts[d].state, code |-> Merged(c).code,
                     requiresCode |-> Merged(c).requiresCode, startsOn |-> Merged(c).startsOn]
  <2>1. CASE UNCHANGED discounts
    BY <1>5, <2>1, UnchangedTurns
  <2>2. CASE discounts' = [discounts EXCEPT ![d] = row]
    <3>1. d \in DiscountId
      BY <1>2, InputFields DEF Target
    <3>2. Merged(c).code \in Codes \cup {NoCode} /\ Merged(c).requiresCode \in BOOLEAN
          /\ Merged(c).startsOn \in {"given", "zero"}
      BY <1>2, <1>3, InputFields DEF Merged, Discount
    <3>3. row \in Discount
      BY <3>1, <3>2 DEF Discount, TablesOK
    <3>4. discounts' \in [DiscountId -> Discount]
      BY <2>2, <3>1, <3>3 DEF TablesOK
    <3>5. Appear
      BY <2>2, <3>1 DEF Appear, TablesOK
    <3> QED BY <1>5, <3>4, <3>5 DEF RowsTurn
  <2> QED BY <1>5, <2>1, <2>2 DEF Update
<1>6. CASE calls[c].at = "archive" /\ Archive(c, result)
  <2>1. i.id \in DiscountId /\ discounts[i.id].state # "absent"
    BY <1>2, <1>6, InputFields DEF CallOK
  <2>2. discounts' \in [DiscountId -> Discount]
    BY <1>6, <2>1 DEF Archive, TablesOK, Discount
  <2>3. Vanish
    BY <1>6, <2>1 DEF Vanish, Archive, TablesOK, Discount
  <2>4. discounts'[i.id].state = "archived"
    BY <1>6, <2>1 DEF Archive, TablesOK, Discount
  <2> QED BY <1>6, <2>2, <2>3, <2>4 DEF RowsTurn
<1> QED BY <1>1, <1>4, <1>5, <1>6 DEF Write

LEMMA CallsFollowRows ==
  ASSUME DiscountsInv, RowsTurn, UNCHANGED calls
  PROVE  TablesOK' /\ \A c \in Call : CallOK(calls'[c], discounts')
<1>1. TablesOK'
  BY DEF DiscountsInv, TablesOK, RowsTurn
<1>2. \A c \in Call : CallOK(calls'[c], discounts')
  BY OtherCalls DEF DiscountsInv
<1> QED BY <1>1, <1>2

AnswerWith(c, answer, effects) ==
  calls' = [Answered(c, answer) EXCEPT ![c].effects = effects]

\* What an answer changes.
LEMMA AnswerIs ==
  ASSUME TablesOK, NEW c \in Call, NEW answer \in Status, NEW effects \in Nat,
         AnswerWith(c, answer, effects)
  PROVE  /\ calls' \in [Call -> CallState]
         /\ \A d \in Call : d # c => calls'[d] = calls[d]
         /\ calls'[c].at = "answered" /\ calls'[c].answer = answer
         /\ calls'[c].effects = effects /\ calls'[c].input = calls[c].input
         /\ calls'[c].client = calls[c].client /\ calls'[c].sentAgain = calls[c].sentAgain
<1>1. calls[c] \in CallState
  BY DEF TablesOK
<1>2. calls' = [calls EXCEPT ![c] = [@ EXCEPT !.at = "answered", !.answer = answer,
                                              !.effects = effects]]
  BY DEF AnswerWith, Answered, TablesOK, CallState
<1>3. [calls[c] EXCEPT !.at = "answered", !.answer = answer, !.effects = effects] \in CallState
  BY <1>1 DEF CallState
<1>4. calls'[c] = [calls[c] EXCEPT !.at = "answered", !.answer = answer, !.effects = effects]
  BY <1>2 DEF TablesOK
<1>5. calls' \in [Call -> CallState] /\ \A d \in Call : d # c => calls'[d] = calls[d]
  BY <1>2, <1>3 DEF TablesOK
<1> QED BY <1>1, <1>4, <1>5 DEF CallState

\* The same, of a handler that has written nothing in this step.
LEMMA PlainAnswerIs ==
  ASSUME TablesOK, NEW c \in Call, NEW answer \in Status, calls' = Answered(c, answer)
  PROVE  /\ calls' \in [Call -> CallState]
         /\ \A d \in Call : d # c => calls'[d] = calls[d]
         /\ calls'[c].at = "answered" /\ calls'[c].answer = answer
         /\ calls'[c].effects = calls[c].effects /\ calls'[c].input = calls[c].input
         /\ calls'[c].client = calls[c].client /\ calls'[c].sentAgain = calls[c].sentAgain
<1>1. calls[c].effects \in Nat
  BY DEF TablesOK, CallState
<1>2. AnswerWith(c, answer, calls[c].effects)
  BY DEF AnswerWith, Answered, TablesOK, CallState
<1> QED BY <1>1, <1>2, AnswerIs

\* An answer that is true makes a call that is.
LEMMA AnswersAreOK ==
  ASSUME TablesOK, RowsTurn, NEW c \in Call, CallOK(calls[c], discounts),
         calls[c].at \in AtStatement,
         NEW answer \in Status, NEW effects \in Nat, calls'[c].at = "answered",
         calls'[c].answer = answer, calls'[c].effects = effects,
         calls'[c].input = calls[c].input, calls'[c].client = calls[c].client,
         calls'[c].sentAgain = calls[c].sentAgain,
         answer \in {"400", "404"} => effects = 0,
         answer \in {"200", "201"} /\ calls[c].input.op \in {"create", "update", "delete"} =>
           effects >= 1,
         answer \in {"200", "201"} /\ calls[c].input.op = "delete" =>
           discounts'[calls[c].input.id].state = "archived",
         effects > 1 \/ (answer = "500" /\ effects > 0) => calls[c].sentAgain
  PROVE  CallOK(calls'[c], discounts')
BY DEF CallOK, AtStatement

LEMMA FindMoves ==
  ASSUME DiscountsInv, NEW c \in Call, FindDiscount(c)
  PROVE  DiscountsInv' /\ RowsTurn
<1> USE DEF DiscountsInv
<1>1. RowsTurn
  BY UnchangedTurns DEF FindDiscount
<1>2. StartupInv'
  BY StartupMoves DEF FindDiscount
<1>3. /\ calls[c].at \in AtStatement /\ calls[c].effects = 0 /\ calls[c].effects \in Nat
      /\ calls[c].input \in DiscountInputs /\ calls[c].input.op \in {"update", "delete", "get"}
  BY DEF FindDiscount, CallOK, AtStatement, TablesOK, CallState
<1>4. ASSUME NEW answer \in {"200", "404"}, calls' = Answered(c, answer),
             answer = "200" => calls[c].input.op = "get"
      PROVE  DiscountsInv'
  <2>1. answer \in Status
    BY DEF Status
  <2>2. CallOK(calls'[c], discounts')
    BY <1>1, <1>3, <1>4, <2>1, PlainAnswerIs, AnswersAreOK
  <2> QED BY <1>1, <1>2, <1>4, <2>1, <2>2, PlainAnswerIs, OneCallMoves
<1>5. ASSUME NEW next \in {"update", "archive"}, NEW row \in Discount,
             calls' = [calls EXCEPT ![c].found = row, ![c].at = next],
             next = "update" <=> calls[c].input.op = "update", calls[c].input.op # "get",
             discounts[calls[c].input.id].state # "absent"
      PROVE  DiscountsInv'
  <2>1. calls[c] \in CallState
    BY DEF TablesOK
  <2>2. calls' = [calls EXCEPT ![c] = [@ EXCEPT !.found = row, !.at = next]]
    BY <1>5 DEF TablesOK, CallState
  <2>3. [calls[c] EXCEPT !.found = row, !.at = next] \in CallState
    BY <2>1 DEF CallState, AtStatement
  <2>4. /\ calls' \in [Call -> CallState]
        /\ \A d \in Call : d # c => calls'[d] = calls[d]
        /\ calls'[c].at = next /\ calls'[c].input = calls[c].input
        /\ calls'[c].answer = calls[c].answer /\ calls'[c].effects = calls[c].effects
        /\ calls'[c].client = calls[c].client
    BY <2>1, <2>2, <2>3 DEF TablesOK, CallState
  <2>5. calls[c].answer = None /\ calls[c].client \in {"waiting", "timeout"}
    BY <1>3 DEF CallOK
  <2>6. CallOK(calls'[c], discounts')
    <3>1. calls'[c].answer \notin Status /\ discounts' = discounts
      BY <2>4, <2>5, DiscountsAssumption DEF FindDiscount
    <3> QED BY <1>3, <1>5, <2>4, <2>5, <3>1 DEF CallOK, AtStatement, Status
  <2> QED BY <1>1, <1>2, <2>4, <2>6, OneCallMoves
<1>6. discounts[calls[c].input.id] \in Discount
  BY <1>3, InputFields DEF TablesOK
<1> QED BY <1>1, <1>3, <1>4, <1>5, <1>6 DEF FindDiscount

LEMMA ListMoves ==
  ASSUME DiscountsInv, NEW c \in Call, ListDiscounts(c)
  PROVE  DiscountsInv' /\ RowsTurn
<1> USE DEF DiscountsInv
<1>1. RowsTurn
  BY UnchangedTurns DEF ListDiscounts
<1>2. StartupInv'
  BY StartupMoves DEF ListDiscounts
<1>3. /\ calls[c].at \in AtStatement /\ calls[c].effects = 0 /\ calls[c].effects \in Nat
      /\ calls[c].input.op = "list" /\ calls[c].answer = None
  BY DEF ListDiscounts, CallOK, AtStatement, TablesOK, CallState
<1>4. CASE calls' = Answered(c, "200")
  <2>1. "200" \in Status
    BY DEF Status
  <2>2. CallOK(calls'[c], discounts')
    BY <1>1, <1>3, <1>4, <2>1, PlainAnswerIs, AnswersAreOK
  <2> QED BY <1>1, <1>2, <1>4, <2>1, <2>2, PlainAnswerIs, OneCallMoves
<1>5. CASE calls[c].at = "count" /\ calls' = [calls EXCEPT ![c].at = "select"]
  <2>1. /\ calls' \in [Call -> CallState]
        /\ \A d \in Call : d # c => calls'[d] = calls[d]
        /\ calls'[c].at = "select" /\ calls'[c].input = calls[c].input
        /\ calls'[c].answer = calls[c].answer /\ calls'[c].effects = calls[c].effects
        /\ calls'[c].client = calls[c].client
    BY <1>5 DEF TablesOK, CallState, AtStatement
  <2>2. CallOK(calls'[c], discounts')
    BY <1>3, <1>5, <2>1, DiscountsAssumption DEF CallOK, AtStatement, Status
  <2> QED BY <1>1, <1>2, <2>1, <2>2, OneCallMoves
<1> QED BY <1>1, <1>4, <1>5 DEF ListDiscounts

LEMMA WriteMoves ==
  ASSUME DiscountsInv, NEW c \in Call, WriteDiscount(c)
  PROVE  DiscountsInv' /\ RowsTurn
<1> USE DEF DiscountsInv
<1>1. StartupInv'
  BY StartupMoves DEF WriteDiscount
<1>2. ASSUME NEW result, Write(c, result), NEW answer \in Status, NEW effects \in Nat,
             AnswerWith(c, answer, effects),
             \/ answer \in {"200", "201"} /\ effects = calls[c].effects + 1
             \/ answer = "500" /\ effects = calls[c].effects
      PROVE  DiscountsInv' /\ RowsTurn
  <2>1. RowsTurn
    BY <1>2, WriteTurns
  <2>2. /\ calls[c].at \in AtStatement /\ calls[c].effects \in Nat
        /\ calls[c].effects > 0 => calls[c].sentAgain
    BY <1>2, WriteTurns DEF AtStatement, CallOK, TablesOK, CallState
  <2>3. calls[c].input.op = "delete" => discounts'[calls[c].input.id].state = "archived"
    BY <1>2, WriteTurns DEF CallOK
  <2>4. CallOK(calls'[c], discounts')
    <3>1. effects > 1 \/ (answer = "500" /\ effects > 0) => calls[c].sentAgain
      BY <1>2, <2>2
    <3>2. answer \notin {"400", "404"} /\ (answer \in {"200", "201"} => effects >= 1)
      BY <1>2, <2>2
    <3>3. /\ calls'[c].at = "answered" /\ calls'[c].answer = answer
          /\ calls'[c].effects = effects /\ calls'[c].input = calls[c].input
          /\ calls'[c].client = calls[c].client /\ calls'[c].sentAgain = calls[c].sentAgain
      BY <1>2, AnswerIs
    <3> QED BY <1>2, <2>1, <2>2, <2>3, <3>1, <3>2, <3>3, AnswersAreOK
  <2> QED BY <1>1, <1>2, <2>1, <2>4, AnswerIs, OneCallMoves
<1>3. calls[c].effects \in Nat /\ calls[c].effects + 1 \in Nat
  BY DEF TablesOK, CallState
<1>4. CASE Write(c, "ok")
           /\ calls' = [Answered(c, IF calls[c].input.op = "create" THEN "201" ELSE "200")
                          EXCEPT ![c].effects = @ + 1]
  <2> DEFINE answer == IF calls[c].input.op = "create" THEN "201" ELSE "200"
  <2>1. answer \in Status /\ answer \in {"200", "201"}
    BY DEF Status
  <2>2. AnswerWith(c, answer, calls[c].effects + 1)
    BY <1>4 DEF AnswerWith, Answered, TablesOK, CallState
  <2> QED BY <1>2, <1>3, <1>4, <2>1, <2>2
<1>5. CASE Write(c, "error") /\ calls' = Answered(c, "500")
  <2>1. AnswerWith(c, "500", calls[c].effects)
    BY <1>5 DEF AnswerWith, Answered, TablesOK, CallState
  <2>2. "500" \in Status
    BY DEF Status
  <2> QED BY <1>2, <1>3, <1>5, <2>1, <2>2
<1> QED BY <1>4, <1>5 DEF WriteDiscount

LEMMA FailureMoves ==
  ASSUME DiscountsInv, NEW c \in Call, StatementFails(c)
  PROVE  DiscountsInv' /\ RowsTurn
<1> USE DEF DiscountsInv
<1>1. RowsTurn
  BY UnchangedTurns DEF StatementFails
<1>2. StartupInv'
  BY StartupMoves DEF StatementFails
<1>3. /\ calls[c].at \in AtStatement /\ calls[c].effects \in Nat /\ "500" \in Status
      /\ calls[c].effects > 0 => calls[c].sentAgain
  BY DEF StatementFails, CallOK, AtStatement, TablesOK, CallState, Status
<1>4. calls[c].effects > 1 => calls[c].effects > 0
  BY <1>3
<1>5. CallOK(calls'[c], discounts')
  BY <1>1, <1>3, <1>4, PlainAnswerIs, AnswersAreOK DEF StatementFails
<1> QED BY <1>1, <1>2, <1>3, <1>5, PlainAnswerIs, OneCallMoves DEF StatementFails

LEMMA MakeCallMoves ==
  ASSUME DiscountsInv, NEW c \in Call, NEW s \in Server, NEW i \in DiscountInputs,
         MakeCall(c, s, i)
  PROVE  DiscountsInv' /\ RowsTurn
<1> USE DEF DiscountsInv
<1>1. RowsTurn
  BY UnchangedTurns DEF MakeCall
<1>2. StartupInv'
  BY StartupMoves DEF MakeCall
<1>3. calls[c].client = "idle"
  BY DEF MakeCall, Call
<1>4. /\ calls[c] \in CallState /\ CallOK(calls[c], discounts)
      /\ calls[c].at = "idle" /\ calls[c].effects = 0 /\ calls[c].answer = None
  BY <1>3 DEF TablesOK, CallOK
<1>5. discounts' = discounts
  BY DEF MakeCall
<1>6. CASE proc[s] # "listening"
  <2>1. calls' = [calls EXCEPT ![c].client = "message"]
    BY <1>6 DEF MakeCall
  <2>2. /\ calls' \in [Call -> CallState]
        /\ \A d \in Call : d # c => calls'[d] = calls[d]
        /\ calls'[c].at = "idle" /\ calls'[c].client = "message"
        /\ calls'[c].answer = None /\ calls'[c].effects = 0
    BY <1>4, <2>1 DEF TablesOK, CallState
  <2>3. CallOK(calls'[c], discounts')
    BY <2>2, DiscountsAssumption DEF CallOK, AtStatement, Status
  <2> QED BY <1>1, <1>2, <2>2, <2>3, OneCallMoves
<1>7. CASE proc[s] = "listening"
  <2> DEFINE call == calls'[c]
  <2>1. CASE i.op \in {"create", "update"} /\ IsZero(i)
    <3>1. calls' = [calls EXCEPT ![c] =
                      [[@ EXCEPT !.server = s, !.input = i, !.client = "waiting"]
                         EXCEPT !.at = "answered", !.answer = "400"]]
      BY <1>7, <2>1 DEF MakeCall
    <3>2. /\ calls' \in [Call -> CallState]
          /\ \A d \in Call : d # c => calls'[d] = calls[d]
          /\ call.at = "answered" /\ call.client = "waiting" /\ call.input = i
          /\ call.answer = "400" /\ call.effects = 0
      BY <1>4, <3>1 DEF TablesOK, CallState, Status
    <3>3. CallOK(calls'[c], discounts')
      BY <3>2 DEF CallOK, AtStatement
    <3> QED BY <1>1, <1>2, <3>2, <3>3, OneCallMoves
  <2>2. CASE ~(i.op \in {"create", "update"} /\ IsZero(i))
    <3> DEFINE first == FirstStatement(i)
    <3>1. /\ first \in {"insert", "count", "find"}
          /\ first = "insert" => i.op = "create"
          /\ first = "count" => i.op = "list"
          /\ first = "find" => i.op \in {"update", "delete", "get"}
      BY InputFields DEF FirstStatement
    <3> HIDE DEF first
    <3>2. calls' = [calls EXCEPT ![c] =
                      [[@ EXCEPT !.server = s, !.input = i, !.client = "waiting"]
                         EXCEPT !.at = first]]
      BY <1>7, <2>2 DEF MakeCall, first
    <3>3. /\ calls' \in [Call -> CallState]
          /\ \A d \in Call : d # c => calls'[d] = calls[d]
          /\ call.at = first /\ call.client = "waiting" /\ call.input = i
          /\ call.answer = None /\ call.effects = 0
      BY <1>4, <3>1, <3>2 DEF TablesOK, CallState, AtStatement
    <3>4. CallOK(calls'[c], discounts')
      BY <3>1, <3>3, DiscountsAssumption DEF CallOK, AtStatement, Status
    <3> QED BY <1>1, <1>2, <3>3, <3>4, OneCallMoves
  <2> QED BY <2>1, <2>2
<1> QED BY <1>6, <1>7

\* What the client makes of an answer is an object, or a nil error, only when
\* the answer is a success.
LEMMA ReturnedIs ==
  ASSUME NEW op \in {"create", "update", "delete", "get", "list"},
         NEW answer \in Status \cup {None, "lost"}
  PROVE  /\ Returned(op, answer) \in {"object", "noRows", "typedNil", "message", "silent"}
         /\ Returned(op, answer) \in {"object", "typedNil"} =>
              answer # "lost" /\ answer \in {"200", "201"}
BY DEF Returned, makeDataRequest, delete, get, Read

LEMMA ClientMoves ==
  ASSUME DiscountsInv, NEW c \in Call, Receive(c) \/ Timeout(c)
  PROVE  DiscountsInv' /\ RowsTurn
<1> USE DEF DiscountsInv
<1>1. RowsTurn /\ discounts' = discounts
  BY UnchangedTurns DEF Receive, Timeout
<1>2. StartupInv'
  BY StartupMoves DEF Receive, Timeout
<1>3. ASSUME NEW client \in {"object", "noRows", "typedNil", "message", "silent", "timeout"},
             calls' = [calls EXCEPT ![c].client = client], calls[c].client = "waiting",
             client \in {"object", "typedNil"} => calls[c].answer \in {"200", "201"},
             client # "timeout" => calls[c].at \notin AtStatement
      PROVE  DiscountsInv'
  <2>1. /\ calls' \in [Call -> CallState]
        /\ \A d \in Call : d # c => calls'[d] = calls[d]
        /\ calls'[c].client = client /\ calls'[c].at = calls[c].at
        /\ calls'[c].input = calls[c].input /\ calls'[c].answer = calls[c].answer
        /\ calls'[c].effects = calls[c].effects /\ calls'[c].sentAgain = calls[c].sentAgain
    BY <1>3 DEF TablesOK, CallState
  <2>2. CallOK(calls'[c], discounts')
    BY <1>1, <1>3, <2>1 DEF CallOK, AtStatement
  <2> QED BY <1>1, <1>2, <2>1, <2>2, OneCallMoves
<1>4. CASE Receive(c)
  <2> DEFINE answer == IF calls[c].at = "gone" THEN "lost" ELSE calls[c].answer
             client == Returned(calls[c].input.op, answer)
  <2>1. answer \in Status \cup {None, "lost"}
    BY DEF TablesOK, CallState
  <2>2. calls[c].input.op \in {"create", "update", "delete", "get", "list"}
    BY <1>4, InputFields DEF Receive, CallOK
  <2>3. /\ client \in {"object", "noRows", "typedNil", "message", "silent"}
        /\ client \in {"object", "typedNil"} => answer # "lost" /\ answer \in {"200", "201"}
    BY <2>1, <2>2, ReturnedIs
  <2>4. /\ calls' = [calls EXCEPT ![c].client = client]
        /\ calls[c].client = "waiting" /\ calls[c].at \notin AtStatement
    BY <1>4 DEF Receive, AtStatement
  <2>5. client \in {"object", "typedNil"} => calls[c].answer \in {"200", "201"}
    BY <2>3
  <2> HIDE DEF client
  <2> QED BY <1>1, <1>3, <2>3, <2>4, <2>5
<1>5. CASE Timeout(c)
  BY <1>1, <1>3, <1>5 DEF Timeout
<1> QED BY <1>4, <1>5

LEMMA DeathMoves ==
  ASSUME DiscountsInv, NEW s \in Server, ServerDiesWithHandlers(s)
  PROVE  DiscountsInv' /\ RowsTurn
<1> USE DEF DiscountsInv
<1>1. RowsTurn /\ discounts' = discounts
  BY UnchangedTurns DEF ServerDiesWithHandlers
<1>2. StartupInv'
  BY StartupMoves DEF ServerDiesWithHandlers, StartupNext
<1>3. ASSUME NEW c \in Call
      PROVE  calls'[c] \in CallState /\ CallOK(calls'[c], discounts')
  <2>1. calls[c] \in CallState /\ CallOK(calls[c], discounts)
    BY DEF TablesOK
  <2>2. CASE calls'[c] = calls[c]
    BY <1>1, <2>1, <2>2
  <2>3. CASE calls[c].at \in AtStatement /\ calls'[c] = [calls[c] EXCEPT !.at = "gone"]
    <3>1. /\ calls'[c] \in CallState /\ calls'[c].at = "gone"
          /\ calls'[c].client = calls[c].client
          /\ calls'[c].input = calls[c].input /\ calls'[c].answer = calls[c].answer
          /\ calls'[c].effects = calls[c].effects /\ calls'[c].sentAgain = calls[c].sentAgain
      BY <2>1, <2>3 DEF CallState
    <3> QED BY <1>1, <2>1, <2>3, <3>1 DEF CallOK, AtStatement
  <2> QED BY <2>2, <2>3 DEF ServerDiesWithHandlers
<1>4. calls' \in [Call -> CallState]
  BY <1>3 DEF ServerDiesWithHandlers
<1> QED BY <1>1, <1>2, <1>3, <1>4 DEF TablesOK, RowsTurn

LEMMA RestartMoves ==
  ASSUME DiscountsInv, DatabaseRestarts
  PROVE  DiscountsInv' /\ RowsTurn
<1> USE DEF DiscountsInv
<1>1. StartupInv'
  BY StartupMoves DEF DatabaseRestarts, StartupNext
<1>2. CASE UNCHANGED <<discounts, calls>>
  BY <1>1, <1>2, UnchangedTurns, CallsFollowRows
<1>3. ASSUME NEW c \in Call, Write(c, "ok"),
             calls' = [calls EXCEPT ![c].effects = @ + 1, ![c].sentAgain = TRUE]
      PROVE  DiscountsInv' /\ RowsTurn
  <2>1. /\ RowsTurn /\ calls[c].at \in AtStatement
        /\ calls[c].at \notin {"find", "count", "select"}
    BY <1>3, WriteTurns DEF AtStatement
  <2>2. calls[c] \in CallState /\ CallOK(calls[c], discounts)
    BY DEF TablesOK
  <2>3. /\ calls' \in [Call -> CallState]
        /\ \A d \in Call : d # c => calls'[d] = calls[d]
        /\ calls'[c].at = calls[c].at /\ calls'[c].client = calls[c].client
        /\ calls'[c].input = calls[c].input /\ calls'[c].answer = calls[c].answer
        /\ calls'[c].effects = calls[c].effects + 1 /\ calls'[c].sentAgain = TRUE
    <3> DEFINE effects == calls[c].effects + 1
               call == [calls[c] EXCEPT !.effects = effects, !.sentAgain = TRUE]
    <3>1. effects \in Nat
      BY <2>2 DEF CallState
    <3>2. ASSUME NEW n \in Nat
          PROVE  [calls[c] EXCEPT !.effects = n, !.sentAgain = TRUE] \in CallState
      BY <2>2, <3>2 DEF CallState
    <3>3. calls' = [calls EXCEPT ![c] = call]
      BY <1>3 DEF TablesOK, CallState
    <3>4. calls'[c] = call
      BY <3>3 DEF TablesOK
    <3>5. calls' \in [Call -> CallState] /\ \A d \in Call : d # c => calls'[d] = calls[d]
      BY <3>1, <3>2, <3>3 DEF TablesOK
    <3> QED BY <2>2, <3>4, <3>5 DEF CallState
  <2>4. calls[c].at = "archive" => discounts'[calls[c].input.id].state # "absent"
    BY <1>3, WriteTurns
  <2>5. calls[c].answer \notin Status
    BY <2>1, <2>2, DiscountsAssumption DEF CallOK
  <2>6. CallOK(calls'[c], discounts')
    BY <2>1, <2>2, <2>3, <2>4, <2>5 DEF CallOK, AtStatement, Status
  <2> QED BY <1>1, <2>1, <2>3, <2>6, OneCallMoves
<1> QED BY <1>2, <1>3 DEF DatabaseRestarts

LEMMA DeploymentMoves ==
  ASSUME DiscountsInv, [DeploymentNext]_deploymentVars
  PROVE  DiscountsInv' /\ RowsTurn
<1> USE DEF DiscountsInv
<1>1. CASE UNCHANGED deploymentVars
  <2>1. UNCHANGED startupVars /\ UNCHANGED discounts /\ UNCHANGED calls
    BY <1>1 DEF deploymentVars, discountVars
  <2> QED BY <2>1, StartupMoves, UnchangedTurns, CallsFollowRows
<1>2. ASSUME NEW s \in Server, StartServer(s) PROVE DiscountsInv' /\ RowsTurn
  BY <1>2, StartupMoves, UnchangedTurns, CallsFollowRows
     DEF StartServer, StartupNext, discountVars
<1>3. ASSUME NEW s \in Server, MainStep(s) PROVE DiscountsInv' /\ RowsTurn
  BY <1>3, StartupMoves, LoadTurns, CallsFollowRows DEF MainStep, StartupNext
<1>4. CASE DatabaseRecovers
  BY <1>4, StartupMoves, UnchangedTurns, CallsFollowRows
     DEF DatabaseRecovers, StartupNext, discountVars
<1>5. ASSUME NEW c \in Call, Handle(c) PROVE DiscountsInv' /\ RowsTurn
  BY <1>5, FindMoves, ListMoves, WriteMoves, FailureMoves DEF Handle
<1> QED BY <1>1, <1>2, <1>3, <1>4, <1>5, DeathMoves, MakeCallMoves, ClientMoves, RestartMoves
        DEF DeploymentNext

LEMMA DiscountsInvInit == DiscountsInit => DiscountsInv
<1> SUFFICES ASSUME DiscountsInit PROVE DiscountsInv
  OBVIOUS
<1>1. StartupInv
  BY StartupInvInit DEF DiscountsInit
<1>2. Absent \in Discount
  BY DEF Absent, Discount
<1>3. TablesOK
  BY <1>2 DEF DiscountsInit, TablesOK, CallState
<1>4. \A c \in Call : CallOK(calls[c], discounts)
  BY DiscountsAssumption DEF DiscountsInit, CallOK, AtStatement, Status
<1> QED BY <1>1, <1>3, <1>4 DEF DiscountsInv

LEMMA DeploymentInvariant == DeploymentSpec => []DiscountsInv
<1>1. DiscountsInv /\ [DeploymentNext]_deploymentVars => DiscountsInv'
  BY DeploymentMoves
<1> QED BY <1>1, DiscountsInvInit, PTL DEF DeploymentSpec

\* The types of the deployment.  (Migrate, the handlers of discounts.go and
\* the Go client's calls keep to their states.)
THEOREM DeploymentTypeCorrect == DeploymentSpec => []DiscountsTypeOK
<1>1. DiscountsInv => DiscountsTypeOK
  BY DEF DiscountsInv, DiscountsTypeOK, StartupInv, TablesOK
<1> QED BY <1>1, DeploymentInvariant, PTL

\* What a handler answers, and what the Go client hands to its caller, is what
\* the statements did, whatever breaks half way and is sent again.
\* (buildDiscountUpdateHandler and the others; executeRequest, unmarshalBody.)
THEOREM AnswersHold == DeploymentSpec => []AnswersAreTruthful
<1>1. DiscountsInv => AnswersAreTruthful
  BY DEF DiscountsInv, CallOK, AnswersAreTruthful, Effective
<1> QED BY <1>1, DeploymentInvariant, PTL

\* A discount is archived at most once and for good, for any number of
\* overlapping calls, deaths and restarts, an update by the id of a body
\* included.  (discountUpdateQuery, discountDeletionQuery.)
THEOREM DiscountsImplementSoftDelete == DeploymentSpec => DiscountsAreSoftDeleted
<1> DEFINE state == [d \in DiscountId |-> discounts[d].state]
<1>1. DiscountsInv => state \in [DiscountId -> SoftDeletion!States]
  BY DEF DiscountsInv, TablesOK, Discount, SoftDeletion!States
<1>2. DiscountsInit => SoftDeletion!Init
  BY <1>1, DiscountsInvInit DEF SoftDeletion!Init, SoftDeletion!TypeOK
<1>3. ASSUME DiscountsInv, DiscountsInv', RowsTurn
      PROVE  [SoftDeletion!Next]_state
  <2>1. state' \in [DiscountId -> SoftDeletion!States]
    BY <1>3 DEF DiscountsInv, TablesOK, Discount, SoftDeletion!States
  <2>2. CASE Appear
    <3>1. SoftDeletion!Create
      BY <2>1, <2>2 DEF Appear, SoftDeletion!Create, SoftDeletion!Turns
    <3> QED BY <3>1 DEF SoftDeletion!Next
  <2>3. CASE Vanish
    <3>1. SoftDeletion!Archive
      BY <2>1, <2>3 DEF Vanish, SoftDeletion!Archive, SoftDeletion!Turns
    <3> QED BY <3>1 DEF SoftDeletion!Next
  <2> QED BY <1>3, <2>2, <2>3 DEF RowsTurn
<1>4. DiscountsInv /\ DiscountsInv' /\ [DeploymentNext]_deploymentVars
        => [SoftDeletion!Next]_state
  BY <1>3, DeploymentMoves
<1> QED BY <1>2, <1>4, DeploymentInvariant, PTL
        DEF DeploymentSpec, DiscountsAreSoftDeleted, SoftDeletion!Spec

=============================================================================
