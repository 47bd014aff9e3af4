----------------------------- MODULE Database -----------------------------
(***************************************************************************)
(* kits/common/database: the connections to PostgreSQL, one for each thread *)
(* and named after its system id, the statements made on them, and the      *)
(* conditions of a SqlSelect and a SqlUpdate.  Ids are given again when a   *)
(* thread has ended, and nothing removes its connection.                    *)
(*                                                                          *)
(* Of Qt: database(name) answers an invalid connection to a thread that did *)
(* not make it, and opens again one that is known to be closed; a           *)
(* connection that broke is known to be closed once a statement has failed. *)
(* A connection that is removed answers no statement.                       *)
(***************************************************************************)
EXTENDS Integers, Sequences

CONSTANTS Ids,             \* of threads
          MaxThreads,      \* bound: threads made with one id
          MaxOutages,      \* bound: times the server goes down
          Fields, Values,
          MaxConditions    \* bound: conditions of one query

DatabaseAssumption == /\ {MaxThreads, MaxOutages, MaxConditions} \subseteq Nat
                      /\ Values \subseteq Int

VARIABLES alive,        \* threads that run, by id
          thread,       \* id -> how many threads have had it
          step,         \* id -> "idle", "add", "name" or "query"
          registered,   \* Qt's registry: id -> the thread that made the connection, or 0
          connection,   \* id -> "none", "open", "broken" or "closed"
          held,         \* id -> the SqlQuery in work has this connection
          m_connectionNames,
          server, outages,
          stopped,
          lost,         \* id -> statements in a row that failed with the server up
          m_conditions, rows,  \* of the one query looked at, and its answer once there is one
          m_setValues,         \* fields of a SqlUpdate with the value they get
          updated              \* what it makes of each row, once it has run

connectionVars == <<alive, thread, step, registered, connection, held, m_connectionNames,
                    server, outages, stopped, lost>>
queryVars      == <<m_conditions, rows, m_setValues, updated>>
databaseVars   == <<connectionVars, queryVars>>

Init == /\ alive = {} /\ thread = [i \in Ids |-> 0] /\ step = [i \in Ids |-> "idle"]
        /\ registered = [i \in Ids |-> 0] /\ connection = [i \in Ids |-> "none"]
        /\ held = [i \in Ids |-> FALSE] /\ m_connectionNames = {}
        /\ server = "up" /\ outages = 0 /\ stopped = FALSE /\ lost = [i \in Ids |-> 0]
        /\ m_conditions = <<>> /\ rows = <<>> /\ m_setValues = <<>> /\ updated = <<>>

-----------------------------------------------------------------------------
(* Threads and the server.                                                  *)

ThreadBegins(i) ==
  /\ i \notin alive /\ thread[i] < MaxThreads
  /\ alive' = alive \cup {i} /\ thread' = [thread EXCEPT ![i] = @ + 1]
  /\ lost' = [lost EXCEPT ![i] = 0]
  /\ UNCHANGED <<step, registered, connection, held, m_connectionNames, server, outages, stopped, queryVars>>

ThreadEnds(i) ==
  /\ i \in alive /\ step[i] = "idle" /\ alive' = alive \ {i}
  /\ UNCHANGED <<thread, step, registered, connection, held, m_connectionNames, server, outages, stopped, lost, queryVars>>

ServerDown ==
  /\ server = "up" /\ outages < MaxOutages
  /\ server' = "down" /\ outages' = outages + 1
  /\ connection' = [i \in Ids |-> IF connection[i] = "open" THEN "broken" ELSE connection[i]]
  /\ UNCHANGED <<alive, thread, step, registered, held, m_connectionNames, stopped, lost, queryVars>>

ServerUp == /\ server = "down" /\ server' = "up"
            /\ lost' = [i \in Ids |-> 0]
            /\ UNCHANGED <<alive, thread, step, registered, connection, held, m_connectionNames, outages, stopped, queryVars>>

-----------------------------------------------------------------------------
(* getConnection, of the constructor of a query.                            *)

Step(i, from, to) == /\ i \in alive /\ step[i] = from
                     /\ step' = [step EXCEPT ![i] = to]
                     /\ UNCHANGED <<alive, thread, server, outages, stopped, lost, queryVars>>

NoName(i) == /\ i \notin m_connectionNames /\ Step(i, "idle", "add")
             /\ UNCHANGED <<registered, connection, held, m_connectionNames>>

\* database(name): the connection is this thread's, and is open or opens.
Reuse(i) == /\ i \in m_connectionNames /\ Step(i, "idle", "query")
            /\ registered[i] = thread[i]
            /\ connection[i] # "closed" \/ server = "up"
            /\ connection' = [connection EXCEPT ![i] = IF @ = "closed" THEN "open" ELSE @]
            /\ held' = [held EXCEPT ![i] = TRUE]
            /\ UNCHANGED <<registered, m_connectionNames>>

\* Mutant of NotOpen: the name is kept.
NotOpenKept(i) == /\ i \in m_connectionNames /\ Step(i, "idle", "query")
                  /\ \/ registered[i] # thread[i]
                     \/ connection[i] = "closed" /\ server = "down"
                  /\ UNCHANGED <<registered, connection, held, m_connectionNames>>

\* It is not open, as the caller finds out: the next call makes another one.
NotOpen(i) == /\ i \in m_connectionNames /\ Step(i, "idle", "query")
              /\ \/ registered[i] # thread[i]
                 \/ connection[i] = "closed" /\ server = "down"
              /\ m_connectionNames' = m_connectionNames \ {i}
              /\ registered' = [registered EXCEPT ![i] = 0]
              /\ connection' = [connection EXCEPT ![i] = "none"]
              /\ UNCHANGED held

\* addDatabase and open; a connection of this name is replaced.
Add(i) == /\ server = "up" /\ Step(i, "add", "name")
          /\ registered' = [registered EXCEPT ![i] = thread[i]]
          /\ connection' = [connection EXCEPT ![i] = "open"]
          /\ held' = [held EXCEPT ![i] = TRUE]
          /\ UNCHANGED m_connectionNames

AddFails(i) == /\ server = "down" /\ Step(i, "add", "query")
               /\ registered' = [registered EXCEPT ![i] = 0]
               /\ connection' = [connection EXCEPT ![i] = "none"]
               /\ UNCHANGED <<held, m_connectionNames>>

InsertName(i) == /\ Step(i, "name", "query")
                 /\ m_connectionNames' = m_connectionNames \cup {i}
                 /\ UNCHANGED <<registered, connection, held>>

\* exec(): prepare and exec, or a batch in its transaction.
Exec(i) ==
  /\ i \in alive /\ step[i] = "query" /\ step' = [step EXCEPT ![i] = "idle"]
  /\ LET answers == held[i] /\ connection[i] = "open"
     IN lost' = [lost EXCEPT ![i] = IF answers \/ server = "down" THEN 0 ELSE @ + 1]
  /\ connection' = [connection EXCEPT ![i] = IF held[i] /\ @ = "broken" THEN "closed" ELSE @]
  /\ held' = [held EXCEPT ![i] = FALSE]
  /\ UNCHANGED <<alive, thread, registered, m_connectionNames, server, outages, stopped, queryVars>>

\* stop() removes the connections, those in use as well, and forgets them.
Stop == /\ ~stopped /\ stopped' = TRUE
        /\ registered' = [i \in Ids |-> IF i \in m_connectionNames THEN 0 ELSE registered[i]]
        /\ connection' = [i \in Ids |-> IF i \in m_connectionNames THEN "none" ELSE connection[i]]
        /\ held' = [i \in Ids |-> held[i] /\ i \notin m_connectionNames]
        /\ m_connectionNames' = {}
        /\ lost' = [i \in Ids |-> 0]
        /\ UNCHANGED <<alive, thread, step, server, outages, queryVars>>

-----------------------------------------------------------------------------
(* SqlSelect and SqlUpdate: conditions on fields, each with a placeholder   *)
(* that has the field's name; AND binds before OR.                          *)

Comparisons == {"Equal", "NotEqual", "GreaterThan", "LessThan", "GreaterEqual", "LessEqual"}
Conditions  == [field : Fields, op : Comparisons, value : Values, logicOperator : {"And", "Or"}]
Rows        == [Fields -> Values]

Compares(op, x, v) == CASE op = "Equal"        -> x = v
                        [] op = "NotEqual"     -> x # v
                        [] op = "GreaterThan"  -> x > v
                        [] op = "LessThan"     -> x < v
                        [] op = "GreaterEqual" -> x >= v
                        [] op = "LessEqual"    -> x <= v

\* The first condition has no operator before it.
Where == /\ Len(m_conditions) < MaxConditions /\ rows = <<>> /\ updated = <<>>
         /\ m_setValues # <<>> => Len(m_conditions) < MaxConditions - 1
         /\ \E c \in Conditions :
              /\ m_conditions = <<>> => c.logicOperator = "And"
              /\ m_conditions' = Append(m_conditions, c)
         /\ UNCHANGED <<connectionVars, rows, m_setValues, updated>>

\* Mutant of BoundValue: every placeholder has the first condition's value.
BoundFirst(conditions, i) == conditions[1].value

\* bindValue: a name has one value, the last one bound.
BoundValue(conditions, i) ==
  LET last == CHOOSE j \in DOMAIN conditions :
                /\ conditions[j].field = conditions[i].field
                /\ \A k \in DOMAIN conditions : conditions[k].field = conditions[i].field => k <= j
  IN conditions[last].value

\* A row satisfies a where clause when it does one of its runs of ANDs.
Satisfies(row, conditions, values) ==
  LET begins(i) == i = 1 \/ conditions[i].logicOperator = "Or"
  IN conditions = <<>> \/
     \E i \in DOMAIN conditions :
       /\ begins(i)
       /\ \A j \in i..Len(conditions) :
            (\A k \in (i + 1)..j : ~begins(k)) =>
               Compares(conditions[j].op, row[conditions[j].field], values[j])

ExecSelect == /\ rows = <<>> /\ m_setValues = <<>>
              /\ LET bound == [i \in DOMAIN m_conditions |-> BoundValue(m_conditions, i)]
                 IN rows' = <<{r \in Rows : Satisfies(r, m_conditions, bound)}>>
              /\ UNCHANGED <<connectionVars, m_conditions, m_setValues, updated>>

\* set() of some fields, before the conditions as its callers have it.
Set == /\ m_conditions = <<>> /\ m_setValues = <<>> /\ rows = <<>>
       /\ \E fields \in SUBSET Fields \ {{}} : m_setValues' \in [fields -> Values]
       /\ UNCHANGED <<connectionVars, m_conditions, rows, updated>>

\* Mutant of SetBound: the value of a field has the placeholder of a condition on it.
SetBoundByName(f) ==
  LET on == {i \in DOMAIN m_conditions : m_conditions[i].field = f}
  IN IF on = {} THEN m_setValues[f] ELSE BoundValue(m_conditions, CHOOSE i \in on : TRUE)

\* The placeholder of a field's value has a name of its own.
SetBound(f) == m_setValues[f]

\* execSingle of SqlUpdate.
ExecUpdate ==
  /\ m_setValues # <<>> /\ updated = <<>>
  /\ LET bound == [i \in DOMAIN m_conditions |-> BoundValue(m_conditions, i)]
     IN updated' = [r \in Rows |->
                      IF ~Satisfies(r, m_conditions, bound) THEN r
                      ELSE [f \in Fields |-> IF f \in DOMAIN m_setValues THEN SetBound(f)
                                             ELSE r[f]]]
  /\ UNCHANGED <<connectionVars, m_conditions, rows, m_setValues>>

Select == Where \/ ExecSelect \/ Set \/ ExecUpdate

Connect == \/ ServerDown \/ ServerUp \/ Stop
           \/ \E i \in Ids : \/ ThreadBegins(i) \/ ThreadEnds(i)
                             \/ NoName(i) \/ Reuse(i) \/ NotOpen(i)
                             \/ Add(i) \/ AddFails(i) \/ InsertName(i) \/ Exec(i)

Next == Connect \/ Select

Spec == Init /\ [][Next]_databaseVars

-----------------------------------------------------------------------------
\* With the server up a thread loses one statement at most, be it to a
\* connection that broke, to one of a thread that had its id, or to stop(): the
\* next statement has a connection that works (DatabaseConnections.cpp:46-56).
OneStatementLost == \A i \in Ids : lost[i] <= 1

\* The names known are those of connections that Qt has; one that is not known
\* is being made, or was when stop() came (DatabaseConnections.cpp:58, :72).
NamesRegistered ==
  \A i \in Ids : /\ i \in m_connectionNames => registered[i] # 0
                 /\ registered[i] # 0 => i \in m_connectionNames \/ step[i] = "name"

\* Two conditions compare one field with two values: then both compare with the
\* last one.
ComparedTwice == \E i, j \in DOMAIN m_conditions :
                   /\ m_conditions[i].field = m_conditions[j].field
                   /\ m_conditions[i].value # m_conditions[j].value

\* A query answers the rows that its conditions ask for (SqlSelect.h:75-78, :156),
\* and an update gives those rows the values that were set and leaves the others
\* as they are (SqlUpdate.h:190-231), unless a field is compared twice.
AnswersWhatIsAsked ==
  LET asked == [i \in DOMAIN m_conditions |-> m_conditions[i].value]
      meant(r) == IF ~Satisfies(r, m_conditions, asked) THEN r
                  ELSE [f \in Fields |-> IF f \in DOMAIN m_setValues THEN m_setValues[f] ELSE r[f]]
  IN /\ rows # <<>> =>
          rows = <<{r \in Rows : Satisfies(r, m_conditions, asked)}>> \/ ComparedTwice
     /\ updated # <<>> => (\A r \in Rows : updated[r] = meant(r)) \/ ComparedTwice
=============================================================================
