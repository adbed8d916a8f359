-------------------------------- MODULE StartUp --------------------------------
(***************************************************************************)
(* The start of a process: run() of cmd/chassis opens the database,        *)
(* Migrate brings its schema up to date, bootstrapAdmin creates the first  *)
(* account, and then it serves.  Several processes may start on one file,  *)
(* of builds that embed more or fewer migrations, and any of them may be   *)
(* stopped anywhere.  A migration is one IMMEDIATE transaction; the query  *)
(* that decides whether to run it, and each statement of bootstrapAdmin,   *)
(* are steps of their own.  The bootstrap credentials are configured.      *)
(* (A suffixed name is a deliberately wrong variant that the properties    *)
(* must tell from the real definition.)                                    *)
(***************************************************************************)
EXTENDS Naturals, Sequences

CONSTANTS
  Processes,
  Embedded,    \* how many migrations the build of a process embeds
  Needs,       \* the migrations whose tables a migration alters
  Repeatable,  \* the migrations that consist of IF NOT EXISTS statements
  MaxStops     \* bound: processes stopped

Versions == 1..Len(Needs)    \* file names, in lexical order

ASSUME StartUpConstantsOK ==
  /\ Needs \in Seq(SUBSET Nat)
  /\ \A m \in Versions : Needs[m] \subseteq 1..(m-1)
  /\ Embedded \in [Processes -> Versions]
  /\ Repeatable \subseteq Versions
  /\ MaxStops \in Nat

VARIABLES
  tracker,  \* does schema_migrations exist?
  applied,  \* its rows
  schema,   \* the migrations whose statements have been committed, in order
  admin,    \* users: no row, a row with password_hash '', a row with a hash
  pc,       \* where a process is
  next,     \* the migration its loop is at
  halfway,  \* history: was a process stopped between the two writes of bootstrapAdmin?
  stops

database == <<tracker, applied, schema, admin>>
startUpVars == <<database, pc, next, halfway, stops>>

Migrating == {"tracker", "check", "apply"}
Bootstrapping == {"count", "insert", "password"}

TypeOK ==
  /\ tracker \in BOOLEAN
  /\ applied \subseteq Versions
  /\ schema \in Seq(Versions)
  /\ admin \in {"absent", "locked", "ready"}
  /\ pc \in [Processes -> {"down", "serving"} \cup Migrating \cup Bootstrapping]
  /\ next \in [Processes -> Nat \ {0}]
  /\ \A p \in Processes : /\ next[p] <= Embedded[p] + 1
                          /\ pc[p] = "apply" => next[p] <= Embedded[p]
  /\ halfway \in BOOLEAN
  /\ stops \in 0..MaxStops

\* An empty file.
Init ==
  /\ tracker = FALSE /\ applied = {} /\ schema = <<>> /\ admin = "absent"
  /\ pc = [p \in Processes |-> "down"]
  /\ next = [p \in Processes |-> 1]
  /\ halfway = FALSE /\ stops = 0

GoTo(p, label) == pc' = [pc EXCEPT ![p] = label]

\* run() returns the error and main exits.
Exit(p) == GoTo(p, "down") /\ UNCHANGED <<database, next, halfway>>

Start(p) ==
  /\ pc[p] = "down"
  /\ GoTo(p, "tracker")
  /\ next' = [next EXCEPT ![p] = 1]
  /\ UNCHANGED <<database, halfway, stops>>

-----------------------------------------------------------------------------
(* Migrate.                                                                *)

CreateTrackerOnce(p) ==
  /\ pc[p] = "tracker"
  /\ \/ /\ ~tracker
        /\ tracker' = TRUE
        /\ GoTo(p, "check")
        /\ UNCHANGED <<applied, schema, admin, next, halfway>>
     \/ tracker /\ Exit(p)
  /\ UNCHANGED stops

CreateTracker(p) ==
  /\ pc[p] = "tracker"
  /\ tracker' = TRUE
  /\ GoTo(p, "check")
  /\ UNCHANGED <<applied, schema, admin, next, halfway, stops>>

CheckVersionStopsEarly(p) ==
  /\ pc[p] = "check"
  /\ IF next[p] >= Embedded[p]
     THEN GoTo(p, "count") /\ UNCHANGED next
     ELSE IF next[p] \in applied
     THEN next' = [next EXCEPT ![p] = @ + 1] /\ UNCHANGED pc
     ELSE GoTo(p, "apply") /\ UNCHANGED next
  /\ UNCHANGED <<database, halfway, stops>>

CheckVersionRunsOver(p) ==
  /\ pc[p] = "check"
  /\ IF next[p] \in applied
     THEN next' = [next EXCEPT ![p] = @ + 1] /\ UNCHANGED pc
     ELSE GoTo(p, "apply") /\ UNCHANGED next
  /\ UNCHANGED <<database, halfway, stops>>

\* SELECT COUNT(*) ... WHERE version = ?, outside any transaction.
CheckVersion(p) ==
  /\ pc[p] = "check"
  /\ IF next[p] > Embedded[p]
     THEN GoTo(p, "count") /\ UNCHANGED next
     ELSE IF next[p] \in applied
     THEN next' = [next EXCEPT ![p] = @ + 1] /\ UNCHANGED pc
     ELSE GoTo(p, "apply") /\ UNCHANGED next
  /\ UNCHANGED <<database, halfway, stops>>

InSchema(m) == \E k \in DOMAIN schema : schema[k] = m

\* Do the statements of migration m run on the schema as it is?  A column is
\* not added twice, nor to a table that does not exist.
Runs(m) == /\ \A n \in Needs[m] : InSchema(n)
           /\ m \in Repeatable \/ ~InSchema(m)

ApplyMigrationInTwo(p) ==
  LET m == next[p] IN
  /\ pc[p] = "apply"
  /\ \/ /\ Runs(m)
        /\ schema' = Append(schema, m)
        /\ \/ m \notin applied /\ applied' = applied \cup {m} /\ GoTo(p, "check")
           \/ UNCHANGED applied /\ GoTo(p, "down")
        /\ UNCHANGED <<tracker, admin, next, halfway>>
     \/ ~Runs(m) /\ Exit(p)
  /\ UNCHANGED stops

\* The transaction runs the statements and records the version.  Where another
\* process was faster, one of them or the PRIMARY KEY fails: everything is
\* rolled back and the process exits.
ApplyMigration(p) ==
  LET m == next[p] IN
  /\ pc[p] = "apply"
  /\ \/ /\ Runs(m) /\ m \notin applied
        /\ schema' = Append(schema, m)
        /\ applied' = applied \cup {m}
        /\ GoTo(p, "check")
        /\ next' = [next EXCEPT ![p] = @ + 1]
        /\ UNCHANGED <<tracker, admin, halfway>>
     \/ (~Runs(m) \/ m \in applied) /\ Exit(p)
  /\ UNCHANGED stops

-----------------------------------------------------------------------------
(* bootstrapAdmin: three statements, each committed on its own.            *)

CountUsers(p) ==
  /\ pc[p] = "count"
  /\ GoTo(p, IF admin = "absent" THEN "insert" ELSE "serving")
  /\ UNCHANGED <<database, next, halfway, stops>>

InsertAdminServes(p) ==
  /\ pc[p] = "insert"
  /\ \/ /\ admin = "absent"
        /\ admin' = "locked"
        /\ GoTo(p, "serving")
        /\ UNCHANGED <<tracker, applied, schema, next, halfway>>
     \/ admin # "absent" /\ Exit(p)
  /\ UNCHANGED stops

\* The address is UNIQUE: who comes second exits.
InsertAdmin(p) ==
  /\ pc[p] = "insert"
  /\ \/ /\ admin = "absent"
        /\ admin' = "locked"
        /\ GoTo(p, "password")
        /\ UNCHANGED <<tracker, applied, schema, next, halfway>>
     \/ admin # "absent" /\ Exit(p)
  /\ UNCHANGED stops

SetPassword(p) ==
  /\ pc[p] = "password"
  /\ admin' = "ready"
  /\ GoTo(p, "serving")
  /\ UNCHANGED <<tracker, applied, schema, next, halfway, stops>>

-----------------------------------------------------------------------------

\* A crash, a shutdown, or any statement that fails for other reasons than the
\* above (a lock held beyond busy_timeout, a full disk).
Stop(p) ==
  /\ pc[p] # "down" /\ stops < MaxStops
  /\ GoTo(p, "down")
  /\ halfway' = (halfway \/ pc[p] = "password")
  /\ stops' = stops + 1
  /\ UNCHANGED <<database, next>>

Proceed(p) ==
  \/ CreateTracker(p) \/ CheckVersion(p) \/ ApplyMigration(p)
  \/ CountUsers(p) \/ InsertAdmin(p) \/ SetPassword(p)

Next == \E p \in Processes : Start(p) \/ Proceed(p) \/ Stop(p)

\* A process that has been started goes on until it serves or exits.  Nothing
\* in the repository starts it again.
Fairness == \A p \in Processes : WF_startUpVars(Proceed(p))

Spec == Init /\ [][Next]_startUpVars /\ Fairness

-----------------------------------------------------------------------------
(* Properties.                                                             *)

\* Whoever runs them, and whoever dies half-way, the migrations are committed
\* in order, each once, and schema_migrations names exactly those.
SchemaInOrder ==
  /\ applied = {schema[k] : k \in DOMAIN schema}
  /\ \A k \in DOMAIN schema : schema[k] = k

\* No process creates accounts or serves on a schema that lacks a migration of
\* its build, although it may not have run any of them itself.
ServesComplete ==
  \A p \in Processes :
    pc[p] \in {"serving"} \cup Bootstrapping => 1..Embedded[p] \subseteq applied

\* A process that is started makes it, or another one does, unless one is
\* stopped after that: it exits only where another one has been faster since,
\* and what a stopped one leaves behind keeps no later start from serving.  (A
\* process started before the stop may still lose to the one that was stopped.)
OneComesThrough ==
  \A p \in Processes, n \in 0..MaxStops :
    (pc[p] = "tracker" /\ stops = n)
      ~> (stops > n \/ \E q \in Processes : pc[q] = "serving")

\* Once somebody serves, the administrator can log in in the end, unless a
\* process was stopped between the two writes of bootstrapAdmin: then the users
\* table is not empty, and no later start sets the password.
AdminCanLogIn ==
  (\E p \in Processes : pc[p] = "serving") ~> (admin = "ready" \/ halfway)
=============================================================================
