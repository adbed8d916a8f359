---------------------------- MODULE StartUp_proofs ----------------------------
(* Theorems about the start of processes, for every number of them, builds   *)
(* of any length and migrations of any kind.                                 *)
EXTENDS StartUp, TLAPS

\* What a process has passed is applied, whoever applied it, and it leaves the
\* loop of Migrate at the end only.
PassedInv ==
  \A p \in Processes :
    /\ 1..(next[p] - 1) \subseteq applied
    /\ pc[p] \in {"serving"} \cup Bootstrapping => next[p] > Embedded[p]

StartInv == TypeOK /\ SchemaInOrder /\ PassedInv

\* Every build embeds at least one migration and none beyond the last.
LEMMA EmbeddedType == \A p \in Processes : Embedded[p] \in Nat /\ Embedded[p] \in Versions
BY StartUpConstantsOK DEF Versions

\* In order and each once means: the applied migrations are the first ones.
LEMMA AppliedIsPrefix ==
  ASSUME TypeOK, SchemaInOrder
  PROVE  Len(schema) \in Nat /\ applied = 1..Len(schema)
<1>1. Len(schema) \in Nat /\ DOMAIN schema = 1..Len(schema)
  BY DEF TypeOK
<1> QED
  BY <1>1 DEF SchemaInOrder

\* So a process that has passed the migrations before its next one, and finds
\* that one missing, is at the first that is missing.
LEMMA NextInOrder ==
  ASSUME StartInv, NEW p \in Processes, next[p] \notin applied
  PROVE  next[p] = Len(schema) + 1
<1>1. applied = 1..Len(schema) /\ Len(schema) \in Nat
  BY AppliedIsPrefix DEF StartInv
<1>2. next[p] \in Nat \ {0} /\ 1..(next[p] - 1) \subseteq applied
  BY DEF StartInv, PassedInv, TypeOK
<1>3. next[p] > Len(schema)
  BY <1>1, <1>2
<1>4. next[p] - 1 = 0 \/ next[p] - 1 \in 1..Len(schema)
  BY <1>1, <1>2
<1> QED
  BY <1>1, <1>2, <1>3, <1>4

-----------------------------------------------------------------------------

\* An appended migration keeps the order.
LEMMA ApplyMigrationInOrder ==
  ASSUME StartInv, NEW p \in Processes, ApplyMigration(p)
  PROVE  SchemaInOrder' /\ applied \subseteq applied'
<1>1. CASE schema' = Append(schema, next[p]) /\ applied' = applied \cup {next[p]}
           /\ next[p] \notin applied
  <2>1. next[p] = Len(schema) + 1 /\ Len(schema) \in Nat /\ applied = 1..Len(schema)
    BY <1>1, NextInOrder, AppliedIsPrefix DEF StartInv
  <2>2. next[p] \in Versions
    BY <2>1, EmbeddedType, StartUpConstantsOK, <1>1 DEF ApplyMigration, StartInv, TypeOK, Versions
  <2>3. schema \in Seq(Versions)
    BY DEF StartInv, TypeOK
  <2>4. /\ DOMAIN schema' = 1..(Len(schema) + 1)
        /\ \A k \in 1..Len(schema) : schema'[k] = schema[k]
        /\ schema'[Len(schema) + 1] = Len(schema) + 1
    BY <1>1, <2>1, <2>2, <2>3
  <2>5. \A k \in DOMAIN schema' : schema'[k] = k
    BY <2>1, <2>3, <2>4 DEF StartInv, SchemaInOrder
  <2>6. applied' = 1..(Len(schema) + 1)
    BY <1>1, <2>1
  <2> QED
    BY <1>1, <2>4, <2>5, <2>6 DEF SchemaInOrder
<1>2. CASE UNCHANGED <<schema, applied>>
  BY <1>2 DEF StartInv, SchemaInOrder
<1> QED
  BY <1>1, <1>2 DEF ApplyMigration, Exit, database

\* Every other step leaves the schema and its record alone.
LEMMA OthersKeepSchema ==
  ASSUME NEW p \in Processes,
         Start(p) \/ CreateTracker(p) \/ CheckVersion(p) \/ CountUsers(p)
           \/ InsertAdmin(p) \/ SetPassword(p) \/ Stop(p)
  PROVE  UNCHANGED <<applied, schema>>
BY DEF Start, CreateTracker, CheckVersion, CountUsers, InsertAdmin, SetPassword, Stop,
       Exit, database

\* No step breaks the order or takes a migration back.
LEMMA SchemaStep ==
  ASSUME StartInv, [Next]_startUpVars
  PROVE  SchemaInOrder' /\ applied \subseteq applied'
<1>1. CASE UNCHANGED <<applied, schema>>
  BY <1>1 DEF StartInv, SchemaInOrder
<1>2. ASSUME NEW p \in Processes, ApplyMigration(p)
      PROVE  SchemaInOrder' /\ applied \subseteq applied'
  BY <1>2, ApplyMigrationInOrder
<1>3. CASE UNCHANGED startUpVars
  BY <1>1, <1>3 DEF startUpVars, database
<1> QED
  BY <1>1, <1>2, <1>3, OthersKeepSchema DEF Next, Proceed

-----------------------------------------------------------------------------

\* The type invariant is inductive on its own.
LEMMA TypeStep ==
  ASSUME TypeOK, [Next]_startUpVars
  PROVE  TypeOK'
<1> USE EmbeddedType DEF TypeOK, GoTo, Migrating, Bootstrapping
<1>1. ASSUME NEW p \in Processes, Start(p)
      PROVE  TypeOK'
  BY <1>1 DEF Start, database, Versions
<1>2. ASSUME NEW p \in Processes, CreateTracker(p)
      PROVE  TypeOK'
  BY <1>2 DEF CreateTracker
<1>3. ASSUME NEW p \in Processes, CheckVersion(p)
      PROVE  TypeOK'
  <2>1. CASE GoTo(p, "count") /\ UNCHANGED next
    BY <1>3, <2>1 DEF CheckVersion, database
  <2>2. CASE next[p] <= Embedded[p] /\ next' = [next EXCEPT ![p] = @ + 1] /\ UNCHANGED pc
    BY <1>3, <2>2 DEF CheckVersion, database
  <2>3. CASE next[p] <= Embedded[p] /\ GoTo(p, "apply") /\ UNCHANGED next
    BY <1>3, <2>3 DEF CheckVersion, database
  <2>4. next[p] \in Nat /\ Embedded[p] \in Nat
    OBVIOUS
  <2> QED
    BY <1>3, <2>1, <2>2, <2>3, <2>4 DEF CheckVersion
<1>4. ASSUME NEW p \in Processes, ApplyMigration(p)
      PROVE  TypeOK'
  <2>1. next[p] \in Versions
    BY <1>4, StartUpConstantsOK DEF ApplyMigration, Versions
  <2>2. CASE Exit(p) /\ UNCHANGED stops
    BY <2>2 DEF Exit, database
  <2>3. CASE /\ schema' = Append(schema, next[p]) /\ applied' = applied \cup {next[p]}
             /\ GoTo(p, "check") /\ next' = [next EXCEPT ![p] = @ + 1]
             /\ UNCHANGED <<tracker, admin, halfway, stops>>
    <3>1. schema' \in Seq(Versions) /\ applied' \subseteq Versions
      BY <2>1, <2>3
    <3>2. next[p] <= Embedded[p]
      BY <1>4 DEF ApplyMigration
    <3> QED
      BY <2>3, <3>1, <3>2
  <2> QED
    BY <1>4, <2>2, <2>3 DEF ApplyMigration
<1>5. ASSUME NEW p \in Processes, CountUsers(p) \/ InsertAdmin(p) \/ SetPassword(p)
      PROVE  TypeOK'
  BY <1>5 DEF CountUsers, InsertAdmin, SetPassword, Exit, database
<1>6. ASSUME NEW p \in Processes, Stop(p)
      PROVE  TypeOK'
  BY <1>6, StartUpConstantsOK DEF Stop, database
<1>7. CASE UNCHANGED startUpVars
  BY <1>7 DEF startUpVars, database
<1> QED
  BY <1>1, <1>2, <1>3, <1>4, <1>5, <1>6, <1>7 DEF Next, Proceed

\* What others apply never invalidates what a process has passed.
LEMMA PassedStep ==
  ASSUME StartInv, [Next]_startUpVars
  PROVE  PassedInv'
<1> SUFFICES ASSUME NEW q \in Processes
             PROVE  /\ 1..(next'[q] - 1) \subseteq applied'
                    /\ pc'[q] \in {"serving"} \cup Bootstrapping => next'[q] > Embedded[q]
  BY DEF PassedInv
<1>1. /\ 1..(next[q] - 1) \subseteq applied'
      /\ pc[q] \in {"serving"} \cup Bootstrapping => next[q] > Embedded[q]
  BY SchemaStep DEF StartInv, PassedInv
<1>2. next[q] \in Nat \ {0} /\ Embedded[q] \in Nat
  BY EmbeddedType DEF StartInv, TypeOK
<1> USE DEF GoTo, Migrating, Bootstrapping
<1>3. ASSUME NEW p \in Processes, Start(p)
      PROVE  /\ 1..(next'[q] - 1) \subseteq applied'
             /\ pc'[q] \in {"serving"} \cup Bootstrapping => next'[q] > Embedded[q]
  BY <1>1, <1>2, <1>3 DEF Start, StartInv, TypeOK
<1>4. ASSUME NEW p \in Processes, CheckVersion(p)
      PROVE  /\ 1..(next'[q] - 1) \subseteq applied'
             /\ pc'[q] \in {"serving"} \cup Bootstrapping => next'[q] > Embedded[q]
  <2>1. /\ pc \in [Processes -> {"down", "serving"} \cup Migrating \cup Bootstrapping]
        /\ next \in [Processes -> Nat \ {0}] /\ applied' = applied
    BY <1>4 DEF StartInv, TypeOK, CheckVersion, database
  <2>2. CASE next[p] > Embedded[p]
    <3>1. next' = next /\ pc' = [pc EXCEPT ![p] = "count"]
      BY <1>4, <2>2 DEF CheckVersion
    <3> QED
      BY <1>1, <2>1, <2>2, <3>1
  <2>3. CASE next[p] \in applied /\ ~(next[p] > Embedded[p])
    <3>1. next' = [next EXCEPT ![p] = next[p] + 1] /\ pc' = pc /\ pc[p] = "check"
      BY <1>4, <2>3 DEF CheckVersion
    <3>2. CASE q = p
      <4>1. next'[q] = next[q] + 1 /\ pc'[q] = "check"
        BY <2>1, <3>1, <3>2
      <4>2. 1..(next'[q] - 1) \subseteq 1..(next[q] - 1) \cup {next[q]}
        BY <1>2, <4>1
      <4> QED
        BY <1>1, <2>1, <2>3, <3>2, <4>1, <4>2
    <3> QED
      BY <1>1, <2>1, <3>1, <3>2
  <2>4. CASE next[p] \notin applied /\ ~(next[p] > Embedded[p])
    <3>1. next' = next /\ pc' = [pc EXCEPT ![p] = "apply"]
      BY <1>4, <2>4 DEF CheckVersion
    <3> QED
      BY <1>1, <2>1, <3>1
  <2> QED
    BY <2>2, <2>3, <2>4
<1>5. ASSUME NEW p \in Processes, ApplyMigration(p)
      PROVE  /\ 1..(next'[q] - 1) \subseteq applied'
             /\ pc'[q] \in {"serving"} \cup Bootstrapping => next'[q] > Embedded[q]
  BY <1>1, <1>2, <1>5 DEF ApplyMigration, StartInv, TypeOK, Exit, database
<1>6. ASSUME NEW p \in Processes,
             CreateTracker(p) \/ CountUsers(p) \/ InsertAdmin(p) \/ SetPassword(p) \/ Stop(p)
      PROVE  /\ 1..(next'[q] - 1) \subseteq applied'
             /\ pc'[q] \in {"serving"} \cup Bootstrapping => next'[q] > Embedded[q]
  BY <1>1, <1>2, <1>6 DEF CreateTracker, CountUsers, InsertAdmin, SetPassword, Stop,
                          Exit, StartInv, TypeOK, database
<1>7. CASE UNCHANGED startUpVars
  BY <1>1, <1>7 DEF startUpVars, database
<1> QED
  BY <1>3, <1>4, <1>5, <1>6, <1>7 DEF Next, Proceed

-----------------------------------------------------------------------------

\* The three parts together are inductive: SchemaInOrder needs PassedInv when a
\* migration is appended, PassedInv needs that applied only grows.
LEMMA StartInvHolds == Spec => []StartInv
<1>1. Init => StartInv
  <2> SUFFICES ASSUME Init
               PROVE  StartInv
    OBVIOUS
  <2>1. \A p \in Processes : next[p] = 1 /\ pc[p] = "down"
    BY DEF Init
  <2>2. next \in [Processes -> Nat \ {0}] /\ pc \in [Processes -> {"down"}]
    BY DEF Init
  <2>3. ASSUME NEW p \in Processes
        PROVE  1 <= Embedded[p] + 1
    <3>1. Embedded[p] \in Nat
      BY EmbeddedType
    <3> QED
      BY <3>1
  <2>4. schema \in Seq(Versions) /\ DOMAIN schema = {} /\ applied = {}
    BY DEF Init
  <2>5. stops \in 0..MaxStops
    BY StartUpConstantsOK DEF Init
  <2>6. pc \in [Processes -> {"down", "serving"} \cup Migrating \cup Bootstrapping]
    BY <2>2
  <2>7. TypeOK
    BY <2>1, <2>2, <2>3, <2>4, <2>5, <2>6 DEF Init, TypeOK
  <2>8. SchemaInOrder
    BY <2>4 DEF SchemaInOrder
  <2>9. PassedInv
    <3> SUFFICES ASSUME NEW p \in Processes
                 PROVE  1..(next[p] - 1) = {} /\ pc[p] \notin {"serving"} \cup Bootstrapping
      BY DEF PassedInv
    <3>1. next[p] = 1 /\ pc[p] = "down"
      BY <2>1
    <3>2. 1..(next[p] - 1) = {}
      BY <3>1
    <3> QED
      BY <3>1, <3>2 DEF Bootstrapping
  <2> QED
    BY <2>7, <2>8, <2>9 DEF StartInv
<1>2. StartInv /\ [Next]_startUpVars => StartInv'
  BY TypeStep, SchemaStep, PassedStep DEF StartInv
<1> QED
  BY <1>1, <1>2, PTL DEF Spec

\* The start of every process keeps its types; its loop never runs past the
\* migrations of its build.
THEOREM TypeCorrect == Spec => []TypeOK
<1>1. StartInv => TypeOK
  BY DEF StartInv
<1> QED
  BY <1>1, StartInvHolds, PTL

\* However many processes run Migrate and wherever they die, migrations are
\* committed in order, each once, and schema_migrations names exactly those.
THEOREM MigrationsInOrder == Spec => []SchemaInOrder
<1>1. StartInv => SchemaInOrder
  BY DEF StartInv
<1> QED
  BY <1>1, StartInvHolds, PTL

\* Whoever serves, or creates the first account, has every migration of its
\* build, although others may have run them.
THEOREM NobodyServesEarly == Spec => []ServesComplete
<1>1. StartInv => ServesComplete
  <2> SUFFICES ASSUME StartInv, NEW p \in Processes, pc[p] \in {"serving"} \cup Bootstrapping
               PROVE  1..Embedded[p] \subseteq applied
    BY DEF ServesComplete
  <2>1. next[p] > Embedded[p] /\ 1..(next[p] - 1) \subseteq applied
    BY DEF StartInv, PassedInv
  <2>2. next[p] \in Nat /\ Embedded[p] \in Nat
    BY EmbeddedType DEF StartInv, TypeOK
  <2> QED
    BY <2>1, <2>2
<1> QED
  BY <1>1, StartInvHolds, PTL

-----------------------------------------------------------------------------
(* The first account.  Nothing but a process stopped between the two writes  *)
(* of bootstrapAdmin leaves an account without a password for good.          *)

LockedNeedsCrash ==
  /\ admin = "locked" => halfway \/ \E p \in Processes : pc[p] = "password"
  /\ (\E p \in Processes : pc[p] = "serving") => admin # "absent"

LEMMA LockedStep ==
  ASSUME TypeOK, LockedNeedsCrash, [Next]_startUpVars
  PROVE  LockedNeedsCrash'
<1> USE DEF GoTo
<1>1. pc \in [Processes -> {"down", "serving"} \cup Migrating \cup Bootstrapping]
  BY DEF TypeOK
<1>2. ASSUME NEW p \in Processes,
             Start(p) \/ CreateTracker(p) \/ CheckVersion(p) \/ ApplyMigration(p)
      PROVE  LockedNeedsCrash'
  <2>1. admin' = admin /\ halfway' = halfway /\ pc[p] # "password"
    BY <1>2 DEF Start, CreateTracker, CheckVersion, ApplyMigration, Exit, database
  <2>2. pc'[p] # "serving" /\ \A q \in Processes \ {p} : pc'[q] = pc[q]
    BY <1>1, <1>2 DEF Start, CreateTracker, CheckVersion, ApplyMigration, Exit
  <2> QED
    BY <2>1, <2>2 DEF LockedNeedsCrash
<1>3. ASSUME NEW p \in Processes, CountUsers(p) PROVE LockedNeedsCrash'
  <2>1. /\ admin' = admin /\ halfway' = halfway /\ pc[p] = "count"
        /\ \A q \in Processes \ {p} : pc'[q] = pc[q]
        /\ admin = "absent" => pc'[p] # "serving"
    BY <1>1, <1>3 DEF CountUsers, database
  <2> QED
    BY <2>1 DEF LockedNeedsCrash
<1>4. ASSUME NEW p \in Processes, InsertAdmin(p) PROVE LockedNeedsCrash'
  <2>1. /\ halfway' = halfway /\ pc[p] = "insert" /\ \A q \in Processes \ {p} : pc'[q] = pc[q]
        /\ \/ admin' = "locked" /\ pc'[p] = "password"
           \/ admin' = admin /\ pc'[p] = "down"
    BY <1>1, <1>4 DEF InsertAdmin, Exit, database
  <2> QED
    BY <2>1 DEF LockedNeedsCrash
<1>5. ASSUME NEW p \in Processes, SetPassword(p) PROVE LockedNeedsCrash'
  BY <1>5 DEF SetPassword, LockedNeedsCrash
<1>6. ASSUME NEW p \in Processes, Stop(p) PROVE LockedNeedsCrash'
  <2>1. /\ admin' = admin /\ halfway' = (halfway \/ pc[p] = "password")
        /\ pc'[p] = "down" /\ \A q \in Processes \ {p} : pc'[q] = pc[q]
    BY <1>1, <1>6 DEF Stop, database
  <2> QED
    BY <2>1 DEF LockedNeedsCrash
<1>7. CASE UNCHANGED startUpVars
  BY <1>7 DEF startUpVars, database, LockedNeedsCrash
<1> QED
  BY <1>2, <1>3, <1>4, <1>5, <1>6, <1>7 DEF Next, Proceed

\* While somebody serves, the first account exists; and it lacks a password
\* only as long as a process is about to set it, unless one was stopped there.
THEOREM LockedOutNeedsCrash == Spec => []LockedNeedsCrash
<1>1. Init => LockedNeedsCrash
  BY DEF Init, LockedNeedsCrash
<1>2. TypeOK /\ LockedNeedsCrash /\ [Next]_startUpVars => LockedNeedsCrash'
  BY LockedStep
<1> QED
  BY <1>1, <1>2, TypeCorrect, PTL DEF Spec
=============================================================================
