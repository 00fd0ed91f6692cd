------------------------- MODULE Migrations_proofs -------------------------
(***************************************************************************)
(* Theorems about Migrations, for every choice of deployed revisions and   *)
(* every number of deployments, downgrades, crashes and inserts.  What     *)
(* they need to know of the revisions themselves RevisionPaths states.     *)
(***************************************************************************)
EXTENDS RevisionPaths, TLAPS

Running == migrator.state = "running"
MigratorRecord == [state : Ends, up : BOOLEAN, rev : 0..Newest,
                   next : Nat \ {0}, target : 0..Newest]

\* A migrator that runs is at the revision next to the version; one that
\* upgrades does so to the version of the code; and when it has ended well the
\* database has that version.
Control ==
    /\ version \in 0..Newest /\ code \in 0..Newest
    /\ migrator \in MigratorRecord
    /\ migrator.up => migrator.target = code /\ (migrator.state = "done" => version = code)
    /\ Running => /\ migrator.rev \in 1..Newest
                  /\ migrator.next <= Len(Operations) + 1
                  /\ IF migrator.up
                     THEN migrator.rev = version + 1 /\ version < code
                     ELSE migrator.rev = version /\ migrator.target = version - 1

LEMMA ControlInit == Init => Control
  BY RevisionsAreLists DEF Init, Control, MigratorRecord, Ends, Running

\* The migrator a deployment or the end of an upgrade starts.
LEMMA MigratorUp ==
    ASSUME NEW m, NEW rev \in 0..Newest, NEW target \in 0..Newest, rev <= target,
           m = Migrator(TRUE, rev, target)
    PROVE  /\ m \in MigratorRecord
           /\ m.up = TRUE /\ m.target = target /\ m.next = 1
           /\ rev = target => m.state = "done"
           /\ rev # target => m.state = "running" /\ m.rev = rev + 1
<1>1. CASE rev = target
  BY <1>1, RevisionsAreLists DEF Migrator, MigratorRecord, Ends
<1>2. CASE rev # target
  <2>1. rev + 1 \in 0..Newest
    BY <1>2, RevisionsAreLists
  <2>2. QED
    BY <1>2, <2>1, RevisionsAreLists DEF Migrator, MigratorRecord, Ends
<1>3. QED
  BY <1>1, <1>2

\* The migrator a downgrade or its end starts.
LEMMA MigratorDown ==
    ASSUME NEW m, NEW rev \in 0..Newest, NEW target \in 0..Newest,
           m = Migrator(FALSE, rev, target)
    PROVE  /\ m \in MigratorRecord
           /\ m.up = FALSE /\ m.target = target /\ m.next = 1 /\ m.rev = rev
           /\ rev = target => m.state = "done"
           /\ rev # target => m.state = "running"
  BY RevisionsAreLists DEF Migrator, MigratorRecord, Ends

LEMMA OperationsCounted ==
    ASSUME Control, Running
    PROVE  Len(Operations) \in Nat
  BY RevisionsAreLists DEF Control, Operations

LEMMA DeployControl ==
    ASSUME Control, NEW v \in Deployable, Deploy(v)
    PROVE  Control'
<1>1. v \in 1..Newest /\ v \in 0..Newest
  BY MigrationsAssumption, RevisionsAreLists
<1>2. /\ version' = version /\ version \in 0..Newest /\ version <= v
      /\ code' = v /\ migrator' = Migrator(TRUE, version, v)
  BY DEF Deploy, database, Control
<1>3. /\ migrator' \in MigratorRecord
      /\ migrator'.up = TRUE /\ migrator'.target = v /\ migrator'.next = 1
      /\ version = v => migrator'.state = "done"
      /\ version # v => migrator'.state = "running" /\ migrator'.rev = version + 1
  BY <1>1, <1>2, MigratorUp
<1>4. version # v => version + 1 \in 1..Newest /\ version < v
  BY <1>1, <1>2, RevisionsAreLists
<1>5. version # v => Len(Operations') \in Nat
  BY <1>3, <1>4, RevisionsAreLists DEF Operations
<1>6. CASE version = v
  BY <1>1, <1>2, <1>3, <1>6 DEF Control, Running
<1>7. CASE version # v
  <2>1. migrator'.next <= Len(Operations') + 1
    BY <1>3, <1>5, <1>7
  <2>2. /\ migrator'.rev = version' + 1 /\ version' < code' /\ migrator'.state # "done"
        /\ migrator'.rev \in 1..Newest
    BY <1>2, <1>3, <1>4, <1>7
  <2>3. version' \in 0..Newest /\ code' \in 0..Newest /\ migrator'.target = code'
    BY <1>1, <1>2, <1>3
  <2>4. QED
    BY <1>3, <2>1, <2>2, <2>3 DEF Control
<1>8. QED
  BY <1>6, <1>7

LEMMA DowngradeControl ==
    ASSUME Control, Downgrade
    PROVE  Control'
<1>1. /\ version' = version /\ version \in 0..Newest /\ version > 0 /\ code' = code
      /\ migrator' = Migrator(FALSE, version, version - 1)
  BY DEF Downgrade, database, Control
<1>2. version \in 1..Newest /\ version - 1 \in 0..Newest /\ version # version - 1
  BY <1>1, RevisionsAreLists
<1>3. /\ migrator' \in MigratorRecord
      /\ migrator'.up = FALSE /\ migrator'.target = version - 1
      /\ migrator'.next = 1 /\ migrator'.state = "running" /\ migrator'.rev = version
  BY <1>1, <1>2 DEF Migrator, MigratorRecord, Ends
<1>4. Len(Operations') \in Nat
  BY <1>2, <1>3, RevisionsAreLists DEF Operations
<1>5. migrator'.next <= Len(Operations') + 1
  BY <1>3, <1>4
<1>6. version' \in 0..Newest /\ code' \in 0..Newest /\ migrator'.rev = version'
      /\ migrator'.target = version' - 1 /\ migrator'.rev \in 1..Newest
  BY <1>1, <1>2, <1>3 DEF Control
<1>7. QED
  BY <1>3, <1>5, <1>6 DEF Control

LEMMA EndRevisionControl ==
    ASSUME Control, EndRevision
    PROVE  Control'
<1>1. Running /\ code' = code /\ version \in 0..Newest /\ code \in 0..Newest
  BY DEF EndRevision, Running, Control
<1>2. CASE migrator.up
  <2>1. /\ version' = version + 1 /\ version < code /\ migrator.target = code
        /\ migrator' = Migrator(migrator.up, version + 1, code)
    BY <1>1, <1>2 DEF EndRevision, Control
  <2>2. migrator.up = TRUE
    BY <1>2 DEF Control, MigratorRecord
  <2>3. version + 1 \in 0..Newest /\ version + 1 <= code
    BY <1>1, <2>1, RevisionsAreLists
  <2>4. /\ migrator' \in MigratorRecord
        /\ migrator'.up = TRUE /\ migrator'.target = code /\ migrator'.next = 1
        /\ version' = code => migrator'.state = "done"
        /\ version' # code => migrator'.state = "running" /\ migrator'.rev = version' + 1
    <3>1. migrator' = Migrator(TRUE, version', code)
      BY <2>1, <2>2
    <3>2. version' \in 0..Newest /\ version' <= code
      BY <2>1, <2>3
    <3>3. QED
      BY <1>1, <3>1, <3>2, MigratorUp
  <2>5. version' # code => version' + 1 \in 1..Newest /\ version' < code
    BY <1>1, <2>1, <2>3, RevisionsAreLists
  <2>6. version' # code => Len(Operations') \in Nat
    BY <2>4, <2>5, RevisionsAreLists DEF Operations
  <2>7. version' # code => migrator'.next <= Len(Operations') + 1
    BY <2>4, <2>6
  <2>8. version' \in 0..Newest /\ code' \in 0..Newest /\ migrator'.target = code'
    BY <1>1, <2>1, <2>3, <2>4
  <2>9. CASE version' = code
    BY <1>1, <2>4, <2>8, <2>9 DEF Control, Running
  <2>10. CASE version' # code
    <3>1. /\ migrator'.rev = version' + 1 /\ version' < code' /\ migrator'.state # "done"
          /\ migrator'.rev \in 1..Newest
      BY <1>1, <2>4, <2>5, <2>10
    <3>2. QED
      BY <2>4, <2>7, <2>8, <2>10, <3>1 DEF Control
  <2>11. QED
    BY <2>9, <2>10
<1>3. CASE ~migrator.up
  <2>1. /\ version' = version - 1 /\ version \in 1..Newest
        /\ migrator' = Migrator(migrator.up, version - 1, version - 1)
    BY <1>1, <1>3 DEF EndRevision, Control
  <2>2. migrator.up = FALSE
    BY <1>3 DEF Control, MigratorRecord
  <2>3. version - 1 \in 0..Newest
    BY <2>1, RevisionsAreLists
  <2>4. migrator' \in MigratorRecord /\ migrator'.up = FALSE /\ migrator'.state = "done"
    BY <2>1, <2>2, <2>3, MigratorDown
  <2>5. QED
    BY <1>1, <2>1, <2>3, <2>4 DEF Control, Running
<1>4. QED
  BY <1>2, <1>3

LEMMA ControlStep == Control /\ [Next]_vars => Control'
<1> SUFFICES ASSUME Control, [Next]_vars PROVE Control'
  OBVIOUS
<1>1. CASE \E v \in Deployable : Deploy(v)
  BY <1>1, DeployControl
<1>2. CASE Downgrade
  BY <1>2, DowngradeControl
<1>3. CASE EndRevision
  BY <1>3, EndRevisionControl
<1>4. CASE Apply
  <2>1. Running /\ Len(Operations) \in Nat /\ migrator.next <= Len(Operations)
    BY <1>4, OperationsCounted DEF Apply, Running
  <2>2. /\ migrator' = [migrator EXCEPT !.next = @ + 1] /\ UNCHANGED <<version, code>>
        /\ migrator \in MigratorRecord
    BY <1>4 DEF Apply, Control
  <2>3. /\ migrator' \in MigratorRecord /\ migrator'.next = migrator.next + 1
        /\ migrator'.state = migrator.state /\ migrator'.up = migrator.up
        /\ migrator'.rev = migrator.rev /\ migrator'.target = migrator.target
    BY <2>2 DEF MigratorRecord
  <2>4. Operations' = Operations
    BY <2>3 DEF Operations
  <2>5. migrator.next \in Nat
    BY <2>2 DEF MigratorRecord
  <2>6. QED
    BY <2>1, <2>2, <2>3, <2>4, <2>5 DEF Control, Running
<1>5. CASE Refuse \/ Kill
  <2>1. /\ migrator' = [migrator EXCEPT !.state = "refused"]
           \/ migrator' = [migrator EXCEPT !.state = "killed"]
        /\ UNCHANGED <<version, code>> /\ migrator \in MigratorRecord
    BY <1>5 DEF Refuse, Kill, Killed, Control, database
  <2>2. /\ migrator' \in MigratorRecord /\ migrator'.state \in {"refused", "killed"}
        /\ migrator'.up = migrator.up /\ migrator'.target = migrator.target
    BY <2>1 DEF MigratorRecord, Ends
  <2>3. QED
    BY <2>1, <2>2 DEF Control, Running
<1>6. CASE ReplaceApi \/ Serve \/ UNCHANGED vars
  <2>1. UNCHANGED <<version, code, migrator>>
    BY <1>6 DEF ReplaceApi, Serve, Serves, Insert, vars, database
  <2>2. QED
    BY <2>1 DEF Control, Running, Operations
<1>7. QED
  BY <1>1, <1>2, <1>3, <1>4, <1>5, <1>6 DEF Next
-----------------------------------------------------------------------------
(* The schema: between two runs of the migrator the database is at one of  *)
(* Places, and while it runs on the path from there, as long as no         *)
(* downgrade was cut off.                                                  *)
PathOf(x) == IF migrator.up THEN PathUp(x) ELSE PathDown(x)
At(x) ==
    /\ x.version = version /\ x.touched <= code
    /\ IF Running
       THEN migrator.next \in DOMAIN PathOf(x) /\ schema = PathOf(x)[migrator.next]
       ELSE schema = x.schema
SchemaInv == ~halfUndone => \E x \in Places : At(x)

\* Every stop on the way up is a place, and so are the ends of both ways.
LEMMA StopsUp ==
    ASSUME NEW x \in Places, x.version < Newest, NEW k \in DOMAIN PathUp(x)
    PROVE  /\ Place(x.version, PathUp(x)[k], Touching(x)) \in Places
           /\ k = Len(Upgrades[x.version + 1]) + 1 =>
                 Place(x.version + 1, PathUp(x)[k], Touching(x)) \in Places
<1>1. UpFrom(x) \subseteq Places
  BY PlacesClosed DEF NextPlaces
<1>2. Place(x.version, PathUp(x)[k], Touching(x)) \in UpFrom(x)
  BY DEF UpFrom
<1>3. k = Len(Upgrades[x.version + 1]) + 1 =>
          Place(x.version + 1, PathUp(x)[k], Touching(x)) \in UpFrom(x)
  BY DEF UpFrom
<1>4. QED
  BY <1>1, <1>2, <1>3

LEMMA EndDown ==
    ASSUME NEW x \in Places, x.version > 0, NEW k \in DOMAIN PathDown(x),
           k = Len(Downgrades[x.version]) + 1
    PROVE  Place(x.version - 1, PathDown(x)[k], x.touched) \in Places
<1>1. DownFrom(x) \subseteq Places
  BY PlacesClosed DEF NextPlaces
<1>2. QED
  BY <1>1 DEF DownFrom

LEMMA PlaceFields ==
    ASSUME NEW v, NEW s, NEW t
    PROVE  /\ Place(v, s, t).version = v /\ Place(v, s, t).schema = s
           /\ Place(v, s, t).touched = t
  BY DEF Place

LEMMA PlaceTyped ==
    ASSUME NEW x \in Places
    PROVE  x.version \in Nat /\ x.version <= Newest /\ x.touched \in Nat
  BY PlacesClosed, RevisionsAreLists

\* What a running migrator works through is the path from where it started.
LEMMA RunningPath ==
    ASSUME Control, Running, NEW x \in Places, x.version = version
    PROVE  /\ IsPath(PathOf(x), x.schema, Operations)
           /\ migrator.up = TRUE => /\ x.version < Newest
                                    /\ Operations = Upgrades[x.version + 1]
           /\ migrator.up = FALSE => /\ x.version > 0
                                     /\ Operations = Downgrades[x.version]
<1>1. CASE migrator.up = TRUE
  <2>1. version < Newest /\ migrator.rev = version + 1
    BY <1>1, RevisionsAreLists DEF Control
  <2>2. Operations = Upgrades[x.version + 1]
    BY <1>1, <2>1 DEF Operations
  <2>3. QED
    BY <1>1, <2>1, <2>2, PlacesClosed DEF PathOf
<1>2. CASE migrator.up = FALSE
  <2>1. version > 0 /\ migrator.rev = version
    BY <1>2, RevisionsAreLists DEF Control
  <2>2. Operations = Downgrades[x.version]
    BY <1>2, <2>1 DEF Operations
  <2>3. QED
    BY <1>2, <2>1, <2>2, PlacesClosed DEF PathOf
<1>3. QED
  BY <1>1, <1>2 DEF Control, MigratorRecord

LEMMA FirstStop ==
    ASSUME NEW x \in Places
    PROVE  /\ x.version < Newest => 1 \in DOMAIN PathUp(x) /\ PathUp(x)[1] = x.schema
           /\ x.version > 0 => 1 \in DOMAIN PathDown(x) /\ PathDown(x)[1] = x.schema
  BY PlacesClosed DEF IsPath

\* A migrator that starts, and one that does not run, is at a place.
LEMMA AtStart ==
    ASSUME Control', NEW x \in Places, x.version = version', x.touched <= code',
           schema' = x.schema, Running' => migrator'.next = 1
    PROVE  At(x)'
<1>1. CASE Running' /\ migrator'.up = TRUE
  <2>1. x.version < Newest
    BY <1>1, RevisionsAreLists DEF Control
  <2>2. PathOf(x)' = PathUp(x)
    BY <1>1 DEF PathOf
  <2>3. QED
    BY <1>1, <2>1, <2>2, FirstStop DEF At
<1>2. CASE Running' /\ migrator'.up = FALSE
  <2>1. x.version > 0
    BY <1>2, RevisionsAreLists DEF Control
  <2>2. PathOf(x)' = PathDown(x)
    BY <1>2 DEF PathOf
  <2>3. QED
    BY <1>2, <2>1, <2>2, FirstStop DEF At
<1>3. CASE ~Running'
  BY <1>3 DEF At
<1>4. QED
  BY <1>1, <1>2, <1>3 DEF Control, MigratorRecord

\* One more operation is one more stop on the path.
LEMMA ApplyMoves ==
    ASSUME Control, NEW x \in Places, At(x), Apply
    PROVE  At(x)'
<1>1. /\ Running /\ Running' /\ x.version = version /\ version' = version /\ code' = code
      /\ schema' = After(schema, Pending) /\ Suits(schema, Pending)
      /\ migrator.next <= Len(Operations)
  BY DEF Apply, At, Running, Accepts, Control, MigratorRecord
<1>2. migrator'.next = migrator.next + 1 /\ PathOf(x)' = PathOf(x)
  BY DEF Apply, PathOf, Control, MigratorRecord
<1>3. migrator.next \in DOMAIN PathOf(x) /\ schema = PathOf(x)[migrator.next]
  BY <1>1 DEF At
<1>4. IsPath(PathOf(x), x.schema, Operations)
  BY <1>1, RunningPath
<1>5. migrator.next \in 1..Len(Operations)
  BY <1>1, OperationsCounted DEF Control, MigratorRecord
<1>6. /\ migrator.next + 1 \in DOMAIN PathOf(x)
      /\ PathOf(x)[migrator.next + 1] = After(PathOf(x)[migrator.next], Operations[migrator.next])
  BY <1>1, <1>3, <1>4, <1>5 DEF IsPath, Pending
<1>7. QED
  BY <1>1, <1>2, <1>3, <1>6 DEF At, Pending

\* A revision that ends leaves a place of the next version or of the one before.
LEMMA EndMoves ==
    ASSUME Control, Control', NEW x \in Places, At(x), EndRevision
    PROVE  \E y \in Places : At(y)'
<1>1. /\ Running /\ x.version = version /\ x.touched <= code /\ code' = code
      /\ schema' = schema /\ migrator.next > Len(Operations)
      /\ migrator' = Migrator(migrator.up, version', migrator.target)
      /\ version' = IF migrator.up THEN migrator.rev ELSE migrator.rev - 1
  BY DEF EndRevision, At, Running
<1>2. migrator.next \in DOMAIN PathOf(x) /\ schema = PathOf(x)[migrator.next]
  BY <1>1 DEF At
<1>3. migrator.next = Len(Operations) + 1
  BY <1>1, OperationsCounted DEF Control, MigratorRecord
<1>4. migrator'.next = 1
  BY <1>1 DEF Migrator
<1>5. CASE migrator.up = TRUE
  <2>1. /\ x.version < Newest /\ Operations = Upgrades[x.version + 1]
        /\ PathOf(x) = PathUp(x) /\ version' = x.version + 1 /\ version < code
    BY <1>1, <1>5, RunningPath DEF PathOf, Control
  <2> DEFINE y == Place(x.version + 1, schema, Touching(x))
  <2>2. y \in Places
    BY <1>2, <1>3, <2>1, StopsUp
  <2>3. y.version = version' /\ y.schema = schema'
    BY <1>1, <2>1, PlaceFields
  <2>4. Touching(x) <= code /\ y.touched = Touching(x)
    BY <1>1, <2>1, PlaceFields, PlaceTyped, RevisionsAreLists DEF Touching, Control
  <2> HIDE DEF y
  <2>5. QED
    BY <1>1, <1>4, <2>2, <2>3, <2>4, AtStart
<1>6. CASE migrator.up = FALSE
  <2>1. /\ x.version > 0 /\ Operations = Downgrades[x.version]
        /\ PathOf(x) = PathDown(x) /\ version' = x.version - 1
    BY <1>1, <1>6, RunningPath DEF PathOf, Control
  <2> DEFINE y == Place(x.version - 1, schema, x.touched)
  <2>2. y \in Places
    BY <1>2, <1>3, <2>1, EndDown
  <2>3. y.version = version' /\ y.schema = schema' /\ y.touched = x.touched
    BY <1>1, <2>1, PlaceFields
  <2> HIDE DEF y
  <2>4. QED
    BY <1>1, <1>4, <2>2, <2>3, AtStart
<1>7. QED
  BY <1>5, <1>6 DEF Control, MigratorRecord

\* A refused or killed upgrade leaves a place of its version.
LEMMA CutMoves ==
    ASSUME Control, Control', NEW x \in Places, At(x), Refuse \/ Kill, ~halfUndone'
    PROVE  \E y \in Places : At(y)'
<1>1. /\ Running /\ x.version = version /\ x.touched <= code /\ code' = code
      /\ version' = version /\ schema' = schema /\ migrator.up = TRUE
  BY DEF Refuse, Kill, Killed, database, At, Running, Control, MigratorRecord
<1>2. migrator'.state # "running"
  BY DEF Refuse, Kill, Killed, Control, MigratorRecord
<1>3. migrator.next \in DOMAIN PathOf(x) /\ schema = PathOf(x)[migrator.next]
  BY <1>1 DEF At
<1>4. x.version < Newest /\ PathOf(x) = PathUp(x) /\ version < code
  BY <1>1, RunningPath DEF PathOf, Control
<1> DEFINE y == Place(x.version, schema, Touching(x))
<1>5. y \in Places
  BY <1>3, <1>4, StopsUp
<1>6. y.version = version' /\ y.schema = schema'
  BY <1>1, PlaceFields
<1>7. Touching(x) <= code /\ y.touched = Touching(x)
  BY <1>1, <1>4, PlaceFields, PlaceTyped, RevisionsAreLists DEF Touching, Control
<1> HIDE DEF y
<1>8. QED
  BY <1>1, <1>2, <1>5, <1>6, <1>7, AtStart DEF Running

LEMMA SchemaStep == Control /\ Control' /\ SchemaInv /\ [Next]_vars => SchemaInv'
<1> SUFFICES ASSUME Control, Control', SchemaInv, [Next]_vars, ~halfUndone'
             PROVE  \E y \in Places : At(y)'
  BY DEF SchemaInv
<1>1. ~halfUndone
  BY DEF Next, Deploy, ReplaceApi, Downgrade, Apply, Refuse, EndRevision, Kill, Killed,
         Serve, Serves, Insert, vars
<1>2. PICK x \in Places : At(x)
  BY <1>1 DEF SchemaInv
<1>3. CASE (\E v \in Deployable : Deploy(v)) \/ Downgrade
  <2>1. /\ ~Running /\ version' = version /\ schema' = schema
        /\ migrator'.next = 1 /\ code <= code'
    BY <1>3, MigrationsAssumption, RevisionsAreLists
    DEF Deploy, Downgrade, Idle, Running, database, Migrator, Control
  <2>2. x.version = version' /\ schema' = x.schema
    BY <1>2, <2>1 DEF At
  <2>3. x.touched <= code'
    <3>1. x.touched <= code /\ code \in 0..Newest /\ code' \in 0..Newest
      BY <1>2 DEF At, Control
    <3>2. QED
      BY <2>1, <3>1, PlaceTyped, RevisionsAreLists
  <2>4. QED
    BY <2>1, <2>2, <2>3, AtStart
<1>4. CASE Apply
  BY <1>2, <1>4, ApplyMoves
<1>5. CASE EndRevision
  BY <1>2, <1>5, EndMoves
<1>6. CASE Refuse \/ Kill
  BY <1>2, <1>6, CutMoves
<1>7. CASE ReplaceApi \/ Serve \/ UNCHANGED vars
  <2>1. UNCHANGED <<version, code, migrator, schema>>
    BY <1>7 DEF ReplaceApi, Serve, Serves, Insert, vars, database
  <2>2. At(x)'
    BY <1>2, <2>1 DEF At, Running, PathOf
  <2>3. QED
    BY <2>2
<1>8. QED
  BY <1>3, <1>4, <1>5, <1>6, <1>7 DEF Next

\* Control and the place of the database, in every reachable state.
LEMMA WalkInvariant == Spec => [](Control /\ SchemaInv)
<1>1. Init => Control
  BY ControlInit
<1>2. Init => SchemaInv
  <2> SUFFICES ASSUME Init PROVE SchemaInv
    OBVIOUS
  <2> DEFINE x == Place(0, NoSchema, 0)
  <2>1. x \in Places
    BY PlacesClosed
  <2>2. x.version = 0 /\ x.schema = NoSchema /\ x.touched = 0
    BY PlaceFields
  <2> HIDE DEF x
  <2>3. At(x)
    BY <2>2 DEF Init, At, Running
  <2>4. QED
    BY <2>1, <2>3 DEF SchemaInv
<1>3. Control /\ [Next]_vars => Control'
  BY ControlStep
<1>4. Control /\ Control' /\ SchemaInv /\ [Next]_vars => SchemaInv'
  BY SchemaStep
<1>5. QED
  BY <1>1, <1>2, <1>3, <1>4, PTL DEF Spec

\* An upgrade that ends well leaves exactly the schema of its version, however
\* many upgrades were killed, refused or repeated before it and whatever
\* downgrades ran to their end (env.py, do_run_migrations).
THEOREM UpgradesAreWhole == Spec => []DoneIsWhole
<1>1. Control /\ SchemaInv => DoneIsWhole
  <2> SUFFICES ASSUME Control, SchemaInv, Upgraded PROVE schema = SchemaAt[version + 1]
    BY DEF DoneIsWhole
  <2>1. PICK x \in Places : At(x)
    BY DEF SchemaInv, Upgraded
  <2>2. x.version = version /\ x.schema = schema /\ x.touched <= code /\ version = code
    BY <2>1 DEF At, Running, Upgraded, Control
  <2>3. QED
    BY <2>2, PlaceTyped, PlacesWhole
<1>2. QED
  BY <1>1, WalkInvariant, PTL

\* At the newest version that is the schema the models declare
\* (persistence/models).
THEOREM HeadMatchesModels == Spec => []HeadIsModel
<1>1. DoneIsWhole => HeadIsModel
  BY ChainEndsAtModels DEF DoneIsWhole, HeadIsModel
<1>2. QED
  BY <1>1, UpgradesAreWhole, PTL
-----------------------------------------------------------------------------
(* What an operation makes of a schema and of the rows.                    *)
PartTyped(part) == part[1] = "column" => part[3] \in Needs
TableTyped(table) ==
    \A n \in DOMAIN table : /\ n \in Names /\ PartTyped(table[n])
                            /\ n \in Altered => table[n][1] = "column"
TypedSchema(s) == \A t \in DOMAIN s : TableTyped(s[t])

LEMMA WithKeeps ==
    ASSUME NEW table, NEW parts, NEW n \in DOMAIN table
    PROVE  n \in DOMAIN With(table, parts) /\ With(table, parts)[n] = table[n]
  BY DEF With

LEMMA WithAdds ==
    ASSUME NEW table, NEW parts, PartsTyped(parts), NEW p \in parts, p[1] \notin DOMAIN table
    PROVE  p[1] \in DOMAIN With(table, parts) /\ With(table, parts)[p[1]] = p[2]
<1>1. (CHOOSE q \in parts : q[1] = p[1]) = p
  BY DEF PartsTyped
<1>2. QED
  BY <1>1 DEF With

LEMMA WithDomain ==
    ASSUME NEW table, NEW parts, NEW n \in DOMAIN With(table, parts), n \notin DOMAIN table
    PROVE  \E p \in parts : p[1] = n
  BY DEF With

LEMMA WithTyped ==
    ASSUME NEW table, NEW parts, TableTyped(table), PartsTyped(parts)
    PROVE  TableTyped(With(table, parts))
<1> SUFFICES ASSUME NEW n \in DOMAIN With(table, parts)
             PROVE  /\ n \in Names /\ PartTyped(With(table, parts)[n])
                    /\ n \in Altered => With(table, parts)[n][1] = "column"
  BY DEF TableTyped
<1>1. CASE n \in DOMAIN table
  BY <1>1, WithKeeps DEF TableTyped
<1>2. CASE n \notin DOMAIN table
  <2>1. PICK p \in parts : p[1] = n
    BY <1>2, WithDomain
  <2>2. With(table, parts)[n] = p[2]
    BY <1>2, <2>1, WithAdds
  <2>3. QED
    BY <2>1, <2>2 DEF PartsTyped, PartTyped
<1>3. QED
  BY <1>1, <1>2

\* A column stays where the operation neither drops it nor its table.
Drops(op, t, c) == op.table = t /\ (op.do = "drop table" \/ (op.do = "drop" /\ op.name = c))

LEMMA ColumnsStay ==
    ASSUME NEW op \in AllOperations, NEW s, Suits(s, op), NEW t, NEW c \in Columns(s, t),
           ~Drops(op, t, c)
    PROVE  c \in Columns(After(s, op), t)
<1>1. t \in DOMAIN s /\ c \in DOMAIN s[t] /\ s[t][c][1] = "column"
  BY DEF Columns
<1> SUFFICES /\ t \in DOMAIN After(s, op)
             /\ c \in DOMAIN After(s, op)[t] /\ After(s, op)[t][c][1] = "column"
  BY DEF Columns
<1>2. CASE op.do = "create"
  BY <1>1, <1>2 DEF After, Suits
<1>3. CASE op.do = "add"
  BY <1>1, <1>3, WithKeeps DEF After
<1>4. CASE op.do = "add unnamed"
  <2>1. After(s, op) = [s EXCEPT ![op.table] = With(@, {<<FreeName(@), op.is>>})]
    BY <1>4 DEF After
  <2>2. QED
    BY <1>1, <2>1, WithKeeps
<1>5. CASE op.do = "drop"
  <2>1. After(s, op) = [s EXCEPT ![op.table] = Without(@, op.name)]
    BY <1>5 DEF After
  <2>2. CASE op.table = t
    <3>1. c # op.name
      BY <1>5, <2>2 DEF Drops
    <3>2. After(s, op)[t] = [m \in DOMAIN s[t] \ {op.name} |-> s[t][m]]
      BY <1>1, <2>1, <2>2 DEF Without
    <3>3. QED
      BY <1>1, <2>1, <3>1, <3>2
  <2>3. CASE op.table # t
    BY <1>1, <2>1, <2>3
  <2>4. QED
    BY <2>2, <2>3
<1>6. CASE op.do = "drop table"
  BY <1>1, <1>6 DEF After, Without, Drops
<1>7. CASE op.do = "alter"
  <2>1. op.is[1] = "column"
    BY <1>7, OperationsTyped
  <2>2. After(s, op) = [s EXCEPT ![op.table][op.name] = op.is]
    BY <1>7 DEF After
  <2>3. QED
    BY <1>1, <2>1, <2>2
<1>8. CASE op.do = "copy"
  BY <1>1, <1>8 DEF After
<1>9. QED
  BY <1>2, <1>3, <1>4, <1>5, <1>6, <1>7, <1>8, OperationsTyped

LEMMA AfterTyped ==
    ASSUME NEW op \in AllOperations, NEW s, TypedSchema(s), Suits(s, op)
    PROVE  TypedSchema(After(s, op))
<1>1. CASE op.do = "create"
  <2>1. TableTyped(With(NoTable, op.parts))
    <3>1. TableTyped(NoTable)
      BY DEF NoTable, TableTyped
    <3>2. PartsTyped(op.parts)
      BY <1>1, OperationsTyped
    <3>3. QED
      BY <3>1, <3>2, WithTyped
  <2>2. QED
    BY <1>1, <2>1 DEF After, TypedSchema
<1>2. CASE op.do = "add"
  <2>1. TableTyped(With(s[op.table], op.parts))
    BY <1>2, OperationsTyped, WithTyped DEF Suits, TypedSchema
  <2>2. QED
    BY <1>2, <2>1 DEF After, TypedSchema
<1>3. CASE op.do = "add unnamed"
  <2> DEFINE p == <<FreeName(s[op.table]), op.is>>
  <2>1. p[1] \in Names /\ p[1] \notin Altered /\ p[2] = op.is
    <3>1. FreeName(s[op.table]) \in FreeNames
      BY DEF FreeName, FreeNames
    <3>2. FreeName(s[op.table]) \in Names
      BY <3>1 DEF Names
    <3>3. FreeName(s[op.table]) \notin Altered
      BY <3>1, OperationsTyped DEF Altered
    <3>4. QED
      BY <3>2, <3>3
  <2>2. p[2][1] # "column"
    BY <1>3, <2>1, OperationsTyped
  <2> HIDE DEF p
  <2>3. PartsTyped({p})
    BY <1>3, <2>1, <2>2, OperationsTyped DEF PartsTyped, Kinds
  <2>4. TableTyped(With(s[op.table], {p}))
    BY <1>3, <2>3, WithTyped DEF Suits, TypedSchema
  <2>5. After(s, op) = [s EXCEPT ![op.table] = With(@, {p})]
    BY <1>3 DEF After, p
  <2>6. QED
    BY <2>4, <2>5 DEF TypedSchema
<1>4. CASE op.do = "drop"
  <2>1. After(s, op) = [s EXCEPT ![op.table] = Without(@, op.name)]
    BY <1>4 DEF After
  <2>2. op.table \in DOMAIN s => TableTyped(Without(s[op.table], op.name))
    BY DEF TypedSchema, TableTyped, Without
  <2>3. QED
    BY <2>1, <2>2 DEF TypedSchema
<1>5. CASE op.do = "drop table"
  BY <1>5 DEF After, Without, TypedSchema
<1>6. CASE op.do = "alter"
  <2>1. op.name \in Names /\ PartTyped(op.is) /\ op.is[1] = "column"
    BY <1>6, OperationsTyped DEF PartTyped
  <2>2. After(s, op) = [s EXCEPT ![op.table] = [@ EXCEPT ![op.name] = op.is]]
    BY <1>6 DEF After
  <2>3. op.table \in DOMAIN s => TableTyped([s[op.table] EXCEPT ![op.name] = op.is])
    <3> DEFINE table == s[op.table]
               new == [table EXCEPT ![op.name] = op.is]
    <3>1. op.table \in DOMAIN s => TableTyped(table)
      BY DEF TypedSchema
    <3> HIDE DEF table
    <3>2. \A n \in DOMAIN new : n \in DOMAIN table /\ (new[n] = table[n] \/ new[n] = op.is)
      OBVIOUS
    <3> HIDE DEF new
    <3>3. TableTyped(table) => TableTyped(new)
      BY <2>1, <3>2 DEF TableTyped
    <3>4. QED
      BY <3>1, <3>3 DEF new, table
  <2>4. QED
    BY <2>2, <2>3 DEF TypedSchema
<1>7. CASE op.do = "copy"
  BY <1>7 DEF After
<1>8. QED
  BY <1>1, <1>2, <1>3, <1>4, <1>5, <1>6, <1>7, OperationsTyped

AnyRow == UNION {[C -> Values] : C \in SUBSET Names}
TypedRows == [AllTables -> Seq(AnyRow)]
RowsTyped == rows \in [AllTables -> Seq(AnyRow)]

LEMMA RowIs ==
    ASSUME NEW C \in SUBSET Names, NEW row \in [C -> Values]
    PROVE  row \in AnyRow
  BY DEF AnyRow

LEMMA RowHas ==
    ASSUME NEW row \in AnyRow
    PROVE  /\ DOMAIN row \in SUBSET Names
           /\ row \in [DOMAIN row -> Values]
  BY DEF AnyRow

\* A new column holds in an old row what its need says.
LEMMA WidenedValue ==
    ASSUME NEW t, NEW row, NEW parts, PartsTyped(parts)
    PROVE  /\ \A c \in DOMAIN row : c \in DOMAIN Widened(t, row, parts)
                                    /\ Widened(t, row, parts)[c] = row[c]
           /\ \A c \in DOMAIN Widened(t, row, parts) \ DOMAIN row :
                 \E p \in parts : /\ p[1] = c /\ p[2][1] = "column"
                                  /\ Widened(t, row, parts)[c] = Fill(p[2])
<1> DEFINE new == {p \in parts : p[2][1] = "column"}
<1>1. Widened(t, row, parts) =
        [c \in DOMAIN row \cup {p[1] : p \in new} |->
            IF c \in DOMAIN row THEN row[c] ELSE Fill((CHOOSE p \in new : p[1] = c)[2])]
  BY DEF Widened
<1>2. ASSUME NEW c \in {p[1] : p \in new}
      PROVE  \E p \in new : p[1] = c /\ (CHOOSE q \in new : q[1] = c) = p
  <2>1. PICK p \in new : p[1] = c
    OBVIOUS
  <2>2. (CHOOSE q \in new : q[1] = c) \in new /\ (CHOOSE q \in new : q[1] = c)[1] = c
    BY <2>1
  <2>3. QED
    BY <2>2
<1>3. ASSUME NEW c \in DOMAIN Widened(t, row, parts) \ DOMAIN row
      PROVE  \E p \in parts : /\ p[1] = c /\ p[2][1] = "column"
                              /\ Widened(t, row, parts)[c] = Fill(p[2])
  <2>1. c \in {p[1] : p \in new}
    BY <1>1, <1>3
  <2>2. PICK p \in new : p[1] = c /\ (CHOOSE q \in new : q[1] = c) = p
    BY <1>2, <2>1
  <2> HIDE DEF new
  <2>3. Widened(t, row, parts)[c] = Fill((CHOOSE q \in new : q[1] = c)[2])
    BY <1>1, <1>3, <2>1
  <2>4. Widened(t, row, parts)[c] = Fill(p[2])
    BY <2>2, <2>3
  <2> USE DEF new
  <2>5. QED
    BY <2>2, <2>4
<1>4. QED
  BY <1>1, <1>3

LEMMA WidenedTyped ==
    ASSUME NEW t, NEW row \in AnyRow, NEW parts, PartsTyped(parts)
    PROVE  Widened(t, row, parts) \in AnyRow
<1> DEFINE wide == Widened(t, row, parts)
<1>1. wide = [c \in DOMAIN wide |-> wide[c]]
  BY DEF Widened
<1>2. \A c \in DOMAIN wide : c \in Names /\ wide[c] \in Values
  <2> SUFFICES ASSUME NEW c \in DOMAIN wide PROVE c \in Names /\ wide[c] \in Values
    OBVIOUS
  <2>1. CASE c \in DOMAIN row
    BY <2>1, WidenedValue, RowHas
  <2>2. CASE c \notin DOMAIN row
    <3>1. PICK p \in parts : p[1] = c /\ p[2][1] = "column" /\ wide[c] = Fill(p[2])
      BY <2>2, WidenedValue
    <3>2. p[1] \in Names /\ p[2][3] \in Needs
      BY <3>1 DEF PartsTyped
    <3>3. Fill(p[2]) \in Values
      BY <3>2 DEF Fill, Needs, Values
    <3>4. QED
      BY <3>1, <3>2, <3>3
  <2>3. QED
    BY <2>1, <2>2
<1> HIDE DEF wide
<1>3. DOMAIN wide \in SUBSET Names /\ wide \in [DOMAIN wide -> Values]
  BY <1>1, <1>2
<1>4. wide \in AnyRow
  BY <1>3, RowIs
<1>5. QED
  BY <1>4 DEF wide

LEMMA RewrittenTyped ==
    ASSUME NEW op \in AllOperations, NEW row \in AnyRow
    PROVE  Rewritten(row, op) \in AnyRow
<1>1. DOMAIN row \in SUBSET Names /\ row \in [DOMAIN row -> Values]
  BY RowHas
<1>2. CASE op.do = "add"
  BY <1>2, WidenedTyped, OperationsTyped DEF Rewritten
<1>3. CASE op.do = "drop"
  <2>1. Rewritten(row, op) = [c \in DOMAIN row \ {op.name} |-> row[c]]
    BY <1>3 DEF Rewritten
  <2>2. DOMAIN row \ {op.name} \in SUBSET Names
    BY <1>1
  <2>3. Rewritten(row, op) \in [DOMAIN row \ {op.name} -> Values]
    BY <1>1, <2>1
  <2>4. QED
    BY <2>2, <2>3, RowIs
<1>4. CASE op.do = "alter"
  <2>1. Rewritten(row, op) = row \/ Rewritten(row, op) = [row EXCEPT ![op.name] = "garbled"]
    BY <1>4 DEF Rewritten, Converted
  <2>2. Rewritten(row, op) \in [DOMAIN row -> Values]
    BY <1>1, <2>1 DEF Values
  <2>3. QED
    BY <1>1, <2>2, RowIs
<1>5. CASE op.do = "copy"
  <2>1. Rewritten(row, op) = [row EXCEPT ![op.name] = "copied"]
    BY <1>5 DEF Rewritten
  <2>2. Rewritten(row, op) \in [DOMAIN row -> Values]
    BY <1>1, <2>1 DEF Values
  <2>3. QED
    BY <1>1, <2>2, RowIs
<1>6. CASE op.do \in {"create", "add unnamed", "drop table"}
  BY <1>6 DEF Rewritten
<1>7. QED
  BY <1>2, <1>3, <1>4, <1>5, <1>6, OperationsTyped

\* An operation rewrites each row of its table, or drops them with it.
LEMMA RowsAfterIs ==
    ASSUME RowsTyped, NEW op \in AllOperations
    PROVE  /\ RowsAfter(op) \in [AllTables -> Seq(AnyRow)]
           /\ \A t \in AllTables :
                 /\ t # op.table => RowsAfter(op)[t] = rows[t]
                 /\ t = op.table /\ op.do = "drop table" => RowsAfter(op)[t] = <<>>
                 /\ t = op.table /\ op.do # "drop table" =>
                       /\ Len(RowsAfter(op)[t]) = Len(rows[t])
                       /\ DOMAIN RowsAfter(op)[t] = DOMAIN rows[t]
                       /\ \A i \in DOMAIN rows[t] :
                             RowsAfter(op)[t][i] = Rewritten(rows[t][i], op)
<1> SUFFICES ASSUME op.table \in AllTables
             PROVE  /\ RowsAfter(op)[op.table] \in Seq(AnyRow)
                    /\ op.do = "drop table" => RowsAfter(op)[op.table] = <<>>
                    /\ op.do # "drop table" =>
                       /\ Len(RowsAfter(op)[op.table]) = Len(rows[op.table])
                       /\ DOMAIN RowsAfter(op)[op.table] = DOMAIN rows[op.table]
                       /\ \A i \in DOMAIN rows[op.table] :
                             RowsAfter(op)[op.table][i] = Rewritten(rows[op.table][i], op)
  BY DEF RowsTyped, RowsAfter
<1>1. CASE op.do = "drop table"
  <2>1. RowsAfter(op)[op.table] = <<>>
    BY <1>1 DEF RowsTyped, RowsAfter
  <2>2. <<>> \in Seq(AnyRow)
    OBVIOUS
  <2>3. QED
    BY <1>1, <2>1, <2>2
<1>2. CASE op.do # "drop table"
  <2> DEFINE old == rows[op.table]
             new == [i \in DOMAIN old |-> Rewritten(old[i], op)]
  <2>1. old \in Seq(AnyRow)
    BY DEF RowsTyped
  <2>2. RowsAfter(op)[op.table] = new
    BY <1>2 DEF RowsTyped, RowsAfter
  <2>3. \A i \in DOMAIN old : new[i] \in AnyRow
    BY <2>1, RewrittenTyped
  <2>4. DOMAIN old = 1..Len(old) /\ Len(old) \in Nat
    BY <2>1
  <2>5. new \in [1..Len(old) -> AnyRow]
    BY <2>3, <2>4
  <2>6. new \in Seq(AnyRow) /\ Len(new) = Len(old) /\ DOMAIN new = DOMAIN old
    BY <2>4, <2>5
  <2>7. QED
    BY <1>2, <2>2, <2>6
<1>3. QED
  BY <1>1, <1>2

LEMMA PendingIs ==
    ASSUME Control, Running, migrator.next <= Len(Operations)
    PROVE  /\ Pending \in AllOperations
           /\ migrator.next \in 1..Len(Operations)
<1>1. migrator.next \in 1..Len(Operations)
  BY OperationsCounted DEF Control, MigratorRecord
<1>2. migrator.rev \in 1..Newest
  BY DEF Control
<1>3. Pending \in ToSet(Operations)
  BY <1>1, <1>2, RevisionsAreLists DEF Pending, Operations, ToSet
<1>4. ToSet(Operations) \subseteq AllOperations
  BY <1>2 DEF Operations, AllOperations
<1>5. QED
  BY <1>1, <1>3, <1>4

\* A row that is inserted comes behind the rows that are there.
Appended(t, row) == [rows EXCEPT ![t] = Append(@, row)]

LEMMA AppendRow ==
    ASSUME RowsTyped, NEW t, NEW row \in AnyRow
    PROVE  LET new == Appended(t, row) IN
           /\ new \in TypedRows
           /\ \A u \in AllTables :
                 /\ u # t => new[u] = rows[u]
                 /\ rows[u] # <<>> => new[u] # <<>>
                 /\ \A i \in DOMAIN new[u] :
                       IF i \in DOMAIN rows[u] THEN new[u][i] = rows[u][i]
                       ELSE u = t /\ new[u][i] = row
<1> DEFINE new == Appended(t, row)
<1>0. new = [rows EXCEPT ![t] = Append(@, row)]
  BY DEF Appended
<1> HIDE DEF new
<1>1. CASE t \notin AllTables
  <2>1. new = rows
    BY <1>0, <1>1 DEF RowsTyped
  <2>2. QED
    BY <1>1, <2>1 DEF RowsTyped, TypedRows, new
<1>2. CASE t \in AllTables
  <2> DEFINE old == rows[t]
  <2>1. old \in Seq(AnyRow)
    BY <1>2 DEF RowsTyped
  <2>2. new[t] = Append(old, row) /\ \A u \in AllTables : u # t => new[u] = rows[u]
    BY <1>0, <1>2 DEF RowsTyped
  <2> HIDE DEF old
  <2>3. /\ Append(old, row) \in Seq(AnyRow) /\ Append(old, row) # <<>>
        /\ \A i \in DOMAIN Append(old, row) :
              IF i \in DOMAIN old THEN Append(old, row)[i] = old[i]
              ELSE Append(old, row)[i] = row
    BY <2>1
  <2> USE DEF old
  <2>4. new \in TypedRows
    BY <1>0, <1>2, <2>2, <2>3 DEF RowsTyped, TypedRows
  <2>5. QED
    BY <1>2, <2>2, <2>3, <2>4 DEF new
<1>3. QED
  BY <1>1, <1>2

\* What a service inserts: no value that nobody has written, and one for every
\* column that needs it.
Typed == TypedSchema(schema) /\ RowsTyped /\ oldApi \in 0..Newest

LEMMA InsertWrites ==
    ASSUME Typed, NEW v, NEW t, NEW nulls, NEW bucket \in {"set", "high"},
           Insert(v, t, nulls, bucket)
    PROVE  /\ t \in DOMAIN schema /\ t \in DOMAIN SchemaAt[v + 1]
           /\ Given(v, t) \subseteq Columns(schema, t)
           /\ \A c \in Columns(schema, t) \ Given(v, t) : schema[t][c][3] # "required"
           /\ \E row \in AnyRow : /\ rows' = Appended(t, row)
                                  /\ DOMAIN row = Columns(schema, t)
                                  /\ \A c \in DOMAIN row : row[c] \notin {"zero", "garbled"}
<1> DEFINE row == Row(v, t, nulls, bucket)
<1>1. /\ t \in DOMAIN schema /\ t \in DOMAIN SchemaAt[v + 1]
      /\ Given(v, t) \subseteq Columns(schema, t)
      /\ rows' = Appended(t, row)
      /\ \A c \in Columns(schema, t) : row[c] # "required"
  BY DEF Insert, Appended
<1>2. row = [c \in Columns(schema, t) |-> row[c]]
  BY DEF Row
<1>3. \A c \in Columns(schema, t) :
          /\ c \in Names
          /\ c \notin Given(v, t) => row[c] = schema[t][c][3] /\ schema[t][c][3] \in Needs
          /\ c \in Given(v, t) => row[c] \in {"set", "high", "null"}
  BY <1>1 DEF Row, Columns, Typed, TypedSchema, TableTyped, PartTyped
<1> HIDE DEF row
<1>4. \A c \in Columns(schema, t) : row[c] \in Values \ {"zero", "garbled"}
  BY <1>1, <1>3 DEF Needs, Values
<1>5. Columns(schema, t) \in SUBSET Names /\ row \in [Columns(schema, t) -> Values]
  BY <1>2, <1>3, <1>4
<1>6. row \in AnyRow /\ DOMAIN row = Columns(schema, t)
  BY <1>5, RowIs
<1>7. \A c \in Columns(schema, t) \ Given(v, t) : schema[t][c][3] # "required"
  BY <1>1, <1>3
<1>8. QED
  BY <1>1, <1>4, <1>6, <1>7

LEMMA ServeInserts ==
    ASSUME Control, Typed, Serve
    PROVE  \E v \in 1..Newest, bucket \in {"set", "high"} : \E t, nulls :
              Insert(v, t, nulls, bucket)
<1>1. PICK v \in {code, oldApi} : \E tables : Serves(v, tables)
  BY DEF Serve
<1>2. v \in 1..Newest
  BY <1>1, RevisionsAreLists DEF Serves, Control, Typed
<1>3. \E t, nulls : Insert(v, t, nulls, "set") \/ Insert(v, t, nulls, "high")
  BY <1>1 DEF Serves
<1>4. QED
  BY <1>2, <1>3

\* The rows after a migrator that is killed: an UPDATE may be lost.
LEMMA KilledRows ==
    ASSUME RowsTyped, RowsKilled # rows
    PROVE  /\ RowsKilled \in [AllTables -> Seq(AnyRow)]
           /\ \A t \in AllTables :
                 /\ DOMAIN RowsKilled[t] = DOMAIN rows[t]
                 /\ Len(RowsKilled[t]) = Len(rows[t])
                 /\ \A i \in DOMAIN rows[t] : RowsKilled[t][i] = Uncopied(rows[t][i])
<1>1. RowsKilled = [t \in AllTables |-> [i \in DOMAIN rows[t] |-> Uncopied(rows[t][i])]]
  BY DEF RowsKilled
<1>2. \A row \in AnyRow : Uncopied(row) \in AnyRow
  <2> SUFFICES ASSUME NEW row \in AnyRow PROVE Uncopied(row) \in AnyRow
    OBVIOUS
  <2>1. DOMAIN row \in SUBSET Names /\ row \in [DOMAIN row -> Values]
    BY RowHas
  <2>2. Uncopied(row) \in [DOMAIN row -> Values]
    BY <2>1 DEF Uncopied, Values
  <2>3. QED
    BY <2>1, <2>2, RowIs
<1> SUFFICES ASSUME NEW t \in AllTables
             PROVE  LET new == [i \in DOMAIN rows[t] |-> Uncopied(rows[t][i])] IN
                    /\ new \in Seq(AnyRow) /\ Len(new) = Len(rows[t])
                    /\ DOMAIN new = DOMAIN rows[t]
  BY <1>1
<1> DEFINE new == [i \in DOMAIN rows[t] |-> Uncopied(rows[t][i])]
<1>3. rows[t] \in Seq(AnyRow)
  BY DEF RowsTyped
<1>4. DOMAIN rows[t] = 1..Len(rows[t]) /\ Len(rows[t]) \in Nat
  BY <1>3
<1>5. new \in [1..Len(rows[t]) -> AnyRow]
  BY <1>2, <1>3, <1>4
<1>6. QED
  BY <1>4, <1>5

LEMMA TypedStep == Control /\ Typed /\ [Next]_vars => Typed'
<1> SUFFICES ASSUME Control, Typed, [Next]_vars PROVE Typed'
  OBVIOUS
<1>1. CASE Apply
  <2>1. /\ Pending \in AllOperations /\ Suits(schema, Pending)
        /\ schema' = After(schema, Pending) /\ rows' = RowsAfter(Pending) /\ oldApi' = oldApi
    BY <1>1, PendingIs DEF Apply, Running, Accepts
  <2>2. TypedSchema(schema')
    BY <2>1, AfterTyped DEF Typed
  <2>3. RowsTyped'
    BY <2>1, RowsAfterIs DEF Typed, RowsTyped
  <2>4. QED
    BY <2>1, <2>2, <2>3 DEF Typed
<1>2. CASE Kill
  <2>1. rows' = RowsKilled /\ UNCHANGED <<schema, oldApi>>
    BY <1>2 DEF Kill, Killed
  <2>2. RowsTyped'
    BY <2>1, KilledRows DEF Typed, RowsTyped
  <2>3. QED
    BY <2>1, <2>2 DEF Typed
<1>3. CASE Serve
  <2>1. PICK v \in 1..Newest, bucket \in {"set", "high"} : \E t, nulls :
            Insert(v, t, nulls, bucket)
    BY <1>3, ServeInserts
  <2>2. PICK t, nulls : Insert(v, t, nulls, bucket)
    BY <2>1
  <2>3. PICK row \in AnyRow : rows' = Appended(t, row)
    BY <2>2, InsertWrites
  <2>4. UNCHANGED <<schema, oldApi>>
    BY <2>2 DEF Insert
  <2>5. rows' \in TypedRows
    BY <2>3, AppendRow DEF Typed
  <2>6. QED
    BY <2>4, <2>5 DEF Typed, RowsTyped, TypedRows
<1>4. CASE \E v \in Deployable : Deploy(v)
  <2>1. UNCHANGED <<schema, rows>> /\ oldApi' = code
    BY <1>4 DEF Deploy, database
  <2>2. QED
    BY <2>1 DEF Typed, RowsTyped, Control
<1>5. CASE ReplaceApi
  <2>1. UNCHANGED <<schema, rows>> /\ oldApi' = 0
    BY <1>5 DEF ReplaceApi, database
  <2>2. QED
    BY <2>1, RevisionsAreLists DEF Typed, RowsTyped
<1>6. CASE Downgrade \/ Refuse \/ EndRevision \/ UNCHANGED vars
  <2>1. UNCHANGED <<schema, rows, oldApi>>
    BY <1>6 DEF Downgrade, Refuse, EndRevision, vars, database
  <2>2. QED
    BY <2>1 DEF Typed, RowsTyped
<1>7. QED
  BY <1>1, <1>2, <1>3, <1>4, <1>5, <1>6 DEF Next

LEMMA TypedInit == Init => Typed
<1> SUFFICES ASSUME Init PROVE Typed
  OBVIOUS
<1>1. TypedSchema(schema)
  BY DEF Init, NoSchema, TypedSchema
<1>2. <<>> \in Seq(AnyRow)
  OBVIOUS
<1>3. RowsTyped
  BY <1>2 DEF Init, RowsTyped
<1>4. QED
  BY <1>1, <1>3, RevisionsAreLists DEF Init, Typed

LEMMA TypedInvariant == Spec => [](Control /\ SchemaInv /\ Typed)
<1>1. Init => Typed
  BY TypedInit
<1>2. Control /\ Typed /\ [Next]_vars => Typed'
  BY TypedStep
<1>3. QED
  BY <1>1, <1>2, WalkInvariant, PTL DEF Spec
-----------------------------------------------------------------------------
(* An operation on a table without rows is refused only where it does not  *)
(* suit the schema; in the order of the chain each of them does.           *)
LEMMA EmptyFits ==
    ASSUME RowsTyped, NEW op \in AllOperations, rows[op.table] = <<>>
    PROVE  RowsFit(op)
<1>1. /\ \A c, value : ~Has(op.table, c, value)
      /\ \A cols, value : ~Twice(op.table, cols, value)
  BY DEF Has, Twice
<1>2. ASSUME NEW is, is[1] \in Kinds
      PROVE  PartFits(op.table, is)
  BY <1>1, <1>2 DEF PartFits, ColumnFits, Kinds
<1>3. CASE op.do = "add"
  <2>1. \A p \in op.parts : p[2][1] \in Kinds
    BY <1>3, OperationsTyped DEF PartsTyped
  <2>2. QED
    BY <1>2, <1>3, <2>1 DEF RowsFit
<1>4. CASE op.do = "add unnamed"
  <2>1. op.is[1] \in Kinds
    BY <1>4, OperationsTyped DEF Kinds
  <2>2. QED
    BY <1>2, <1>4, <2>1 DEF RowsFit
<1>5. CASE op.do = "alter"
  BY <1>1, <1>5 DEF RowsFit
<1>6. CASE op.do \notin {"add", "add unnamed", "alter"}
  BY <1>6 DEF RowsFit
<1>7. QED
  BY <1>3, <1>4, <1>5, <1>6

\* While nothing has been undone or killed, the first migrator works through
\* the chain of an empty database.
ChainPath == Path(SchemaAt[migrator.rev], Upgrades[migrator.rev])
Counted == deploys \in Nat /\ commands \in Nat /\ crashes \in Nat
Undisturbed == crashes = 0 /\ commands = 0
FirstRun ==
    /\ Counted
    /\ Undisturbed /\ deploys = 0 =>
          /\ version = 0 /\ schema = NoSchema
          /\ migrator.up = TRUE /\ migrator.state = "done"
    /\ Undisturbed /\ deploys = 1 =>
          /\ migrator.up = TRUE
          /\ Running => schema = ChainPath[migrator.next]
          /\ migrator.state = "refused" =>
                Pending.table \in AllTables /\ rows[Pending.table] # <<>>

LEMMA FirstRunStep ==
    Control /\ Control' /\ Typed /\ FirstRun /\ [Next]_vars => FirstRun'
<1> SUFFICES ASSUME Control, Control', Typed, FirstRun, [Next]_vars PROVE FirstRun'
  OBVIOUS
<1>1. CASE \E v \in Deployable : Deploy(v)
  <2>1. PICK v \in Deployable : Deploy(v)
    BY <1>1
  <2>2. /\ deploys' = deploys + 1 /\ UNCHANGED <<version, schema, commands, crashes>>
        /\ migrator' = Migrator(TRUE, version, v) /\ v \in 1..Newest
    BY <2>1, MigrationsAssumption DEF Deploy, database
  <2>3. CASE Undisturbed /\ deploys = 0
    <3>1. /\ migrator'.up = TRUE /\ migrator'.state = "running"
          /\ migrator'.rev = 1 /\ migrator'.next = 1 /\ schema' = NoSchema
      BY <2>2, <2>3, RevisionsAreLists DEF FirstRun, Migrator
    <3>2. ChainPath'[migrator'.next] = SchemaAt[1] /\ SchemaAt[1] = NoSchema
      BY <3>1, ChainRuns, RevisionsAreLists DEF ChainPath, IsPath
    <3>3. Counted' /\ deploys' = 1
      BY <2>2, <2>3 DEF FirstRun, Counted
    <3>4. QED
      BY <3>1, <3>2, <3>3 DEF FirstRun
  <2>4. CASE ~(Undisturbed /\ deploys = 0)
    <3>1. Counted' /\ deploys' # 0 /\ ~(Undisturbed' /\ deploys' = 1)
      BY <2>2, <2>4 DEF FirstRun, Counted, Undisturbed
    <3>2. QED
      BY <3>1 DEF FirstRun
  <2>5. QED
    BY <2>3, <2>4
<1>2. CASE Downgrade \/ Kill
  <2>1. CASE Downgrade
    <3>1. Counted' /\ ~Undisturbed'
      BY <2>1 DEF Downgrade, FirstRun, Counted, Undisturbed
    <3>2. QED
      BY <3>1 DEF FirstRun
  <2>2. CASE Kill
    <3>1. Counted' /\ ~Undisturbed'
      BY <2>2 DEF Kill, Killed, FirstRun, Counted, Undisturbed
    <3>2. QED
      BY <3>1 DEF FirstRun
  <2>3. QED
    BY <1>2, <2>1, <2>2
<1>3. CASE Apply \/ Refuse \/ EndRevision
  <2>1. UNCHANGED counters /\ Running
    BY <1>3 DEF Apply, Refuse, EndRevision, Running
  <2>2. CASE ~(Undisturbed /\ deploys = 1)
    BY <2>1, <2>2 DEF FirstRun, Counted, Undisturbed, counters, Running
  <2>3. CASE Undisturbed /\ deploys = 1
    <3>1. /\ migrator.up = TRUE /\ schema = ChainPath[migrator.next]
          /\ Operations = Upgrades[migrator.rev] /\ migrator.rev \in 1..Newest
          /\ migrator \in MigratorRecord
      BY <2>1, <2>3 DEF FirstRun, Operations, Control
    <3>2. Counted' /\ deploys' = 1 /\ UNCHANGED <<commands, crashes>>
      BY <2>1, <2>3 DEF FirstRun, Counted, counters
    <3>3. /\ IsPath(ChainPath, SchemaAt[migrator.rev], Operations)
          /\ \A k \in 1..Len(Operations) :
                k \in DOMAIN ChainPath /\ Suits(ChainPath[k], Operations[k])
          /\ ChainPath[Len(Operations) + 1] = SchemaAt[migrator.rev + 1]
      BY <3>1, ChainRuns DEF ChainPath
    <3>4. CASE Apply
      <4>1. migrator.next \in 1..Len(Operations) /\ schema' = After(schema, Pending)
        BY <2>1, <3>4, PendingIs DEF Apply
      <4>2. /\ migrator'.up = TRUE /\ migrator'.next = migrator.next + 1
            /\ migrator'.state = "running" /\ migrator'.rev = migrator.rev
        BY <3>1, <3>4 DEF Apply, MigratorRecord
      <4>3. ChainPath[migrator.next + 1] = After(schema, Pending)
        BY <3>1, <3>3, <4>1 DEF IsPath, Pending
      <4>4. ChainPath' = ChainPath
        BY <4>2 DEF ChainPath
      <4>5. QED
        BY <3>2, <4>1, <4>2, <4>3, <4>4 DEF FirstRun
    <3>5. CASE Refuse
      <4>1. /\ migrator.next \in 1..Len(Operations) /\ Pending \in AllOperations
            /\ ~Accepts(Pending)
        BY <2>1, <3>5, PendingIs DEF Refuse
      <4>2. Suits(schema, Pending)
        BY <3>1, <3>3, <4>1 DEF Pending
      <4>3. Pending.table \in AllTables /\ rows[Pending.table] # <<>>
        BY <4>1, <4>2, EmptyFits, OperationsTyped DEF Accepts, Typed
      <4>4. /\ migrator'.up = TRUE /\ migrator'.next = migrator.next
            /\ migrator'.state = "refused" /\ migrator'.rev = migrator.rev
            /\ rows' = rows
        BY <3>1, <3>5 DEF Refuse, MigratorRecord, database
      <4>5. Pending' = Pending
        BY <3>1, <4>4 DEF Pending, Operations
      <4>6. QED
        BY <3>2, <4>3, <4>4, <4>5 DEF FirstRun, Running
    <3>6. CASE EndRevision
      <4>1. /\ migrator.next = Len(Operations) + 1 /\ schema' = schema
            /\ migrator' = Migrator(migrator.up, migrator.rev, migrator.target)
        <5>1. migrator.next > Len(Operations) /\ Len(Operations) \in Nat
          BY <2>1, <3>6, OperationsCounted DEF EndRevision
        <5>2. migrator.next <= Len(Operations) + 1 /\ migrator.next \in Nat
          BY <2>1 DEF Control, MigratorRecord
        <5>3. QED
          BY <3>1, <3>6, <5>1, <5>2 DEF EndRevision
      <4>2. schema = SchemaAt[migrator.rev + 1]
        BY <3>1, <3>3, <4>1
      <4>3. migrator'.up = TRUE /\ migrator'.next = 1 /\ migrator'.state # "refused"
        BY <3>1, <4>1 DEF Migrator
      <4>4. Running' => migrator'.rev = migrator.rev + 1 /\ migrator'.rev \in 1..Newest
        BY <3>1, <4>1 DEF Migrator, Running, Control
      <4>5. Running' => ChainPath'[1] = SchemaAt[migrator'.rev]
        BY <4>4, ChainRuns DEF ChainPath, IsPath
      <4>6. QED
        BY <3>2, <4>1, <4>2, <4>3, <4>4, <4>5 DEF FirstRun
    <3>7. QED
      BY <1>3, <3>4, <3>5, <3>6
  <2>4. QED
    BY <2>2, <2>3
<1>4. CASE Serve
  <2>1. PICK v \in 1..Newest, bucket \in {"set", "high"} : \E t, nulls :
            Insert(v, t, nulls, bucket)
    BY <1>4, ServeInserts
  <2>2. PICK t, nulls : Insert(v, t, nulls, bucket)
    BY <2>1
  <2>3. PICK row \in AnyRow : rows' = Appended(t, row)
    BY <2>2, InsertWrites
  <2>4. UNCHANGED <<version, schema, migrator, deploys, commands, crashes>>
    BY <2>2 DEF Insert
  <2>5. \A u \in AllTables : rows[u] # <<>> => rows'[u] # <<>>
    BY <2>3, AppendRow DEF Typed
  <2>6. Pending' = Pending /\ ChainPath' = ChainPath /\ AllTables' = AllTables
    BY <2>4 DEF Pending, Operations, ChainPath
  <2>7. QED
    BY <2>4, <2>5, <2>6 DEF FirstRun, Counted, Undisturbed, Running
<1>5. CASE ReplaceApi \/ UNCHANGED vars
  <2>1. UNCHANGED <<version, schema, rows, migrator, deploys, commands, crashes>>
    BY <1>5 DEF ReplaceApi, vars, database, counters
  <2>2. Pending' = Pending /\ ChainPath' = ChainPath
    BY <2>1 DEF Pending, Operations, ChainPath
  <2>3. QED
    BY <2>1, <2>2 DEF FirstRun, Counted, Undisturbed, Running
<1>6. QED
  BY <1>1, <1>2, <1>3, <1>4, <1>5 DEF Next

\* Without a crash or a failure before it, an upgrade is refused only for rows
\* already in the table it changes (env.py, do_run_migrations).
THEOREM RefusalsAreForRows == Spec => []RefusedForRows
<1>1. Init => FirstRun
  BY DEF Init, FirstRun, Counted, Undisturbed, NoSchema
<1>2. Control /\ Control' /\ Typed /\ FirstRun /\ [Next]_vars => FirstRun'
  BY FirstRunStep
<1>3. FirstRun => RefusedForRows
  BY DEF FirstRun, RefusedForRows, Counted, Undisturbed
<1>4. QED
  BY <1>1, <1>2, <1>3, TypedInvariant, PTL DEF Spec
-----------------------------------------------------------------------------
(* What the rows hold.  A value no service has written comes only with a   *)
(* column that is added over rows, or with a change between number and id; *)
(* ColumnsInvented names the columns, and for all but Invented it is gone  *)
(* by the newest version.                                                  *)
Foreign == {"zero", "garbled"}
Spoiled == Invented \cup Gone \cup {Reference}

\* In revision 9 the reference becomes a key, which no zero fits.
BeforeKey == version <= 8 /\ (Running /\ migrator.up = TRUE /\ migrator.rev = 9
                                => migrator.next <= 9)
\* Between the two columns of revision 12: the table is empty, or somebody has
\* given it the second one.
AfterLock == Running /\ migrator.up = TRUE /\ migrator.rev = 12 /\ migrator.next = 2
InLock == AfterLock =>
    LET t == Reason[1] IN
    /\ Exists(schema, t, "locked_until")
    /\ schema[t]["locked_until"] = <<"column", "timestamp", "required">>
    /\ rows[t] = <<>> \/ Reason[2] \in DOMAIN schema[t]

ValueFits(s, before, t, row, c) ==
    /\ c \in Columns(s, t)
    /\ row[c] \in Foreign => <<t, c>> \in Spoiled
    /\ row[c] \in Foreign /\ <<t, c>> = Reference => row[c] = "zero" /\ before
RowsInv == \A t \in AllTables : \A i \in DOMAIN rows[t] : \A c \in DOMAIN rows[t][i] :
              ValueFits(schema, BeforeKey, t, rows[t][i], c)

LEMMA WidenedColumns ==
    ASSUME NEW t, NEW table, NEW row, NEW parts, PartsTyped(parts),
           \A p \in parts : p[1] \notin DOMAIN table,
           NEW c \in DOMAIN Widened(t, row, parts) \ DOMAIN row
    PROVE  c \in DOMAIN With(table, parts) /\ With(table, parts)[c][1] = "column"
<1>1. PICK p \in parts : p[1] = c /\ p[2][1] = "column"
  BY WidenedValue
<1>2. p[1] \in DOMAIN With(table, parts) /\ With(table, parts)[p[1]] = p[2]
  BY <1>1, WithAdds
<1>3. QED
  BY <1>1, <1>2

KeepsRows(op) == op.do # "drop table"

\* The columns of a rewritten row are columns of its table.
LEMMA RewrittenColumns ==
    ASSUME NEW op \in AllOperations, Suits(schema, op), KeepsRows(op),
           NEW row, DOMAIN row \subseteq Columns(schema, op.table),
           NEW c, c \in DOMAIN Rewritten(row, op)
    PROVE  c \in Columns(After(schema, op), op.table)
<1>1. CASE c \in DOMAIN row /\ ~Drops(op, op.table, c)
  BY <1>1, ColumnsStay
<1>2. CASE c \in DOMAIN row /\ Drops(op, op.table, c)
  BY <1>2 DEF Drops, Rewritten, KeepsRows
<1>3. CASE c \notin DOMAIN row
  <2>1. op.do = "add"
    <3>1. op.do = "alter" => DOMAIN Rewritten(row, op) = DOMAIN row
      BY DEF Rewritten, Converted
    <3>2. op.do \in {"create", "add unnamed", "drop", "copy"} =>
             DOMAIN Rewritten(row, op) \subseteq DOMAIN row
      BY DEF Rewritten
    <3>3. QED
      BY <1>3, <3>1, <3>2, OperationsTyped DEF KeepsRows
  <2> DEFINE parts == op.parts
             table == schema[op.table]
  <2>2. Rewritten(row, op) = Widened(op.table, row, parts) /\ PartsTyped(parts)
    BY <2>1, OperationsTyped DEF Rewritten
  <2>3. op.table \in DOMAIN schema /\ \A p \in parts : p[1] \notin DOMAIN table
    BY <2>1 DEF Suits
  <2>4. After(schema, op)[op.table] = With(table, parts)
        /\ op.table \in DOMAIN After(schema, op)
    BY <2>1, <2>3 DEF After
  <2> HIDE DEF parts, table
  <2>5. c \in DOMAIN With(table, parts) /\ With(table, parts)[c][1] = "column"
    <3>1. c \in DOMAIN Widened(op.table, row, parts) \ DOMAIN row
      BY <1>3, <2>2
    <3>2. PartsTyped(parts) /\ \A p \in parts : p[1] \notin DOMAIN table
      BY <2>2, <2>3
    <3>3. QED
      BY <3>1, <3>2, WidenedColumns
  <2>6. QED
    BY <2>4, <2>5 DEF Columns
<1>4. QED
  BY <1>1, <1>2, <1>3

\* Where a foreign value in a rewritten row comes from.
LEMMA RewrittenValue ==
    ASSUME NEW op \in AllOperations, NEW row, NEW c \in DOMAIN Rewritten(row, op),
           Rewritten(row, op)[c] \in Foreign
    PROVE  \/ c \in DOMAIN row /\ Rewritten(row, op)[c] = row[c]
           \/ /\ Rewritten(row, op)[c] = "zero" /\ op.do = "add"
              /\ \E p \in op.parts : p[1] = c /\ p[2][1] = "column" /\ p[2][3] = "required"
           \/ /\ Rewritten(row, op)[c] = "garbled" /\ op.do = "alter"
              /\ c = op.name /\ op.is[2] \in {"bigint", "uuid"}
<1> DEFINE new == Rewritten(row, op)
<1>1. CASE op.do = "add"
  <2>1. new = Widened(op.table, row, op.parts) /\ PartsTyped(op.parts)
    BY <1>1, OperationsTyped DEF Rewritten
  <2>2. CASE c \in DOMAIN row
    BY <2>1, <2>2, WidenedValue
  <2>3. CASE c \notin DOMAIN row
    <3>1. PICK p \in op.parts : p[1] = c /\ p[2][1] = "column" /\ new[c] = Fill(p[2])
      BY <2>1, <2>3, WidenedValue
    <3>2. p[2][3] \in Needs
      BY <2>1, <3>1 DEF PartsTyped
    <3>3. p[2][3] = "required" /\ new[c] = "zero"
      BY <3>1, <3>2 DEF Fill, Needs, Foreign
    <3>4. QED
      BY <1>1, <3>1, <3>3
  <2>4. QED
    BY <2>2, <2>3
<1>2. CASE op.do = "drop"
  BY <1>2 DEF Rewritten
<1>3. CASE op.do = "alter"
  <2>1. CASE {schema[op.table][op.name][2], op.is[2]} = {"bigint", "uuid"}
    <3>1. op.is[2] \in {"bigint", "uuid"}
      BY <2>1
    <3>2. new = [row EXCEPT ![op.name] = "garbled"]
      BY <1>3, <2>1 DEF Rewritten, Converted
    <3>3. QED
      BY <1>3, <3>1, <3>2
  <2>2. CASE {schema[op.table][op.name][2], op.is[2]} # {"bigint", "uuid"}
    BY <1>3, <2>2 DEF Rewritten, Converted
  <2>3. QED
    BY <2>1, <2>2
<1>4. CASE op.do = "copy"
  BY <1>4 DEF Rewritten, Foreign
<1>5. CASE op.do \in {"create", "add unnamed", "drop table"}
  BY <1>5 DEF Rewritten
<1>6. QED
  BY <1>1, <1>2, <1>3, <1>4, <1>5, OperationsTyped

\* The operation at hand, and where it is in the chain.
LEMMA PendingAdds ==
    ASSUME Control, Running, migrator.next <= Len(Operations), NEW column
    PROVE  /\ column = Reference /\ Adds(Pending, column) =>
                 migrator.up = TRUE /\ migrator.rev = 9 /\ migrator.next < 9
           /\ column = Reason /\ Adds(Pending, column) =>
                 migrator.up = TRUE /\ migrator.rev = 12 /\ migrator.next = 2
<1>1. migrator.next \in 1..Len(Operations) /\ migrator.rev \in 1..Newest
  BY PendingIs DEF Control
<1>2. CASE migrator.up = TRUE
  BY <1>1, <1>2, ReferenceIsKey, ReasonFollowsLock DEF Pending, Operations
<1>3. CASE migrator.up = FALSE
  BY <1>1, <1>3, ReferenceIsKey, ReasonFollowsLock DEF Pending, Operations
<1>4. QED
  BY <1>2, <1>3 DEF Control, MigratorRecord

\* One operation: what the rows may hold after it.
LEMMA ApplyValues ==
    ASSUME Control, Typed, InLock, RowsInv, Apply
    PROVE  RowsInv'
<1>1. /\ Running /\ migrator.next <= Len(Operations)
      /\ Suits(schema, Pending) /\ RowsFit(Pending)
      /\ schema' = After(schema, Pending) /\ rows' = RowsAfter(Pending)
      /\ version' = version /\ migrator \in MigratorRecord
  BY DEF Apply, Running, Accepts, Control
<1>2. /\ migrator'.next = migrator.next + 1 /\ migrator'.up = migrator.up
      /\ migrator'.rev = migrator.rev /\ migrator'.state = "running"
  BY <1>1 DEF Apply, MigratorRecord, Running
<1>3. Pending \in AllOperations /\ migrator.next \in 1..Len(Operations)
  BY <1>1, PendingIs
<1>4. migrator.next \in Nat /\ Len(Operations) \in Nat
  BY <1>1, OperationsCounted DEF MigratorRecord
<1> SUFFICES ASSUME NEW t \in AllTables, NEW i \in DOMAIN rows'[t],
                    NEW c \in DOMAIN rows'[t][i]
             PROVE  ValueFits(schema', BeforeKey', t, rows'[t][i], c)
  BY <1>1 DEF RowsInv
\* A zero of the reference does not outlive the key.
<1>5. ASSUME BeforeKey, t = Reference[1], i \in DOMAIN rows[t],
             Reference[2] \in DOMAIN rows[t][i], rows[t][i][Reference[2]] = "zero"
      PROVE  BeforeKey'
  <2>1. CASE migrator.up = TRUE /\ migrator.rev = 9 /\ migrator.next = 9
    <3>1. Pending = Upgrades[9][9]
      BY <2>1 DEF Pending, Operations
    <3>2. PartFits(Reference[1], Pending.is) /\ Pending.is[1] = "fk"
          /\ Pending.is[2] = Reference[2]
      BY <1>1, <1>3, <3>1, ReferenceIsKey, OperationsTyped DEF RowsFit
    <3>3. ~Has(Reference[1], Reference[2], "zero")
      BY <3>2 DEF PartFits
    <3>4. QED
      BY <1>5, <3>3 DEF Has
  <2>2. CASE ~(migrator.up = TRUE /\ migrator.rev = 9 /\ migrator.next = 9)
    BY <1>1, <1>2, <1>4, <1>5, <2>2 DEF BeforeKey, Running
  <2>3. QED
    BY <2>1, <2>2
<1>6. CASE t # Pending.table
  <2>1. rows'[t] = rows[t]
    BY <1>1, <1>3, <1>6, RowsAfterIs DEF Typed
  <2>2. ValueFits(schema, BeforeKey, t, rows[t][i], c)
    BY <2>1 DEF RowsInv
  <2>3. c \in Columns(schema', t)
    BY <1>1, <1>3, <1>6, <2>2, ColumnsStay DEF Drops, ValueFits
  <2>4. rows[t][i][c] = "zero" /\ <<t, c>> = Reference /\ BeforeKey => BeforeKey'
    <3>1. <<t, c>> = Reference => t = Reference[1] /\ c = Reference[2]
      OBVIOUS
    <3>2. QED
      BY <1>5, <2>1, <3>1
  <2>5. QED
    BY <2>1, <2>2, <2>3, <2>4 DEF ValueFits
<1>7. CASE t = Pending.table
  <2> DEFINE old == rows[t][i]
             new == rows'[t][i]
  <2>1. KeepsRows(Pending)
    <3>1. ~KeepsRows(Pending) => RowsAfter(Pending)[t] = <<>>
      BY <1>3, <1>7, RowsAfterIs DEF Typed, KeepsRows
    <3>2. QED
      BY <1>1, <3>1
  <2>2. i \in DOMAIN rows[t] /\ new = Rewritten(old, Pending)
    BY <1>1, <1>3, <1>7, <2>1, RowsAfterIs DEF Typed, KeepsRows
  <2>3. \A d \in DOMAIN old : ValueFits(schema, BeforeKey, t, old, d)
    BY <2>2 DEF RowsInv
  <2> HIDE DEF old, new
  <2>4. c \in DOMAIN new
    BY DEF new
  <2>5. c \in Columns(schema', t)
    <3>1. DOMAIN old \subseteq Columns(schema, t)
      BY <2>3 DEF ValueFits
    <3>2. QED
      BY <1>1, <1>3, <1>7, <2>1, <2>2, <2>4, <3>1, RewrittenColumns
  <2>6. ASSUME new[c] \in Foreign
        PROVE  /\ <<t, c>> \in Spoiled
               /\ <<t, c>> = Reference => new[c] = "zero" /\ BeforeKey'
    <3>1. CASE c \in DOMAIN old /\ new[c] = old[c]
      <4>1. ValueFits(schema, BeforeKey, t, old, c)
        BY <2>3, <3>1
      <4>2. old[c] = "zero" /\ <<t, c>> = Reference /\ BeforeKey => BeforeKey'
        BY <1>5, <2>2, <3>1 DEF old
      <4>3. QED
        BY <2>6, <3>1, <4>1, <4>2 DEF ValueFits
    <3>2. CASE /\ new[c] = "zero" /\ Pending.do = "add"
               /\ \E p \in Pending.parts : p[1] = c /\ p[2][1] = "column"
                                           /\ p[2][3] = "required"
      <4>1. PICK p \in Pending.parts : p[1] = c /\ p[2][1] = "column"
                                        /\ p[2][3] = "required"
        BY <3>2
      <4>2. PartFits(t, p[2])
        BY <1>1, <1>7, <3>2 DEF RowsFit
      <4>3. rows[t] # <<>>
        BY <2>2
      <4>4. p[2][2] # "timestamp"
        BY <4>1, <4>2, <4>3 DEF PartFits, ColumnFits
      <4>5. <<t, c>> \in Invented \cup Gone \cup {Reference, Reason}
        BY <1>3, <1>7, <3>2, <4>1, <4>4, ColumnsInvented
      <4>6. Adds(Pending, <<t, c>>)
        BY <1>7, <3>2, <4>1 DEF Adds
      <4>7. <<t, c>> # Reason
        <5> SUFFICES ASSUME <<t, c>> = Reason PROVE FALSE
          OBVIOUS
        <5>1. AfterLock /\ t = Reason[1] /\ c = Reason[2]
          BY <1>1, <4>6, PendingAdds DEF AfterLock
        <5>2. Reason[2] \in DOMAIN schema[t]
          BY <4>3, <5>1 DEF InLock
        <5>3. c \notin DOMAIN schema[t]
          BY <1>1, <1>7, <3>2, <4>1 DEF Suits
        <5>4. QED
          BY <5>1, <5>2, <5>3
      <4>8. <<t, c>> = Reference => BeforeKey'
        <5> SUFFICES ASSUME <<t, c>> = Reference PROVE BeforeKey'
          OBVIOUS
        <5>1. migrator.up = TRUE /\ migrator.rev = 9 /\ migrator.next < 9
          BY <1>1, <4>6, PendingAdds
        <5>2. version = 8
          BY <1>1, <5>1 DEF Control
        <5>3. QED
          BY <1>1, <1>2, <1>4, <5>1, <5>2 DEF BeforeKey
      <4>9. QED
        BY <3>2, <4>5, <4>7, <4>8 DEF Spoiled
    <3>3. CASE /\ Pending.do = "alter" /\ c = Pending.name
               /\ Pending.is[2] \in {"bigint", "uuid"}
      <4>1. <<t, c>> \in Invented
        BY <1>3, <1>7, <3>3, ColumnsInvented
      <4>2. QED
        BY <4>1, ColumnsInvented DEF Spoiled
    <3>4. QED
      BY <1>3, <2>2, <2>4, <2>6, <3>1, <3>2, <3>3, RewrittenValue
  <2>7. ValueFits(schema', BeforeKey', t, new, c)
    BY <2>5, <2>6 DEF ValueFits, new
  <2>8. QED
    BY <2>7 DEF new
<1>8. QED
  BY <1>6, <1>7

\* The other steps leave the zeros of the reference below its key.
LEMMA BeforeKeyStep ==
    ASSUME Control, [Next]_vars, ~Apply, BeforeKey
    PROVE  BeforeKey'
<1>1. CASE (\E v \in Deployable : Deploy(v)) \/ Downgrade
  <2>1. migrator'.next = 1 /\ version' = version
    BY <1>1 DEF Deploy, Downgrade, Migrator, database
  <2>2. QED
    BY <2>1 DEF BeforeKey
<1>2. CASE Refuse \/ Kill
  <2>1. migrator'.state # "running" /\ version' = version
    BY <1>2 DEF Refuse, Kill, Killed, database, Control, MigratorRecord
  <2>2. QED
    BY <2>1 DEF BeforeKey, Running
<1>3. CASE EndRevision
  <2>1. /\ Running /\ migrator'.next = 1 /\ migrator.next > Len(Operations)
        /\ version' = IF migrator.up THEN migrator.rev ELSE migrator.rev - 1
        /\ version \in 0..Newest /\ migrator \in MigratorRecord
    BY <1>3 DEF EndRevision, Running, Migrator, Control
  <2>2. CASE migrator.up = TRUE
    <3>1. migrator.rev = version + 1 /\ version' = version + 1
      BY <2>1, <2>2 DEF Control
    <3>2. version # 8
      <4> SUFFICES ASSUME version = 8 PROVE FALSE
        OBVIOUS
      <4>1. Operations = Upgrades[9] /\ migrator.next <= 9
        BY <2>1, <2>2, <3>1 DEF BeforeKey, Operations
      <4>2. Len(Upgrades[9]) >= 9 /\ Len(Upgrades[9]) \in Nat
        <5>1. 9 \in 1..Newest
          BY RevisionsAreLists
        <5>2. Len(Upgrades[9]) \in Nat
          BY <5>1, RevisionsAreLists
        <5>3. Len(Upgrades[9]) >= 9
          BY ReferenceIsKey
        <5>4. QED
          BY <5>2, <5>3
      <4>3. migrator.next \in Nat
        BY <2>1 DEF MigratorRecord
      <4>4. QED
        BY <2>1, <4>1, <4>2, <4>3
    <3>3. version' <= 8
      BY <2>1, <3>1, <3>2 DEF BeforeKey
    <3>4. QED
      BY <2>1, <3>3 DEF BeforeKey
  <2>3. CASE migrator.up = FALSE
    <3>1. version' = version - 1
      BY <2>1, <2>3 DEF Control
    <3>2. version' <= 8
      BY <2>1, <3>1 DEF BeforeKey
    <3>3. QED
      BY <2>1, <3>2 DEF BeforeKey
  <2>4. QED
    BY <2>1, <2>2, <2>3 DEF MigratorRecord
<1>4. CASE ReplaceApi \/ Serve \/ UNCHANGED vars
  <2>1. UNCHANGED <<version, migrator>>
    BY <1>4 DEF ReplaceApi, Serve, Serves, Insert, vars, database
  <2>2. QED
    BY <2>1 DEF BeforeKey, Running
<1>5. QED
  BY <1>1, <1>2, <1>3, <1>4 DEF Next

LEMMA RowsStep ==
    Control /\ Typed /\ InLock /\ RowsInv /\ [Next]_vars => RowsInv'
<1> SUFFICES ASSUME Control, Typed, InLock, RowsInv, [Next]_vars PROVE RowsInv'
  OBVIOUS
<1>1. CASE Apply
  BY <1>1, ApplyValues
<1>2. CASE ~Apply
  <2>1. BeforeKey => BeforeKey'
    BY <1>2, BeforeKeyStep
  <2>2. ASSUME NEW t, NEW row, NEW c, ValueFits(schema, BeforeKey, t, row, c)
        PROVE  ValueFits(schema, BeforeKey', t, row, c)
    BY <2>1, <2>2 DEF ValueFits
  <2>3. CASE Serve
    <3>1. PICK v \in 1..Newest, bucket \in {"set", "high"} : \E t, nulls :
              Insert(v, t, nulls, bucket)
      BY <2>3, ServeInserts
    <3>2. PICK t, nulls : Insert(v, t, nulls, bucket)
      BY <3>1
    <3>3. PICK row \in AnyRow :
             /\ rows' = Appended(t, row) /\ DOMAIN row = Columns(schema, t)
             /\ \A c \in DOMAIN row : row[c] \notin Foreign
      BY <3>2, InsertWrites DEF Foreign
    <3>4. schema' = schema
      BY <3>2 DEF Insert
    <3> SUFFICES ASSUME NEW u \in AllTables, NEW i \in DOMAIN rows'[u],
                        NEW c \in DOMAIN rows'[u][i]
                 PROVE  ValueFits(schema', BeforeKey', u, rows'[u][i], c)
      BY DEF RowsInv
    <3>5. IF i \in DOMAIN rows[u] THEN rows'[u][i] = rows[u][i]
          ELSE u = t /\ rows'[u][i] = row
      BY <3>3, AppendRow DEF Typed
    <3>6. CASE i \in DOMAIN rows[u]
      BY <2>2, <3>4, <3>5, <3>6 DEF RowsInv
    <3>7. CASE i \notin DOMAIN rows[u]
      BY <3>3, <3>4, <3>5, <3>7 DEF ValueFits
    <3>8. QED
      BY <3>6, <3>7
  <2>4. CASE Kill /\ rows' # rows
    <3>1. rows' = RowsKilled /\ RowsKilled # rows /\ schema' = schema
      BY <2>4 DEF Kill, Killed
    <3> SUFFICES ASSUME NEW t \in AllTables, NEW i \in DOMAIN rows'[t],
                        NEW c \in DOMAIN rows'[t][i]
                 PROVE  ValueFits(schema', BeforeKey', t, rows'[t][i], c)
      BY DEF RowsInv
    <3>2. i \in DOMAIN rows[t] /\ rows'[t][i] = Uncopied(rows[t][i])
      BY <3>1, KilledRows DEF Typed
    <3> DEFINE old == rows[t][i]
               new == rows'[t][i]
    <3>3. c \in DOMAIN old /\ (new[c] \in Foreign => new[c] = old[c])
      BY <3>2 DEF Uncopied, Foreign
    <3>4. ValueFits(schema, BeforeKey', t, old, c)
      BY <2>2, <3>2, <3>3 DEF RowsInv
    <3> HIDE DEF old, new
    <3>5. ValueFits(schema', BeforeKey', t, new, c)
      BY <3>1, <3>3, <3>4 DEF ValueFits
    <3>6. QED
      BY <3>5 DEF new
  <2>5. CASE UNCHANGED <<schema, rows>>
    BY <2>2, <2>5 DEF RowsInv
  <2>6. Serve \/ (Kill /\ rows' # rows) \/ UNCHANGED <<schema, rows>>
    BY <1>2 DEF Next, Deploy, ReplaceApi, Downgrade, Refuse, EndRevision, Kill, Killed,
                vars, database
  <2>7. QED
    BY <2>3, <2>4, <2>5, <2>6
<1>3. QED
  BY <1>1, <1>2

\* Who inserts between the two columns of revision 12 has added the second.
LEMMA InLockStep ==
    Control /\ Typed /\ InLock /\ [Next]_vars => InLock'
<1> SUFFICES ASSUME Control, Typed, InLock, [Next]_vars, AfterLock' PROVE InLock'
  BY DEF InLock
<1> DEFINE t == Reason[1]
           lock == <<"column", "timestamp", "required">>
<1>0. t \in AllTables
  BY ReasonFollowsLock
<1>1. CASE Apply
  <2>1. /\ Running /\ migrator.next <= Len(Operations)
        /\ Suits(schema, Pending) /\ RowsFit(Pending)
        /\ schema' = After(schema, Pending) /\ rows' = RowsAfter(Pending)
        /\ migrator \in MigratorRecord
    BY <1>1 DEF Apply, Running, Accepts, Control
  <2>2. migrator.up = TRUE /\ migrator.rev = 12 /\ migrator.next = 1
    BY <1>1, <2>1 DEF Apply, MigratorRecord, AfterLock
  <2>3. Pending \in AllOperations /\ Pending = Add(t, Is("timestamp", {"locked_until"}))
    BY <2>1, <2>2, PendingIs, ReasonFollowsLock DEF Pending, Operations
  <2> DEFINE p == <<"locked_until", lock>>
  <2>4. /\ Pending.do = "add" /\ Pending.table = t /\ p \in Pending.parts
        /\ p[1] = "locked_until" /\ p[2] = lock
    BY <2>3 DEF Add, Is, Column
  <2> DEFINE parts == Pending.parts
             table == schema[t]
  <2>5. /\ t \in DOMAIN schema /\ p[1] \notin DOMAIN table
        /\ p \in parts /\ PartsTyped(parts)
    BY <2>1, <2>3, <2>4, OperationsTyped DEF Suits
  <2>6. t \in DOMAIN schema' /\ schema'[t] = With(table, parts)
    BY <2>1, <2>4, <2>5 DEF After
  <2> HIDE DEF parts, table
  <2>7. p[1] \in DOMAIN With(table, parts) /\ With(table, parts)[p[1]] = p[2]
    BY <2>5, WithAdds
  <2>8. rows[t] = <<>>
    <3>1. PartFits(t, p[2])
      BY <2>1, <2>4 DEF RowsFit
    <3>2. QED
      BY <2>4, <3>1 DEF PartFits, ColumnFits
  <2>9. rows'[t] = <<>>
    <3>1. rows'[t] \in Seq(AnyRow)
      BY <1>0, <2>1, <2>3, RowsAfterIs DEF Typed
    <3>2. Pending.do = "drop table" \/ Len(rows'[t]) = Len(rows[t])
      BY <1>0, <2>1, <2>3, <2>4, RowsAfterIs DEF Typed
    <3>3. Len(rows'[t]) = 0
      BY <2>4, <2>8, <3>2
    <3>4. QED
      BY <3>1, <3>3
  <2> HIDE DEF t, lock, p
  <2>10. /\ Exists(schema', t, "locked_until") /\ schema'[t]["locked_until"] = lock
    BY <2>4, <2>6, <2>7 DEF Exists
  <2>11. QED
    BY <2>9, <2>10 DEF InLock, t, lock
<1>2. CASE Serve
  <2>1. PICK v \in 1..Newest, bucket \in {"set", "high"} : \E u, nulls :
            Insert(v, u, nulls, bucket)
    BY <1>2, ServeInserts
  <2>2. PICK u, nulls : Insert(v, u, nulls, bucket)
    BY <2>1
  <2>3. /\ u \in DOMAIN schema /\ u \in DOMAIN SchemaAt[v + 1]
        /\ Given(v, u) \subseteq Columns(schema, u)
        /\ \A c \in Columns(schema, u) \ Given(v, u) : schema[u][c][3] # "required"
        /\ \E row \in AnyRow : rows' = Appended(u, row)
    BY <2>2, InsertWrites
  <2>4. UNCHANGED <<version, schema, migrator>>
    BY <2>2 DEF Insert
  <2>5. /\ AfterLock /\ Exists(schema, t, "locked_until")
        /\ schema[t]["locked_until"] = lock
        /\ rows[t] = <<>> \/ Reason[2] \in DOMAIN schema[t]
    BY <2>4 DEF InLock, AfterLock, Running
  <2>6. rows'[t] = <<>> \/ Reason[2] \in DOMAIN schema[t]
    <3>1. CASE u # t
      <4>1. rows'[t] = rows[t]
        BY <1>0, <2>3, <3>1, AppendRow DEF Typed
      <4>2. QED
        BY <2>5, <4>1
    <3>2. CASE u = t
      <4>1. "locked_until" \in Columns(schema, t) /\ lock[3] = "required"
        BY <2>5 DEF Exists, Columns
      <4>2. "locked_until" \in Given(v, t)
        BY <2>3, <2>5, <3>2, <4>1
      <4>3. Reason[2] \in Columns(schema, t)
        BY <2>3, <3>2, <4>2, ReasonFollowsLock
      <4>4. QED
        BY <4>3 DEF Columns
    <3>3. QED
      BY <3>1, <3>2
  <2>7. QED
    BY <2>4, <2>5, <2>6 DEF InLock, Exists
<1>3. CASE (\E v \in Deployable : Deploy(v)) \/ Downgrade \/ EndRevision
  <2>1. migrator'.next = 1
    BY <1>3 DEF Deploy, Downgrade, EndRevision, Migrator
  <2>2. QED
    BY <2>1 DEF AfterLock
<1>4. CASE Refuse \/ Kill
  <2>1. migrator'.state # "running"
    BY <1>4 DEF Refuse, Kill, Killed, Control, MigratorRecord
  <2>2. QED
    BY <2>1 DEF AfterLock, Running
<1>5. CASE ReplaceApi \/ UNCHANGED vars
  <2>1. UNCHANGED <<schema, rows, migrator>>
    BY <1>5 DEF ReplaceApi, vars, database
  <2>2. QED
    BY <2>1 DEF InLock, AfterLock, Running, Exists
<1>6. QED
  BY <1>1, <1>2, <1>3, <1>4, <1>5 DEF Next

\* At the newest version a row holds no value that nobody has written, but in
\* the columns of Invented (the upgrade()s that add a column over rows).
THEOREM ValuesAreWritten == Spec => []ValuesWritten
<1>1. Init => InLock /\ RowsInv
  BY DEF Init, InLock, AfterLock, Running, RowsInv
<1>2. Control /\ Typed /\ InLock /\ [Next]_vars => InLock'
  BY InLockStep
<1>3. Control /\ Typed /\ InLock /\ RowsInv /\ [Next]_vars => RowsInv'
  BY RowsStep
<1>4. HeadIsModel /\ RowsInv => ValuesWritten
  <2> SUFFICES ASSUME HeadIsModel, RowsInv, Upgraded, version = Newest,
                      NEW t \in AllTables, NEW i \in DOMAIN rows[t],
                      NEW c \in DOMAIN rows[t][i], rows[t][i][c] \in Foreign
               PROVE  <<t, c>> \in Invented
    BY DEF ValuesWritten, Foreign
  <2>1. ValueFits(schema, BeforeKey, t, rows[t][i], c)
    BY DEF RowsInv
  <2>2. ~BeforeKey
    BY RevisionsAreLists DEF BeforeKey
  <2>3. <<t, c>> \in Invented \cup Gone
    BY <2>1, <2>2 DEF ValueFits, Spoiled
  <2>4. c \in Columns(Models, t)
    BY <2>1 DEF ValueFits, HeadIsModel
  <2>5. <<t, c>> \notin Gone
    <3>1. <<t, c>> \in Gone => <<t, c>>[2] \notin Columns(Models, <<t, c>>[1])
      BY ColumnsInvented
    <3>2. QED
      BY <2>4, <3>1
  <2>6. QED
    BY <2>3, <2>5
<1>5. QED
  BY <1>1, <1>2, <1>3, <1>4, TypedInvariant, HeadMatchesModels, PTL DEF Spec
-----------------------------------------------------------------------------
(* The rows and the schema: every row has the columns of its table, at     *)
(* every moment of a revision, and a table that is not there has no rows.  *)
RowsMatch ==
    \A t \in AllTables :
        /\ t \notin DOMAIN schema => rows[t] = <<>>
        /\ \A i \in DOMAIN rows[t] : DOMAIN rows[t][i] = Columns(schema, t)

\* A column that is there after an operation was there, or the operation adds it.
LEMMA NewColumn ==
    ASSUME TypedSchema(schema), NEW op \in AllOperations, Suits(schema, op),
           op.table \in DOMAIN schema, NEW c \in Columns(After(schema, op), op.table)
    PROVE  \/ c \in Columns(schema, op.table) /\ ~Drops(op, op.table, c)
           \/ op.do = "add" /\ \E p \in op.parts : p[1] = c /\ p[2][1] = "column"
<1> DEFINE table == schema[op.table]
           new == After(schema, op)[op.table]
<1>1. /\ op.table \in DOMAIN After(schema, op) /\ c \in DOMAIN new /\ new[c][1] = "column"
  BY DEF Columns
<1>2. ASSUME c \in DOMAIN table, table[c][1] = "column", ~Drops(op, op.table, c)
      PROVE  c \in Columns(schema, op.table) /\ ~Drops(op, op.table, c)
  BY <1>2 DEF Columns
<1>3. CASE op.do = "create"
  BY <1>3 DEF Suits
<1>4. CASE op.do = "add"
  <2> DEFINE parts == op.parts
  <2>1. new = With(table, parts) /\ PartsTyped(parts)
    BY <1>4, OperationsTyped DEF After
  <2>2. ~Drops(op, op.table, c)
    BY <1>4 DEF Drops
  <2> HIDE DEF table, new, parts
  <2>3. CASE c \in DOMAIN table
    <3>1. table[c][1] = "column"
      BY <1>1, <2>1, <2>3, WithKeeps
    <3>2. QED
      BY <1>2, <2>2, <2>3, <3>1
  <2>4. CASE c \notin DOMAIN table
    <3>1. PICK p \in parts : p[1] = c
      BY <1>1, <2>1, <2>4, WithDomain
    <3>2. With(table, parts)[p[1]] = p[2]
      BY <2>1, <2>4, <3>1, WithAdds
    <3>3. p[2][1] = "column"
      BY <1>1, <2>1, <3>1, <3>2
    <3>4. QED
      BY <1>4, <3>1, <3>3 DEF parts
  <2>5. QED
    BY <2>3, <2>4
<1>5. CASE op.do = "add unnamed"
  <2> DEFINE p == <<FreeName(table), op.is>>
             parts == {p}
  <2>1. new = With(table, parts) /\ p[2][1] = "fk"
    BY <1>5, OperationsTyped DEF After
  <2>3. ~Drops(op, op.table, c)
    BY <1>5 DEF Drops
  <2>4. c \in DOMAIN table
    <3> SUFFICES ASSUME c \notin DOMAIN table PROVE FALSE
      OBVIOUS
    <3>1. new[c] = (CHOOSE q \in parts : q[1] = c)[2] /\ \E q \in parts : q[1] = c
      BY <1>1, <2>1 DEF With
    <3>2. (CHOOSE q \in parts : q[1] = c) = p
      BY <3>1
    <3>3. QED
      BY <1>1, <2>1, <3>1, <3>2
  <2> HIDE DEF table, new, p, parts
  <2>5. table[c][1] = "column"
    BY <1>1, <2>1, <2>4, WithKeeps
  <2>6. QED
    BY <1>2, <2>3, <2>4, <2>5
<1>6. CASE op.do = "drop"
  <2>1. After(schema, op) = [schema EXCEPT ![op.table] = Without(@, op.name)]
    BY <1>6 DEF After
  <2>2. new = [m \in DOMAIN table \ {op.name} |-> table[m]]
    BY <2>1 DEF Without
  <2>3. c \in DOMAIN table /\ c # op.name /\ table[c][1] = "column"
    BY <1>1, <2>2
  <2>4. ~Drops(op, op.table, c)
    BY <1>6, <2>3 DEF Drops
  <2>5. QED
    BY <1>2, <2>3, <2>4
<1>7. CASE op.do = "drop table"
  BY <1>1, <1>7 DEF After, Without
<1>8. CASE op.do = "alter"
  <2>1. After(schema, op) = [schema EXCEPT ![op.table] = [@ EXCEPT ![op.name] = op.is]]
    BY <1>8 DEF After
  <2>2. new = [table EXCEPT ![op.name] = op.is]
    BY <2>1
  <2>3. op.name \in Altered
    BY <1>8 DEF Altered
  <2>4. TableTyped(table)
    BY DEF TypedSchema
  <2>5. c \in DOMAIN table /\ (c # op.name => table[c][1] = "column")
    BY <1>1, <2>2
  <2>6. table[c][1] = "column"
    BY <2>3, <2>4, <2>5 DEF TableTyped
  <2>7. ~Drops(op, op.table, c)
    BY <1>8 DEF Drops
  <2>8. QED
    BY <1>2, <2>5, <2>6, <2>7
<1>9. CASE op.do = "copy"
  <2>1. new = table /\ ~Drops(op, op.table, c)
    BY <1>9 DEF After, Drops
  <2>2. QED
    BY <1>1, <1>2, <2>1
<1>10. QED
  BY <1>3, <1>4, <1>5, <1>6, <1>7, <1>8, <1>9, OperationsTyped

\* What is kept of a row, and what it gets.
LEMMA RewrittenHas ==
    ASSUME NEW op \in AllOperations, KeepsRows(op), NEW row, NEW c,
           \/ c \in DOMAIN row /\ ~Drops(op, op.table, c)
           \/ op.do = "add" /\ \E p \in op.parts : p[1] = c /\ p[2][1] = "column"
    PROVE  c \in DOMAIN Rewritten(row, op)
<1>1. CASE op.do = "add"
  <2> DEFINE parts == op.parts
             new == {p \in parts : p[2][1] = "column"}
  <2>1. DOMAIN Rewritten(row, op) = DOMAIN row \cup {p[1] : p \in new}
    BY <1>1 DEF Rewritten, Widened
  <2>2. c \in DOMAIN row \/ \E p \in parts : p[1] = c /\ p[2][1] = "column"
    OBVIOUS
  <2>3. QED
    BY <2>1, <2>2
<1>2. CASE op.do = "drop"
  <2>1. DOMAIN Rewritten(row, op) = DOMAIN row \ {op.name}
    BY <1>2 DEF Rewritten
  <2>2. c \in DOMAIN row /\ c # op.name
    BY <1>2 DEF Drops
  <2>3. QED
    BY <2>1, <2>2
<1>3. CASE op.do \in {"create", "add unnamed", "alter", "copy"}
  <2>1. DOMAIN Rewritten(row, op) = DOMAIN row
    BY <1>3 DEF Rewritten, Converted
  <2>2. QED
    BY <1>3, <2>1
<1>4. QED
  BY <1>1, <1>2, <1>3, OperationsTyped DEF KeepsRows

LEMMA RewrittenMatches ==
    ASSUME TypedSchema(schema), NEW op \in AllOperations, Suits(schema, op),
           KeepsRows(op), op.table \in DOMAIN schema,
           NEW row, DOMAIN row = Columns(schema, op.table)
    PROVE  DOMAIN Rewritten(row, op) = Columns(After(schema, op), op.table)
<1>1. ASSUME NEW c \in DOMAIN Rewritten(row, op)
      PROVE  c \in Columns(After(schema, op), op.table)
  BY RewrittenColumns
<1>2. ASSUME NEW c \in Columns(After(schema, op), op.table)
      PROVE  c \in DOMAIN Rewritten(row, op)
  <2>1. \/ c \in DOMAIN row /\ ~Drops(op, op.table, c)
        \/ op.do = "add" /\ \E p \in op.parts : p[1] = c /\ p[2][1] = "column"
    BY NewColumn
  <2>2. QED
    BY <2>1, RewrittenHas
<1>3. QED
  BY <1>1, <1>2

\* An operation is about one table.
LEMMA OtherTables ==
    ASSUME NEW op \in AllOperations, NEW t, t # op.table
    PROVE  /\ t \in DOMAIN After(schema, op) <=> t \in DOMAIN schema
           /\ Columns(After(schema, op), t) = Columns(schema, t)
<1>1. /\ t \in DOMAIN After(schema, op) <=> t \in DOMAIN schema
      /\ t \in DOMAIN schema => After(schema, op)[t] = schema[t]
  <2>1. CASE op.do = "create"
    BY <2>1 DEF After
  <2>2. CASE op.do = "drop table"
    BY <2>2 DEF After, Without
  <2>3. CASE op.do = "copy"
    BY <2>3 DEF After
  <2>4. CASE op.do \in {"add", "add unnamed", "drop", "alter"}
    BY <2>4 DEF After
  <2>5. QED
    BY <2>1, <2>2, <2>3, <2>4, OperationsTyped
<1>2. QED
  BY <1>1 DEF Columns

LEMMA TableStays ==
    ASSUME NEW op \in AllOperations, Suits(schema, op), KeepsRows(op)
    PROVE  /\ op.table \in DOMAIN After(schema, op)
           /\ op.table \notin DOMAIN schema => op.do = "create"
<1>1. CASE op.do = "create"
  BY <1>1 DEF After
<1>2. CASE op.do = "copy"
  BY <1>2 DEF After, Suits, Exists
<1>3. CASE op.do \in {"add", "add unnamed"}
  BY <1>3 DEF After, Suits
<1>4. CASE op.do \in {"drop", "alter"}
  BY <1>4 DEF After, Suits, Exists
<1>5. QED
  BY <1>1, <1>2, <1>3, <1>4, OperationsTyped DEF KeepsRows

LEMMA MatchStep ==
    Control /\ Typed /\ RowsMatch /\ [Next]_vars => RowsMatch'
<1> SUFFICES ASSUME Control, Typed, RowsMatch, [Next]_vars PROVE RowsMatch'
  OBVIOUS
<1>1. CASE Apply
  <2> DEFINE op == Pending
  <2>1. /\ op \in AllOperations /\ Suits(schema, op)
        /\ schema' = After(schema, op) /\ rows' = RowsAfter(op)
    BY <1>1, PendingIs DEF Apply, Running, Accepts
  <2> HIDE DEF op
  <2> SUFFICES ASSUME NEW t \in AllTables
               PROVE  /\ t \notin DOMAIN schema' => rows'[t] = <<>>
                      /\ \A i \in DOMAIN rows'[t] :
                            DOMAIN rows'[t][i] = Columns(schema', t)
    BY DEF RowsMatch
  <2>2. CASE t # op.table
    <3>1. rows'[t] = rows[t]
      BY <2>1, <2>2, RowsAfterIs DEF Typed
    <3>2. /\ t \in DOMAIN schema' <=> t \in DOMAIN schema
          /\ Columns(schema', t) = Columns(schema, t)
      BY <2>1, <2>2, OtherTables
    <3>3. QED
      BY <3>1, <3>2 DEF RowsMatch
  <2>3. CASE t = op.table /\ ~KeepsRows(op)
    <3>1. rows'[t] = <<>>
      BY <2>1, <2>3, RowsAfterIs DEF Typed, KeepsRows
    <3>2. QED
      BY <3>1
  <2>4. CASE t = op.table /\ KeepsRows(op)
    <3>1. /\ DOMAIN rows'[t] = DOMAIN rows[t]
          /\ \A i \in DOMAIN rows[t] : rows'[t][i] = Rewritten(rows[t][i], op)
      BY <2>1, <2>4, RowsAfterIs DEF Typed, KeepsRows
    <3>2. t \in DOMAIN schema'
      BY <2>1, <2>4, TableStays
    <3>3. ASSUME NEW i \in DOMAIN rows[t]
          PROVE  DOMAIN Rewritten(rows[t][i], op) = Columns(schema', t)
      <4> DEFINE row == rows[t][i]
      <4>1. t \in DOMAIN schema /\ DOMAIN row = Columns(schema, t)
        BY <3>3 DEF RowsMatch
      <4>2. TypedSchema(schema)
        BY DEF Typed
      <4> HIDE DEF row
      <4>3. DOMAIN Rewritten(row, op) = Columns(schema', t)
        BY <2>1, <2>4, <4>1, <4>2, RewrittenMatches
      <4>4. QED
        BY <4>3 DEF row
    <3>4. QED
      BY <3>1, <3>2, <3>3
  <2>5. QED
    BY <2>2, <2>3, <2>4
<1>2. CASE Serve
  <2>1. PICK v \in 1..Newest, bucket \in {"set", "high"} : \E t, nulls :
            Insert(v, t, nulls, bucket)
    BY <1>2, ServeInserts
  <2>2. PICK t, nulls : Insert(v, t, nulls, bucket)
    BY <2>1
  <2>3. /\ t \in DOMAIN schema
        /\ \E row \in AnyRow : rows' = Appended(t, row) /\ DOMAIN row = Columns(schema, t)
    BY <2>2, InsertWrites
  <2>4. PICK row \in AnyRow : rows' = Appended(t, row) /\ DOMAIN row = Columns(schema, t)
    BY <2>3
  <2>5. schema' = schema
    BY <2>2 DEF Insert
  <2>6. \A u \in AllTables :
           /\ u # t => rows'[u] = rows[u]
           /\ \A i \in DOMAIN rows'[u] :
                 IF i \in DOMAIN rows[u] THEN rows'[u][i] = rows[u][i]
                 ELSE u = t /\ rows'[u][i] = row
    BY <2>4, AppendRow DEF Typed
  <2>7. ASSUME NEW u \in AllTables, NEW i \in DOMAIN rows'[u]
        PROVE  DOMAIN rows'[u][i] = Columns(schema, u)
    <3>1. CASE i \in DOMAIN rows[u]
      BY <2>6, <2>7, <3>1 DEF RowsMatch
    <3>2. CASE i \notin DOMAIN rows[u]
      BY <2>4, <2>6, <2>7, <3>2
    <3>3. QED
      BY <3>1, <3>2
  <2>8. \A u \in AllTables : u \notin DOMAIN schema => rows'[u] = <<>>
    BY <2>3, <2>6 DEF RowsMatch
  <2>9. QED
    BY <2>5, <2>7, <2>8 DEF RowsMatch
<1>3. CASE Kill /\ rows' # rows
  <2>1. rows' = RowsKilled /\ RowsKilled # rows /\ schema' = schema
    BY <1>3 DEF Kill, Killed
  <2>2. \A t \in AllTables :
           /\ DOMAIN rows'[t] = DOMAIN rows[t] /\ Len(rows'[t]) = Len(rows[t])
           /\ rows'[t] \in Seq(AnyRow)
           /\ \A i \in DOMAIN rows[t] : rows'[t][i] = Uncopied(rows[t][i])
    BY <2>1, KilledRows DEF Typed
  <2>3. \A row : DOMAIN Uncopied(row) = DOMAIN row
    BY DEF Uncopied
  <2>4. \A t \in AllTables : rows[t] = <<>> => rows'[t] = <<>>
    BY <2>2
  <2>5. QED
    BY <2>1, <2>2, <2>3, <2>4 DEF RowsMatch
<1>4. CASE UNCHANGED <<schema, rows>>
  BY <1>4 DEF RowsMatch
<1>5. Apply \/ Serve \/ (Kill /\ rows' # rows) \/ UNCHANGED <<schema, rows>>
  BY DEF Next, Deploy, ReplaceApi, Downgrade, Refuse, EndRevision, Kill, Killed,
         vars, database
<1>6. QED
  BY <1>1, <1>2, <1>3, <1>4, <1>5

\* Versions, migrator and rows keep their types; of a row that is to have, at
\* every moment of a revision, exactly the columns of its table.
THEOREM DatabaseTypeCorrect == Spec => []TypeOK
<1>1. Init => RowsMatch
  BY DEF Init, RowsMatch
<1>2. Control /\ Typed /\ RowsMatch /\ [Next]_vars => RowsMatch'
  BY MatchStep
<1>3. Control /\ Typed /\ RowsMatch => TypeOK
  <2> SUFFICES ASSUME Control, Typed, RowsMatch PROVE TypeOK
    OBVIOUS
  <2>1. ASSUME NEW t \in AllTables, NEW i \in DOMAIN rows[t]
        PROVE  rows[t][i] \in [Columns(schema, t) -> Values]
    <3>1. rows[t] \in Seq(AnyRow)
      BY DEF Typed, RowsTyped
    <3>2. rows[t][i] \in AnyRow
      BY <2>1, <3>1
    <3>3. rows[t][i] \in [DOMAIN rows[t][i] -> Values]
      BY <3>2, RowHas
    <3>4. QED
      BY <3>3 DEF RowsMatch
  <2>2. QED
    BY <2>1 DEF TypeOK, Control, MigratorRecord, Typed
<1>4. QED
  BY <1>1, <1>2, <1>3, TypedInvariant, PTL DEF Spec
=============================================================================
