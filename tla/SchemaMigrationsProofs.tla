---- MODULE SchemaMigrationsProofs ----
(* The safety properties of SchemaMigrations, for any number of replicas. *)
EXTENDS SchemaMigrations, TLAPS

\* The migrations have between one and ten tables.
LEMMA SchemaShape ==
    /\ DOMAIN Schema = 0..2
    /\ \A m \in 0..2 : /\ Len(Schema[m]) \in 1..10 /\ DOMAIN Schema[m] = 1..Len(Schema[m])
                       /\ Last(m) \in 1..11
                       /\ Last(m) = IF m = 0 THEN Len(Schema[m]) ELSE Len(Schema[m]) + 1
<1>1. Len(InitialSchema) = 10 /\ DOMAIN InitialSchema = 1..10
  BY DEF InitialSchema
<1>2. Len(IntuneTables) = 3 /\ DOMAIN IntuneTables = 1..3
  BY DEF IntuneTables
<1>3. Len(<<"_migrations">>) = 1 /\ DOMAIN <<"_migrations">> = 1..1
  OBVIOUS
<1>4. DOMAIN Schema = 0..2 /\ Schema[0] = <<"_migrations">> /\ Schema[1] = InitialSchema /\ Schema[2] = IntuneTables
  BY DEF Schema
<1> HIDE DEF InitialSchema, IntuneTables, Schema
<1>5. Len(Schema[0]) = 1 /\ DOMAIN Schema[0] = 1..1
  BY <1>3, <1>4
<1>6. Len(Schema[1]) = 10 /\ DOMAIN Schema[1] = 1..10
  BY <1>1, <1>4
<1>7. Len(Schema[2]) = 3 /\ DOMAIN Schema[2] = 1..3
  BY <1>2, <1>4
<1>8. Last(0) = 1 /\ Last(1) = 11 /\ Last(2) = 4
  BY <1>6, <1>7 DEF Last
<1> SUFFICES ASSUME NEW m \in 0..2
             PROVE  /\ Len(Schema[m]) \in 1..10 /\ DOMAIN Schema[m] = 1..Len(Schema[m])
                    /\ Last(m) \in 1..11
                    /\ Last(m) = IF m = 0 THEN Len(Schema[m]) ELSE Len(Schema[m]) + 1
  BY <1>4
<1>9. CASE m = 0
  <2>1. Len(Schema[m]) = 1 /\ Last(m) = 1
    BY <1>5, <1>8, <1>9
  <2>2. DOMAIN Schema[m] = 1..Len(Schema[m])
    BY <1>5, <1>9, Zenon
  <2> QED BY <1>9, <2>1, <2>2
<1>10. CASE m = 1
  <2>1. Len(Schema[m]) = 10 /\ Last(m) = 11
    BY <1>6, <1>8, <1>10
  <2>2. DOMAIN Schema[m] = 1..Len(Schema[m])
    BY <1>6, <1>10, Zenon
  <2> QED BY <1>10, <2>1, <2>2
<1>11. CASE m = 2
  <2>1. Len(Schema[m]) = 3 /\ Last(m) = 4
    BY <1>7, <1>8, <1>11
  <2>2. DOMAIN Schema[m] = 1..Len(Schema[m])
    BY <1>7, <1>11, Zenon
  <2> QED BY <1>11, <2>1, <2>2
<1> QED BY <1>9, <1>10, <1>11

\* No table and no name appears twice in the migrations.
LEMMA NoRepeats ==
    ASSUME NEW m \in 0..2, NEW n \in 0..2, NEW i \in 1..Last(m), NEW j \in 1..Last(n),
           Statement(m, i) = Statement(n, j)
    PROVE  m = n /\ i = j
<1>1. \A a \in 1..10 : InitialSchema[a] # "_migrations" /\ InitialSchema[a] \notin {Names[1], Names[2]}
  BY DEF InitialSchema, Names
<1>2. \A a \in 1..3 : IntuneTables[a] # "_migrations" /\ IntuneTables[a] \notin {Names[1], Names[2]}
  BY DEF IntuneTables, Names
<1>3. \A a \in 1..10, b \in 1..3 : InitialSchema[a] # IntuneTables[b]
  BY DEF InitialSchema, IntuneTables
<1>4. \A a, b \in 1..10 : InitialSchema[a] = InitialSchema[b] => a = b
  BY DEF InitialSchema
<1>5. \A a, b \in 1..3 : IntuneTables[a] = IntuneTables[b] => a = b
  BY DEF IntuneTables
<1>6. Names[1] # Names[2] /\ Names[1] # "_migrations" /\ Names[2] # "_migrations"
  BY DEF Names
<1>7. Len(InitialSchema) = 10 /\ Len(IntuneTables) = 3 /\ Len(<<"_migrations">>) = 1 /\ <<"_migrations">>[1] = "_migrations"
  BY DEF InitialSchema, IntuneTables
<1>8. Schema[0] = <<"_migrations">> /\ Schema[1] = InitialSchema /\ Schema[2] = IntuneTables
  BY DEF Schema
<1> HIDE DEF InitialSchema, IntuneTables, Names, Schema
<1>9. Len(Schema[0]) = 1 /\ Schema[0][1] = "_migrations" /\ Len(Schema[1]) = 10 /\ Len(Schema[2]) = 3
  BY <1>7, <1>8
<1>10. Last(0) = 1 /\ Last(1) = 11 /\ Last(2) = 4
  BY <1>9 DEF Last
<1>11. /\ Statement(0, 1) = "_migrations"
       /\ \A a \in 1..11 : Statement(1, a) = IF a <= 10 THEN InitialSchema[a] ELSE Names[1]
       /\ \A a \in 1..4 : Statement(2, a) = IF a <= 3 THEN IntuneTables[a] ELSE Names[2]
  BY <1>8, <1>9 DEF Statement
<1> QED BY <1>1, <1>2, <1>3, <1>4, <1>5, <1>6, <1>10, <1>11

\* A migration's objects are what its statements make.
LEMMA ObjectsAreStatements ==
    \A m \in 0..2 : Objects(m) = {Statement(m, i) : i \in 1..Last(m)}
<1> TAKE m \in 0..2
<1> DEFINE L == Len(Schema[m])
<1>1. L \in 1..10 /\ DOMAIN Schema[m] = 1..L /\ Last(m) = IF m = 0 THEN L ELSE L + 1
  BY SchemaShape
<1>2. \A i \in 1..11 : Statement(m, i) = IF i <= L THEN Schema[m][i] ELSE Names[m]
  BY DEF Statement
<1>3. TablesOf(m) = {Schema[m][i] : i \in 1..L}
  BY <1>1 DEF TablesOf
<1> HIDE DEF L
<1>4. {Statement(m, i) : i \in 1..L} = {Schema[m][i] : i \in 1..L}
  <2>1. L \in 1..10
    BY <1>1
  <2>2. \A i \in 1..L : i \in 1..11 /\ i <= L
    BY <2>1
  <2>3. \A i \in 1..L : Statement(m, i) = Schema[m][i]
    BY <1>2, <2>2
  <2> QED BY <2>3
<1>5. CASE m = 0
  <2>1. Last(m) = L
    BY <1>1, <1>5
  <2> QED BY <1>3, <1>4, <1>5, <2>1 DEF Objects
<1>6. CASE m # 0
  <2>1. Last(m) = L + 1 /\ 1..Last(m) = 1..L \cup {L + 1} /\ L + 1 \in 1..11 /\ ~(L + 1 <= L)
    BY <1>1, <1>6
  <2>2. Statement(m, L + 1) = Names[m]
    BY <1>2, <2>1
  <2>3. {Statement(m, i) : i \in 1..Last(m)} = {Statement(m, i) : i \in 1..L} \cup {Statement(m, L + 1)}
    BY <2>1
  <2> QED BY <1>3, <1>4, <1>6, <2>2, <2>3 DEF Objects
<1> QED BY <1>5, <1>6

\* The statement a transaction is at.
LEMMA TargetIsStatement ==
    ASSUME TypeOK, NEW r \in Replicas, nth[r] <= Last(mig[r])
    PROVE  /\ Target(r) = Statement(mig[r], nth[r])
           /\ Target(r) \in Objects(mig[r])
           /\ Target(r) \in AllObjects
           /\ AtInsert(r) <=> mig[r] > 0 /\ nth[r] = Last(mig[r])
           /\ mig[r] \in 0..2 /\ nth[r] \in 1..Last(mig[r])
<1>1. mig[r] \in 0..2 /\ nth[r] \in 1..11
  BY DEF TypeOK
<1>2. AtInsert(r) <=> mig[r] > 0 /\ nth[r] = Last(mig[r])
  BY <1>1, SchemaShape DEF AtInsert
<1>3. Target(r) = Statement(mig[r], nth[r])
  <2> DEFINE L == Len(Schema[mig[r]])
  <2>1. L \in 1..10 /\ Last(mig[r]) = IF mig[r] = 0 THEN L ELSE L + 1
    BY <1>1, SchemaShape
  <2>2. nth[r] = L + 1 <=> ~(nth[r] <= L)
    BY SMTT(30), <1>1, <2>1
  <2> QED BY <2>2 DEF Target, Statement, AtInsert
<1> QED BY <1>1, <1>2, <1>3, ObjectsAreStatements DEF AllObjects

\* Two different migrations share no object.
LEMMA ObjectsDisjoint ==
    ASSUME NEW m \in 0..2, NEW n \in 0..2, NEW x \in Objects(m), x \in Objects(n)
    PROVE  m = n
BY NoRepeats, ObjectsAreStatements

----
(* Each action preserves the inductive invariant. *)

LEMMA InitIInv == Init => IInv
<1> SUFFICES ASSUME Init PROVE IInv
  OBVIOUS
<1>1. TypeOK
  BY BoundsAssumption DEF Init, TypeOK
<1>2. CommittedInOrder /\ AppliedOnce /\ ServesItsSchema /\ \A r \in Replicas : HoldsRightly(r) /\ InProgress(r)
  BY DEF Init, CommittedInOrder, AppliedOnce, HoldsRightly, InProgress, ServesItsSchema, HeldByAnother, InTransaction
<1> QED BY <1>1, <1>2 DEF IInv

\* A transaction that runs has made all it passed of its migration, or the
\* migration was committed by another and it has made nothing of it.
LEMMA RunsWhole ==
    ASSUME IInv, NEW r \in Replicas, pc[r] = "run"
    PROVE  /\ mig[r] \in 0..2 /\ nth[r] \in 1..Last(mig[r])
           /\ Target(r) = Statement(mig[r], nth[r])
           /\ Target(r) \in Objects(mig[r]) /\ Target(r) \in AllObjects
           /\ Target(r) \in committed => Objects(mig[r]) \subseteq committed
           /\ Target(r) \notin made[r]
           /\ \/ Objects(mig[r]) \subseteq committed
              \/ \A j \in 1..(nth[r] - 1) : Statement(mig[r], j) \in made[r]
<1>1. mig[r] \in 0..2 /\ nth[r] \in 1..11 /\ nth[r] <= Last(mig[r]) /\ Last(mig[r]) \in 1..11
  BY SchemaShape DEF IInv, TypeOK, InProgress, InTransaction
<1>2. /\ Target(r) = Statement(mig[r], nth[r])
      /\ Target(r) \in Objects(mig[r]) /\ Target(r) \in AllObjects
  BY <1>1, TargetIsStatement DEF IInv
<1>3. Target(r) \in committed => Objects(mig[r]) \subseteq committed
  BY <1>1, <1>2 DEF IInv, CommittedInOrder
<1>4. Target(r) \notin made[r]
  BY <1>1, <1>2 DEF IInv, InProgress, InTransaction
<1>5. \/ Objects(mig[r]) \subseteq committed
      \/ \A j \in 1..(nth[r] - 1) : Statement(mig[r], j) \in made[r]
  <2>1. CASE nth[r] = 1
    BY <2>1
  <2>2. CASE nth[r] > 1 /\ Statement(mig[r], 1) \in made[r]
    BY <1>1, <2>2 DEF IInv, InProgress, InTransaction
  <2> QED BY <1>1, <2>1, <2>2 DEF IInv, InProgress, InTransaction
<1> QED BY <1>1, <1>2, <1>3, <1>4, <1>5

\* Whoever holds an object of an uncommitted migration has made, or found, all
\* before it, and holds the migration's first statement.
LEMMA HolderCameThrough ==
    ASSUME IInv, NEW q \in Replicas, NEW m \in 0..2, NEW x \in Objects(m), x \in made[q], x \notin committed
    PROVE  /\ \A n \in 0..2 : n < m => Objects(n) \subseteq Visible(q)
           /\ Statement(m, 1) \in made[q]
<1>1. pc[q] \in InTransaction /\ mig[q] \in 0..2
  BY DEF IInv, HoldsRightly, TypeOK
<1>2. m <= mig[q]
  BY <1>1 DEF IInv, InProgress
<1>3. \A n \in 0..2 : n < m => Objects(n) \subseteq Visible(q)
  BY <1>1, <1>2 DEF IInv, InProgress
<1>4. Statement(m, 1) \in Objects(m)
  <2>1. 1 \in 1..Last(m)
    BY SchemaShape
  <2> QED BY <2>1, ObjectsAreStatements
<1>5. Objects(m) \cap committed = {}
  <2>1. m \in 0..m
    OBVIOUS
  <2>2. committed \cap Objects(m) # {} => Objects(m) \subseteq committed
    BY <2>1, Zenon DEF IInv, CommittedInOrder
  <2> QED BY <2>2
<1>6. Statement(m, 1) \in made[q]
  <2>1. CASE m < mig[q] \/ pc[q] = "commit"
    BY <1>1, <1>2, <1>4, <1>5, <2>1 DEF IInv, InProgress, Visible
  <2>2. CASE m = mig[q] /\ pc[q] = "select"
    BY <1>1, <2>2 DEF IInv, InProgress
  <2>3. CASE m = mig[q] /\ pc[q] = "run"
    <3>1. PICK i \in 1..Last(m) : x = Statement(m, i)
      BY ObjectsAreStatements
    <3>2. i < nth[q] /\ \A j \in 1..(nth[q] - 1) : Statement(mig[q], j) \in made[q]
      BY <1>1, <2>3, <3>1 DEF IInv, InProgress
    <3>3. nth[q] \in 1..11
      BY DEF IInv, TypeOK
    <3>4. Last(m) \in 1..11
      BY SchemaShape
    <3>5. 1 \in 1..(nth[q] - 1)
      BY <3>2, <3>3, <3>4
    <3> QED BY <2>3, <3>2, <3>5
  <2> QED BY <1>1, <1>2, <2>1, <2>2, <2>3 DEF InTransaction
<1> QED BY <1>3, <1>6

\* What a replica holds of the invariant survives the steps of the others, of
\* which it sees no more than that more is committed.
LEMMA OthersKeep ==
    ASSUME IInv, NEW q \in Replicas,
           pc'[q] = pc[q], mig'[q] = mig[q], nth'[q] = nth[q], made'[q] = made[q],
           waits'[q] = waits[q], build'[q] = build[q], committed \subseteq committed'
    PROVE  /\ HoldsRightly(q)' /\ InProgress(q)'
           /\ pc'[q] \in {"migrated", "listening"} => \A m \in 0..build'[q] : Objects(m) \subseteq committed'
<1>1. HoldsRightly(q)'
  BY DEF IInv, HoldsRightly
<1>2. Visible(q) \subseteq Visible(q)'
  BY DEF Visible
<1>3. InProgress(q)'
  <2> SUFFICES ASSUME pc'[q] \in InTransaction PROVE InProgress(q)'
    BY DEF InProgress
  <2>2. pc[q] \in InTransaction
    OBVIOUS
  <2>3. mig'[q] <= build'[q] /\ \A n \in 0..2 : n < mig'[q] => Objects(n) \subseteq Visible(q)'
    BY <1>2, <2>2 DEF IInv, InProgress
  <2>4. \A n \in 0..2 : n > mig'[q] => made'[q] \cap Objects(n) = {}
    BY <2>2 DEF IInv, InProgress
  <2>5. pc'[q] = "commit" => mig'[q] = build'[q] /\ Objects(mig'[q]) \subseteq Visible(q)'
    BY <1>2, <2>2 DEF IInv, InProgress
  <2>6. pc'[q] = "select" => made'[q] \cap Objects(mig'[q]) = {} /\ mig'[q] > 0
    BY <2>2 DEF IInv, InProgress
  <2>7. ASSUME pc'[q] = "run"
        PROVE  /\ nth'[q] <= Last(mig'[q])
               /\ \A i \in 1..Last(mig'[q]) : Statement(mig'[q], i) \in made'[q] =>
                    i < nth'[q] /\ \A j \in 1..(nth'[q] - 1) : Statement(mig'[q], j) \in made'[q]
               /\ nth'[q] > 1 => Statement(mig'[q], 1) \in made'[q] \/ Objects(mig'[q]) \subseteq committed'
    BY <2>2, <2>7 DEF IInv, InProgress
  <2> QED BY <2>3, <2>4, <2>5, <2>6, <2>7 DEF InProgress
<1> QED BY <1>1, <1>3 DEF IInv, ServesItsSchema

\* A step of one replica preserves the invariant if it does so for that replica.
LEMMA StepOf ==
    ASSUME IInv, TypeOK', CommittedInOrder', AppliedOnce', committed \subseteq committed',
           NEW r \in Replicas,
           \A q \in Replicas \ {r} : /\ pc'[q] = pc[q] /\ mig'[q] = mig[q] /\ nth'[q] = nth[q]
                                     /\ made'[q] = made[q] /\ waits'[q] = waits[q]
                                     /\ build'[q] = build[q],
           HoldsRightly(r)', InProgress(r)',
           pc'[r] \in {"migrated", "listening"} => \A m \in 0..build'[r] : Objects(m) \subseteq committed'
    PROVE  IInv'
<1>1. \A q \in Replicas : HoldsRightly(q)' /\ InProgress(q)'
  BY OthersKeep
<1>2. ServesItsSchema'
  BY OthersKeep DEF ServesItsSchema
<1> QED BY <1>1, <1>2 DEF IInv

LEMMA NothingNewMade ==
    ASSUME IInv, committed' = committed, \A q \in Replicas : made'[q] \subseteq made[q]
    PROVE  CommittedInOrder' /\ AppliedOnce'
<1>1. CommittedInOrder'
  BY DEF IInv, CommittedInOrder
<1>2. AppliedOnce'
  BY DEF IInv, AppliedOnce, HeldByAnother
<1> QED BY <1>1, <1>2

\* The ends of a transaction, and the steps outside one.
LEMMA EndsIInv ==
    ASSUME IInv, NEW r \in Replicas, Ends(r), build' = build, committed' = committed,
           faults' \in 0..MaxFaults, deploys' \in 0..MaxDeploys
    PROVE  IInv'
<1>1. TypeOK'
  BY DEF IInv, TypeOK, Ends
<1>2. CommittedInOrder' /\ AppliedOnce'
  BY NothingNewMade DEF IInv, TypeOK, Ends
<1>3. pc'[r] = "down" /\ made'[r] = {} /\ ~waits'[r]
  BY DEF IInv, TypeOK, Ends
<1>4. HoldsRightly(r)' /\ InProgress(r)'
  BY <1>3 DEF HoldsRightly, InProgress, InTransaction
<1> QED BY <1>1, <1>2, <1>3, <1>4, StepOf DEF Ends, IInv, TypeOK

LEMMA StartIInv == ASSUME IInv, NEW r \in Replicas, Start(r) PROVE IInv'
<1>1. TypeOK'
  BY DEF IInv, TypeOK, Start
<1>2. CommittedInOrder' /\ AppliedOnce'
  BY NothingNewMade DEF Start
<1>3. pc'[r] = "run" /\ mig'[r] = 0 /\ nth'[r] = 1 /\ made'[r] = {} /\ ~waits'[r] /\ build'[r] \in 1..2
  BY DEF IInv, HoldsRightly, TypeOK, Start, InTransaction, Builds
<1>4. HoldsRightly(r)'
  BY <1>3 DEF HoldsRightly, InTransaction
<1>5. InProgress(r)'
  BY <1>3, SchemaShape DEF InProgress
<1> QED BY <1>1, <1>2, <1>3, <1>4, <1>5, StepOf DEF Start, IInv, TypeOK

LEMMA ListenIInv == ASSUME IInv, NEW r \in Replicas, Listen(r) PROVE IInv'
<1>1. TypeOK'
  BY DEF IInv, TypeOK, Listen
<1>2. CommittedInOrder' /\ AppliedOnce'
  BY NothingNewMade DEF Listen
<1>3. pc'[r] = "listening" /\ made'[r] = {} /\ ~waits'[r]
  BY DEF IInv, HoldsRightly, TypeOK, Listen, InTransaction
<1>4. HoldsRightly(r)' /\ InProgress(r)'
  BY <1>3 DEF HoldsRightly, InProgress, InTransaction
<1>5. \A m \in 0..build'[r] : Objects(m) \subseteq committed'
  BY DEF Listen, IInv, ServesItsSchema
<1> QED BY <1>1, <1>2, <1>4, <1>5, StepOf DEF Listen, IInv, TypeOK

LEMMA DeployIInv == ASSUME IInv, NEW r \in Replicas, Deploy(r) PROVE IInv'
<1>1. TypeOK'
  BY BoundsAssumption DEF IInv, TypeOK, Deploy, Builds
<1>2. CommittedInOrder' /\ AppliedOnce'
  BY NothingNewMade DEF Deploy
<1>3. pc'[r] = "down" /\ HoldsRightly(r)'
  BY DEF Deploy, HoldsRightly, IInv
<1>4. InProgress(r)'
  BY <1>3 DEF InProgress, InTransaction
<1> QED BY <1>1, <1>2, <1>3, <1>4, StepOf DEF Deploy, IInv, TypeOK

LEMMA RefusedIInv == ASSUME IInv, NEW r \in Replicas, Refused(r) PROVE IInv'
BY EndsIInv DEF Refused, IInv, TypeOK

LEMMA FailsIInv == ASSUME IInv, NEW r \in Replicas, Fails(r) PROVE IInv'
BY EndsIInv, BoundsAssumption DEF Fails, IInv, TypeOK

LEMMA WaitIInv == ASSUME IInv, NEW r \in Replicas, Wait(r) PROVE IInv'
<1>1. TypeOK'
  BY DEF IInv, TypeOK, Wait
<1>2. CommittedInOrder' /\ AppliedOnce'
  BY NothingNewMade DEF Wait
<1>3. PICK q \in Replicas \ {r} : Target(r) \in made[q]
  BY DEF Wait, HeldByAnother
<1>4. mig[r] \in 0..2 /\ nth[r] \in 1..Last(mig[r]) /\ Target(r) \in Objects(mig[r]) /\ Target(r) \notin committed
  BY RunsWhole DEF Wait, Visible
<1>5. /\ \A n \in 0..2 : n < mig[r] => Objects(n) \subseteq Visible(q)
      /\ Statement(mig[r], 1) \in made[q]
  BY <1>3, <1>4, HolderCameThrough
<1>6. \A x \in made[r] : x \notin committed /\ x \notin made[q]
  BY <1>3 DEF IInv, AppliedOnce, HeldByAnother
<1>7. nth[r] = 1
  <2>1. nth[r] > 1 => Statement(mig[r], 1) \in made[r] \/ Objects(mig[r]) \subseteq committed
    BY DEF Wait, IInv, InProgress, InTransaction
  <2> QED BY <1>4, <1>5, <1>6, <2>1, SchemaShape
<1>8. made[r] = {}
  <2>1. SUFFICES ASSUME NEW x \in made[r] PROVE FALSE
    OBVIOUS
  <2>2. PICK n \in 0..2 : x \in Objects(n)
    BY DEF IInv, TypeOK, AllObjects
  <2>3. ~(n > mig[r])
    BY <2>2 DEF Wait, IInv, InProgress, InTransaction
  <2>4. CASE n < mig[r]
    BY <1>5, <1>6, <2>2, <2>4 DEF Visible
  <2>5. CASE n = mig[r]
    <3>1. PICK i \in 1..Last(n) : x = Statement(n, i)
      BY <2>2, ObjectsAreStatements
    <3>2. i < nth[r]
      BY <2>5, <3>1 DEF Wait, IInv, InProgress, InTransaction
    <3> QED BY <1>4, <1>7, <2>5, <3>1, <3>2, SchemaShape
  <2> QED BY <1>4, <2>3, <2>4, <2>5
<1>9. HoldsRightly(r)'
  BY <1>7, <1>8 DEF Wait, HoldsRightly, InTransaction
<1>10. InProgress(r)'
  BY DEF Wait, IInv, InProgress, Visible
<1> QED BY <1>1, <1>2, <1>9, <1>10, StepOf DEF Wait, IInv, TypeOK

LEMMA ResumeIInv == ASSUME IInv, NEW r \in Replicas, Resume(r) PROVE IInv'
<1>1. TypeOK'
  BY DEF IInv, TypeOK, Resume
<1>2. CommittedInOrder' /\ AppliedOnce'
  BY NothingNewMade DEF Resume
<1>3. HoldsRightly(r)' /\ pc'[r] = "run"
  BY DEF Resume, IInv, TypeOK, HoldsRightly
<1>4. InProgress(r)'
  BY DEF Resume, IInv, InProgress, Visible
<1> QED BY <1>1, <1>2, <1>3, <1>4, StepOf DEF Resume, IInv, TypeOK

\* Going on to the next migration, or to COMMIT, with the present one behind.
LEMMA NextMigrationIInv ==
    ASSUME IInv, NEW r \in Replicas, pc[r] \in {"run", "select"}, ~waits[r], NextMigration(r),
           TypeOK', waits' = waits, build' = build,
           committed' = committed, made[r] \subseteq made'[r],
           Objects(mig[r]) \subseteq Visible(r)',
           \A n \in 0..2 : n > mig[r] => made'[r] \cap Objects(n) = {}
    PROVE  HoldsRightly(r)' /\ InProgress(r)' /\ pc'[r] \in {"select", "commit"}
<1>1. /\ mig[r] \in 0..2 /\ build[r] \in 1..2 /\ mig[r] <= build[r]
      /\ \A n \in 0..2 : n < mig[r] => Objects(n) \subseteq Visible(r)'
  BY DEF IInv, TypeOK, Builds, InProgress, InTransaction, Visible
<1>2. CASE mig[r] < build[r]
  <2>1. pc'[r] = "select" /\ mig'[r] = mig[r] + 1
    BY <1>2 DEF NextMigration, IInv, TypeOK
  <2>2. \A n \in 0..2 : n < mig'[r] => Objects(n) \subseteq Visible(r)'
    BY <1>1, <2>1
  <2>3. \A n \in 0..2 : n > mig'[r] => made'[r] \cap Objects(n) = {}
    BY <1>1, <2>1
  <2>4. made'[r] \cap Objects(mig'[r]) = {} /\ mig'[r] > 0 /\ mig'[r] <= build'[r]
    BY <1>1, <1>2, <2>1
  <2> QED BY <2>1, <2>2, <2>3, <2>4 DEF InProgress, HoldsRightly, InTransaction
<1>3. CASE ~(mig[r] < build[r])
  <2>1. pc'[r] = "commit" /\ mig'[r] = mig[r] /\ mig[r] = build[r]
    BY <1>1, <1>3 DEF NextMigration, IInv, TypeOK
  <2> QED BY <1>1, <2>1 DEF InProgress, HoldsRightly, InTransaction
<1> QED BY <1>2, <1>3

LEMMA SelectMigrationIInv == ASSUME IInv, NEW r \in Replicas, SelectMigration(r) PROVE IInv'
<1>0. mig[r] \in 1..2 /\ build[r] \in 1..2 /\ mig[r] <= build[r] /\ ~waits[r]
  BY DEF SelectMigration, IInv, TypeOK, InProgress, InTransaction, HoldsRightly, Builds
<1>1. CommittedInOrder' /\ AppliedOnce'
  BY NothingNewMade DEF SelectMigration
<1>2. CASE Names[mig[r]] \in Visible(r)
  <2>1. Names[mig[r]] \in Objects(mig[r])
    BY <1>0 DEF Objects
  <2>2. Names[mig[r]] \in committed
    BY <1>2, <2>1 DEF SelectMigration, IInv, InProgress, InTransaction, Visible
  <2>3. Objects(mig[r]) \subseteq Visible(r)'
    BY <1>0, <2>1, <2>2 DEF SelectMigration, IInv, CommittedInOrder, Visible
  <2>4. NextMigration(r)
    BY <1>2 DEF SelectMigration
  <2>5. TypeOK'
    BY <1>0, <2>4 DEF SelectMigration, NextMigration, IInv, TypeOK
  <2>6. \A n \in 0..2 : n > mig[r] => made'[r] \cap Objects(n) = {}
    BY DEF SelectMigration, IInv, InProgress, InTransaction
  <2>7. HoldsRightly(r)' /\ InProgress(r)' /\ pc'[r] \in {"select", "commit"}
    BY <1>0, <2>3, <2>4, <2>5, <2>6, NextMigrationIInv DEF SelectMigration
  <2> QED BY <1>1, <2>4, <2>5, <2>7, StepOf DEF SelectMigration, NextMigration, IInv, TypeOK
<1>3. CASE Names[mig[r]] \notin Visible(r)
  <2>1. pc'[r] = "run" /\ nth'[r] = 1 /\ mig' = mig /\ made' = made
    BY <1>3 DEF SelectMigration, IInv, TypeOK
  <2>2. TypeOK'
    BY <1>3 DEF SelectMigration, IInv, TypeOK
  <2>3. HoldsRightly(r)'
    BY <1>0, <2>1 DEF SelectMigration, HoldsRightly, InTransaction
  <2>4. \A i \in 1..Last(mig[r]) : Statement(mig[r], i) \notin made[r]
    BY <1>0, ObjectsAreStatements DEF SelectMigration, IInv, InProgress, InTransaction
  <2>5. 1 <= Last(mig[r])
    BY <1>0, SchemaShape
  <2>6. InProgress(r)'
    BY <1>0, <2>1, <2>4, <2>5 DEF SelectMigration, IInv, InProgress, InTransaction, Visible
  <2> QED BY <1>1, <1>3, <2>2, <2>3, <2>6, StepOf DEF SelectMigration, IInv, TypeOK
<1> QED BY <1>2, <1>3

LEMMA CommitIInv ==
    ASSUME IInv, NEW r \in Replicas, pc[r] = "commit", committed' = committed \cup made[r],
           build' = build, deploys' = deploys, TypeOK',
           \A q \in Replicas \ {r} : /\ pc'[q] = pc[q] /\ mig'[q] = mig[q] /\ nth'[q] = nth[q]
                                     /\ made'[q] = made[q] /\ waits'[q] = waits[q],
           made'[r] = {}, ~waits'[r], pc'[r] \in {"down", "migrated"}
    PROVE  IInv'
<1>1. /\ mig[r] \in 0..2 /\ mig[r] = build[r] /\ build[r] \in 1..2
      /\ \A n \in 0..2 : n <= mig[r] => Objects(n) \subseteq committed'
      /\ \A n \in 0..2 : n > mig[r] => made[r] \cap Objects(n) = {}
  <2>1. mig[r] \in 0..2 /\ mig[r] = build[r] /\ build[r] \in 1..2
    BY DEF IInv, TypeOK, InProgress, InTransaction, Builds
  <2>2. \A n \in 0..2 : n < mig[r] => Objects(n) \subseteq committed'
    BY DEF IInv, InProgress, InTransaction, Visible
  <2>3. Objects(mig[r]) \subseteq committed'
    BY DEF IInv, InProgress, InTransaction, Visible
  <2>4. \A n \in 0..2 : n > mig[r] => made[r] \cap Objects(n) = {}
    BY DEF IInv, InProgress, InTransaction
  <2> QED BY <2>1, <2>2, <2>3, <2>4
<1>2. CommittedInOrder'
  <2> SUFFICES ASSUME NEW m \in 0..2, committed' \cap Objects(m) # {}, NEW n \in 0..m
               PROVE  Objects(n) \subseteq committed'
    BY DEF CommittedInOrder
  <2>1. CASE m <= mig[r]
    BY <1>1, <2>1
  <2>2. CASE m > mig[r]
    <3>1. committed \cap Objects(m) # {}
      BY <1>1, <2>2
    <3> QED BY <3>1 DEF IInv, CommittedInOrder
  <2> QED BY <1>1, <2>1, <2>2
<1>3. AppliedOnce'
  BY DEF IInv, AppliedOnce, HeldByAnother
<1>4. HoldsRightly(r)' /\ InProgress(r)'
  BY DEF HoldsRightly, InProgress, InTransaction
<1>5. \A m \in 0..build'[r] : Objects(m) \subseteq committed'
  BY <1>1
<1> QED BY <1>2, <1>3, <1>4, <1>5, StepOf

\* What makes a table or a name makes something no other holds.
LEMMA MadeApart ==
    ASSUME IInv, NEW r \in Replicas, NEW x, x \in made[r] \/ ~HeldByAnother(r, x), x \notin committed,
           committed' = committed, made' = [made EXCEPT ![r] = @ \cup {x}]
    PROVE  CommittedInOrder' /\ AppliedOnce'
<1>1. CommittedInOrder'
  BY DEF IInv, CommittedInOrder
<1>2. ~HeldByAnother(r, x)
  BY DEF IInv, AppliedOnce
<1>3. AppliedOnce'
  <2> SUFFICES ASSUME NEW q \in Replicas, NEW y \in made'[q] PROVE y \notin committed' /\ ~HeldByAnother(q, y)'
    BY DEF AppliedOnce
  <2>1. made'[r] = made[r] \cup {x} /\ \A p \in Replicas \ {r} : made'[p] = made[p]
    BY DEF IInv, TypeOK
  <2>2. y \notin committed'
    BY <2>1 DEF IInv, AppliedOnce
  <2>3. SUFFICES ASSUME NEW p \in Replicas \ {q}, y \in made'[p] PROVE FALSE
    BY <2>2 DEF HeldByAnother
  <2>4. CASE y = x
    BY <1>2, <2>1, <2>3, <2>4 DEF HeldByAnother
  <2>5. CASE y # x
    <3>1. y \in made[q] /\ y \in made[p]
      BY <2>1, <2>3, <2>5
    <3> QED BY <2>3, <3>1 DEF IInv, AppliedOnce, HeldByAnother
  <2> QED BY <2>4, <2>5
<1> QED BY <1>1, <1>3

LEMMA InsertNameIInv == ASSUME IInv, NEW r \in Replicas, InsertName(r) PROVE IInv'
<1>0. /\ mig[r] \in 0..2 /\ nth[r] \in 1..Last(mig[r]) /\ Target(r) \in Objects(mig[r]) /\ Target(r) \in AllObjects
      /\ Target(r) \notin committed /\ build[r] \in 1..2 /\ ~waits[r] /\ nth[r] = Last(mig[r])
      /\ Target(r) = Statement(mig[r], nth[r])
  BY RunsWhole, TargetIsStatement DEF InsertName, Visible, IInv, TypeOK, Builds
<1>1. TypeOK'
  BY <1>0 DEF InsertName, NextMigration, IInv, TypeOK, Builds
<1>2. CommittedInOrder' /\ AppliedOnce'
  BY <1>0, MadeApart DEF InsertName
<1>3. made'[r] = made[r] \cup {Target(r)}
  BY DEF InsertName, IInv, TypeOK
<1>4. Objects(mig[r]) \subseteq Visible(r)'
  <2> SUFFICES ASSUME NEW x \in Objects(mig[r]), x \notin committed PROVE x \in made'[r]
    BY DEF Visible, InsertName
  <2>1. PICK i \in 1..Last(mig[r]) : x = Statement(mig[r], i)
    BY <1>0, ObjectsAreStatements
  <2>2. CASE i = nth[r]
    BY <1>0, <1>3, <2>1, <2>2
  <2>3. CASE i # nth[r]
    <3>1. i \in 1..(nth[r] - 1)
      BY <1>0, <2>1, <2>3, SchemaShape
    <3> QED BY <1>3, <2>1, <3>1, RunsWhole DEF InsertName
  <2> QED BY <2>2, <2>3
<1>5. \A n \in 0..2 : n > mig[r] => made'[r] \cap Objects(n) = {}
  <2>1. \A n \in 0..2 : n > mig[r] => made[r] \cap Objects(n) = {}
    BY DEF InsertName, IInv, InProgress, InTransaction
  <2>2. \A n \in 0..2 : n > mig[r] => Target(r) \notin Objects(n)
    BY <1>0, ObjectsDisjoint
  <2> QED BY <1>3, <2>1, <2>2
<1>6. HoldsRightly(r)' /\ InProgress(r)' /\ pc'[r] \in {"select", "commit"}
  BY <1>1, <1>3, <1>4, <1>5, NextMigrationIInv DEF InsertName
<1> QED BY <1>1, <1>2, <1>6, StepOf DEF InsertName, NextMigration, IInv, TypeOK

\* After the table, either all the migration is committed by another and nothing
\* of it was made here, or the table is the next of those made here.
LEMMA TableIsNext ==
    ASSUME IInv, NEW r \in Replicas, CreateTable(r)
    PROVE  /\ Target(r) \notin committed => /\ made'[r] = made[r] \cup {Target(r)}
                                            /\ made' = [made EXCEPT ![r] = @ \cup {Target(r)}]
                                            /\ ~HeldByAnother(r, Target(r))
           /\ Target(r) \in committed => /\ made' = made
                                         /\ Objects(mig[r]) \subseteq committed
<1>1. Target(r) \in committed => Objects(mig[r]) \subseteq committed
  BY RunsWhole DEF CreateTable
<1>2. Target(r) \notin made[r]
  BY RunsWhole DEF CreateTable
<1>3. made \in [Replicas -> SUBSET AllObjects] /\ made' = [made EXCEPT ![r] = @ \cup ({Target(r)} \ committed)]
  BY DEF CreateTable, IInv, TypeOK
<1>4. ASSUME Target(r) \notin committed
      PROVE  /\ made' = [made EXCEPT ![r] = @ \cup {Target(r)}]
             /\ ~HeldByAnother(r, Target(r))
  <2>1. {Target(r)} \ committed = {Target(r)}
    BY <1>4
  <2> QED BY <1>2, <1>3, <1>4, <2>1 DEF CreateTable, Visible
<1>5. ASSUME Target(r) \in committed PROVE made' = made
  <2>1. made[r] \cup ({Target(r)} \ committed) = made[r]
    BY <1>5
  <2> QED BY <1>3, <2>1
<1> QED BY <1>1, <1>3, <1>4, <1>5

LEMMA CreateTableIInv == ASSUME IInv, NEW r \in Replicas, CreateTable(r) PROVE IInv'
<1>0. /\ mig[r] \in 0..2 /\ nth[r] \in 1..Last(mig[r]) /\ Target(r) \in Objects(mig[r]) /\ Target(r) \in AllObjects
      /\ build[r] \in 1..2 /\ ~waits[r] /\ pc[r] = "run" /\ mig[r] <= build[r] /\ Last(mig[r]) \in 1..11
      /\ mig[r] > 0 => nth[r] < Last(mig[r])
      /\ Target(r) = Statement(mig[r], nth[r])
  <2>1. pc[r] = "run" /\ ~waits[r] /\ ~AtInsert(r)
    BY DEF CreateTable
  <2>2. /\ mig[r] \in 0..2 /\ nth[r] \in 1..Last(mig[r]) /\ Target(r) = Statement(mig[r], nth[r])
        /\ Target(r) \in Objects(mig[r]) /\ Target(r) \in AllObjects
    BY <2>1, RunsWhole
  <2>3. build[r] \in 1..2 /\ mig[r] <= build[r]
    BY <2>1 DEF IInv, TypeOK, Builds, InProgress, InTransaction
  <2>4. Last(mig[r]) \in 1..11
    BY <2>2, SchemaShape
  <2>5. mig[r] > 0 => nth[r] < Last(mig[r])
    <3>1. TypeOK /\ nth[r] <= Last(mig[r])
      BY <2>2, <2>4 DEF IInv
    <3>2. AtInsert(r) <=> mig[r] > 0 /\ nth[r] = Last(mig[r])
      BY <3>1, TargetIsStatement
    <3> QED BY <2>1, <2>2, <2>4, <3>2
  <2> QED BY <2>1, <2>2, <2>3, <2>4, <2>5
<1>1. TypeOK'
  BY <1>0, TableIsNext DEF CreateTable, AfterTable, NextMigration, IInv, TypeOK, Builds
<1>2. CommittedInOrder' /\ AppliedOnce'
  <2>1. CASE Target(r) \in committed
    BY <2>1, TableIsNext, NothingNewMade DEF CreateTable
  <2>2. CASE Target(r) \notin committed
    BY <2>2, TableIsNext, MadeApart DEF CreateTable
  <2> QED BY <2>1, <2>2
<1>3. made'[r] \subseteq made[r] \cup {Target(r)} /\ made[r] \subseteq made'[r] /\ Target(r) \in Visible(r)'
  BY TableIsNext DEF Visible, CreateTable
<1>4. \A n \in 0..2 : n > mig[r] => made'[r] \cap Objects(n) = {}
  <2>1. \A n \in 0..2 : n > mig[r] => made[r] \cap Objects(n) = {}
    BY <1>0 DEF IInv, InProgress, InTransaction
  <2>2. \A n \in 0..2 : n > mig[r] => Target(r) \notin Objects(n)
    BY <1>0, ObjectsDisjoint
  <2> QED BY <1>3, <2>1, <2>2
<1>5. CASE mig[r] = 0
  <2>1. Last(0) = 1 /\ Objects(0) = {Target(r)}
    BY <1>0, <1>5, ObjectsAreStatements DEF Last
  <2>2. NextMigration(r) /\ Objects(mig[r]) \subseteq Visible(r)'
    BY <1>3, <1>5, <2>1 DEF CreateTable, AfterTable
  <2>3. HoldsRightly(r)' /\ InProgress(r)' /\ pc'[r] \in {"select", "commit"}
    BY <1>0, <1>1, <1>3, <1>4, <2>2, NextMigrationIInv DEF CreateTable
  <2> QED BY <1>1, <1>2, <2>2, <2>3, StepOf DEF CreateTable, NextMigration, IInv, TypeOK
<1>6. CASE mig[r] # 0
  <2>1. nth'[r] = nth[r] + 1 /\ pc' = pc /\ mig' = mig /\ nth'[r] <= Last(mig[r])
    BY <1>0, <1>6 DEF CreateTable, AfterTable, IInv, TypeOK
  <2>2. HoldsRightly(r)'
    BY <1>0, <2>1 DEF CreateTable, HoldsRightly, InTransaction
  <2>3. \A n \in 0..2 : n < mig[r] => Objects(n) \subseteq Visible(r)'
    BY <1>0, <1>3 DEF CreateTable, IInv, InProgress, InTransaction, Visible
  <2>4. ASSUME NEW i \in 1..Last(mig[r]), Statement(mig[r], i) \in made'[r]
        PROVE  i < nth[r] + 1 /\ \A j \in 1..nth[r] : Statement(mig[r], j) \in made'[r]
    <3>1. Statement(mig[r], i) \in Objects(mig[r]) /\ Statement(mig[r], i) \notin committed'
      BY <1>0, <1>2, <2>4, ObjectsAreStatements DEF AppliedOnce
    <3>2. Target(r) \notin committed
      BY <3>1, TableIsNext DEF CreateTable
    <3>3. made'[r] = made[r] \cup {Target(r)}
      BY <3>2, TableIsNext
    <3>4. i < nth[r] + 1
      <4>1. CASE Statement(mig[r], i) \in made[r]
        BY <1>0, <4>1 DEF IInv, InProgress, InTransaction
      <4>2. CASE Statement(mig[r], i) = Target(r)
        BY <1>0, <4>2, NoRepeats
      <4> QED BY <2>4, <3>3, <4>1, <4>2
    <3>5. \A j \in 1..(nth[r] - 1) : Statement(mig[r], j) \in made[r]
      BY <1>0, <3>1, RunsWhole DEF CreateTable
    <3>6. ASSUME NEW j \in 1..nth[r] PROVE Statement(mig[r], j) \in made'[r]
      <4>1. CASE j = nth[r]
        BY <1>0, <3>3, <4>1
      <4>2. CASE j # nth[r]
        BY <1>0, <3>3, <3>5, <4>2
      <4> QED BY <4>1, <4>2
    <3> QED BY <3>4, <3>6
  <2>5. Statement(mig[r], 1) \in made'[r] \/ Objects(mig[r]) \subseteq committed
    <3>1. CASE Target(r) \in committed
      BY <3>1, TableIsNext
    <3>2. CASE Target(r) \notin committed /\ nth[r] = 1
      BY <1>0, <3>2, TableIsNext
    <3>3. CASE nth[r] > 1
      BY <1>0, <1>3, <3>3 DEF IInv, InProgress, InTransaction
    <3> QED BY <1>0, <3>1, <3>2, <3>3
  <2>6. nth'[r] - 1 = nth[r]
    BY <1>0, <2>1
  <2>7. InProgress(r)'
    BY <1>0, <1>4, <2>1, <2>3, <2>4, <2>5, <2>6 DEF CreateTable, InProgress
  <2>8. \A q \in Replicas \ {r} : nth'[q] = nth[q] /\ made'[q] = made[q]
    BY <1>6 DEF CreateTable, AfterTable, IInv, TypeOK
  <2>9. pc'[r] = "run" /\ waits' = waits /\ build' = build /\ committed' = committed
    BY <1>0, <2>1 DEF CreateTable
  <2> QED BY <1>1, <1>2, <2>1, <2>2, <2>7, <2>8, <2>9, StepOf
<1> QED BY <1>5, <1>6

----
LEMMA NextIInv == IInv /\ [Next]_vars => IInv'
<1> SUFFICES ASSUME IInv, [Next]_vars PROVE IInv'
  OBVIOUS
<1>1. ASSUME NEW r \in Replicas, Commit(r) PROVE IInv'
  <2>1. TypeOK'
    BY <1>1 DEF Commit, IInv, TypeOK
  <2>2. ~waits[r]
    BY <1>1 DEF Commit, IInv, HoldsRightly
  <2> QED BY <1>1, <2>1, <2>2, CommitIInv DEF Commit, IInv, TypeOK
<1>2. ASSUME NEW r \in Replicas, CommitUnanswered(r) PROVE IInv'
  <2>1. TypeOK'
    BY <1>2, BoundsAssumption DEF CommitUnanswered, Ends, IInv, TypeOK
  <2> QED BY <1>2, <2>1, CommitIInv DEF CommitUnanswered, Ends, IInv, TypeOK
<1>3. CASE UNCHANGED vars
  <2>1. TypeOK' /\ CommittedInOrder' /\ AppliedOnce' /\ ServesItsSchema'
    BY <1>3 DEF vars, IInv, TypeOK, CommittedInOrder, AppliedOnce, HeldByAnother, ServesItsSchema
  <2> QED BY <1>3, <2>1, OthersKeep DEF vars, IInv
<1> QED BY <1>1, <1>2, <1>3, StartIInv, SelectMigrationIInv, CreateTableIInv, InsertNameIInv, WaitIInv,
           ResumeIInv, RefusedIInv, ListenIInv, FailsIInv, DeployIInv DEF Next, Step

\* The types and the inductive invariant hold in every reachable state.
THEOREM MigrationInvariant == Spec => []IInv
BY InitIInv, NextIInv, PTL DEF Spec

\* A migration is committed with its name and all its tables, or not at all.
THEOREM MigrationsAreWhole == Spec => []AllOrNothing
<1>1. IInv => AllOrNothing
  BY DEF IInv, CommittedInOrder, AllOrNothing
<1> QED BY <1>1, MigrationInvariant, PTL

\* A replica that listens finds the tables its build was written for.
THEOREM ListenersHaveTheirSchema == Spec => []ServesItsSchema
<1>1. IInv => ServesItsSchema
  BY DEF IInv
<1> QED BY <1>1, MigrationInvariant, PTL

\* No two transactions make the same thing, however many replicas start at once.
THEOREM NoMigrationTwice == Spec => []AppliedOnce
<1>1. IInv => AppliedOnce
  BY DEF IInv
<1> QED BY <1>1, MigrationInvariant, PTL

\* A waiting replica holds nothing, so no circle of waiting replicas can form.
THEOREM NoCircleOfWaits == Spec => []WaitersHoldNothing
<1>1. IInv => WaitersHoldNothing
  BY DEF IInv, HoldsRightly, WaitersHoldNothing
<1> QED BY <1>1, MigrationInvariant, PTL

\* A commit brings the schema to the committing build's version, or leaves it
\* where it is: at that version already, or at a later one.
LEMMA CommitUpgrades ==
    ASSUME IInv, NEW r \in Replicas, pc[r] = "commit", committed' = committed \cup made[r],
           UNCHANGED build, \A q \in Replicas : pc'[q] = "listening" <=> pc[q] = "listening"
    PROVE  \/ Upgrade!Next
           \/ UNCHANGED <<committed, [q \in Replicas |-> IF pc[q] = "listening" THEN build[q] + 1 ELSE 0]>>
<1> DEFINE v == build[r] + 1
<1>1. /\ v \in 1..3 /\ made[r] \subseteq AllObjects /\ committed \subseteq AllObjects
      /\ made[r] \cap committed = {} /\ mig[r] = build[r] /\ build[r] \in 1..2
  BY DEF IInv, TypeOK, InProgress, InTransaction, Builds, AppliedOnce
<1>2. \A n \in 0..2 : n < v => Objects(n) \subseteq committed \cup made[r]
  BY <1>1 DEF IInv, InProgress, InTransaction, Visible
<1>3. \A n \in 0..2 : n >= v => made[r] \cap Objects(n) = {}
  BY <1>1 DEF IInv, InProgress, InTransaction
<1>4. Content[v] = UNION {Objects(m) : m \in {n \in 0..2 : n < v}}
  BY <1>1 DEF Content
<1> HIDE DEF v
<1>5. made[r] \subseteq Content[v] /\ Content[v] \subseteq committed'
  BY <1>1, <1>2, <1>3, <1>4 DEF AllObjects
<1>6. UNCHANGED [q \in Replicas |-> IF pc[q] = "listening" THEN build[q] + 1 ELSE 0]
  OBVIOUS
<1>7. CASE \E n \in 0..2 : n >= v /\ committed \cap Objects(n) # {}
  <2>1. \A m \in 0..2 : m < v => Objects(m) \subseteq committed
    BY <1>1, <1>7 DEF IInv, CommittedInOrder
  <2>2. Content[v] \subseteq committed
    BY <1>4, <2>1
  <2>3. made[r] = {}
    BY <1>1, <1>5, <2>2
  <2> QED BY <1>6, <2>3
<1>8. CASE \A n \in 0..2 : n >= v => committed \cap Objects(n) = {}
  <2>1. committed \subseteq Content[v]
    BY <1>1, <1>4, <1>8 DEF AllObjects
  <2>2. committed' = Content[v]
    BY <1>5, <2>1
  <2> QED BY <1>1, <1>6, <2>1, <2>2 DEF Upgrade!Next, Upgrade!Upgrade
<1> QED BY <1>1, <1>7, <1>8

\* Every step of a start maps to a step of the upgrade or to none.
LEMMA StepUpgrades ==
    ASSUME IInv, Next
    PROVE  \/ Upgrade!Next
           \/ UNCHANGED <<committed, [q \in Replicas |-> IF pc[q] = "listening" THEN build[q] + 1 ELSE 0]>>
<1> PICK r \in Replicas : Step(r) \/ Fails(r) \/ CommitUnanswered(r) \/ Deploy(r)
  BY DEF Next
<1> DEFINE serves == [q \in Replicas |-> IF pc[q] = "listening" THEN build[q] + 1 ELSE 0]
           Same == UNCHANGED <<committed, serves>>
<1>0. pc \in [Replicas -> {"down", "select", "run", "commit", "migrated", "listening"}]
      /\ build \in [Replicas -> 1..2]
  BY DEF IInv, TypeOK, Builds
<1>1. CASE Commit(r)
  <2>1. \A q \in Replicas : pc'[q] = "listening" <=> pc[q] = "listening"
    BY <1>0, <1>1 DEF Commit
  <2> QED BY <1>1, <2>1, CommitUpgrades DEF Commit
<1>2. CASE CommitUnanswered(r)
  <2>1. \A q \in Replicas : pc'[q] = "listening" <=> pc[q] = "listening"
    BY <1>0, <1>2 DEF CommitUnanswered, Ends
  <2> QED BY <1>2, <2>1, CommitUpgrades DEF CommitUnanswered
<1>3. CASE Listen(r)
  <2>1. build[r] \in 1..2 /\ pc[r] = "migrated"
    BY <1>0, <1>3 DEF Listen
  <2>2. PICK v \in 1..3 : v = build[r] + 1
    BY <2>1
  <2>3. Content[v] = UNION {Objects(m) : m \in {n \in 0..2 : n < v}}
    BY DEF Content
  <2>4. \A m \in 0..2 : m < v => Objects(m) \subseteq committed
    BY <2>1, <2>2 DEF IInv, ServesItsSchema
  <2>5. Content[v] \subseteq committed
    BY <2>3, <2>4
  <2>6. serves[r] = 0 /\ serves' = [serves EXCEPT ![r] = v]
    BY <1>0, <1>3, <2>1, <2>2 DEF Listen
  <2>7. Upgrade!Serve(r, v)
    BY <1>3, <2>5, <2>6 DEF Listen, Upgrade!Serve
  <2> QED BY <2>7 DEF Upgrade!Next
<1>4. CASE Fails(r) \/ Refused(r)
  <2>1. serves' = [serves EXCEPT ![r] = 0] /\ UNCHANGED committed
    BY <1>0, <1>4 DEF Fails, Refused, Ends
  <2> QED BY <2>1 DEF Upgrade!Next, Upgrade!Stop
<1>5. CASE Deploy(r)
  <2>1. serves' = serves /\ UNCHANGED committed
    BY <1>0, <1>5 DEF Deploy
  <2> QED BY <2>1
<1>6. CASE \/ Start(r) \/ SelectMigration(r) \/ CreateTable(r) \/ InsertName(r)
           \/ Wait(r) \/ Resume(r)
  <2>1. UNCHANGED <<committed, build>>
    BY <1>6 DEF Start, SelectMigration, CreateTable, InsertName, Wait, Resume
  <2>2. /\ pc[r] # "listening" /\ pc'[r] # "listening"
        /\ \A q \in Replicas \ {r} : pc'[q] = pc[q]
    BY <1>0, <1>6 DEF Start, SelectMigration, CreateTable, InsertName, Wait, Resume, AfterTable,
                      NextMigration, IInv, HoldsRightly
  <2> QED BY <2>1, <2>2
<1> QED BY <1>1, <1>2, <1>3, <1>4, <1>5, <1>6 DEF Step

\* The starts implement a schema that is upgraded whole and never goes back.
THEOREM StartsUpgradeTheSchema == Spec => UpgradesAreWhole
<1>1. Init => Upgrade!Init
  <2>1. Content[0] = {}
    BY DEF Content
  <2> QED BY <2>1 DEF Init, Upgrade!Init
<1>2. IInv /\ [Next]_vars =>
         [Upgrade!Next]_(<<committed, [r \in Replicas |-> IF pc[r] = "listening" THEN build[r] + 1 ELSE 0]>>)
  BY StepUpgrades DEF vars
<1> QED BY <1>1, <1>2, MigrationInvariant, PTL DEF Spec, UpgradesAreWhole, Upgrade!Spec, Upgrade!vars
====
