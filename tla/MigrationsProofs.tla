-------------------------- MODULE MigrationsProofs --------------------------
(***************************************************************************)
(* That no start of the container leaves a migration out for good, for any *)
(* releases the database may come from and any number of faults.           *)
(***************************************************************************)
EXTENDS Migrations, FoldProofs

\* What is recorded is the files up to a number, and the tables have them.
MigrationsInv ==
  \E m \in 0..11 : recorded = 1..m /\ 1..m \subseteq schema

\* The files are numbered without a gap.
LEMMA ShippedFiles == Shipped = 1..11 /\ Readdir \in Seq(1..11)
<1>1. Readdir \in [1..11 -> 1..11]
  BY DEF Readdir
<1>2. /\ Readdir[1] = 10 /\ Readdir[2] = 11 /\ Readdir[3] = 1 /\ Readdir[4] = 2
      /\ Readdir[5] = 3 /\ Readdir[6] = 4 /\ Readdir[7] = 5 /\ Readdir[8] = 6
      /\ Readdir[9] = 7 /\ Readdir[10] = 8 /\ Readdir[11] = 9
  BY DEF Readdir
<1>3. DOMAIN Readdir = 1..11
  BY <1>1
<1>4. 1..11 \subseteq ToSet(Readdir)
  <2> SUFFICES ASSUME NEW f \in 1..11 PROVE f \in ToSet(Readdir)
    OBVIOUS
  <2>1. f \in {1, 2, 3, 4, 5, 6, 7, 8, 9, 10, 11}
    OBVIOUS
  <2>2. \E i \in 1..11 : Readdir[i] = f
    BY <1>2, <2>1
  <2> QED  BY <1>3, <2>2 DEF ToSet
<1>5. ToSet(Readdir) \subseteq 1..11
  BY <1>1, <1>3 DEF ToSet
<1>6. [1..11 -> 1..11] \subseteq Seq(1..11)
  <2>1. \A S : \A n \in Nat : [1..n -> S] \subseteq Seq(S)
    OBVIOUS
  <2> QED  BY <2>1
<1> QED  BY <1>1, <1>4, <1>5, <1>6 DEF Shipped

\* The files that are pending are those not numbered up to the last.
LEMMA PendingFiles == ASSUME NEW last PROVE ToSet(Pending(last)) = 1..11 \ 1..last
<1> DEFINE items == 1..last
<1>1. Pending(last) = FilterOut(Readdir, items)
  BY DEF Pending
<1> HIDE DEF items
<1>2. ToSet(FilterOut(Readdir, items)) = ToSet(Readdir) \ items
  BY ShippedFiles, FilterOutList
<1> QED  BY <1>1, <1>2, ShippedFiles DEF Shipped, items

\* The last number of the files that are recorded.
LEMMA LastRecorded ==
  ASSUME NEW m \in 0..11, recorded = 1..m
  PROVE  lastMigration = m
<1>1. recorded \union {0} = 0..m
  OBVIOUS
<1>2. IsFiniteSet(0..m) /\ 0..m # {} /\ 0..m \subseteq Int /\ m \in 0..m
  <2>1. IsFiniteSet(0..m)
    BY FS_Interval
  <2>2. m \in 0..m /\ \A x \in 0..m : x \in Int
    OBVIOUS
  <2> QED  BY <2>1, <2>2
<1>3. Max(0..m) \in 0..m /\ Max(0..m) >= m
  BY <1>2, MaxMember
<1>4. lastMigration = Max(0..m)
  BY <1>1 DEF lastMigration
<1> QED  BY <1>3, <1>4

\* A batch takes all the files that are pending or none of them.
LEMMA BatchRecorded ==
  ASSUME MigrationsInv, schemaMigrations
  PROVE  MigrationsInv'
<1>1. PICK m \in 0..11 : recorded = 1..m /\ 1..m \subseteq schema
  BY DEF MigrationsInv
<1>0. PICK last \in {lastMigration, 0} : \E done \in Batches(Pending(last)) :
        schema' = schema \union done /\ recorded' = recorded \union done
  BY DEF schemaMigrations
<1>2. PICK done \in Batches(Pending(last)) :
        schema' = schema \union done /\ recorded' = recorded \union done
  BY <1>0
<1>3. done = {} \/ done = 1..11 \ 1..last
  BY <1>2, PendingFiles DEF Batches
<1>4. last = m \/ last = 0
  BY <1>1, <1>2, LastRecorded
<1>5. CASE done = {}
  BY <1>1, <1>2, <1>5 DEF MigrationsInv
<1>6. CASE done = 1..11 \ 1..last
  <2>1. recorded' = 1..11 /\ 1..11 \subseteq schema'
    BY <1>1, <1>2, <1>4, <1>6
  <2>2. 11 \in 0..11
    OBVIOUS
  <2> QED  BY <2>1, <2>2 DEF MigrationsInv
<1> QED  BY <1>3, <1>5, <1>6

\* Every step of a start, of the node and of what can fail.
LEMMA MigrationsStep == MigrationsInv /\ [Next]_vars => MigrationsInv'
<1> SUFFICES ASSUME MigrationsInv, [Next]_vars PROVE MigrationsInv'
  OBVIOUS
<1>1. PICK m \in 0..11 : recorded = 1..m /\ 1..m \subseteq schema
  BY DEF MigrationsInv
<1>2. CASE schemaMigrations
  BY <1>2, BatchRecorded
<1>3. CASE NodeStarts
  <2>1. recorded' = recorded /\ (schema' = schema \/ schema' = 1..11)
    BY <1>3, ShippedFiles DEF NodeStarts
  <2>2. 1..m \subseteq schema'
    BY <1>1, <2>1
  <2> QED  BY <1>1, <2>1, <2>2 DEF MigrationsInv
<1>4. CASE /\ recorded' = recorded /\ schema' = schema
  BY <1>1, <1>4 DEF MigrationsInv
<1>5. schemaMigrations \/ NodeStarts \/ (recorded' = recorded /\ schema' = schema)
  BY DEF Next, vars, Start, SkipMigrations, SqlApplied, SqlKills, Crash,
         handleFailedToExecuteInstruction, handleInstructionFinalizedEvent
<1> QED  BY <1>2, <1>3, <1>4, <1>5

\* In every state, however often the container failed and started again, the
\* tables have the changes of every file up to the highest number recorded:
\* the next start, which resumes after it, leaves none out.
THEOREM NothingEverSkipped == Spec => []NothingSkipped
<1>1. Init => MigrationsInv
  <2> SUFFICES ASSUME Init PROVE MigrationsInv
    OBVIOUS
  <2>1. CASE schema = NoSchema /\ recorded = {}
    <3>1. recorded = 1..0 /\ 1..0 \subseteq schema
      BY <2>1
    <3> QED  BY <3>1 DEF MigrationsInv
  <2>2. CASE \E last \in Releases : schema = 1..last /\ recorded \in {{}, 1..last}
    <3>0. PICK last \in Releases : schema = 1..last /\ recorded \in {{}, 1..last}
      BY <2>2
    <3>1. last \in 0..11 /\ schema = 1..last /\ recorded \in {{}, 1..last}
      <4>1. last \in 1..11 \union {0}
        BY ShippedFiles, MigrationsAssumption
      <4> QED  BY <3>0, <4>1
    <3>2. recorded = 1..0 \/ recorded = 1..last
      BY <3>1
    <3>3. 1..0 \subseteq schema /\ 0 \in 0..11
      OBVIOUS
    <3> QED  BY <3>1, <3>2, <3>3 DEF MigrationsInv
  <2> QED  BY <2>1, <2>2 DEF Init
<1>2. MigrationsInv => NothingSkipped
  BY LastRecorded DEF MigrationsInv, NothingSkipped
<1> QED  BY <1>1, <1>2, MigrationsStep, PTL DEF Spec
=============================================================================
