----------------------- MODULE ArchiveBatches_proofs -----------------------
(***************************************************************************)
(* For any table, batch size and number of executions: what a job keeps is *)
(* well-typed, a MongoDB migration loses no row, and when the executions   *)
(* follow one another the counter is honest and a success is complete.     *)
(***************************************************************************)
EXTENDS ArchiveBatchesAlone, FiniteSetTheorems, TLAPS

USE RowAssumption, BatchAssumption, ModeAssumption, BoundAssumption, OrderAssumption

\* What an execution holds in memory.
Memory == [pc : {"idle", "loaded", "next", "insert", "delete", "count", "done", "control"},
           round : Nat, selected : SUBSET Rows, deleted : Nat, processed : Nat]

\* A set of rows can be counted.
LEMMA RowsCounted == \A S \in SUBSET Rows : Cardinality(S) \in Nat
BY FS_Subset, FS_CardinalityType

\* A fresh execution is well-typed.
LEMMA IdleType == Idle \in Memory
BY DEF Idle, Memory

\* A batch is a set of the rows it is taken from.
LEMMA BatchRows == \A S : Batch(S) \subseteq SUBSET S
BY DEF Batch

\* So are the rows a DELETE removes.
LEMMA VictimRows ==
    ASSUME TypeOK, NEW e \in Executors
    PROVE  Victims(e) \subseteq SUBSET source
BY BatchRows DEF Victims

\* A count is a number, guessed or not.
LEMMA CountType ==
    ASSUME TypeOK, NEW e \in Executors, NEW fallback \in Nat
    PROVE  Counts(e, fallback) \subseteq [rows : Nat, guess : BOOLEAN]
<1>1. executor[e].deleted \in Nat
  BY DEF TypeOK
<1> DEFINE real == [rows |-> executor[e].deleted, guess |-> FALSE]
           guess == [rows |-> fallback, guess |-> TRUE]
<1>2. real \in [rows : Nat, guess : BOOLEAN] /\ guess \in [rows : Nat, guess : BOOLEAN]
  BY <1>1
<1>3. Counts(e, fallback) \subseteq {real, guess}
  BY DEF Counts
<1> HIDE DEF real, guess
<1>4. QED
  BY <1>2, <1>3

\* What stands in for a missing count is a number.
LEMMA FallbackType ==
    ASSUME TypeOK, NEW e \in Executors
    PROVE  Fallback(e) \in Nat
<1>1. executor[e].processed \in Nat /\ executor[e].selected \in SUBSET Rows /\ estimate \in Nat
  BY DEF TypeOK
<1>2. Cardinality(executor[e].selected) \in Nat
  BY <1>1, RowsCounted
<1>3. QED
  BY <1>1, <1>2 DEF Fallback, Least, Most

\* An execution that takes over a well-typed memory leaves the others alone.
LEMMA MemoryType ==
    ASSUME executor \in [Executors -> Memory], NEW e \in Executors, NEW m \in Memory,
           executor' = [executor EXCEPT ![e] = m]
    PROVE  executor' \in [Executors -> Memory]
OBVIOUS

\* So does one that moves on ...
LEMMA GotoType ==
    ASSUME executor \in [Executors -> Memory], NEW e \in Executors,
           NEW pc \in {"next", "insert", "delete", "count", "done", "control"}, Goto(e, pc)
    PROVE  executor' \in [Executors -> Memory]
BY DEF Goto, Memory

\* ... and one that returns.
LEMMA ReturnType ==
    ASSUME executor \in [Executors -> Memory], NEW e \in Executors, Return(e)
    PROVE  executor' \in [Executors -> Memory]
BY IdleType, MemoryType DEF Return
----------------------------------------------------------------------------
\* TypeOK with the memory named.
LEMMA TypeSplit ==
    TypeOK <=>
        /\ mode \in Modes
        /\ source \in SUBSET Rows
        /\ copies \in [Rows -> Nat]
        /\ status \in {"queued", "running", "paused", "success", "failed"}
        /\ processed \in Nat /\ estimate \in Nat
        /\ guessed \in BOOLEAN
        /\ executor \in [Executors -> Memory]
        /\ known \in SUBSET Rows /\ dropped \in SUBSET Rows /\ removed \in SUBSET Rows
        /\ crashes \in 0..MaxCrashes
BY DEF TypeOK, Memory

\* A job that was just approved is well-typed.
LEMMA TypeInit == Init => TypeOK
<1> SUFFICES ASSUME Init PROVE TypeOK
  OBVIOUS
<1>1. Cardinality(source) \in Nat
  BY RowsCounted DEF Init
<1>2. executor \in [Executors -> Memory]
  BY IdleType DEF Init
<1>3. guessed \in BOOLEAN
  BY DEF Init
<1>4. copies \in [Rows -> Nat] /\ crashes \in 0..MaxCrashes /\ source \in SUBSET Rows
  BY DEF Init
<1>5. mode \in Modes /\ status = "queued" /\ processed = 0 /\ estimate = Cardinality(source)
  BY DEF Init
<1>6. known = source /\ dropped = {} /\ removed = {}
  BY DEF Init
<1>7. QED
  BY <1>1, <1>2, <1>3, <1>4, <1>5, <1>6, TypeSplit

\* Every statement, commit and crash leaves it so.
LEMMA TypeStep == TypeOK /\ [Next]_vars => TypeOK'
<1> SUFFICES ASSUME TypeOK, [Next]_vars PROVE TypeOK'
  OBVIOUS
<1> USE DEF job, history
<1>type. /\ mode \in Modes
         /\ source \in SUBSET Rows
         /\ copies \in [Rows -> Nat]
         /\ status \in {"queued", "running", "paused", "success", "failed"}
         /\ processed \in Nat /\ estimate \in Nat
         /\ guessed \in BOOLEAN
         /\ executor \in [Executors -> Memory]
         /\ known \in SUBSET Rows /\ dropped \in SUBSET Rows /\ removed \in SUBSET Rows
         /\ crashes \in 0..MaxCrashes
  BY TypeSplit
<1> DEFINE TypeOKNext ==
             /\ mode' \in Modes
             /\ source' \in SUBSET Rows
             /\ copies' \in [Rows -> Nat]
             /\ status' \in {"queued", "running", "paused", "success", "failed"}
             /\ processed' \in Nat /\ estimate' \in Nat
             /\ guessed' \in BOOLEAN
             /\ executor' \in [Executors -> Memory]
             /\ known' \in SUBSET Rows /\ dropped' \in SUBSET Rows /\ removed' \in SUBSET Rows
             /\ crashes' \in 0..MaxCrashes
<1>next. TypeOKNext => TypeOK'
  BY DEF TypeOK, Memory
<1>1. CASE AppInsert
  BY <1>1, <1>type, <1>next DEF AppInsert
<1>2. CASE AppDelete
  BY <1>2, <1>type, <1>next DEF AppDelete
<1>3. ASSUME NEW e \in Executors, Execute(e) PROVE TypeOK'
  <2>1. CASE LoadJob(e)
    <3>1. executor' \in [Executors -> Memory]
      <4>1. [executor[e] EXCEPT !.pc = "loaded", !.processed = processed] \in Memory
        BY <1>type DEF Memory
      <4>2. executor' = [executor EXCEPT ![e] = [executor[e] EXCEPT !.pc = "loaded", !.processed = processed]]
        BY <2>1, <1>type DEF LoadJob
      <4>3. QED
        BY <4>1, <4>2, <1>type, MemoryType
    <3>2. QED
      BY <2>1, <3>1, <1>type, <1>next DEF LoadJob
  <2>2. CASE StartJob(e)
    <3>1. executor' \in [Executors -> Memory]
      BY <2>2, <1>type, GotoType DEF StartJob
    <3>2. QED
      BY <2>2, <3>1, <1>type, <1>next DEF StartJob
  <2>3. CASE SelectRows(e)
    <3>1. PICK S \in Batch(source) :
            executor' = [executor EXCEPT ![e].selected = S,
               ![e].pc = IF S = {} THEN "done" ELSE IF Copying THEN "insert" ELSE "delete"]
      BY <2>3 DEF SelectRows
    <3>2. S \in SUBSET Rows
      BY <1>type, BatchRows
    <3>3. executor' \in [Executors -> Memory]
      <4> DEFINE pc == IF S = {} THEN "done" ELSE IF Copying THEN "insert" ELSE "delete"
      <4>1. pc \in {"done", "insert", "delete"}
        OBVIOUS
      <4>2. executor' = [executor EXCEPT ![e].selected = S, ![e].pc = pc]
        BY <3>1
      <4> HIDE DEF pc
      <4>3. [executor[e] EXCEPT !.selected = S, !.pc = pc] \in Memory
        BY <3>2, <4>1, <1>type DEF Memory
      <4>4. executor' = [executor EXCEPT ![e] = [executor[e] EXCEPT !.selected = S, !.pc = pc]]
        BY <4>2, <1>type
      <4>5. QED
        BY <4>3, <4>4, <1>type, MemoryType
    <3>4. QED
      BY <2>3, <3>3, <1>type, <1>next DEF SelectRows
  <2>4. CASE SkipSelect(e)
    <3>1. executor' \in [Executors -> Memory]
      BY <2>4, <1>type, GotoType DEF SkipSelect
    <3>2. QED
      BY <2>4, <3>1, <1>type, <1>next DEF SkipSelect
  <2>5. CASE LeaveLoop(e)
    BY <2>5, <1>type, <1>next, ReturnType DEF LeaveLoop
  <2>6. CASE InsertRows(e)
    <3>1. executor' \in [Executors -> Memory]
      BY <2>6, <1>type, GotoType DEF InsertRows
    <3>2. copies' \in [Rows -> Nat]
      BY <2>6, <1>type DEF InsertRows
    <3>3. QED
      BY <2>6, <3>1, <3>2, <1>type, <1>next DEF InsertRows
  <2>7. CASE InsertSome(e)
    <3>1. executor' \in [Executors -> Memory]
      BY <2>7, <1>type, ReturnType DEF InsertSome
    <3>2. copies' \in [Rows -> Nat]
      BY <2>7, <1>type DEF InsertSome
    <3>3. QED
      BY <2>7, <3>1, <3>2, <1>type, <1>next DEF InsertSome
  <2>8. CASE DeleteRows(e)
    <3>1. PICK S \in Victims(e) :
            /\ source' = source \ S
            /\ removed' = removed \cup S
            /\ executor' = [executor EXCEPT ![e].pc = "count", ![e].deleted = Cardinality(S)]
      BY <2>8 DEF DeleteRows
    <3>2. S \in SUBSET Rows /\ Cardinality(S) \in Nat
      BY <1>type, VictimRows, RowsCounted
    <3>3. executor' \in [Executors -> Memory]
      <4> DEFINE n == Cardinality(S)
      <4>1. [executor[e] EXCEPT !.pc = "count", !.deleted = n] \in Memory
        BY <3>2, <1>type DEF Memory
      <4>2. executor' = [executor EXCEPT ![e] = [executor[e] EXCEPT !.pc = "count", !.deleted = n]]
        BY <3>1, <1>type
      <4>3. QED
        BY <4>1, <4>2, <1>type, MemoryType
    <3>4. QED
      BY <2>8, <3>1, <3>2, <3>3, <1>type, <1>next DEF DeleteRows
  <2>9. CASE CountBatch(e)
    <3>1. PICK count \in Counts(e, Fallback(e)) :
            /\ processed' = Added(e, count.rows)
            /\ guessed' = (guessed \/ count.guess)
            /\ Goto(e, IF LastBatch(e, count.rows) THEN "done" ELSE "control")
      BY <2>9 DEF CountBatch
    <3>2. count.rows \in Nat /\ count.guess \in BOOLEAN
      BY CountType, FallbackType
    <3>3. executor' \in [Executors -> Memory]
      <4>1. (IF LastBatch(e, count.rows) THEN "done" ELSE "control") \in {"done", "control"}
        OBVIOUS
      <4>2. QED
        BY <3>1, <4>1, <1>type, GotoType
    <3>4. processed' \in Nat
      BY <3>1, <3>2, <1>type DEF Memory, Added
    <3>5. guessed' \in BOOLEAN
      BY <3>1, <3>2, <1>type
    <3>6. QED
      BY <2>9, <3>3, <3>4, <3>5, <1>type, <1>next DEF CountBatch
  <2>10. CASE CountAll(e)
    <3>1. PICK count \in Counts(e, estimate) :
            /\ processed' = Added(e, count.rows)
            /\ guessed' = (guessed \/ count.guess)
      BY <2>10 DEF CountAll
    <3>2. count.rows \in Nat /\ count.guess \in BOOLEAN
      BY <1>type, CountType
    <3>3. processed' \in Nat
      BY <3>1, <3>2, <1>type DEF Memory, Added
    <3>4. guessed' \in BOOLEAN
      BY <3>1, <3>2, <1>type
    <3>5. QED
      BY <2>10, <3>3, <3>4, <1>type, <1>next, ReturnType DEF CountAll
  <2>11. CASE Succeed(e)
    BY <2>11, <1>type, <1>next, ReturnType DEF Succeed
  <2>12. CASE GoOn(e)
    <3> DEFINE m == [Idle EXCEPT !.pc = "next", !.processed = processed,
                                 !.round = executor[e].round + 1]
    <3>1. executor[e].round + 1 \in Nat
      BY <2>12, <1>type DEF GoOn, Memory
    <3>2. m \in Memory
      BY <3>1, <1>type DEF Memory, Idle
    <3>3. executor' = [executor EXCEPT ![e] = m]
      BY <2>12 DEF GoOn
    <3> HIDE DEF m
    <3>4. executor' \in [Executors -> Memory]
      BY <3>2, <3>3, <1>type, MemoryType
    <3>5. QED
      BY <2>12, <3>4, <1>type, <1>next DEF GoOn
  <2>13. CASE Stop(e)
    BY <2>13, <1>type, <1>next, ReturnType DEF Stop
  <2>14. CASE FailBatch(e)
    BY <2>14, <1>type, <1>next, ReturnType DEF FailBatch
  <2>15. CASE Crash(e)
    BY <2>15, <1>type, <1>next, ReturnType DEF Crash
  <2>16. QED
    BY <1>3, <2>1, <2>2, <2>3, <2>4, <2>5, <2>6, <2>7, <2>8, <2>9, <2>10, <2>11, <2>12, <2>13,
       <2>14, <2>15 DEF Execute
<1>4. CASE UNCHANGED vars
  BY <1>4, <1>type, <1>next DEF vars
<1>5. QED
  BY <1>1, <1>2, <1>3, <1>4 DEF Next

\* Counters, states, tables and memories keep their types.
THEOREM TypeCorrect == Spec => []TypeOK
BY TypeInit, TypeStep, PTL DEF Spec
----------------------------------------------------------------------------
(***************************************************************************)
(* No row is lost.  The order of the statements is what counts: a batch    *)
(* waits for its deletion only once all of it was copied, and MongoDB      *)
(* deletes by the _id of what was read, so whatever another execution or   *)
(* the application did in between, what goes has been copied.              *)
(***************************************************************************)

\* Before the first execution every known row is in the source.
LEMMA CopiedInit == Init => CopiedFirst
<1> SUFFICES ASSUME Init PROVE CopiedFirst
  OBVIOUS
<1>1. Copied = {}
  BY DEF Init, Copied
<1>2. \A e \in Executors : executor[e].selected = {} /\ executor[e].pc # "delete"
  BY DEF Init, Idle
<1>3. known = source
  BY DEF Init
<1>4. QED
  BY <1>1, <1>2, <1>3 DEF CopiedFirst

\* What an insertion adds to the destination.
LEMMA InsertCopies ==
    ASSUME TypeOK, NEW e \in Executors, InsertRows(e)
    PROVE  Copied' = Copied \cup executor[e].selected
<1>1. copies \in [Rows -> Nat] /\ executor[e].selected \in SUBSET Rows
  BY DEF TypeOK
<1>2. copies' = [r \in Rows |-> IF r \in executor[e].selected THEN copies[r] + 1 ELSE copies[r]]
  BY DEF InsertRows
<1>3. \A r \in Rows : copies'[r] > 0 <=> copies[r] > 0 \/ r \in executor[e].selected
  BY <1>1, <1>2
<1>4. QED
  BY <1>1, <1>3 DEF Copied

\* What one that broke off adds.
LEMMA InsertCopiesSome ==
    ASSUME TypeOK, NEW e \in Executors, InsertSome(e)
    PROVE  \E S \in SUBSET executor[e].selected : Copied' = Copied \cup S
<1>1. copies \in [Rows -> Nat] /\ executor[e].selected \in SUBSET Rows
  BY DEF TypeOK
<1>2. PICK S \in SUBSET (executor[e].selected \ Copied) :
        copies' = [r \in Rows |-> IF r \in S THEN 1 ELSE copies[r]]
  BY DEF InsertSome
<1>3. Copied' = Copied \cup S
  BY <1>1, <1>2 DEF Copied
<1>4. QED
  BY <1>2, <1>3

\* What a MongoDB deletion removes had been copied.
LEMMA DeleteCopied ==
    ASSUME CopiedFirst, NEW e \in Executors, DeleteRows(e), mode = "dest_mongo"
    PROVE  \E S \in SUBSET (source \cap Copied) : source' = source \ S
<1>1. PICK S \in Victims(e) : source' = source \ S
  BY DEF DeleteRows
<1>2. S = executor[e].selected \cap source
  BY DEF Victims, Mongo
<1>3. executor[e].selected \subseteq Copied
  BY DEF DeleteRows, CopiedFirst
<1>4. QED
  BY <1>1, <1>2, <1>3

\* An execution that selects nothing new and reaches no deletion has nothing
\* to answer for.
LEMMA MemoryStep ==
    ASSUME TypeOK, CopiedFirst, mode = "dest_mongo", NEW e \in Executors, NEW m,
           executor' = [executor EXCEPT ![e] = m],
           m.selected \subseteq known, m.pc # "delete", UNCHANGED <<copies, known>>
    PROVE  \A f \in Executors :
             /\ executor'[f].selected \subseteq known'
             /\ executor'[f].pc = "delete" => executor'[f].selected \subseteq Copied'
BY DEF TypeOK, CopiedFirst, Copied

\* Every statement, commit and crash keeps it so.
LEMMA CopiedStep == TypeOK /\ CopiedFirst /\ [Next]_vars => CopiedFirst'
<1> SUFFICES ASSUME TypeOK, CopiedFirst, [Next]_vars, mode' = "dest_mongo" PROVE CopiedFirst'
  BY DEF CopiedFirst
<1> USE DEF job, history
<1>mode. mode = "dest_mongo"
  BY DEF Next, AppInsert, AppDelete, Execute, LoadJob, StartJob, SelectRows, SkipSelect,
         LeaveLoop, InsertRows, InsertSome, DeleteRows, CountBatch, CountAll, Succeed, GoOn,
         Stop, FailBatch, Crash, vars
<1>inv. /\ known \ dropped \subseteq source \cup Copied
        /\ source \cup Copied \subseteq known
        /\ \A e \in Executors :
             /\ executor[e].selected \subseteq known
             /\ executor[e].pc = "delete" => executor[e].selected \subseteq Copied
  BY <1>mode DEF CopiedFirst
<1>mem. executor \in [Executors -> Memory]
  BY TypeSplit
<1>same. UNCHANGED copies => UNCHANGED Copied
  BY DEF Copied
<1> DEFINE Tables == known' \ dropped' \subseteq source' \cup Copied' /\ source' \cup Copied' \subseteq known'
           Memories == \A f \in Executors :
                         /\ executor'[f].selected \subseteq known'
                         /\ executor'[f].pc = "delete" => executor'[f].selected \subseteq Copied'
<1>goal. Tables /\ Memories => CopiedFirst'
  BY DEF CopiedFirst
<1>1. CASE AppInsert
  BY <1>1, <1>inv, <1>same, <1>goal DEF AppInsert
<1>2. CASE AppDelete
  BY <1>2, <1>inv, <1>same, <1>goal DEF AppDelete
<1>3. ASSUME NEW e \in Executors, Execute(e) PROVE CopiedFirst'
  <2>back. ASSUME UNCHANGED <<source, copies, known, dropped>>,
                  NEW m, executor' = [executor EXCEPT ![e] = m],
                  m.selected \subseteq known, m.pc # "delete"
           PROVE  CopiedFirst'
    <3>1. Memories
      BY <2>back, <1>mode, MemoryStep
    <3>2. Tables
      BY <2>back, <1>inv, <1>same
    <3>3. QED
      BY <3>1, <3>2, <1>goal
  <2>idle. Idle.selected = {} /\ Idle.pc # "delete"
    BY DEF Idle
  <2>keep. ASSUME UNCHANGED <<source, copies, known, dropped>>,
                  NEW pc, Goto(e, pc), pc # "delete"
           PROVE  CopiedFirst'
    <3> DEFINE m == [executor[e] EXCEPT !.pc = pc]
    <3>1. m.selected = executor[e].selected /\ m.pc = pc
      BY <1>mem DEF Memory
    <3>2. executor' = [executor EXCEPT ![e] = m]
      BY <2>keep DEF Goto
    <3> HIDE DEF m
    <3>3. QED
      BY <2>back, <2>keep, <3>1, <3>2, <1>inv
  <2>1. CASE LoadJob(e)
    <3> DEFINE m == [executor[e] EXCEPT !.pc = "loaded", !.processed = processed]
    <3>1. m.selected = executor[e].selected /\ m.pc # "delete"
      BY <1>mem DEF Memory
    <3>2. executor' = [executor EXCEPT ![e] = m]
      BY <2>1, <1>mem DEF LoadJob, Memory
    <3>3. UNCHANGED <<source, copies, known, dropped>>
      BY <2>1 DEF LoadJob
    <3> HIDE DEF m
    <3>4. QED
      BY <2>back, <3>1, <3>2, <3>3, <1>inv
  <2>2. CASE StartJob(e)
    BY <2>2, <2>keep DEF StartJob
  <2>3. CASE SelectRows(e)
    <3>1. PICK S \in Batch(source) :
            executor' = [executor EXCEPT ![e].selected = S,
               ![e].pc = IF S = {} THEN "done" ELSE IF Copying THEN "insert" ELSE "delete"]
      BY <2>3 DEF SelectRows
    <3> DEFINE pc == IF S = {} THEN "done" ELSE IF Copying THEN "insert" ELSE "delete"
               m == [executor[e] EXCEPT !.selected = S, !.pc = pc]
    <3>2. pc # "delete"
      BY <1>mode DEF Copying
    <3>3. m.selected = S /\ m.pc = pc /\ executor' = [executor EXCEPT ![e] = m]
      BY <3>1, <1>mem DEF Memory
    <3>4. S \subseteq known
      BY <1>inv, BatchRows
    <3>5. UNCHANGED <<source, copies, known, dropped>>
      BY <2>3 DEF SelectRows
    <3> HIDE DEF m, pc
    <3>6. QED
      BY <2>back, <3>2, <3>3, <3>4, <3>5
  <2>4. CASE SkipSelect(e) \/ CountAll(e)
    BY <2>4, <1>mode DEF SkipSelect, CountAll
  <2>5. CASE LeaveLoop(e) \/ Succeed(e) \/ Stop(e) \/ FailBatch(e) \/ Crash(e)
    BY <2>5, <2>back, <2>idle DEF LeaveLoop, Succeed, Stop, FailBatch, Crash, Return
  <2>6. CASE InsertRows(e)
    <3>1. Copied' = Copied \cup executor[e].selected
      BY <2>6, InsertCopies
    <3>2. UNCHANGED <<source, known, dropped>>
      BY <2>6 DEF InsertRows
    <3>3. Tables
      BY <3>1, <3>2, <1>inv
    <3>4. \A f \in Executors :
            /\ executor'[f].selected = executor[f].selected
            /\ f # e => executor'[f].pc = executor[f].pc
      BY <2>6, <1>mem DEF InsertRows, Goto, Memory
    <3>5. Memories
      BY <3>1, <3>2, <3>4, <1>inv
    <3>6. QED
      BY <3>3, <3>5, <1>goal
  <2>7. CASE InsertSome(e)
    <3>1. PICK S \in SUBSET executor[e].selected : Copied' = Copied \cup S
      BY <2>7, InsertCopiesSome
    <3>2. UNCHANGED <<source, known, dropped>> /\ executor' = [executor EXCEPT ![e] = Idle]
      BY <2>7 DEF InsertSome, Return
    <3>3. Tables
      BY <3>1, <3>2, <1>inv
    <3>4. Memories
      BY <3>1, <3>2, <1>inv, <1>mem, <2>idle
    <3>5. QED
      BY <3>3, <3>4, <1>goal
  <2>8. CASE DeleteRows(e)
    <3>1. PICK S \in SUBSET (source \cap Copied) : source' = source \ S
      BY <2>8, <1>mode, DeleteCopied
    <3>2. UNCHANGED <<copies, known, dropped>>
      BY <2>8 DEF DeleteRows
    <3>3. Tables
      BY <3>1, <3>2, <1>inv, <1>same
    <3>4. PICK n : executor' = [executor EXCEPT ![e].pc = "count", ![e].deleted = n]
      BY <2>8 DEF DeleteRows
    <3>5. \A f \in Executors :
            /\ executor'[f].selected = executor[f].selected
            /\ executor'[f].pc = "delete" => executor[f].pc = "delete"
      BY <3>4, <1>mem DEF Memory
    <3>6. Memories
      BY <3>2, <3>5, <1>inv, <1>same
    <3>7. QED
      BY <3>3, <3>6, <1>goal
  <2>9. CASE CountBatch(e)
    <3>1. PICK count : Goto(e, IF LastBatch(e, count.rows) THEN "done" ELSE "control")
      BY <2>9 DEF CountBatch
    <3>2. (IF LastBatch(e, count.rows) THEN "done" ELSE "control") # "delete"
      OBVIOUS
    <3>3. UNCHANGED <<source, copies, known, dropped>>
      BY <2>9 DEF CountBatch
    <3>4. QED
      BY <2>keep, <3>1, <3>2, <3>3
  <2>10. CASE GoOn(e)
    <3> DEFINE m == [Idle EXCEPT !.pc = "next", !.processed = processed,
                                 !.round = executor[e].round + 1]
    <3>1. m.selected = {} /\ m.pc # "delete"
      BY DEF Idle
    <3>2. executor' = [executor EXCEPT ![e] = m] /\ UNCHANGED <<source, copies, known, dropped>>
      BY <2>10 DEF GoOn
    <3> HIDE DEF m
    <3>3. QED
      BY <2>back, <3>1, <3>2
  <2>11. QED
    BY <1>3, <2>1, <2>2, <2>3, <2>4, <2>5, <2>6, <2>7, <2>8, <2>9, <2>10 DEF Execute
<1>4. CASE UNCHANGED vars
  BY <1>4, <1>inv, <1>same, <1>goal DEF vars
<1>5. QED
  BY <1>1, <1>2, <1>3, <1>4 DEF Next

\* The migration is inductive together with the types.
THEOREM CopiedCorrect == Spec => []CopiedFirst
<1>1. Init => TypeOK /\ CopiedFirst
  BY TypeInit, CopiedInit
<1>2. TypeOK /\ CopiedFirst /\ [Next]_vars => (TypeOK /\ CopiedFirst)'
  BY TypeStep, CopiedStep
<1>3. QED
  BY <1>1, <1>2, PTL DEF Spec

\* A MongoDB migration loses no row, for any table, batch size, number of
\* overlapping executions and number of crashes (archive.py 1068-1097).
THEOREM RowsKept == Spec => []MigrationKeepsRows
<1>1. CopiedFirst => MigrationKeepsRows
  BY DEF CopiedFirst, MigrationKeepsRows
<1>2. QED
  BY <1>1, CopiedCorrect, PTL
----------------------------------------------------------------------------
(***************************************************************************)
(* The refinement.  While the application deletes nothing, every known row *)
(* is in the source or in the destination: so what a batch copies is still *)
(* in the source or was copied before, and a step of an execution is a     *)
(* Copy, a Remove or no step of RowTransfer.                               *)
(***************************************************************************)

\* Nothing is in the destination at first.
LEMMA TransferInit == Init => Transfer!Init
<1>1. Init => Copied = {} /\ source \in SUBSET Rows
  BY DEF Init, Copied
<1>2. QED
  BY <1>1 DEF Transfer!Init

\* What the application has deleted stays deleted.
LEMMA DroppedStep == Next /\ dropped' = {} => ~AppDelete /\ dropped = {}
<1> SUFFICES ASSUME Next, dropped' = {} PROVE ~AppDelete /\ dropped = {}
  OBVIOUS
<1>1. ~AppDelete
  BY DEF AppDelete
<1>2. dropped' = dropped
  BY <1>1 DEF Next, AppInsert, Execute, LoadJob, StartJob, SelectRows, SkipSelect, LeaveLoop, InsertRows,
              InsertSome, DeleteRows, CountBatch, CountAll, Succeed, GoOn, Stop, FailBatch, Crash, history
<1>3. QED
  BY <1>1, <1>2

\* Every step is one of RowTransfer, or moves no row.
LEMMA TransferStep ==
    TypeOK /\ CopiedFirst /\ [Next]_vars
        => [mode = "dest_mongo" /\ dropped' = {} => Transfer!Next]_(Transfer!vars)
<1> SUFFICES ASSUME TypeOK, CopiedFirst, [Next]_vars, mode = "dest_mongo", dropped' = {}
             PROVE  Transfer!Next \/ UNCHANGED <<source, Copied>>
  BY DEF Transfer!vars
<1> USE DEF job, history
<1>inv. /\ TypeOK /\ mode = "dest_mongo" /\ known \subseteq source \cup Copied
        /\ source \cup Copied \subseteq known
        /\ \A e \in Executors : executor[e].selected \subseteq known
  <2>1. dropped = {}
    BY DroppedStep DEF vars
  <2>2. QED
    BY <2>1 DEF CopiedFirst
<1>same. UNCHANGED copies => UNCHANGED Copied
  BY DEF Copied
<1>copy. ASSUME NEW S \in SUBSET known, Copied' = Copied \cup S, UNCHANGED source
         PROVE  Transfer!Next
  <2>1. S \cap source \in SUBSET source /\ Copied' = Copied \cup (S \cap source)
    BY <1>copy, <1>inv
  <2>2. QED
    BY <2>1, <1>copy DEF Transfer!Next, Transfer!Copy
<1>1. CASE AppInsert
  <2>1. PICK r \in Rows \ known : source' = source \cup {r}
    BY <1>1 DEF AppInsert
  <2>2. r \in Rows \ (source \cup Copied)
    BY <2>1, <1>inv
  <2>3. UNCHANGED Copied
    BY <1>1, <1>same DEF AppInsert
  <2>4. QED
    BY <2>1, <2>2, <2>3 DEF Transfer!Next, Transfer!Arrive
<1>2. CASE AppDelete
  BY <1>2 DEF AppDelete
<1>3. ASSUME NEW e \in Executors, Execute(e)
      PROVE  Transfer!Next \/ UNCHANGED <<source, Copied>>
  <2>1. CASE InsertRows(e)
    <3>1. Copied' = Copied \cup executor[e].selected /\ UNCHANGED source
      BY <2>1, <1>inv, InsertCopies DEF InsertRows
    <3>2. QED
      BY <3>1, <1>copy, <1>inv
  <2>2. CASE InsertSome(e)
    <3>1. PICK S \in SUBSET executor[e].selected : Copied' = Copied \cup S
      BY <2>2, <1>inv, InsertCopiesSome
    <3>2. UNCHANGED source
      BY <2>2 DEF InsertSome
    <3>3. QED
      BY <3>1, <3>2, <1>copy, <1>inv
  <2>3. CASE DeleteRows(e)
    <3>1. PICK S \in SUBSET (source \cap Copied) : source' = source \ S
      BY <2>3, <1>inv, DeleteCopied
    <3>2. UNCHANGED Copied
      BY <2>3, <1>same DEF DeleteRows
    <3>3. QED
      BY <3>1, <3>2 DEF Transfer!Next, Transfer!Remove
  <2>4. CASE ~(InsertRows(e) \/ InsertSome(e) \/ DeleteRows(e))
    <3>1. UNCHANGED <<source, copies>>
      BY <1>3, <2>4 DEF Execute, LoadJob, StartJob, SelectRows, SkipSelect, LeaveLoop,
                        CountBatch, CountAll, Succeed, GoOn, Stop, FailBatch, Crash
    <3>2. QED
      BY <3>1, <1>same
  <2>5. QED
    BY <2>1, <2>2, <2>3, <2>4
<1>4. CASE UNCHANGED vars
  BY <1>4, <1>same DEF vars
<1>5. QED
  BY <1>1, <1>2, <1>3, <1>4 DEF Next

\* A MongoDB migration implements RowTransfer as long as the application
\* deletes none of its rows: only what the destination has is removed.
THEOREM TransferCorrect == Spec => ImplementsTransfer
<1>1. Init => Transfer!Init
  BY TransferInit
<1>2. TypeOK /\ CopiedFirst /\ [Next]_vars
        => [mode = "dest_mongo" /\ dropped' = {} => Transfer!Next]_(Transfer!vars)
  BY TransferStep
<1>3. QED
  BY <1>1, <1>2, TypeCorrect, CopiedCorrect, PTL DEF Spec, ImplementsTransfer

\* The strengthening as one invariant, as TLC checks it.
THEOREM InductiveCorrect == Spec => []Inductive
  BY TypeCorrect, CopiedCorrect, PTL DEF Inductive
----------------------------------------------------------------------------
(***************************************************************************)
(* Executions that follow one another, for any mode.  The step of the one  *)
(* whose turn it is decides: the others are idle, nobody else writes the   *)
(* job, and the application can only make the batch at hand smaller than   *)
(* it was.  The loop ends after a batch that was smaller than it may be,   *)
(* which then was all that was left.                                       *)
(***************************************************************************)

\* An execution that is not there.
LEMMA IdleFields ==
    Idle.pc = "idle" /\ Idle.selected = {} /\ Idle.deleted = 0 /\ Idle.processed = 0
BY DEF Idle

\* Sets of rows can be counted, and a part with as many rows is the whole.
LEMMA Parts ==
    ASSUME NEW S \in SUBSET Rows, NEW T \in SUBSET S
    PROVE  /\ Cardinality(S) \in Nat /\ Cardinality(T) \in Nat
           /\ Cardinality(T) <= Cardinality(S)
           /\ Cardinality(T) = Cardinality(S) => T = S
           /\ Cardinality(S) = 0 <=> S = {}
<1>1. IsFiniteSet(S)
  BY FS_Subset
<1>2. Cardinality(S) \in Nat /\ Cardinality(T) \in Nat
  BY RowsCounted
<1>3. QED
  BY <1>1, <1>2, FS_Subset, FS_EmptySet

\* Disjoint sets of rows add up.
LEMMA Disjoint ==
    ASSUME NEW S \in SUBSET Rows, NEW T \in SUBSET Rows, S \cap T = {}
    PROVE  Cardinality(S \cup T) = Cardinality(S) + Cardinality(T)
<1>1. IsFiniteSet(S) /\ IsFiniteSet(T) /\ Cardinality(S) \in Nat /\ Cardinality(T) \in Nat
  BY FS_Subset, RowsCounted
<1>2. Cardinality(S \cup T) = Cardinality(S) + Cardinality(T) - Cardinality(S \cap T)
  BY <1>1, FS_Union
<1>3. Cardinality(S \cap T) = 0
  BY FS_EmptySet
<1>4. QED
  BY <1>1, <1>2, <1>3

\* One more row counts for one.
LEMMA OneMore ==
    ASSUME NEW S \in SUBSET Rows, NEW r, r \notin S
    PROVE  Cardinality(S \cup {r}) = Cardinality(S) + 1
BY FS_Subset, FS_AddElement

\* A batch that is smaller than it may be is all there is; one of an empty
\* table is empty.
LEMMA SmallBatch ==
    ASSUME NEW S \in SUBSET Rows, NEW T \in Batch(S)
    PROVE  /\ T \in SUBSET S
           /\ Cardinality(T) \in Nat /\ Cardinality(T) <= BatchSize
           /\ Cardinality(T) < BatchSize => T = S
           /\ Cardinality(S) < BatchSize => T = S
           /\ T = {} => S = {}
<1>1. T \in SUBSET S /\ Cardinality(T) = Least(BatchSize, Cardinality(S))
  BY DEF Batch
<1>2. /\ Cardinality(S) \in Nat /\ Cardinality(T) \in Nat
      /\ Cardinality(T) = Cardinality(S) => T = S
      /\ Cardinality(S) = 0 <=> S = {}
  BY <1>1, Parts
<1>3. \A m, n \in Nat, b \in Nat \ {0} :
        m = Least(b, n) => /\ m <= b
                           /\ m < b => m = n
                           /\ n < b => m = n
                           /\ m = 0 => n = 0
  BY DEF Least
<1>4. T = {} => Cardinality(T) = 0
  BY FS_EmptySet
<1>5. QED
  <2> DEFINE m == Cardinality(T)
             n == Cardinality(S)
  <2>1. m \in Nat /\ n \in Nat /\ m = Least(BatchSize, n)
    BY <1>1, <1>2
  <2>2. m <= BatchSize /\ (m < BatchSize => m = n) /\ (n < BatchSize => m = n) /\ (m = 0 => n = 0)
    BY <1>3, <2>1
  <2>3. QED
    BY <1>1, <1>2, <1>4, <2>2

\* Every row that ever was in the table is counted once.
LEMMA WholeCounted ==
    ASSUME TypeOK, RowsParted
    PROVE  /\ Gone \in Nat /\ Cardinality(known) \in Nat /\ Cardinality(source) \in Nat
           /\ Cardinality(known) = Cardinality(source) + Gone
           /\ Cardinality(source) = 0 <=> source = {}
<1>1. source \in SUBSET Rows /\ removed \in SUBSET Rows /\ dropped \in SUBSET Rows
  BY DEF TypeOK
<1>2. /\ Cardinality(source) \in Nat /\ Cardinality(removed) \in Nat /\ Cardinality(dropped) \in Nat
      /\ Cardinality(known) \in Nat
  BY <1>1, RowsCounted DEF RowsParted
<1>3. Cardinality(removed \cup dropped) = Cardinality(removed) + Cardinality(dropped)
  BY <1>1, Disjoint DEF RowsParted
<1>4. Cardinality(source \cup (removed \cup dropped)) = Cardinality(source) + Cardinality(removed \cup dropped)
  BY <1>1, Disjoint DEF RowsParted
<1>5. known = source \cup (removed \cup dropped)
  BY DEF RowsParted
<1>6. Cardinality(source) = 0 <=> source = {}
  BY <1>1, Parts
<1>7. QED
  BY <1>2, <1>3, <1>4, <1>5, <1>6 DEF Gone
----------------------------------------------------------------------------
\* Whose turn it is.
Turn(e) == e \in Executors /\ \A d \in Executors \ {e} : executor[d] = Idle

\* A step of one execution leaves the others idle.
LEMMA TurnStep ==
    ASSUME TypeOK, NEW e \in Executors, Turn(e), Execute(e)
    PROVE  Turn(e)'
<1>1. executor \in [Executors -> Memory]
  BY TypeSplit
<1>2. \E m : executor' = [executor EXCEPT ![e] = m]
  <2>1. CASE LoadJob(e)
    BY <2>1 DEF LoadJob
  <2>2. CASE StartJob(e) \/ SkipSelect(e) \/ InsertRows(e) \/ CountBatch(e)
    BY <2>2 DEF StartJob, SkipSelect, InsertRows, CountBatch, Goto
  <2>3. CASE SelectRows(e)
    BY <2>3 DEF SelectRows
  <2>4. CASE LeaveLoop(e) \/ InsertSome(e) \/ CountAll(e) \/ Succeed(e) \/ Stop(e) \/ FailBatch(e) \/ Crash(e)
    BY <2>4 DEF LeaveLoop, InsertSome, CountAll, Succeed, Stop, FailBatch, Crash, Return
  <2>5. CASE DeleteRows(e) \/ GoOn(e)
    BY <2>5 DEF DeleteRows, GoOn
  <2>6. QED
    BY <2>1, <2>2, <2>3, <2>4, <2>5 DEF Execute
<1>3. QED
  BY <1>1, <1>2 DEF Turn

\* Before the first execution nothing was moved or counted.
LEMMA InTurnInit == Init => InTurn
<1> SUFFICES ASSUME Init PROVE InTurn
  OBVIOUS
<1>1. /\ source \in SUBSET Rows /\ known = source /\ removed = {} /\ dropped = {} /\ processed = 0
      /\ estimate = Cardinality(source) /\ status = "queued" /\ copies = [r \in Rows |-> 0]
      /\ \A e \in Executors : executor[e] = Idle
  BY DEF Init
<1>2. Cardinality(source) \in Nat /\ Cardinality({}) = 0
  BY <1>1, RowsCounted, FS_EmptySet
<1>3. OneExecution /\ RowsParted
  BY <1>1, <1>2 DEF OneExecution, AtRest, RowsParted
<1>4. \A e \in Executors : InStep(e)
  BY <1>1, IdleFields DEF InStep
<1>5. Counted
  BY <1>1, <1>2, IdleFields DEF Counted
<1>6. Completing
  <2>1. \A e \in Executors : LastIsWhole(e)
    BY <1>1, IdleFields DEF LastIsWhole
  <2>2. processed <= Gone
    BY <1>1, <1>2 DEF Gone
  <2>3. QED
    BY <1>1, <2>1, <2>2 DEF Completing
<1>7. Moving
  BY <1>1 DEF Moving, Copied
<1>8. QED
  BY <1>3, <1>4, <1>5, <1>6, <1>7 DEF InTurn
----------------------------------------------------------------------------
\* Executions follow one another ...
LEMMA OneExecutionStep ==
    ASSUME TypeOK, OneExecution, NEW e \in Executors, Turn(e), Execute(e)
    PROVE  OneExecution'
<1>1. executor \in [Executors -> Memory] /\ Turn(e)'
  BY TypeSplit, TurnStep
<1>2. executor'[e].pc = "idle" => executor'[e] = Idle
  <2>1. CASE LoadJob(e)
    BY <2>1, <1>1 DEF LoadJob, Memory
  <2>2. CASE StartJob(e) \/ SkipSelect(e) \/ InsertRows(e)
    BY <2>2, <1>1 DEF StartJob, SkipSelect, InsertRows, Goto, Memory
  <2>3. CASE CountBatch(e)
    BY <2>3, <1>1 DEF CountBatch, Goto, Memory
  <2>4. CASE SelectRows(e)
    BY <2>4, <1>1 DEF SelectRows, Memory
  <2>5. CASE LeaveLoop(e) \/ InsertSome(e) \/ CountAll(e) \/ Succeed(e) \/ Stop(e) \/ FailBatch(e) \/ Crash(e)
    BY <2>5, <1>1 DEF LeaveLoop, InsertSome, CountAll, Succeed, Stop, FailBatch, Crash, Return
  <2>6. CASE DeleteRows(e)
    BY <2>6, <1>1 DEF DeleteRows, Memory
  <2>7. CASE GoOn(e)
    BY <2>7, <1>1 DEF GoOn, Idle
  <2>8. QED
    BY <2>1, <2>2, <2>3, <2>4, <2>5, <2>6, <2>7 DEF Execute
<1>3. QED
  BY <1>1, <1>2 DEF OneExecution, AtRest, Turn

\* ... each knows the job as it is ...
LEMMA InStepStep ==
    ASSUME TypeOK, NEW e \in Executors, InStep(e), Turn(e), Execute(e)
    PROVE  \A d \in Executors : InStep(d)'
<1>1. executor \in [Executors -> Memory] /\ Turn(e)'
  BY TypeSplit, TurnStep
<1> USE DEF job, history
<1>2. InStep(e)'
  <2>1. CASE LoadJob(e)
    BY <2>1, <1>1 DEF LoadJob, Memory, InStep
  <2>2. CASE StartJob(e) \/ SkipSelect(e) \/ InsertRows(e)
    BY <2>2, <1>1 DEF StartJob, SkipSelect, InsertRows, Goto, Memory, InStep
  <2>3. CASE CountBatch(e)
    BY <2>3, <1>1 DEF CountBatch, Goto, Memory, InStep
  <2>4. CASE SelectRows(e)
    BY <2>4, <1>1 DEF SelectRows, Memory, InStep
  <2>5. CASE LeaveLoop(e) \/ InsertSome(e) \/ CountAll(e) \/ Succeed(e) \/ Stop(e) \/ FailBatch(e) \/ Crash(e)
    <3>1. executor'[e] = Idle
      BY <2>5, <1>1 DEF LeaveLoop, InsertSome, CountAll, Succeed, Stop, FailBatch, Crash, Return
    <3>2. QED
      BY <3>1, IdleFields DEF InStep
  <2>6. CASE DeleteRows(e)
    BY <2>6, <1>1 DEF DeleteRows, Memory, InStep
  <2>7. CASE GoOn(e)
    BY <2>7, <1>1 DEF GoOn, Idle, InStep
  <2>8. QED
    BY <2>1, <2>2, <2>3, <2>4, <2>5, <2>6, <2>7 DEF Execute
<1>3. QED
  BY <1>1, <1>2, IdleFields DEF InStep, Turn

\* ... a row is in the table until it is deleted, once ...
LEMMA PartedStep ==
    ASSUME TypeOK, RowsParted, NEW e \in Executors, Execute(e)
    PROVE  RowsParted'
<1> USE DEF job, history
<1>1. CASE DeleteRows(e)
  <2>1. PICK S \in Victims(e) : source' = source \ S /\ removed' = removed \cup S
    BY <1>1 DEF DeleteRows
  <2>2. S \subseteq source
    BY VictimRows
  <2>3. UNCHANGED <<known, dropped, estimate>>
    BY <1>1 DEF DeleteRows
  <2>4. QED
    BY <2>1, <2>2, <2>3 DEF RowsParted
<1>2. CASE ~DeleteRows(e)
  <2>1. UNCHANGED <<source, known, removed, dropped, estimate>>
    BY <1>2 DEF Execute, LoadJob, StartJob, SelectRows, SkipSelect, LeaveLoop, InsertRows, InsertSome,
                CountBatch, CountAll, Succeed, GoOn, Stop, FailBatch, Crash
  <2>2. QED
    BY <2>1 DEF RowsParted
<1>3. QED
  BY <1>1, <1>2

\* What a count adds to the counter of the job.
LEMMA AddedRows ==
    ASSUME TypeOK, NEW e \in Executors, InStep(e), executor[e].pc = "count", NEW n \in Nat
    PROVE  Added(e, n) = processed + n
BY DEF Added, InStep, TypeOK

\* ... and counted, unless the count is a guess.
LEMMA CountedStep ==
    ASSUME TypeOK, RowsParted, Counted, NEW e \in Executors, InStep(e), Turn(e), Execute(e), ~Crash(e)
    PROVE  Counted'
<1> USE DEF job, history
<1>1. executor \in [Executors -> Memory] /\ Turn(e)'
  BY TypeSplit, TurnStep
<1>2. SUFFICES ASSUME ~guessed'
               PROVE  processed' + (IF executor'[e].pc = "count" THEN executor'[e].deleted ELSE 0) = Cardinality(removed')
  <2>1. processed' \in Nat
    BY TypeStep DEF Next, TypeOK
  <2>2. QED
    BY <1>1, <1>2, <2>1, IdleFields DEF Counted, Turn
<1>3. ~guessed => processed + (IF executor[e].pc = "count" THEN executor[e].deleted ELSE 0) = Cardinality(removed)
  BY IdleFields DEF Counted, Turn, TypeOK
<1>4. CASE DeleteRows(e)
  <2>1. PICK S \in Victims(e) :
          /\ source' = source \ S
          /\ removed' = removed \cup S
          /\ executor' = [executor EXCEPT ![e].pc = "count", ![e].deleted = Cardinality(S)]
    BY <1>4 DEF DeleteRows
  <2>2. S \in SUBSET source
    BY VictimRows
  <2>3. Cardinality(removed') = Cardinality(removed) + Cardinality(S)
    BY <2>1, <2>2, Disjoint DEF RowsParted, TypeOK
  <2>4. executor'[e].pc = "count" /\ executor'[e].deleted = Cardinality(S)
    BY <2>1, <1>1 DEF Memory
  <2>5. executor[e].pc = "delete" /\ UNCHANGED <<processed, guessed>>
    BY <1>4 DEF DeleteRows
  <2>6. processed = Cardinality(removed)
    BY <1>2, <1>3, <2>5 DEF TypeOK
  <2>7. QED
    BY <2>3, <2>4, <2>5, <2>6
<1>5. CASE CountBatch(e) \/ CountAll(e)
  <2>0. PICK fallback : \E count \in Counts(e, fallback) :
          processed' = Added(e, count.rows) /\ guessed' = (guessed \/ count.guess)
    BY <1>5 DEF CountBatch, CountAll
  <2>1. PICK count \in Counts(e, fallback) :
          processed' = Added(e, count.rows) /\ guessed' = (guessed \/ count.guess)
    BY <2>0
  <2>2. ~guessed /\ ~count.guess
    BY <2>1, <1>2 DEF TypeOK
  <2>3. count.rows = executor[e].deleted
    BY <2>1, <2>2 DEF Counts
  <2>4. executor[e].pc = "count" /\ UNCHANGED removed
    BY <1>5 DEF CountBatch, CountAll
  <2>5. executor[e].deleted \in Nat
    BY <1>1 DEF Memory
  <2>6. processed' = Cardinality(removed)
    BY <1>3, <2>1, <2>2, <2>3, <2>4, <2>5, AddedRows
  <2>7. executor'[e].pc # "count"
    BY <1>1, <1>5, IdleFields DEF CountBatch, CountAll, Goto, Return, Memory
  <2>8. QED
    BY <2>4, <2>6, <2>7, <1>1, RowsCounted DEF TypeOK
<1>6. CASE ~(DeleteRows(e) \/ CountBatch(e) \/ CountAll(e))
  <2>1. UNCHANGED <<processed, guessed, removed>>
    BY <1>6 DEF Execute, LoadJob, StartJob, SelectRows, SkipSelect, LeaveLoop, InsertRows, InsertSome,
                Succeed, GoOn, Stop, FailBatch
  <2>2. executor[e].pc # "count"
    BY <1>6 DEF Execute, LoadJob, StartJob, SelectRows, SkipSelect, LeaveLoop, InsertRows, InsertSome,
                Succeed, GoOn, Stop, FailBatch
  <2>3. executor'[e].pc # "count"
    <3>1. CASE LeaveLoop(e) \/ InsertSome(e) \/ Succeed(e) \/ Stop(e) \/ FailBatch(e)
      BY <3>1, <1>1, IdleFields DEF LeaveLoop, InsertSome, Succeed, Stop, FailBatch, Return
    <3>2. CASE LoadJob(e) \/ StartJob(e) \/ SkipSelect(e) \/ InsertRows(e)
      BY <3>2, <1>1 DEF LoadJob, StartJob, SkipSelect, InsertRows, Goto, Memory
    <3>3. CASE SelectRows(e)
      BY <3>3, <1>1 DEF SelectRows, Memory
    <3>4. CASE GoOn(e)
      BY <3>4, <1>1 DEF GoOn, Idle
    <3>5. QED
      BY <1>6, <3>1, <3>2, <3>3, <3>4 DEF Execute
  <2>4. QED
    BY <1>2, <1>3, <2>1, <2>2, <2>3
<1>7. QED
  BY <1>4, <1>5, <1>6

\* The arithmetic of a purge: what a missing count is guessed to be.
LEMMA GuessedCount ==
    \A est, done, gone, deleted, left \in Nat, b \in Nat \ {0} :
        /\ done + deleted <= gone
        /\ est = left + gone
        /\ deleted < b => left = 0
        => LET guess == Least(b, Most(est - done, 0))
           IN  /\ done + guess <= gone
               /\ guess < b \/ done + guess >= est => left = 0
BY DEF Least, Most

\* ... so that the end of the loop is seen only when nothing is left.
LEMMA CompletingStep ==
    ASSUME TypeOK, RowsParted, Completing, NEW e \in Executors, InStep(e), Turn(e), Execute(e), ~Crash(e)
    PROVE  Completing'
<1> USE DEF job, history
<1>mem. executor \in [Executors -> Memory] /\ Turn(e)'
  BY TypeSplit, TurnStep
<1>same. UNCHANGED <<mode, known, dropped, estimate>>
  BY DEF Execute, LoadJob, StartJob, SelectRows, SkipSelect, LeaveLoop, InsertRows, InsertSome, DeleteRows,
         CountBatch, CountAll, Succeed, GoOn, Stop, FailBatch
<1> SUFFICES ASSUME Exact' PROVE Completing'
  BY DEF Completing
<1>inv. /\ mode = "purge" => processed <= Gone
        /\ LastIsWhole(e)
        /\ status = "success" /\ Undisturbed => source = {}
  BY <1>same DEF Completing, Exact
<1>type. /\ source \in SUBSET Rows /\ removed \in SUBSET Rows /\ dropped \in SUBSET Rows
         /\ processed \in Nat /\ estimate \in Nat /\ mode \in Mode
         /\ executor[e].deleted \in Nat /\ executor[e].selected \in SUBSET Rows
         /\ Cardinality(executor[e].selected) \in Nat
  BY RowsCounted DEF TypeOK
<1>whole. /\ Gone \in Nat /\ Cardinality(source) \in Nat /\ estimate = Cardinality(source) + Gone
          /\ Cardinality(source) = 0 <=> source = {}
  BY <1>same, WholeCounted DEF Exact
<1>goal. ASSUME mode = "purge" => processed' <= Gone', LastIsWhole(e)',
                status' = "success" /\ Undisturbed => source' = {}
         PROVE  Completing'
  <2>1. \A d \in Executors \ {e} : LastIsWhole(d)'
    BY <1>mem, IdleFields DEF LastIsWhole, Turn
  <2>2. QED
    BY <1>goal, <1>same, <2>1 DEF Completing, Undisturbed
<1>still. ASSUME UNCHANGED <<source, removed, processed>>, LastIsWhole(e)', status' # "success"
          PROVE  Completing'
  BY <1>still, <1>goal, <1>inv, <1>same DEF Gone
<1>leave. ASSUME UNCHANGED <<source, removed, processed>>, executor'[e] = Idle, status' # "success"
          PROVE  Completing'
  BY <1>leave, <1>still, IdleFields DEF LastIsWhole
<1>1. CASE LoadJob(e)
  <2>1. executor'[e].pc = "loaded"
    BY <1>1, <1>mem DEF LoadJob, Memory
  <2>2. QED
    BY <1>1, <2>1, <1>still DEF LoadJob, LastIsWhole
<1>2. CASE StartJob(e)
  <2>1. executor'[e].pc = "next"
    BY <1>2, <1>mem DEF StartJob, Goto, Memory
  <2>2. QED
    BY <1>2, <2>1, <1>still DEF StartJob, LastIsWhole
<1>3. CASE SelectRows(e)
  <2>1. PICK S \in Batch(source) :
          executor' = [executor EXCEPT ![e].selected = S,
             ![e].pc = IF S = {} THEN "done" ELSE IF Copying THEN "insert" ELSE "delete"]
    BY <1>3 DEF SelectRows
  <2>2. /\ executor'[e].selected = S
        /\ executor'[e].pc = IF S = {} THEN "done" ELSE IF Copying THEN "insert" ELSE "delete"
    BY <2>1, <1>mem DEF Memory
  <2>3. S \subseteq source /\ (Cardinality(S) < BatchSize => S = source) /\ (S = {} => source = {})
    BY <1>type, SmallBatch
  <2>4. UNCHANGED <<source, removed, processed, status>> /\ status = "running"
    BY <1>3 DEF SelectRows, InStep
  <2>5. LastIsWhole(e)'
    BY <2>2, <2>3, <2>4 DEF LastIsWhole
  <2>6. QED
    BY <2>4, <2>5, <1>still
<1>4. CASE SkipSelect(e)
  <2>1. executor'[e].pc = "delete" /\ mode \in {"purge", "single"}
    BY <1>4, <1>mem DEF SkipSelect, Goto, Memory
  <2>2. status = "running" /\ UNCHANGED <<source, removed, processed, status>>
    BY <1>4 DEF SkipSelect, InStep
  <2>3. QED
    BY <2>1, <2>2, <1>still, <1>same DEF LastIsWhole
<1>5. CASE LeaveLoop(e)
  <2>1. status = "running" /\ UNCHANGED <<source, removed, processed>> /\ status' \in {"failed", status}
    BY <1>5 DEF LeaveLoop, InStep
  <2>2. QED
    BY <1>5, <2>1, <1>leave, <1>mem DEF LeaveLoop, Return
<1>6. CASE InsertRows(e)
  <2>1. executor[e].pc = "insert" /\ executor'[e] = [executor[e] EXCEPT !.pc = "delete"]
    BY <1>6, <1>mem DEF InsertRows, Goto
  <2>2. executor'[e].pc = "delete" /\ executor'[e].selected = executor[e].selected
    BY <2>1, <1>mem DEF Memory
  <2>3. status = "running" /\ UNCHANGED <<source, removed, processed, status>>
    BY <1>6 DEF InsertRows, InStep
  <2>4. LastIsWhole(e)'
    BY <1>inv, <1>same, <2>1, <2>2, <2>3 DEF LastIsWhole
  <2>5. QED
    BY <2>3, <2>4, <1>still
<1>7. CASE InsertSome(e) \/ FailBatch(e) \/ Stop(e)
  BY <1>7, <1>leave, <1>mem DEF InsertSome, FailBatch, Stop, Return
<1>8. CASE DeleteRows(e)
  <2>1. PICK S \in Victims(e) :
          /\ source' = source \ S
          /\ removed' = removed \cup S
          /\ executor' = [executor EXCEPT ![e].pc = "count", ![e].deleted = Cardinality(S)]
    BY <1>8 DEF DeleteRows
  <2>2. S \in SUBSET source
    BY VictimRows
  <2>3. /\ executor[e].pc = "delete" /\ executor'[e].pc = "count"
        /\ executor'[e].deleted = Cardinality(S) /\ executor'[e].selected = executor[e].selected
    BY <1>8, <2>1, <1>mem DEF DeleteRows, Memory
  <2>4. status = "running" /\ UNCHANGED <<processed, status>>
    BY <1>8 DEF DeleteRows, InStep
  <2>5. Cardinality(S) \in Nat /\ Gone' = Gone + Cardinality(S)
    <3>1. Cardinality(removed') = Cardinality(removed) + Cardinality(S)
      BY <2>1, <2>2, <1>type, Disjoint DEF RowsParted
    <3>2. Cardinality(S) \in Nat /\ Cardinality(removed) \in Nat /\ Cardinality(dropped) \in Nat
      BY <2>2, <1>type, RowsCounted
    <3>3. QED
      BY <3>1, <3>2, <1>same DEF Gone
  <2>6. mode = "purge" => processed + Cardinality(S) <= Gone'
    BY <2>5, <1>inv, <1>whole, <1>type
  <2>7. mode = "purge" => processed' <= Gone'
    BY <2>4, <2>5, <1>inv, <1>whole, <1>type
  <2>8. ASSUME \/ mode \in {"purge", "purge_mongo"} /\ Cardinality(S) < BatchSize
               \/ mode = "single"
               \/ Copying /\ Cardinality(executor[e].selected) < BatchSize,
               Undisturbed
        PROVE  source \subseteq S
    <3>1. CASE mode = "purge"
      <4>1. S \in Batch(source) /\ Cardinality(S) < BatchSize
        BY <2>1, <2>8, <3>1 DEF Victims, Mongo, Copying
      <4>2. QED
        BY <4>1, <1>type, SmallBatch
    <3>2. CASE mode = "purge_mongo"
      <4>1. executor[e].selected \subseteq source
        BY <2>3, <2>8, <3>2, <1>inv DEF LastIsWhole, Undisturbed
      <4>2. S = executor[e].selected
        BY <2>1, <3>2, <4>1 DEF Victims, Mongo
      <4>3. Cardinality(executor[e].selected) < BatchSize
        BY <2>8, <3>2, <4>2 DEF Copying
      <4>4. source \subseteq executor[e].selected
        BY <2>3, <3>2, <4>3, <1>inv DEF LastIsWhole
      <4>5. QED
        BY <4>2, <4>4
    <3>3. CASE mode = "single"
      BY <2>1, <3>3 DEF Victims, Mongo
    <3>4. CASE mode \in {"dest", "dest_mongo"}
      <4>1. source \subseteq executor[e].selected /\ Cardinality(executor[e].selected) < BatchSize
        BY <2>3, <2>8, <3>4, <1>inv DEF LastIsWhole
      <4>2. CASE mode = "dest"
        <5>1. S \in Batch(source)
          BY <2>1, <4>2 DEF Victims, Mongo
        <5>2. Cardinality(source) <= Cardinality(executor[e].selected)
          BY <4>1, <1>type, Parts
        <5>3. Cardinality(source) < BatchSize
          BY <4>1, <5>2, <1>type, <1>whole
        <5>4. S = source
          BY <5>1, <5>3, <1>type, SmallBatch
        <5>5. QED
          BY <5>4
      <4>3. CASE mode = "dest_mongo"
        BY <2>1, <4>1, <4>3 DEF Victims, Mongo
      <4>4. QED
        BY <3>4, <4>2, <4>3
    <3>5. QED
      BY <3>1, <3>2, <3>3, <3>4, <1>type DEF Mode
  <2>9. LastIsWhole(e)'
    <3>1. source \subseteq S => source' = {}
      BY <2>1
    <3>2. Copying' = Copying /\ Undisturbed' = Undisturbed
      BY <1>same DEF Copying, Undisturbed
    <3>3. QED
      BY <2>3, <2>4, <2>6, <2>8, <3>1, <3>2, <1>same DEF LastIsWhole
  <2>10. QED
    BY <2>4, <2>7, <2>9, <1>goal
<1>9. CASE CountBatch(e)
  <2>1. PICK count \in Counts(e, Fallback(e)) :
          /\ processed' = Added(e, count.rows)
          /\ Goto(e, IF LastBatch(e, count.rows) THEN "done" ELSE "control")
    BY <1>9 DEF CountBatch
  <2>2. executor[e].pc = "count" /\ mode # "single" /\ UNCHANGED <<source, removed, status>> /\ status = "running"
    BY <1>9 DEF CountBatch, InStep
  <2>3. count.rows \in Nat /\ executor[e].processed = processed
    BY <2>2, CountType, FallbackType DEF InStep
  <2>4. processed' = processed + count.rows
    BY <2>1, <2>2, <2>3, AddedRows
  <2>5. executor'[e].pc = IF LastBatch(e, count.rows) THEN "done" ELSE "control"
    BY <2>1, <1>mem DEF Goto, Memory
  <2>6. CASE mode = "purge"
    <3>1. /\ processed + executor[e].deleted <= Gone
          /\ executor[e].deleted < BatchSize => source = {}
      BY <2>2, <2>6, <1>inv DEF LastIsWhole, Undisturbed
    <3>2. count.rows \in {executor[e].deleted, Fallback(e)}
      BY DEF Counts
    <3>3. Fallback(e) = Least(BatchSize, Most(estimate - processed, 0))
      BY <2>3, <2>6 DEF Fallback
    <3>4. /\ processed + count.rows <= Gone
          /\ count.rows < BatchSize \/ processed + count.rows >= estimate => source = {}
      <4>1. CASE count.rows = executor[e].deleted
        BY <4>1, <3>1, <1>whole, <1>type
      <4>2. CASE count.rows = Fallback(e)
        <5> DEFINE deleted == executor[e].deleted
                   left == Cardinality(source)
                   guess == Least(BatchSize, Most(estimate - processed, 0))
        <5>1. /\ estimate \in Nat /\ processed \in Nat /\ Gone \in Nat /\ deleted \in Nat /\ left \in Nat
              /\ processed + deleted <= Gone /\ estimate = left + Gone
              /\ deleted < BatchSize => left = 0
          BY <3>1, <1>whole, <1>type
        <5>2. processed + guess <= Gone /\ (guess < BatchSize \/ processed + guess >= estimate => left = 0)
          <6> HIDE DEF deleted, left
          <6>1. QED
            BY <5>1, GuessedCount
        <5>3. QED
          BY <4>2, <5>2, <3>3, <1>whole
      <4>3. QED
        BY <3>2, <4>1, <4>2
    <3>5. LastIsWhole(e)'
      BY <2>2, <2>3, <2>5, <2>6, <3>4 DEF LastIsWhole, LastBatch
    <3>6. QED
      BY <2>2, <2>4, <3>4, <3>5, <1>goal, <1>same DEF Gone
  <2>7. CASE mode = "purge_mongo"
    <3>1. count.rows = executor[e].deleted
      BY <2>7 DEF Counts, Mongo
    <3>2. LastBatch(e, count.rows) => (Undisturbed => source = {})
      BY <2>2, <2>7, <3>1, <1>inv DEF LastIsWhole, LastBatch
    <3>3. LastIsWhole(e)'
      BY <2>2, <2>5, <3>2, <1>same DEF LastIsWhole, Undisturbed
    <3>4. QED
      BY <2>2, <2>7, <3>3, <1>goal
  <2>8. CASE mode \in {"dest", "dest_mongo"}
    <3>1. LastBatch(e, count.rows) => (Undisturbed => source = {})
      BY <2>2, <2>8, <1>inv DEF LastIsWhole, LastBatch, Copying
    <3>2. LastIsWhole(e)'
      BY <2>2, <2>5, <3>1, <1>same DEF LastIsWhole, Undisturbed
    <3>3. QED
      BY <2>2, <2>8, <3>2, <1>goal
  <2>9. QED
    BY <2>2, <2>6, <2>7, <2>8, <1>type DEF Mode
<1>10. CASE CountAll(e)
  <2>1. executor[e].pc = "count" /\ mode = "single" /\ UNCHANGED <<source, removed>> /\ executor'[e] = Idle
    BY <1>10, <1>mem DEF CountAll, Return
  <2>2. source = {}
    BY <2>1, <1>inv DEF LastIsWhole, Undisturbed
  <2>3. LastIsWhole(e)'
    BY <2>1, IdleFields DEF LastIsWhole
  <2>4. QED
    BY <2>1, <2>2, <2>3, <1>goal
<1>11. CASE Succeed(e)
  <2>1. executor[e].pc = "done" /\ UNCHANGED <<source, removed, processed>> /\ executor'[e] = Idle
    BY <1>11, <1>mem DEF Succeed, Return
  <2>2. LastIsWhole(e)'
    BY <2>1, IdleFields DEF LastIsWhole
  <2>3. Undisturbed => source = {}
    BY <2>1, <1>inv DEF LastIsWhole
  <2>4. QED
    BY <2>1, <2>2, <2>3, <1>goal, <1>inv, <1>same DEF Gone
<1>12. CASE GoOn(e)
  <2>1. executor'[e].pc = "next"
    BY <1>12, <1>mem DEF GoOn, Idle
  <2>2. status = "running" /\ UNCHANGED <<source, removed, processed, status>>
    BY <1>12 DEF GoOn, InStep
  <2>3. QED
    BY <2>1, <2>2, <1>still DEF LastIsWhole
<1>13. QED
  BY <1>1, <1>2, <1>3, <1>4, <1>5, <1>6, <1>7, <1>8, <1>9, <1>10, <1>11, <1>12 DEF Execute
----------------------------------------------------------------------------
\* What is in both tables is there because its deletion comes next.
LEMMA MovingStep ==
    ASSUME TypeOK, Moving, NEW e \in Executors, InStep(e), Turn(e), Execute(e), ~Crash(e)
    PROVE  Moving'
<1> USE DEF job, history
<1>mem. executor \in [Executors -> Memory] /\ Turn(e)'
  BY TypeSplit, TurnStep
<1> SUFFICES ASSUME mode' = "dest_mongo" PROVE Moving'
  BY DEF Moving
<1>mode. mode = "dest_mongo"
  BY DEF Execute, LoadJob, StartJob, SelectRows, SkipSelect, LeaveLoop, InsertRows, InsertSome, DeleteRows,
         CountBatch, CountAll, Succeed, GoOn, Stop, FailBatch
<1>type. copies \in [Rows -> Nat] /\ source \in SUBSET Rows /\ executor[e].selected \in SUBSET Rows
  BY DEF TypeOK
<1>inv. /\ \A r \in Rows : copies[r] <= 1
        /\ status # "failed" => source \cap Copied \subseteq executor[e].selected
        /\ status # "failed" /\ executor[e].pc # "delete" => source \cap Copied = {}
  <2>1. \A r \in Rows : copies[r] <= 1
    BY <1>mode DEF Moving
  <2>2. status # "failed" =>
          \A r \in source \cap Copied : executor[e].pc = "delete" /\ r \in executor[e].selected
    BY <1>mode, IdleFields DEF Moving, Turn
  <2>3. QED
    BY <2>1, <2>2
<1>goal. ASSUME \A r \in Rows : copies'[r] <= 1,
                status' # "failed" => source' \cap Copied' = {}
         PROVE  Moving'
  BY <1>goal DEF Moving
<1>same. UNCHANGED copies => UNCHANGED Copied
  BY DEF Copied
<1>1. CASE InsertRows(e)
  <2>1. executor[e].selected \cap Copied = {} /\ executor[e].pc = "insert" /\ UNCHANGED <<source, status>>
    BY <1>1, <1>mode DEF InsertRows, Mongo
  <2>2. \A r \in Rows : copies'[r] <= 1
    BY <1>1, <2>1, <1>inv, <1>type DEF InsertRows, Copied
  <2>3. Copied' = Copied \cup executor[e].selected
    BY <1>1, InsertCopies
  <2>4. executor'[e].pc = "delete" /\ executor'[e].selected = executor[e].selected
    BY <1>1, <1>mem DEF InsertRows, Goto, Memory
  <2>5. status' # "failed" => \A r \in source' \cap Copied' : r \in executor'[e].selected
    BY <2>1, <2>3, <2>4, <1>inv
  <2>6. QED
    BY <2>2, <2>4, <2>5 DEF Moving
<1>2. CASE InsertSome(e)
  <2>1. PICK S \in SUBSET (executor[e].selected \ Copied) : copies' = [r \in Rows |-> IF r \in S THEN 1 ELSE copies[r]]
    BY <1>2 DEF InsertSome
  <2>2. \A r \in Rows : copies'[r] <= 1
    BY <2>1, <1>inv, <1>type
  <2>3. QED
    BY <1>2, <2>2, <1>goal DEF InsertSome
<1>3. CASE DeleteRows(e)
  <2>1. source' = source \ executor[e].selected /\ UNCHANGED <<copies, status>>
    BY <1>3, <1>mode DEF DeleteRows, Victims, Mongo
  <2>2. QED
    BY <2>1, <1>inv, <1>same, <1>goal
<1>4. CASE FailBatch(e)
  BY <1>4, <1>inv, <1>goal DEF FailBatch
<1>5. CASE ~(InsertRows(e) \/ InsertSome(e) \/ DeleteRows(e) \/ FailBatch(e))
  <2>1. UNCHANGED <<source, copies>>
    BY <1>5 DEF Execute, LoadJob, StartJob, SelectRows, SkipSelect, LeaveLoop, CountBatch, CountAll, Succeed,
                GoOn, Stop
  <2>2. status # "failed" /\ executor[e].pc # "delete"
    BY <1>5, <1>mode DEF Execute, LoadJob, StartJob, SelectRows, SkipSelect, LeaveLoop, CountBatch, CountAll, Succeed,
                GoOn, Stop, InStep
  <2>3. QED
    BY <2>1, <2>2, <1>inv, <1>same, <1>goal
<1>6. QED
  BY <1>1, <1>2, <1>3, <1>4, <1>5

\* The application disturbs none of it: what it inserts is a new row, what it
\* deletes is counted as gone.
LEMMA InsertInTurn == TypeOK /\ CopiedFirst /\ InTurn /\ AppInsert => InTurn'
<1> SUFFICES ASSUME TypeOK, CopiedFirst, InTurn, AppInsert PROVE InTurn'
  OBVIOUS
<1> USE DEF job
<1>1. PICK r \in Rows \ known : source' = source \cup {r} /\ known' = known \cup {r}
  BY DEF AppInsert
<1>same. UNCHANGED <<mode, copies, status, processed, guessed, estimate, executor, dropped, removed>>
  BY DEF AppInsert
<1>2. /\ known \in SUBSET Rows /\ Cardinality(known) \in Nat /\ estimate \in Nat /\ estimate <= Cardinality(known)
      /\ Cardinality(known') = Cardinality(known) + 1
  <2>1. known \in SUBSET Rows /\ r \notin known /\ estimate \in Nat
    BY <1>1 DEF TypeOK
  <2>2. Cardinality(known') = Cardinality(known) + 1
    BY <1>1, <2>1, OneMore
  <2>3. QED
    BY <2>1, <2>2, RowsCounted DEF InTurn, RowsParted
<1>3. OneExecution' /\ \A e \in Executors : InStep(e)'
  BY <1>same DEF InTurn, OneExecution, AtRest, InStep
<1>4. RowsParted'
  BY <1>1, <1>2, <1>same DEF InTurn, RowsParted
<1>5. Counted'
  BY <1>same DEF InTurn, Counted
<1>6. Completing'
  BY <1>2, <1>same DEF Completing, Exact
<1>7. Moving'
  <2>1. mode = "dest_mongo" => r \notin Copied
    BY <1>1 DEF CopiedFirst
  <2>2. Copied' = Copied
    BY <1>same DEF Copied
  <2>3. QED
    BY <1>1, <1>same, <2>1, <2>2 DEF InTurn, Moving
<1>8. QED
  BY <1>3, <1>4, <1>5, <1>6, <1>7 DEF InTurn

LEMMA DeleteInTurn == TypeOK /\ InTurn /\ AppDelete => InTurn'
<1> SUFFICES ASSUME TypeOK, InTurn, AppDelete PROVE InTurn'
  OBVIOUS
<1> USE DEF job
<1>1. PICK r \in source : source' = source \ {r} /\ dropped' = dropped \cup {r}
  BY DEF AppDelete
<1>same. UNCHANGED <<mode, copies, status, processed, guessed, estimate, executor, known, removed>>
  BY DEF AppDelete
<1>2. Gone \in Nat /\ Gone' = Gone + 1
  <2>1. dropped \in SUBSET Rows /\ r \notin dropped /\ removed \in SUBSET Rows
    BY <1>1 DEF TypeOK, InTurn, RowsParted
  <2>2. Cardinality(dropped') = Cardinality(dropped) + 1
    BY <1>1, <2>1, OneMore
  <2>3. Cardinality(removed) \in Nat /\ Cardinality(dropped) \in Nat
    BY <2>1, RowsCounted
  <2>4. QED
    BY <1>same, <2>2, <2>3 DEF Gone
<1>3. OneExecution' /\ \A e \in Executors : InStep(e)'
  BY <1>same DEF InTurn, OneExecution, AtRest, InStep
<1>4. RowsParted'
  BY <1>1, <1>same DEF InTurn, RowsParted
<1>5. Counted'
  BY <1>same DEF InTurn, Counted
<1>6. Completing'
  <2> SUFFICES ASSUME Exact PROVE Completing'
    BY <1>same DEF Completing, Exact
  <2>1. Undisturbed' => mode # "purge_mongo" /\ Undisturbed
    BY <1>1, <1>same DEF Undisturbed
  <2>2. \A e \in Executors : LastIsWhole(e)
    BY DEF InTurn, Completing
  <2>3. ASSUME NEW e \in Executors PROVE LastIsWhole(e)'
    <3>1. LastIsWhole(e)
      BY <2>2
    <3>2. processed \in Nat /\ executor[e].deleted \in Nat
      BY DEF TypeOK
    <3>3. processed + executor[e].deleted <= Gone => processed' + executor'[e].deleted <= Gone'
      BY <1>2, <1>same, <3>2
    <3>4. source = {} => source' = {}
      BY <1>1
    <3>5. Copying' = Copying
      BY <1>same DEF Copying
    <3>6. QED
      BY <1>1, <1>same, <2>1, <3>1, <3>3, <3>4, <3>5 DEF LastIsWhole
  <2>4. mode = "purge" => processed' <= Gone'
    BY <1>2, <1>same DEF InTurn, Completing, TypeOK
  <2>5. status = "success" /\ Undisturbed' => source' = {}
    BY <1>1, <2>1 DEF InTurn, Completing
  <2>6. QED
    BY <1>same, <2>3, <2>4, <2>5 DEF Completing
<1>7. Moving'
  <2>1. Copied' = Copied
    BY <1>same DEF Copied
  <2>2. QED
    BY <1>1, <1>same, <2>1 DEF InTurn, Moving
<1>8. QED
  BY <1>3, <1>4, <1>5, <1>6, <1>7 DEF InTurn

\* As long as executions follow one another, the invariant holds.
LEMMA AloneInit == ExecutionsInit => TypeOK /\ CopiedFirst /\ (Alone => InTurn)
BY TypeInit, CopiedInit, InTurnInit DEF ExecutionsInit

\* A step of the job and the table is one of Next.
LEMMA AloneNext == [ExecutionsNext]_<<vars, overlapping>> => [Next]_vars
BY DEF ExecutionsNext, Next

LEMMA AloneStep ==
    TypeOK /\ CopiedFirst /\ (Alone => InTurn) /\ [ExecutionsNext]_<<vars, overlapping>> => (Alone => InTurn)'
<1> SUFFICES ASSUME TypeOK, CopiedFirst, Alone => InTurn, [ExecutionsNext]_<<vars, overlapping>>, Alone'
             PROVE  InTurn'
  OBVIOUS
<1>1. Alone /\ InTurn
  BY DEF ExecutionsNext, Alone
<1>2. CASE AppInsert
  BY <1>1, <1>2, InsertInTurn
<1>3. CASE AppDelete
  BY <1>1, <1>3, DeleteInTurn
<1>4. ASSUME NEW e \in Executors, \A d \in Executors \ {e} : executor[d] = Idle, Execute(e), crashes' = 0
      PROVE  InTurn'
  <2>1. Turn(e)
    BY <1>4 DEF Turn
  <2>2. ~Crash(e)
    BY <1>4 DEF Crash, TypeOK
  <2>3. OneExecution /\ InStep(e) /\ RowsParted /\ Counted /\ Completing /\ Moving
    BY <1>1 DEF InTurn
  <2>4. OneExecution' /\ (\A d \in Executors : InStep(d)') /\ RowsParted'
    BY <1>4, <2>1, <2>3, OneExecutionStep, InStepStep, PartedStep
  <2>5. Counted' /\ Completing' /\ Moving'
    BY <1>4, <2>1, <2>2, <2>3, CountedStep, CompletingStep, MovingStep
  <2>6. QED
    BY <2>4, <2>5 DEF InTurn
<1>5. CASE UNCHANGED <<vars, overlapping>>
  BY <1>1, <1>5 DEF vars, job, history, InTurn, OneExecution, AtRest, InStep, RowsParted, Counted, Completing,
                    Exact, Gone, Undisturbed, LastIsWhole, Copying, Moving, Copied
<1>6. QED
  BY <1>1, <1>2, <1>3, <1>4, <1>5 DEF ExecutionsNext

\* The inductive invariant of the executions of a job, as TLC checks it.
THEOREM AloneCorrect == ExecutionsSpec => []InductiveAlone
<1>1. ExecutionsInit => TypeOK /\ CopiedFirst /\ (Alone => InTurn)
  BY AloneInit
<1>2. TypeOK /\ CopiedFirst /\ (Alone => InTurn) /\ [ExecutionsNext]_<<vars, overlapping>>
        => (TypeOK /\ CopiedFirst /\ (Alone => InTurn))'
  BY AloneNext, AloneStep, TypeStep, CopiedStep
<1>3. TypeOK /\ CopiedFirst /\ (Alone => InTurn) => InductiveAlone
  BY DEF InductiveAlone, Inductive
<1>4. QED
  BY <1>1, <1>2, <1>3, PTL DEF ExecutionsSpec

\* Unless it is flagged as an estimate, processed_rows is the number of rows
\* the job removed, the batch at hand apart (archive.py 161-167, 951-956).
THEOREM CountIsHonest == ExecutionsSpec => []ProcessedIsHonestAlone
<1>1. InductiveAlone => ProcessedIsHonestAlone
  <2> SUFFICES ASSUME TypeOK, InTurn, ~guessed
               PROVE  \E e \in Executors : processed + Uncounted(e) = Cardinality(removed)
    BY DEF InductiveAlone, Inductive, ProcessedIsHonestAlone, ProcessedIsHonest
  <2>1. CASE \E e \in Executors : executor[e].pc = "count"
    BY <2>1 DEF InTurn, Counted, Uncounted
  <2>2. CASE \A e \in Executors : executor[e].pc # "count"
    <3>1. PICK e : e \in Executors
      BY ExecutorAssumption
    <3>2. processed + 0 = Cardinality(removed)
      BY <2>2 DEF InTurn, Counted, TypeOK
    <3>3. QED
      BY <2>2, <3>1, <3>2 DEF Uncounted
  <2>3. QED
    BY <2>1, <2>2
<1>2. QED
  BY <1>1, AloneCorrect, PTL

\* A job that reports success left none of the rows there were when it was
\* submitted, provided that no other arrived, whatever its mode and its batch
\* size (archive.py 957, 1005, 1057, 1089).
THEOREM SuccessCompletes == ExecutionsSpec => []SuccessIsCompleteAlone
<1>1. InductiveAlone => SuccessIsCompleteAlone
  BY DEF InductiveAlone, InTurn, Completing, Exact, Undisturbed, SuccessIsCompleteAlone, SuccessIsComplete
<1>2. QED
  BY <1>1, AloneCorrect, PTL

\* A successful migration of MongoDB left no row in both tables and copied
\* none twice (archive.py 1081-1093).
THEOREM SuccessMoves == ExecutionsSpec => []SuccessMovesWholeAlone
<1>1. InductiveAlone => SuccessMovesWholeAlone
  <2> SUFFICES ASSUME TypeOK, InTurn, status = "success", mode = "dest_mongo"
               PROVE  source \cap Copied = {} /\ \A r \in Rows : copies[r] <= 1
    BY DEF InductiveAlone, Inductive, SuccessMovesWholeAlone, SuccessMovesWhole
  <2>1. \A e \in Executors : executor[e].pc # "delete"
    BY DEF InTurn, InStep
  <2>2. QED
    BY <2>1 DEF InTurn, Moving
<1>2. QED
  BY <1>1, AloneCorrect, PTL
=============================================================================
