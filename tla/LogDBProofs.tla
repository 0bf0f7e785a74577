---------------------------- MODULE LogDBProofs ----------------------------
(***************************************************************************)
(* Proofs about LogDB for every ring of slices, every number of workers    *)
(* and every number of rows: the slices with the pool are those that a     *)
(* task works on, one task each, one task at a time writes the file, and   *)
(* the file holds the rows of the log, in order, and all after close; so   *)
(* that the log implements RowLog. And, of the wait without a waker, which *)
(* slices a wait can be for when it finds no task left.                    *)
(*                                                                         *)
(* The counts of the two invariants become statements about the positions  *)
(* in `tasks`. A task that ends lets the others move up; InPool says what  *)
(* each position needs, and at "copy" the slice being filled is FREE, so   *)
(* that handing it over takes none away from a task.                       *)
(*                                                                         *)
(* For the file, turns are counted round the ring without end: F of them   *)
(* are in the file, W have been handed to a write, C to a compression and  *)
(* P are full. LogAt says which rows each slice between F and P holds and  *)
(* in which state it is. What close does with the slices left over is a    *)
(* loop; it is treated by induction over a set of naturals (Induction).    *)
(***************************************************************************)
EXTENDS LogDB, SequenceTheorems, FiniteSetTheorems, WellFoundedInduction, TLAPS

Sharing == state \in [SliceIds -> States] /\ tasks \in Seq(Task)
Indices ==
  /\ process_slice \in SliceIds /\ compress_slice \in SliceIds /\ writeback_slice \in SliceIds
  /\ is_writing \in BOOLEAN

WithPool(op) == IF op = "compress" THEN "PROCESSING" ELSE "DONE"
InPool ==
  /\ \A i \in 1 .. Len(tasks) : state[tasks[i].slice] = WithPool(tasks[i].op)
  /\ \A i, j \in 1 .. Len(tasks) : tasks[i].slice = tasks[j].slice => i = j
  /\ \A s \in SliceIds : state[s] \in {"PROCESSING", "DONE"} => \E i \in 1 .. Len(tasks) : tasks[i].slice = s
Filling == pc = "copy" => state[process_slice] = "FREE"

\* A task that has not yet cleared is_writing.
Writing(t) == t.op = "write" /\ t.step \in {1, 2}
Writers ==
  /\ \A i \in 1 .. Len(tasks) : Writing(tasks[i]) => is_writing
  /\ \A i, j \in 1 .. Len(tasks) : Writing(tasks[i]) /\ Writing(tasks[j]) => i = j

PoolInv == Sharing /\ Indices /\ InPool /\ Filling /\ Writers

-----------------------------------------------------------------------------
(* What the operations on the list of tasks do to its positions.           *)

(* A task in the pool is one.                                              *)
LEMMA TaskType ==
  ASSUME tasks \in Seq(Task), NEW i \in 1 .. Len(tasks)
  PROVE  /\ tasks[i].op \in {"compress", "write"} /\ tasks[i].slice \in SliceIds /\ tasks[i].step \in 1 .. 3
         /\ tasks[i] \in Task
<1>1. tasks[i] \in Task
  BY ElementOfSeq
<1> QED
  BY <1>1 DEF Task

(* Submit adds a task at the end.                                          *)
LEMMA SubmitTasks ==
  ASSUME tasks \in Seq(Task), NEW op \in {"compress", "write"}, NEW s \in SliceIds, Submit(op, s)
  PROVE  /\ tasks' \in Seq(Task) /\ Len(tasks') = Len(tasks) + 1
         /\ \A i \in 1 .. Len(tasks) : tasks'[i] = tasks[i]
         /\ tasks'[Len(tasks) + 1] = [op |-> op, slice |-> s, step |-> 1]
<1>1. [op |-> op, slice |-> s, step |-> 1] \in Task
  BY DEF Task
<1> QED
  BY <1>1, AppendProperties DEF Submit

(* Step moves one task on.                                                 *)
LEMMA StepTasks ==
  ASSUME tasks \in Seq(Task), NEW i \in 1 .. Len(tasks), tasks[i].step \in {1, 2}, Step(i)
  PROVE  /\ tasks' \in Seq(Task) /\ Len(tasks') = Len(tasks)
         /\ \A j \in 1 .. Len(tasks) : j # i => tasks'[j] = tasks[j]
         /\ tasks'[i] = [tasks[i] EXCEPT !.step = @ + 1]
<1> DEFINE t == [tasks[i] EXCEPT !.step = @ + 1]
<1>1. tasks[i] \in Task
  BY ElementOfSeq
<1>2. t \in Task
  BY <1>1 DEF Task
<1>3. tasks' = [tasks EXCEPT ![i] = t]
  BY DEF Step
<1> HIDE DEF t
<1>4. tasks' \in Seq(Task) /\ Len(tasks') = Len(tasks) /\ \A j \in 1 .. Len(tasks) : tasks'[j] = IF j = i THEN t ELSE tasks[j]
  BY <1>2, <1>3, ExceptSeq
<1> QED
  BY <1>4 DEF t

(* End takes one task out; the ones after it move up.                      *)
LEMMA EndTasks ==
  ASSUME tasks \in Seq(Task), NEW i \in 1 .. Len(tasks), End(i)
  PROVE  /\ tasks' \in Seq(Task) /\ Len(tasks') = Len(tasks) - 1
         /\ \A j \in 1 .. Len(tasks) - 1 : tasks'[j] = tasks[IF j < i THEN j ELSE j + 1]
<1> DEFINE a == SubSeq(tasks, 1, i - 1)
           b == SubSeq(tasks, i + 1, Len(tasks))
<1>1. Len(tasks) \in Nat
  OBVIOUS
<1>2. \A j \in 1 .. Len(tasks) : tasks[j] \in Task
  BY ElementOfSeq
<1>3. a \in Seq(Task) /\ Len(a) = i - 1 /\ \A j \in 1 .. i - 1 : a[j] = tasks[j]
  <2>1. \A j \in 1 .. i - 1 : tasks[j] \in Task
    BY <1>1, <1>2
  <2>2. /\ a \in Seq(Task)
        /\ Len(a) = IF 1 <= i - 1 THEN (i - 1) - 1 + 1 ELSE 0
        /\ \A j \in 1 .. (i - 1) - 1 + 1 : a[j] = tasks[1 + j - 1]
    BY <1>1, <2>1, SubSeqProperties
  <2> HIDE DEF a
  <2> QED
    BY <1>1, <2>2
<1>4. b \in Seq(Task) /\ Len(b) = Len(tasks) - i /\ \A j \in 1 .. Len(tasks) - i : b[j] = tasks[i + j]
  <2>1. \A j \in i + 1 .. Len(tasks) : tasks[j] \in Task
    BY <1>1, <1>2
  <2>2. /\ b \in Seq(Task)
        /\ Len(b) = IF i + 1 <= Len(tasks) THEN Len(tasks) - (i + 1) + 1 ELSE 0
        /\ \A j \in 1 .. Len(tasks) - (i + 1) + 1 : b[j] = tasks[(i + 1) + j - 1]
    BY <1>1, <2>1, SubSeqProperties
  <2> HIDE DEF b
  <2> QED
    BY <1>1, <2>2
<1> HIDE DEF a, b
<1>5. tasks' = a \o b
  BY DEF End, a, b
<1>6. /\ a \o b \in Seq(Task) /\ Len(a \o b) = Len(a) + Len(b)
      /\ \A j \in 1 .. Len(a) + Len(b) : (a \o b)[j] = IF j <= Len(a) THEN a[j] ELSE b[j - Len(a)]
  BY <1>3, <1>4, ConcatProperties
<1>7. Len(tasks') = Len(tasks) - 1
  BY <1>1, <1>3, <1>4, <1>5, <1>6
<1>8. ASSUME NEW j \in 1 .. Len(tasks) - 1
      PROVE  tasks'[j] = tasks[IF j < i THEN j ELSE j + 1]
  <2>1. CASE j < i
    BY <1>1, <1>3, <1>4, <1>5, <1>6, <2>1
  <2>2. CASE j >= i
    <3>1. j - Len(a) \in 1 .. Len(tasks) - i /\ ~(j <= Len(a)) /\ i + (j - Len(a)) = j + 1
      BY <1>1, <1>3, <2>2
    <3>2. tasks'[j] = b[j - Len(a)]
      BY <1>1, <1>3, <1>4, <1>5, <1>6, <3>1
    <3>3. b[j - Len(a)] = tasks[i + (j - Len(a))]
      BY <1>4, <3>1
    <3>4. ~(j < i)
      BY <1>1, <2>2
    <3> QED
      BY <3>1, <3>2, <3>3, <3>4
  <2> QED
    BY <1>1, <2>1, <2>2
<1> QED
  BY <1>5, <1>6, <1>7, <1>8

-----------------------------------------------------------------------------
(* The steps of the simulation thread.                                     *)

(* Whatever submits nothing and hands nothing over.                        *)
LEMMA QuietKeepsPool ==
  ASSUME PoolInv, UNCHANGED << state, tasks, is_writing >>, UNCHANGED ringVars, Filling'
  PROVE  PoolInv'
  BY DEF PoolInv, Sharing, Indices, InPool, Writers, Writing, ringVars

(* The slice behind a slice.                                               *)
LEMMA SuccType ==
  ASSUME NEW s \in SliceIds
  PROVE  Succ(s) \in SliceIds
  BY LogDBAssumption DEF Succ, SliceIds

(* The full slice was FREE, so no task works on it.                        *)
LEMMA CopyRowKeeps ==
  ASSUME PoolInv, CopyRow
  PROVE  PoolInv'
<1>1. state[process_slice] = "FREE" /\ process_slice \in SliceIds
  BY DEF PoolInv, Filling, Indices, CopyRow
<1>2. /\ UNCHANGED << compress_slice, writeback_slice, is_writing, tasks >> /\ pc' = "checkC"
      /\ \/ state' = [state EXCEPT ![process_slice] = "PROCESS_READY"] /\ process_slice' = Succ(process_slice)
         \/ state' = state /\ process_slice' = process_slice
  BY DEF CopyRow, FillsSlice
<1>3. Sharing' /\ Indices' /\ Filling' /\ Writers'
  BY <1>1, <1>2, SuccType DEF PoolInv, Sharing, States, Indices, Filling, Writers, Writing
<1>4. InPool'
  <2>1. \A i \in 1 .. Len(tasks) : tasks[i].slice # process_slice
    BY <1>1 DEF PoolInv, InPool, WithPool
  <2>2. \A i \in 1 .. Len(tasks) : tasks[i].slice \in SliceIds
    BY TaskType DEF PoolInv, Sharing
  <2>3. \A s \in SliceIds : s # process_slice => state'[s] = state[s]
    BY <1>2 DEF PoolInv, Sharing
  <2>4. state'[process_slice] \in {"FREE", "PROCESS_READY"}
    BY <1>1, <1>2 DEF PoolInv, Sharing
  <2> QED
    BY <1>2, <2>1, <2>2, <2>3, <2>4 DEF PoolInv, InPool, WithPool
<1> QED
  BY <1>3, <1>4 DEF PoolInv

(* A new task works on a slice that no other works on, and writes only when
   no other does. *)
LEMMA SubmitKeeps ==
  ASSUME PoolInv, NEW op \in {"compress", "write"}, NEW s \in SliceIds, Submit(op, s),
         state[s] \notin {"PROCESSING", "DONE"}, state' = [state EXCEPT ![s] = WithPool(op)],
         op = "compress" => is_writing' = is_writing, op = "write" => ~is_writing /\ is_writing' = TRUE,
         Indices', Filling'
  PROVE  PoolInv'
<1>1. /\ tasks' \in Seq(Task) /\ Len(tasks') = Len(tasks) + 1 /\ Len(tasks) \in Nat
      /\ \A i \in 1 .. Len(tasks) : tasks'[i] = tasks[i]
      /\ tasks'[Len(tasks) + 1] = [op |-> op, slice |-> s, step |-> 1]
  BY SubmitTasks DEF PoolInv, Sharing
<1>2. \A i \in 1 .. Len(tasks') : i \in 1 .. Len(tasks) \/ i = Len(tasks) + 1
  BY <1>1
<1>3. Sharing'
  BY <1>1 DEF PoolInv, Sharing, States, WithPool
<1>4. InPool'
  <2>1. \A i \in 1 .. Len(tasks) : tasks[i].slice # s /\ tasks[i].slice \in SliceIds
    <3>1. \A i \in 1 .. Len(tasks) : tasks[i].slice # s
      BY DEF PoolInv, InPool, WithPool
    <3> QED
      BY <3>1, TaskType DEF PoolInv, Sharing
  <2>2. state'[s] = WithPool(op) /\ \A r \in SliceIds : r # s => state'[r] = state[r]
    BY DEF PoolInv, Sharing
  <2>3. ASSUME NEW i \in 1 .. Len(tasks')
        PROVE  state'[tasks'[i].slice] = WithPool(tasks'[i].op)
    <3>1. CASE i \in 1 .. Len(tasks)
      BY <1>1, <2>1, <2>2, <3>1 DEF PoolInv, InPool
    <3>2. CASE i = Len(tasks) + 1
      BY <1>1, <2>2, <3>2
    <3> QED
      BY <1>2, <3>1, <3>2
  <2>4. ASSUME NEW i \in 1 .. Len(tasks'), NEW j \in 1 .. Len(tasks'), tasks'[i].slice = tasks'[j].slice
        PROVE  i = j
    <3>1. CASE i \in 1 .. Len(tasks) /\ j \in 1 .. Len(tasks)
      BY <1>1, <2>4, <3>1 DEF PoolInv, InPool
    <3>2. CASE ~(i \in 1 .. Len(tasks) /\ j \in 1 .. Len(tasks))
      BY <1>1, <1>2, <2>1, <2>4, <3>2
    <3> QED
      BY <3>1, <3>2
  <2>5. ASSUME NEW r \in SliceIds, state'[r] \in {"PROCESSING", "DONE"}
        PROVE  \E i \in 1 .. Len(tasks') : tasks'[i].slice = r
    <3>1. CASE r = s
      <4>1. Len(tasks) + 1 \in 1 .. Len(tasks')
        BY <1>1
      <4> QED
        BY <1>1, <3>1, <4>1
    <3>2. CASE r # s
      <4>1. PICK i \in 1 .. Len(tasks) : tasks[i].slice = r
        BY <2>2, <2>5, <3>2 DEF PoolInv, InPool
      <4>2. i \in 1 .. Len(tasks')
        BY <1>1
      <4> QED
        BY <1>1, <4>1, <4>2
    <3> QED
      BY <3>1, <3>2
  <2> QED
    BY <2>3, <2>4, <2>5 DEF InPool
<1>5. Writers'
  <2>1. ASSUME NEW i \in 1 .. Len(tasks'), Writing(tasks'[i])
        PROVE  is_writing' /\ (i = Len(tasks) + 1 \/ (i \in 1 .. Len(tasks) /\ Writing(tasks[i])))
               /\ (op = "write" => i = Len(tasks) + 1) /\ (op = "compress" => i # Len(tasks) + 1)
    <3>1. CASE i \in 1 .. Len(tasks)
      <4>1. Writing(tasks[i])
        BY <1>1, <2>1, <3>1
      <4> QED
        BY <1>1, <3>1, <4>1 DEF PoolInv, Writers
    <3>2. CASE i = Len(tasks) + 1
      BY <1>1, <2>1, <3>2 DEF Writing
    <3> QED
      BY <1>2, <3>1, <3>2
  <2>2. ASSUME NEW i \in 1 .. Len(tasks'), NEW j \in 1 .. Len(tasks'), Writing(tasks'[i]), Writing(tasks'[j])
        PROVE  i = j
    BY <2>1, <2>2 DEF PoolInv, Writers
  <2> QED
    BY <2>1, <2>2 DEF Writers
<1> QED
  BY <1>3, <1>4, <1>5 DEF PoolInv

(* addData hands over the slice it has filled: it was FREE, so no task has *)
(* it.                                                                     *)
LEMMA CheckCompressKeeps ==
  ASSUME PoolInv, CheckCompress
  PROVE  PoolInv'
<1>1. Filling' /\ Indices /\ compress_slice \in SliceIds
  BY DEF PoolInv, Indices, Filling, CheckCompress, AfterCompress
<1>2. CASE state[compress_slice] = "PROCESS_READY"
  <2>1. /\ Submit("compress", compress_slice) /\ state' = [state EXCEPT ![compress_slice] = WithPool("compress")]
        /\ is_writing' = is_writing /\ compress_slice' = Succ(compress_slice)
        /\ UNCHANGED << process_slice, writeback_slice >>
    BY <1>2 DEF CheckCompress, WithPool
  <2>2. Indices'
    BY <1>1, <2>1, SuccType DEF Indices
  <2> QED
    BY <1>1, <1>2, <2>1, <2>2, SubmitKeeps
<1>3. CASE state[compress_slice] # "PROCESS_READY"
  BY <1>1, <1>3, QuietKeepsPool DEF CheckCompress, ringVars
<1> QED
  BY <1>2, <1>3

(* And one that a compression has finished with.                           *)
LEMMA CheckWritebackKeeps ==
  ASSUME PoolInv, CheckWriteback
  PROVE  PoolInv'
<1>1. Filling' /\ Indices /\ writeback_slice \in SliceIds
  BY DEF PoolInv, Indices, Filling, CheckWriteback, AfterWriteback
<1>2. CASE CanWriteback
  <2>1. /\ Submit("write", writeback_slice) /\ state' = [state EXCEPT ![writeback_slice] = WithPool("write")]
        /\ is_writing' = TRUE /\ writeback_slice' = Succ(writeback_slice)
        /\ UNCHANGED << process_slice, compress_slice >>
    BY <1>2 DEF CheckWriteback, WithPool
  <2>2. Indices'
    BY <1>1, <2>1, SuccType DEF Indices
  <2>3. state[writeback_slice] = "PROCESS_DONE" /\ ~is_writing
    BY <1>2 DEF CanWriteback
  <2> QED
    BY <1>1, <2>1, <2>2, <2>3, SubmitKeeps
<1>3. CASE ~CanWriteback
  BY <1>1, <1>3, QuietKeepsPool DEF CheckWriteback, ringVars
<1> QED
  BY <1>2, <1>3

-----------------------------------------------------------------------------
(* The steps of the tasks.                                                 *)

(* Compress, WriteFile and ClearIsWriting move a task on where it is.      *)
LEMMA StepKeeps ==
  ASSUME PoolInv, NEW i \in 1 .. Len(tasks), tasks[i].step \in {1, 2}, Step(i),
         UNCHANGED << state, ringVars, pc >>,
         \/ is_writing' = is_writing /\ (tasks[i].op = "write" => tasks[i].step = 1)
         \/ is_writing' = FALSE /\ tasks[i].op = "write" /\ tasks[i].step = 2
  PROVE  PoolInv'
<1>1. /\ tasks' \in Seq(Task) /\ Len(tasks') = Len(tasks)
      /\ \A j \in 1 .. Len(tasks) : j # i => tasks'[j] = tasks[j]
      /\ tasks'[i] = [tasks[i] EXCEPT !.step = @ + 1]
  BY StepTasks DEF PoolInv, Sharing
<1>2. /\ tasks'[i].op = tasks[i].op /\ tasks'[i].slice = tasks[i].slice
      /\ tasks'[i].step = tasks[i].step + 1
  BY <1>1, TaskType DEF PoolInv, Sharing, Task
<1>3. \A j \in 1 .. Len(tasks) : tasks'[j].op = tasks[j].op /\ tasks'[j].slice = tasks[j].slice
  BY <1>1, <1>2
<1>4. Sharing' /\ Indices' /\ Filling'
  BY <1>1 DEF PoolInv, Sharing, Indices, Filling, ringVars
<1>5. InPool'
  BY <1>1, <1>3 DEF PoolInv, InPool
<1>6. ASSUME NEW j \in 1 .. Len(tasks'), Writing(tasks'[j])
      PROVE  Writing(tasks[j]) /\ is_writing'
  <2>1. CASE j = i
    <3>1. tasks[i].op = "write" /\ tasks[i].step = 1
      BY <1>2, <1>6, <2>1 DEF Writing
    <3>2. Writing(tasks[i]) /\ is_writing' = is_writing
      BY <3>1 DEF Writing
    <3> QED
      BY <2>1, <3>2 DEF PoolInv, Writers
  <2>2. CASE j # i
    <3>1. Writing(tasks[j]) /\ is_writing
      BY <1>1, <1>6, <2>2 DEF PoolInv, Writers
    <3>2. ~Writing(tasks[i])
      BY <1>1, <2>2, <3>1 DEF PoolInv, Writers
    <3> QED
      BY <3>1, <3>2 DEF Writing
  <2> QED
    BY <2>1, <2>2
<1>7. Writers'
  BY <1>1, <1>6 DEF PoolInv, Writers
<1> QED
  BY <1>4, <1>5, <1>7 DEF PoolInv

(* A task that ends gives its slice back and was no longer writing.        *)
LEMMA FinishKeeps ==
  ASSUME PoolInv, NEW i \in 1 .. Len(tasks), Finish(i)
  PROVE  PoolInv'
<1> DEFINE s == tasks[i].slice
           old(j) == IF j < i THEN j ELSE j + 1
<1>1. /\ tasks' \in Seq(Task) /\ Len(tasks') = Len(tasks) - 1 /\ Len(tasks) \in Nat
      /\ \A j \in 1 .. Len(tasks) - 1 : tasks'[j] = tasks[old(j)]
  BY EndTasks DEF PoolInv, Sharing, Finish
<1>2. /\ s \in SliceIds /\ state[s] \in {"PROCESSING", "DONE"}
      /\ state' = [state EXCEPT ![s] = NextState(tasks[i])] /\ UNCHANGED << ringVars, is_writing >>
      /\ pc' = "copy" => pc = "copy"
  BY TaskType DEF PoolInv, Sharing, InPool, WithPool, Finish, Notify
<1>3. \A j \in 1 .. Len(tasks') : old(j) \in 1 .. Len(tasks) /\ old(j) # i
  BY <1>1
<1>4. \A j, k \in 1 .. Len(tasks') : old(j) = old(k) => j = k
  BY <1>1
<1>5. \A j \in 1 .. Len(tasks) : j # i => \E k \in 1 .. Len(tasks') : old(k) = j
  <2> SUFFICES ASSUME NEW j \in 1 .. Len(tasks), j # i
               PROVE  \E k \in 1 .. Len(tasks') : old(k) = j
    OBVIOUS
  <2>1. CASE j < i
    <3>1. j \in 1 .. Len(tasks') /\ old(j) = j
      BY <1>1, <2>1
    <3> QED
      BY <3>1
  <2>2. CASE j > i
    <3>1. j - 1 \in 1 .. Len(tasks') /\ old(j - 1) = j
      BY <1>1, <2>2
    <3> QED
      BY <3>1
  <2> QED
    BY <1>1, <2>1, <2>2
<1>6. \A j \in 1 .. Len(tasks') : tasks'[j] = tasks[old(j)]
  BY <1>1
<1>7. state'[s] \in {"PROCESS_DONE", "FREE"} /\ \A r \in SliceIds : r # s => state'[r] = state[r]
  BY <1>2 DEF PoolInv, Sharing, NextState
<1> HIDE DEF old
<1>8. Sharing' /\ Indices'
  BY <1>1, <1>2 DEF PoolInv, Sharing, States, NextState, Indices, ringVars
<1>9. Filling'
  BY <1>2, <1>7 DEF PoolInv, Filling, Indices, ringVars
<1>10. \A j \in 1 .. Len(tasks) : j # i => tasks[j].slice # s /\ tasks[j].slice \in SliceIds
  BY TaskType DEF PoolInv, Sharing, InPool
<1>11. InPool'
  <2>1. ASSUME NEW j \in 1 .. Len(tasks')
        PROVE  state'[tasks'[j].slice] = WithPool(tasks'[j].op)
    <3>1. state[tasks[old(j)].slice] = WithPool(tasks[old(j)].op)
      BY <1>3 DEF PoolInv, InPool
    <3> QED
      BY <1>3, <1>6, <1>7, <1>10, <3>1
  <2>2. ASSUME NEW j \in 1 .. Len(tasks'), NEW k \in 1 .. Len(tasks'), tasks'[j].slice = tasks'[k].slice
        PROVE  j = k
    <3>1. old(j) = old(k)
      BY <1>3, <1>6, <2>2 DEF PoolInv, InPool
    <3> QED
      BY <1>4, <3>1
  <2>3. ASSUME NEW r \in SliceIds, state'[r] \in {"PROCESSING", "DONE"}
        PROVE  \E k \in 1 .. Len(tasks') : tasks'[k].slice = r
    <3>1. r # s
      BY <1>7, <2>3
    <3>2. PICK j \in 1 .. Len(tasks) : tasks[j].slice = r
      BY <1>7, <2>3, <3>1 DEF PoolInv, InPool
    <3>3. PICK k \in 1 .. Len(tasks') : old(k) = j
      BY <1>5, <3>1, <3>2
    <3> QED
      BY <1>6, <3>2, <3>3
  <2> QED
    BY <2>1, <2>2, <2>3 DEF InPool
<1>12. Writers'
  BY <1>2, <1>3, <1>4, <1>6 DEF PoolInv, Writers
<1> QED
  BY <1>8, <1>9, <1>11, <1>12 DEF PoolInv

-----------------------------------------------------------------------------
(* The theorems.                                                           *)

(* All slices start FREE and the pool empty.                               *)
LEMMA InitPool == Init => PoolInv
<1> SUFFICES ASSUME Init
             PROVE  PoolInv
  OBVIOUS
<1>1. tasks \in Seq(Task) /\ Len(tasks) = 0
  BY EmptySeq DEF Init
<1>2. 0 \in SliceIds
  BY LogDBAssumption DEF SliceIds
<1>3. Sharing /\ Indices
  BY <1>1, <1>2 DEF Init, Sharing, Indices, States
<1>4. \A s \in SliceIds : state[s] = "FREE"
  BY DEF Init
<1>5. InPool /\ Writers
  BY <1>1, <1>4 DEF InPool, Writers
<1>6. Filling
  BY DEF Init, Filling
<1> QED
  BY <1>3, <1>5, <1>6 DEF PoolInv

(* Every step keeps the invariant.                                         *)
LEMMA NextPool == PoolInv /\ [Next]_vars => PoolInv'
<1> SUFFICES ASSUME PoolInv, [Next]_vars
             PROVE  PoolInv'
  OBVIOUS
<1>1. CASE AddData
  BY <1>1, QuietKeepsPool DEF AddData, infoVars, Filling
<1>2. CASE TestSlice
  BY <1>2, QuietKeepsPool DEF TestSlice, infoVars, ringVars, Filling
<1>3. CASE SpuriousWakeup
  BY <1>3, QuietKeepsPool DEF SpuriousWakeup, infoVars, Filling
<1>4. CASE CopyRow
  BY <1>4, CopyRowKeeps
<1>5. CASE CheckCompress
  BY <1>5, CheckCompressKeeps
<1>6. CASE CheckWriteback
  BY <1>6, CheckWritebackKeeps
<1>7. ASSUME NEW i \in 1 .. Len(tasks), Compress(i)
      PROVE  PoolInv'
  BY <1>7, StepKeeps DEF Compress, ringVars
<1>8. ASSUME NEW i \in 1 .. Len(tasks), WriteFile(i)
      PROVE  PoolInv'
  BY <1>8, StepKeeps DEF WriteFile, ringVars
<1>9. ASSUME NEW i \in 1 .. Len(tasks), ClearIsWriting(i)
      PROVE  PoolInv'
  BY <1>9, StepKeeps DEF ClearIsWriting, infoVars, ringVars
<1>10. ASSUME NEW i \in 1 .. Len(tasks), Finish(i)
       PROVE  PoolInv'
  BY <1>10, FinishKeeps
<1>11. CASE Close
  BY <1>11, QuietKeepsPool DEF Close, infoVars, Filling
<1>12. CASE UNCHANGED vars
  BY <1>12, QuietKeepsPool DEF vars, infoVars, Filling, PoolInv, ringVars
<1> QED
  BY <1>1, <1>2, <1>3, <1>4, <1>5, <1>6, <1>7, <1>8, <1>9, <1>10, <1>11, <1>12 DEF Next

(* A slice is with the pool exactly while one task works on it, through every
   interleaving of addData's checks and the ends of the tasks. *)
THEOREM PoolMatchesStates == Spec => []TasksMatchStates
<1>1. PoolInv => TasksMatchStates
  <2> SUFFICES ASSUME PoolInv, NEW s \in SliceIds, NEW op \in {"compress", "write"}
               PROVE  Cardinality({i \in DOMAIN tasks : tasks[i].slice = s /\ tasks[i].op = op})
                      = (IF state[s] = WithPool(op) THEN 1 ELSE 0)
    BY DEF TasksMatchStates, WithPool
  <2> DEFINE of == {i \in DOMAIN tasks : tasks[i].slice = s /\ tasks[i].op = op}
  <2>1. DOMAIN tasks = 1 .. Len(tasks) /\ \A i \in 1 .. Len(tasks) : tasks[i].op \in {"compress", "write"}
    BY TaskType DEF PoolInv, Sharing
  <2>2. CASE state[s] = WithPool(op)
    <3>1. PICK i \in 1 .. Len(tasks) : tasks[i].slice = s
      BY <2>2 DEF PoolInv, InPool, WithPool
    <3>2. tasks[i].op = op
      BY <2>1, <2>2, <3>1 DEF PoolInv, InPool, WithPool
    <3>3. of = {i}
      BY <2>1, <3>1, <3>2 DEF PoolInv, InPool
    <3> QED
      BY <2>2, <3>3, FS_Singleton
  <2>3. CASE state[s] # WithPool(op)
    <3>1. of = {}
      BY <2>1, <2>3 DEF PoolInv, InPool
    <3> QED
      BY <2>3, <3>1, FS_EmptySet
  <2> QED
    BY <2>2, <2>3
<1> QED
  BY <1>1, InitPool, NextPool, PTL DEF Spec

(* is_writing, which checkWriteback reads without mtx, keeps two tasks from
   writing to the file at once. *)
THEOREM WritesAlone == Spec => []OneWriter
<1>1. PoolInv => OneWriter
  <2> SUFFICES ASSUME PoolInv
               PROVE  OneWriter
    OBVIOUS
  <2> DEFINE writing == {i \in DOMAIN tasks : tasks[i].op = "write" /\ tasks[i].step = 1}
  <2>1. \A i, j \in writing : i = j
    BY DEF PoolInv, Sharing, Writers, Writing
  <2>2. writing = {} \/ \E i : writing = {i}
    BY <2>1
  <2>3. Cardinality(writing) \in {0, 1}
    BY <2>2, FS_EmptySet, FS_Singleton
  <2> QED
    BY <2>3 DEF OneWriter
<1> QED
  BY <1>1, InitPool, NextPool, PTL DEF Spec

-----------------------------------------------------------------------------
(* Types: a slice is never filled beyond its rows, and the rows of a slice *)
(* are gone before its write task gives it back.                           *)

(* A slice holds at most its rows, and fewer while it is filled.           *)
RowsFit ==
  /\ rows \in [SliceIds -> Seq(Nat)]
  /\ \A s \in SliceIds : Len(rows[s]) <= RowsPerSlice /\ (state[s] = "FREE" => Len(rows[s]) < RowsPerSlice)
  /\ \A i \in 1 .. Len(tasks) : tasks[i].op = "write" /\ tasks[i].step # 1 => rows[tasks[i].slice] = << >>
Counted ==
  /\ added \in 0 .. MaxRows /\ pc \in PCs
  /\ pc \in {"test", "wait", "wokenC", "wokenW", "copy"} => added < MaxRows

TypeInv == PoolInv /\ RowsFit /\ Counted

\* A slice that a task works on is not FREE.
LEMMA TaskSlices ==
  ASSUME PoolInv, NEW i \in 1 .. Len(tasks)
  PROVE  tasks[i].slice \in SliceIds /\ state[tasks[i].slice] = WithPool(tasks[i].op)
         /\ state[tasks[i].slice] # "FREE" /\ state[tasks[i].slice] # "PROCESS_READY"
         /\ state[tasks[i].slice] # "PROCESS_DONE"
BY TaskType DEF PoolInv, Sharing, InPool, WithPool

(* One lemma for each action that touches the rows.                        *)
LEMMA CopyRowTyped ==
  ASSUME TypeInv, CopyRow
  PROVE  RowsFit' /\ Counted'
<1>1. PICK s \in SliceIds : s = process_slice
  BY DEF TypeInv, PoolInv, Indices
<1>2. state[s] = "FREE" /\ added < MaxRows /\ added \in Nat /\ MaxRows \in Nat /\ RowsPerSlice \in Nat
  BY <1>1, LogDBAssumption DEF TypeInv, PoolInv, Filling, Counted, CopyRow
<1>3. PICK a \in Nat : a = added + 1
  BY <1>2
<1>4. PICK r \in Seq(Nat) : r = rows[s]
  BY DEF TypeInv, RowsFit
<1>5. PICK r2 : r2 = Append(r, a)
  OBVIOUS
<1>6. r2 \in Seq(Nat) /\ Len(r2) = Len(r) + 1 /\ Len(r) \in Nat
  BY <1>5, AppendProperties, LenProperties
<1>7. Len(r) < RowsPerSlice
  BY <1>2, <1>4 DEF TypeInv, RowsFit
<1>8. added' = a /\ rows' = [rows EXCEPT ![s] = r2] /\ pc' = "checkC" /\ tasks' = tasks
  BY <1>1, <1>3, <1>4, <1>5 DEF CopyRow
<1>9. rows' \in [SliceIds -> Seq(Nat)] /\ rows'[s] = r2 /\ \A b \in SliceIds : b # s => rows'[b] = rows[b]
  BY <1>6, <1>8 DEF TypeInv, RowsFit
<1>10. \/ Len(r2) >= RowsPerSlice /\ state' = [state EXCEPT ![s] = "PROCESS_READY"]
       \/ ~(Len(r2) >= RowsPerSlice) /\ state' = state
  BY <1>1, <1>9 DEF CopyRow, FillsSlice
<1>11. ASSUME NEW b \in SliceIds
       PROVE  Len(rows'[b]) <= RowsPerSlice /\ (state'[b] = "FREE" => Len(rows'[b]) < RowsPerSlice)
  <2>1. CASE b = s
    <3>1. Len(rows'[b]) <= RowsPerSlice
      BY <1>2, <1>6, <1>7, <1>9, <2>1
    <3>2. Len(r2) >= RowsPerSlice => state'[b] = "PROCESS_READY"
      BY <1>10, <2>1 DEF TypeInv, PoolInv, Sharing
    <3>3. Len(r2) >= RowsPerSlice \/ Len(r2) < RowsPerSlice
      BY <1>2, <1>6
    <3> QED
      BY <1>9, <2>1, <3>1, <3>2, <3>3
  <2>2. CASE b # s
    <3>1. state'[b] = state[b] /\ rows'[b] = rows[b]
      BY <1>9, <1>10, <2>2 DEF TypeInv, PoolInv, Sharing
    <3> QED
      BY <3>1 DEF TypeInv, RowsFit
  <2> QED
    BY <2>1, <2>2
<1>12. ASSUME NEW i \in 1 .. Len(tasks), tasks[i].op = "write" /\ tasks[i].step # 1
       PROVE  rows'[tasks[i].slice] = << >>
  <2>1. tasks[i].slice \in SliceIds /\ tasks[i].slice # s
    BY <1>2, TaskSlices DEF TypeInv
  <2>2. rows[tasks[i].slice] = << >>
    BY <1>12 DEF TypeInv, RowsFit
  <2> QED
    BY <1>9, <2>1, <2>2
<1>13. RowsFit'
  BY <1>8, <1>9, <1>11, <1>12 DEF RowsFit
<1>14. a \in 0 .. MaxRows
  BY <1>2, <1>3
<1> QED
  BY <1>8, <1>13, <1>14 DEF Counted, PCs

\* What neither adds rows nor gives slices back.
LEMMA RowsKept ==
  ASSUME TypeInv, rows' = rows, \A s \in SliceIds : state'[s] = "FREE" => state[s] = "FREE",
         \A i \in 1 .. Len(tasks') : tasks'[i].op = "write" /\ tasks'[i].step # 1
                                       => \E j \in 1 .. Len(tasks) : /\ tasks[j].op = "write" /\ tasks[j].step # 1
                                                                     /\ tasks[j].slice = tasks'[i].slice
  PROVE  RowsFit'
BY DEF TypeInv, RowsFit

LEMMA SubmitTyped ==
  ASSUME TypeInv, NEW op \in {"compress", "write"}, NEW s \in SliceIds, Submit(op, s), rows' = rows,
         state' = [state EXCEPT ![s] = WithPool(op)]
  PROVE  RowsFit'
<1>1. /\ tasks' \in Seq(Task) /\ Len(tasks') = Len(tasks) + 1 /\ Len(tasks) \in Nat
      /\ \A i \in 1 .. Len(tasks) : tasks'[i] = tasks[i]
      /\ tasks'[Len(tasks) + 1] = [op |-> op, slice |-> s, step |-> 1]
  BY SubmitTasks DEF TypeInv, PoolInv, Sharing
<1>2. \A r \in SliceIds : state'[r] = "FREE" => state[r] = "FREE"
  BY DEF TypeInv, PoolInv, Sharing, WithPool
<1>3. ASSUME NEW i \in 1 .. Len(tasks'), tasks'[i].op = "write" /\ tasks'[i].step # 1
      PROVE  \E j \in 1 .. Len(tasks) : /\ tasks[j].op = "write" /\ tasks[j].step # 1
                                        /\ tasks[j].slice = tasks'[i].slice
  <2>1. i # Len(tasks) + 1
    BY <1>1, <1>3
  <2>2. i \in 1 .. Len(tasks)
    BY <1>1, <2>1
  <2> QED
    BY <1>1, <1>3, <2>2
<1> QED
  BY <1>2, <1>3, RowsKept

LEMMA CompressTyped ==
  ASSUME TypeInv, NEW i \in 1 .. Len(tasks), Compress(i)
  PROVE  RowsFit' /\ Counted'
<1>1. /\ Len(tasks') = Len(tasks)
      /\ \A j \in 1 .. Len(tasks) : j # i => tasks'[j] = tasks[j]
      /\ tasks'[i] = [tasks[i] EXCEPT !.step = @ + 1]
  BY StepTasks DEF TypeInv, PoolInv, Sharing, Compress
<1>2. tasks'[i].op = "compress"
  BY <1>1, TaskType DEF TypeInv, PoolInv, Sharing, Task, Compress
<1>3. rows' = rows /\ state' = state /\ UNCHANGED << added, pc >>
  BY DEF Compress
<1>4. RowsFit'
  BY <1>1, <1>2, <1>3, RowsKept
<1> QED
  BY <1>3, <1>4 DEF TypeInv, Counted

LEMMA WriteFileTyped ==
  ASSUME TypeInv, NEW i \in 1 .. Len(tasks), WriteFile(i)
  PROVE  RowsFit' /\ Counted'
<1>1. /\ Len(tasks') = Len(tasks)
      /\ \A j \in 1 .. Len(tasks) : j # i => tasks'[j] = tasks[j]
      /\ tasks'[i] = [tasks[i] EXCEPT !.step = @ + 1]
  BY StepTasks DEF TypeInv, PoolInv, Sharing, WriteFile
<1>2. tasks'[i].slice = tasks[i].slice
  BY <1>1, TaskType DEF TypeInv, PoolInv, Sharing, Task
<1>3. PICK s \in SliceIds : s = tasks[i].slice
  BY TaskSlices DEF TypeInv
<1>4. rows' = [rows EXCEPT ![s] = << >>] /\ UNCHANGED << state, added, pc >>
  BY <1>3 DEF WriteFile
<1>5. << >> \in Seq(Nat) /\ Len(<< >>) = 0 /\ RowsPerSlice \in Nat \ {0}
  BY EmptySeq, LogDBAssumption
<1>6. rows' \in [SliceIds -> Seq(Nat)] /\ rows'[s] = << >> /\ \A b \in SliceIds : b # s => rows'[b] = rows[b]
  BY <1>4, <1>5 DEF TypeInv, RowsFit
<1>7. \A b \in SliceIds : Len(rows'[b]) <= RowsPerSlice /\ (state'[b] = "FREE" => Len(rows'[b]) < RowsPerSlice)
  BY <1>4, <1>5, <1>6 DEF TypeInv, RowsFit
<1>8. ASSUME NEW j \in 1 .. Len(tasks), tasks'[j].op = "write" /\ tasks'[j].step # 1
      PROVE  rows'[tasks'[j].slice] = << >>
  <2>1. CASE j = i
    BY <1>2, <1>3, <1>6, <2>1
  <2>2. CASE j # i
    <3>1. tasks'[j] = tasks[j] /\ tasks[j].slice \in SliceIds
      BY <1>1, <2>2, TaskSlices DEF TypeInv
    <3>2. rows[tasks[j].slice] = << >>
      BY <1>8, <3>1 DEF TypeInv, RowsFit
    <3> QED
      BY <1>6, <3>1, <3>2
  <2> QED
    BY <2>1, <2>2
<1>9. RowsFit'
  BY <1>1, <1>6, <1>7, <1>8 DEF RowsFit
<1> QED
  BY <1>4, <1>9 DEF TypeInv, Counted

LEMMA ClearIsWritingTyped ==
  ASSUME TypeInv, NEW i \in 1 .. Len(tasks), ClearIsWriting(i)
  PROVE  RowsFit' /\ Counted'
<1>1. /\ Len(tasks') = Len(tasks)
      /\ \A j \in 1 .. Len(tasks) : j # i => tasks'[j] = tasks[j]
      /\ tasks'[i] = [tasks[i] EXCEPT !.step = @ + 1]
  BY StepTasks DEF TypeInv, PoolInv, Sharing, ClearIsWriting
<1>2. tasks'[i].slice = tasks[i].slice /\ tasks[i].op = "write" /\ tasks[i].step # 1
  BY <1>1, TaskType DEF TypeInv, PoolInv, Sharing, Task, ClearIsWriting
<1>3. rows' = rows /\ state' = state /\ UNCHANGED << added, pc >>
  BY DEF ClearIsWriting, infoVars
<1>4. RowsFit'
  BY <1>1, <1>2, <1>3, RowsKept
<1> QED
  BY <1>3, <1>4 DEF TypeInv, Counted

LEMMA FinishTyped ==
  ASSUME TypeInv, NEW i \in 1 .. Len(tasks), Finish(i)
  PROVE  RowsFit' /\ Counted'
<1> DEFINE old(j) == IF j < i THEN j ELSE j + 1
<1>1. /\ Len(tasks') = Len(tasks) - 1 /\ Len(tasks) \in Nat
      /\ \A j \in 1 .. Len(tasks) - 1 : tasks'[j] = tasks[old(j)]
  BY EndTasks DEF TypeInv, PoolInv, Sharing, Finish
<1>2. \A j \in 1 .. Len(tasks') : old(j) \in 1 .. Len(tasks) /\ tasks'[j] = tasks[old(j)]
  BY <1>1
<1> HIDE DEF old
<1>3. PICK s \in SliceIds : s = tasks[i].slice
  BY TaskSlices DEF TypeInv
<1>4. state' = [state EXCEPT ![s] = NextState(tasks[i])] /\ UNCHANGED << rows, added >> /\ LastStep(tasks[i])
      /\ pc' = IF pc = "wait" THEN "wokenC" ELSE pc
  BY <1>3 DEF Finish, Notify
<1>5. NextState(tasks[i]) = "FREE" => rows[s] = << >>
  BY <1>3, <1>4, TaskType DEF NextState, LastStep, TypeInv, PoolInv, Sharing, RowsFit
<1>6. Len(<< >>) = 0 /\ RowsPerSlice \in Nat \ {0}
  BY EmptySeq, LogDBAssumption
<1>7. ASSUME NEW b \in SliceIds
      PROVE  Len(rows'[b]) <= RowsPerSlice /\ (state'[b] = "FREE" => Len(rows'[b]) < RowsPerSlice)
  <2>1. CASE b = s
    BY <1>4, <1>5, <1>6, <2>1 DEF TypeInv, PoolInv, Sharing, RowsFit
  <2>2. CASE b # s
    BY <1>4, <2>2 DEF TypeInv, PoolInv, Sharing, RowsFit
  <2> QED
    BY <2>1, <2>2
<1>8. RowsFit'
  BY <1>2, <1>4, <1>7 DEF TypeInv, RowsFit
<1> QED
  BY <1>4, <1>8 DEF TypeInv, Counted, PCs

(* Every step keeps the types.                                             *)
LEMMA NextTyped ==
  ASSUME TypeInv, [Next]_vars
  PROVE  TypeInv'
<1>0. PoolInv'
  BY NextPool DEF TypeInv
<1>1. CASE AddData
  <2>1. RowsFit'
    BY <1>1, RowsKept DEF AddData, infoVars, TypeInv, RowsFit
  <2> QED
    BY <1>0, <1>1, <2>1 DEF AddData, TypeInv, Counted, PCs
<1>2. CASE TestSlice
  <2>1. RowsFit'
    BY <1>2 DEF TestSlice, infoVars, TypeInv, RowsFit
  <2> QED
    BY <1>0, <1>2, <2>1 DEF TestSlice, TypeInv, Counted, PCs
<1>3. CASE SpuriousWakeup
  <2>1. RowsFit'
    BY <1>3 DEF SpuriousWakeup, infoVars, TypeInv, RowsFit
  <2> QED
    BY <1>0, <1>3, <2>1 DEF SpuriousWakeup, TypeInv, Counted, PCs
<1>4. CASE CopyRow
  BY <1>0, <1>4, CopyRowTyped DEF TypeInv
<1>5. CASE CheckCompress
  <2>1. CASE state[compress_slice] = "PROCESS_READY"
    <3>1. /\ Submit("compress", compress_slice) /\ state' = [state EXCEPT ![compress_slice] = WithPool("compress")]
          /\ rows' = rows /\ compress_slice \in SliceIds
      BY <1>5, <2>1 DEF CheckCompress, WithPool, TypeInv, PoolInv, Indices
    <3> QED
      BY <1>0, <1>5, <3>1, SubmitTyped DEF CheckCompress, AfterCompress, TypeInv, Counted, PCs
  <2>2. CASE state[compress_slice] # "PROCESS_READY"
    <3>1. RowsFit'
      BY <1>5, <2>2 DEF CheckCompress, TypeInv, RowsFit
    <3> QED
      BY <1>0, <1>5, <3>1 DEF CheckCompress, AfterCompress, TypeInv, Counted, PCs
  <2> QED
    BY <2>1, <2>2
<1>6. CASE CheckWriteback
  <2>1. CASE CanWriteback
    <3>1. /\ Submit("write", writeback_slice) /\ state' = [state EXCEPT ![writeback_slice] = WithPool("write")]
          /\ rows' = rows /\ writeback_slice \in SliceIds
      BY <1>6, <2>1 DEF CheckWriteback, WithPool, TypeInv, PoolInv, Indices
    <3> QED
      BY <1>0, <1>6, <3>1, SubmitTyped DEF CheckWriteback, AfterWriteback, TypeInv, Counted, PCs
  <2>2. CASE ~CanWriteback
    <3>1. RowsFit'
      BY <1>6, <2>2 DEF CheckWriteback, TypeInv, RowsFit
    <3> QED
      BY <1>0, <1>6, <3>1 DEF CheckWriteback, AfterWriteback, TypeInv, Counted, PCs
  <2> QED
    BY <2>1, <2>2
<1>7. CASE \E i \in 1 .. Len(tasks) : Compress(i)
  BY <1>0, <1>7, CompressTyped DEF TypeInv
<1>8. CASE \E i \in 1 .. Len(tasks) : WriteFile(i)
  BY <1>0, <1>8, WriteFileTyped DEF TypeInv
<1>9. CASE \E i \in 1 .. Len(tasks) : ClearIsWriting(i)
  BY <1>0, <1>9, ClearIsWritingTyped DEF TypeInv
<1>10. CASE \E i \in 1 .. Len(tasks) : Finish(i)
  BY <1>0, <1>10, FinishTyped DEF TypeInv
<1>11. CASE Close
  <2>1. RowsFit'
    BY <1>11 DEF Close, infoVars, TypeInv, RowsFit
  <2> QED
    BY <1>0, <1>11, <2>1 DEF Close, TypeInv, Counted, PCs
<1>12. CASE UNCHANGED vars
  BY <1>0, <1>12 DEF vars, infoVars, TypeInv, RowsFit, Counted
<1> QED
  BY <1>1, <1>2, <1>3, <1>4, <1>5, <1>6, <1>7, <1>8, <1>9, <1>10, <1>11, <1>12 DEF Next

(* They hold at the start.                                                 *)
LEMMA InitTyped ==
  ASSUME Init
  PROVE  TypeInv
<1>1. << >> \in Seq(Nat) /\ Len(<< >>) = 0 /\ RowsPerSlice \in Nat \ {0} /\ MaxRows \in Nat
  BY EmptySeq, LogDBAssumption
<1>2. RowsFit
  BY <1>1 DEF Init, RowsFit
<1> QED
  BY <1>1, <1>2, InitPool DEF Init, TypeInv, Counted, PCs

\* No two tasks have the same slice.
LEMMA TasksFit ==
  ASSUME PoolInv
  PROVE  Len(tasks) <= Slices
<1>1. PICK n \in Nat : n = Len(tasks)
  BY LenProperties DEF PoolInv, Sharing
<1>2. SUFFICES ASSUME Slices < n
               PROVE  FALSE
  BY <1>1, LogDBAssumption
<1> DEFINE f == [i \in 1 .. n |-> tasks[i].slice]
<1>3. f \in [1 .. n -> SliceIds]
  BY <1>1, TaskType DEF PoolInv, Sharing
<1>4. \A a, b \in Int : IsFiniteSet(a .. b) /\ Cardinality(a .. b) = IF a > b THEN 0 ELSE b - a + 1
  BY FS_Interval
<1>5. 1 \in Int /\ n \in Int /\ 0 \in Int /\ Slices - 1 \in Int /\ Slices \in Nat \ {0}
  BY <1>1, LogDBAssumption
<1>6. IsFiniteSet(1 .. n) /\ Cardinality(1 .. n) = IF 1 > n THEN 0 ELSE n - 1 + 1
  BY <1>4, <1>5, Zenon
<1>7. IsFiniteSet(SliceIds) /\ Cardinality(SliceIds) = IF 0 > Slices - 1 THEN 0 ELSE Slices - 1 - 0 + 1
  BY <1>4, <1>5, Zenon DEF SliceIds
<1>8. Cardinality(SliceIds) < Cardinality(1 .. n)
  BY <1>2, <1>5, <1>6, <1>7
<1> HIDE DEF f
<1>9. \E x, y \in 1 .. n : x # y /\ f[x] = f[y]
  BY <1>3, <1>6, <1>7, <1>8, FS_PigeonHole
<1> QED
  BY <1>1, <1>9 DEF f, PoolInv, InPool

(* Every variable of the log keeps its range: no slice is filled beyond its  *)
(* rows (addData copies only into a FREE slice, and a write task empties the *)
(* slice before it frees it), and the pool holds one task per slice at most. *)
THEOREM LogTypeCorrect == Spec => []TypeOK
<1>1. Init => TypeInv
  BY InitTyped
<1>2. TypeInv /\ [Next]_vars => TypeInv'
  BY NextTyped
<1>3. TypeInv => TypeOK
  BY TasksFit DEF TypeInv, PoolInv, Sharing, Indices, RowsFit, Counted, TypeOK
<1> QED
  BY <1>1, <1>2, <1>3, PTL DEF Spec

-----------------------------------------------------------------------------
(* Induction over the natural numbers, with a set for the property, from the *)
(* well-foundedness of `<'.                                                  *)

(* A set of naturals has a least element; with it, induction over a set.   *)
LEMMA Smallest ==
  ASSUME NEW T \in SUBSET Nat, T # {}
  PROVE  \E x \in T : \A y \in T : x <= y
<1> DEFINE R == {ss \in Nat \X Nat : ss[1] < ss[2]}
<1>1. IsWellFoundedOn(R, Nat)
  BY NatLessThanWellFounded DEF OpToRel
<1>2. R = {ss \in Nat \X Nat : ss[1] < ss[2]}
  OBVIOUS
<1> HIDE DEF R
<1>3. PICK x \in T : \A y \in T : ~(<<y, x>> \in R)
  BY <1>1, WFMin
<1>4. ASSUME NEW y \in T
      PROVE  x <= y
  <2>1. x \in Nat /\ y \in Nat
    OBVIOUS
  <2>2. ~(y < x)
    BY <1>2, <1>3, <2>1
  <2> QED
    BY <2>1, <2>2
<1> QED
  BY <1>4

(* The natural numbers are in every set that holds zero and successors.    *)
LEMMA Induction ==
  ASSUME NEW S, 0 \in S, \A n \in Nat : n \in S => n + 1 \in S
  PROVE  Nat \subseteq S
<1> DEFINE T == Nat \ S
<1>1. SUFFICES ASSUME T # {}
               PROVE  FALSE
  OBVIOUS
<1>2. PICK x \in T : \A y \in T : x <= y
  BY <1>1, Smallest
<1>3. x \in Nat /\ x # 0 /\ x \notin S
  BY <1>2
<1>4. x - 1 \in Nat /\ (x - 1) + 1 = x /\ ~(x <= x - 1)
  BY <1>3
<1>5. x - 1 \in S
  BY <1>2, <1>4
<1> QED
  BY <1>3, <1>4, <1>5

-----------------------------------------------------------------------------
(* The turns of the ring. Turn k fills slice Place(k) with the rows after  *)
(* the first Begin(k).                                                     *)

Place(k) == k % Slices
Begin(k) == k * RowsPerSlice

(* Arithmetic: a remainder is determined.                                  *)
LEMMA OneRemainder ==
  ASSUME NEW q \in Nat \ {0}, NEW x \in Int, NEW d \in Int, NEW r \in 0 .. q - 1, x = q * d + r
  PROVE  x % q = r
<1>1. x % q \in 0 .. q - 1 /\ x \div q \in Int /\ x = q * (x \div q) + (x % q)
  BY SMT
<1> DEFINE b == x \div q
           t == x % q
<1>2. b \in Int /\ t \in Int /\ 0 <= t /\ t < q /\ x = q * b + t
  BY <1>1
<1> HIDE DEF b, t
<1>3. PICK e \in Int : e = d - b
  BY <1>2
<1>4. q * e = t - r
  <2>1. q * e = q * d - q * b
    BY <1>2, <1>3, SMT
  <2> QED
    BY <1>2, <2>1, SMT
<1>5. e = 0
  <2>1. CASE e >= 1
    <3>1. q * e >= q
      BY <2>1, <1>3, SMT
    <3> QED
      BY <3>1, <1>2, <1>4, SMT
  <2>2. CASE e <= -1
    <3>1. q * e <= -q
      BY <2>2, <1>3, SMT
    <3> QED
      BY <3>1, <1>2, <1>4, SMT
  <2> QED
    BY <2>1, <2>2, <1>3, SMT
<1>6. t = r
  BY <1>2, <1>4, <1>5, SMT
<1> QED
  BY <1>6 DEF t

(* The slice of a turn is a slice.                                         *)
LEMMA PlaceIs ==
  ASSUME NEW k \in Nat
  PROVE  Place(k) \in SliceIds /\ \E d \in Int : k = Slices * d + Place(k)
<1>1. PICK q \in Nat \ {0} : q = Slices
  BY LogDBAssumption
<1>2. k % q \in 0 .. q - 1 /\ k \div q \in Int /\ k = q * (k \div q) + (k % q)
  BY SMT
<1> QED
  BY <1>1, <1>2 DEF Place, SliceIds

(* Turns add up, modulo the ring.                                          *)
LEMMA PlaceAdd ==
  ASSUME NEW k \in Nat, NEW i \in Nat
  PROVE  (Place(k) + i) % Slices = Place(k + i)
<1>1. PICK q \in Nat \ {0} : q = Slices
  BY LogDBAssumption
<1>2. PICK r \in 0 .. q - 1 : r = Place(k)
  BY <1>1, PlaceIs DEF SliceIds
<1>3. PICK d \in Int : k = q * d + r
  BY <1>1, <1>2, PlaceIs
<1>4. PICK x \in Nat : x = r + i
  OBVIOUS
<1>5. PICK t \in 0 .. q - 1 : t = Place(x)
  BY <1>1, PlaceIs DEF SliceIds
<1>6. PICK e \in Int : x = q * e + t
  BY <1>1, <1>5, PlaceIs
<1>7. PICK y \in Nat : y = k + i
  OBVIOUS
<1>8. PICK c \in Int : c = d + e
  OBVIOUS
<1>9. y = q * c + t
  <2>1. q * c = q * d + q * e
    BY <1>8, SMT
  <2>2. q * c \in Int /\ q * d \in Int /\ q * e \in Int
    BY SMT
  <2> QED
    BY <1>3, <1>4, <1>6, <1>7, <2>1, <2>2, SMT
<1>10. y % q = t
  BY <1>9, OneRemainder
<1> QED
  BY <1>1, <1>2, <1>4, <1>5, <1>7, <1>10 DEF Place

(* The next turn is that of the slice behind.                              *)
LEMMA PlaceNext ==
  ASSUME NEW k \in Nat
  PROVE  Place(k + 1) = Succ(Place(k))
BY PlaceAdd DEF Succ

(* A round later it is the same slice's turn.                              *)
LEMMA PlaceWraps ==
  ASSUME NEW k \in Nat
  PROVE  Place(k + Slices) = Place(k)
<1>1. PICK q \in Nat \ {0} : q = Slices
  BY LogDBAssumption
<1>2. PICK r \in 0 .. q - 1 : r = Place(k)
  BY <1>1, PlaceIs DEF SliceIds
<1>3. PICK d \in Int : k = q * d + r
  BY <1>1, <1>2, PlaceIs
<1>4. PICK y \in Nat : y = k + q
  OBVIOUS
<1>5. PICK c \in Int : c = d + 1
  OBVIOUS
<1>6. y = q * c + r
  <2>1. q * c = q * d + q
    BY <1>5, SMT
  <2>2. q * c \in Int /\ q * d \in Int
    BY SMT
  <2> QED
    BY <1>3, <1>4, <2>1, <2>2, SMT
<1>7. y % q = r
  BY <1>6, OneRemainder
<1> QED
  BY <1>1, <1>2, <1>4, <1>7 DEF Place

\* Fewer than Slices turns apart, two turns have slices of their own.
LEMMA PlaceDiffers ==
  ASSUME NEW k \in Nat, NEW n \in 1 .. Slices - 1
  PROVE  Place(k) # Place(k + n)
<1>1. PICK q \in Nat \ {0} : q = Slices
  BY LogDBAssumption
<1>2. SUFFICES ASSUME Place(k) = Place(k + n)
               PROVE  FALSE
  OBVIOUS
<1>3. PICK r \in 0 .. q - 1 : r = Place(k)
  BY <1>1, PlaceIs DEF SliceIds
<1>4. PICK d \in Int : k = q * d + r
  BY <1>1, <1>3, PlaceIs
<1>5. PICK y \in Nat : y = k + n
  OBVIOUS
<1>6. PICK e \in Int : y = q * e + r
  BY <1>1, <1>2, <1>3, <1>5, PlaceIs
<1>7. PICK c \in Int : c = e - d
  OBVIOUS
<1>8. q * c = n
  <2>1. q * c = q * e - q * d
    BY <1>7, SMT
  <2>2. q * c \in Int /\ q * d \in Int /\ q * e \in Int /\ n \in Int
    BY SMT
  <2> QED
    BY <1>4, <1>5, <1>6, <2>1, <2>2, SMT
<1>9. n \in 1 .. q - 1
  BY <1>1
<1>10. CASE c >= 1
  <2>1. q * c >= q
    BY <1>10, SMT
  <2> QED
    BY <1>8, <1>9, <2>1, SMT
<1>11. CASE c <= 0
  <2>1. q * c <= 0
    BY <1>11, SMT
  <2> QED
    BY <1>8, <1>9, <2>1, SMT
<1> QED
  BY <1>10, <1>11

(* Turns less than a round apart are of different slices.                  *)
LEMMA PlacesDiffer ==
  ASSUME NEW j \in Nat, NEW k \in Nat, j # k, j - k < Slices, k - j < Slices
  PROVE  Place(j) # Place(k)
<1>0. Slices \in Nat \ {0}
  BY LogDBAssumption
<1>1. CASE j < k
  <2>1. PICK n \in 1 .. Slices - 1 : n = k - j
    BY <1>0, <1>1
  <2>2. k = j + n
    BY <2>1
  <2> QED
    BY <2>2, PlaceDiffers
<1>2. CASE k < j
  <2>1. PICK n \in 1 .. Slices - 1 : n = j - k
    BY <1>0, <1>2
  <2>2. j = k + n
    BY <2>1
  <2> QED
    BY <2>2, PlaceDiffers
<1> QED
  BY <1>1, <1>2

(* Turns have RowsPerSlice rows each.                                      *)
LEMMA BeginIs ==
  /\ Begin(0) = 0
  /\ \A k \in Nat : Begin(k) \in Nat /\ Begin(k + 1) = Begin(k) + RowsPerSlice
<1>1. PICK q \in Nat \ {0} : q = RowsPerSlice
  BY LogDBAssumption
<1>2. \A k \in Nat : k * q \in Nat /\ (k + 1) * q = k * q + q
  BY SMT
<1>3. 0 * q = 0
  BY SMT
<1> QED
  BY <1>1, <1>2, <1>3 DEF Begin

-----------------------------------------------------------------------------
(* The turns F .. P - 1 are with the log: F .. W - 1 (one at most) is being *)
(* written, W .. C - 1 has been submitted for compression, C .. P - 1 waits *)
(* for it, and P is being filled. The file holds the turns before F.        *)

Pool == {tasks[i] : i \in 1 .. Len(tasks)}
ToWrite(t) == t.op = "write" /\ t.step = 1
HasPacked(t) == IF t.op = "compress" THEN t.step = 2 ELSE t.step = 1

Held(F, P, s) == \E k \in F .. P - 1 : s = Place(k)
Turns(F, W, C, P) ==
  /\ F <= W /\ W <= C /\ C <= P /\ W <= F + 1 /\ P <= F + Slices
  /\ writeback_slice = Place(W) /\ compress_slice = Place(C) /\ process_slice = Place(P)

RowsAre(r, k, m) == Len(r) = m /\ \A i \in 1 .. m : r[i] = Begin(k) + i
Contents(F, P) ==
  /\ \A k \in F .. P - 1 : RowsAre(rows[Place(k)], k, RowsPerSlice)
  /\ \A s \in SliceIds : ~Held(F, P, s) /\ s # Place(P) => rows[s] = << >>
Partial(F, P, m) ==
  /\ added = Begin(P) + m
  /\ P < F + Slices => RowsAre(rows[Place(P)], P, m)
  /\ P = F + Slices => m = 0

Stages(F, W, C, P) ==
  /\ \A k \in C .. P - 1 : state[Place(k)] = "PROCESS_READY"
  /\ \A k \in W .. C - 1 : state[Place(k)] \in {"PROCESSING", "PROCESS_DONE"}
  /\ \A k \in F .. W - 1 : \E t \in Pool : ToWrite(t) /\ t.slice = Place(k)
  /\ \A s \in SliceIds : ~Held(F, P, s) => state[s] \in {"FREE", "DONE"}
  /\ \A t \in Pool : ToWrite(t) => F < W /\ t.slice = Place(F)

Buffered ==
  /\ packed \in [SliceIds -> Seq(Nat)] /\ first \in [Buffers -> Nat] /\ file \in Seq(Nat)
PackedFor(s) == packed[s] = rows[s] /\ first[Slices + s] = Packed
Compressed ==
  /\ \A t \in Pool : HasPacked(t) => PackedFor(t.slice)
  /\ \A s \in SliceIds : state[s] = "PROCESS_DONE" => PackedFor(s)
  /\ \A s \in SliceIds : rows[s] # << >> => first[s] = rows[s][1]

IsLog(f, n) == Len(f) = n /\ \A i \in 1 .. Len(f) : f[i] = i
InFile(F) == IsLog(file, Begin(F))

LogAt(F, W, C, P, m) ==
  Turns(F, W, C, P) /\ Contents(F, P) /\ Partial(F, P, m) /\ Stages(F, W, C, P) /\ InFile(F)
LogInv ==
  /\ Buffered
  /\ pc = "closed" => tasks = << >> /\ FileIsLog
  /\ pc # "closed" =>
       Compressed /\ \E F, W, C, P \in Nat : \E m \in 0 .. RowsPerSlice - 1 : LogAt(F, W, C, P, m)

-----------------------------------------------------------------------------
(* The tasks as a set.                                                     *)

(* PoolInv in terms of the set of tasks.                                   *)
LEMMA PoolIs ==
  ASSUME PoolInv
  PROVE  /\ \A t \in Pool : /\ t \in Task /\ t.slice \in SliceIds /\ t.op \in {"compress", "write"}
                            /\ state[t.slice] = WithPool(t.op)
         /\ \A t, u \in Pool : t.slice = u.slice => t = u
         /\ \A t \in Pool : ToWrite(t) => is_writing
<1>1. \A i \in 1 .. Len(tasks) : Writing(tasks[i]) => is_writing
  BY DEF PoolInv, Writers
<1>2. \A t \in Pool : t \in Task /\ t.slice \in SliceIds /\ t.op \in {"compress", "write"}
                      /\ state[t.slice] = WithPool(t.op)
  BY TaskType DEF Pool, PoolInv, Sharing, InPool
<1>3. \A t, u \in Pool : t.slice = u.slice => t = u
  BY DEF Pool, PoolInv, InPool
<1>4. \A t \in Pool : ToWrite(t) => is_writing
  BY <1>1 DEF Pool, ToWrite, Writing
<1> QED
  BY <1>2, <1>3, <1>4

(* Handing over a slice adds a task;                                       *)
LEMMA PoolSubmits ==
  ASSUME tasks \in Seq(Task), NEW op \in {"compress", "write"}, NEW s \in SliceIds, Submit(op, s)
  PROVE  Pool' = Pool \cup {[op |-> op, slice |-> s, step |-> 1]}
<1>1. /\ Len(tasks') = Len(tasks) + 1 /\ Len(tasks) \in Nat
      /\ \A i \in 1 .. Len(tasks) : tasks'[i] = tasks[i]
      /\ tasks'[Len(tasks) + 1] = [op |-> op, slice |-> s, step |-> 1]
  BY SubmitTasks
<1>2. \A i : i \in 1 .. Len(tasks') <=> i \in 1 .. Len(tasks) \/ i = Len(tasks) + 1
  BY <1>1
<1>3. Pool' = {tasks'[i] : i \in 1 .. Len(tasks')}
  BY DEF Pool
<1>4. \A t : t \in Pool' <=> t \in Pool \/ t = [op |-> op, slice |-> s, step |-> 1]
  BY <1>1, <1>2, <1>3 DEF Pool
<1> QED
  BY <1>4

(* a step of one replaces it;                                              *)
LEMMA PoolSteps ==
  ASSUME tasks \in Seq(Task), NEW i \in 1 .. Len(tasks), tasks[i].step \in {1, 2}, Step(i)
  PROVE  \E u \in Task : /\ u.op = tasks[i].op /\ u.slice = tasks[i].slice /\ u.step = tasks[i].step + 1
                         /\ \A t \in Pool' : t = u \/ t \in Pool
                         /\ \A t \in Pool : t # tasks[i] => t \in Pool'
<1>1. /\ Len(tasks') = Len(tasks)
      /\ \A j \in 1 .. Len(tasks) : j # i => tasks'[j] = tasks[j]
      /\ tasks'[i] = [tasks[i] EXCEPT !.step = @ + 1] /\ tasks'[i] \in Task
  BY StepTasks, ElementOfSeq
<1>2. PICK u \in Task : u = tasks'[i]
  BY <1>1
<1>3. u.op = tasks[i].op /\ u.slice = tasks[i].slice /\ u.step = tasks[i].step + 1
  BY <1>1, <1>2, TaskType DEF Task
<1>4. Pool' = {tasks'[j] : j \in 1 .. Len(tasks')}
  BY DEF Pool
<1>5. \A t \in Pool' : t = u \/ t \in Pool
  BY <1>1, <1>2, <1>4 DEF Pool
<1>6. \A t \in Pool : t # tasks[i] => t \in Pool'
  BY <1>1, <1>2, <1>4 DEF Pool
<1> QED
  BY <1>3, <1>5, <1>6

(* and its end takes it away.                                              *)
LEMMA PoolEnds ==
  ASSUME tasks \in Seq(Task), NEW i \in 1 .. Len(tasks), End(i)
  PROVE  Pool' \subseteq Pool /\ \A t \in Pool : t # tasks[i] => t \in Pool'
<1> DEFINE old(j) == IF j < i THEN j ELSE j + 1
<1>1. /\ Len(tasks') = Len(tasks) - 1 /\ Len(tasks) \in Nat
      /\ \A j \in 1 .. Len(tasks) - 1 : tasks'[j] = tasks[old(j)]
  BY EndTasks
<1>2. \A j \in 1 .. Len(tasks') : old(j) \in 1 .. Len(tasks) /\ tasks'[j] = tasks[old(j)]
  BY <1>1
<1>3. ASSUME NEW j \in 1 .. Len(tasks), j # i
      PROVE  \E k \in 1 .. Len(tasks') : old(k) = j
  <2>1. CASE j < i
    <3>1. j \in 1 .. Len(tasks') /\ old(j) = j
      BY <1>1, <2>1
    <3> QED
      BY <3>1
  <2>2. CASE j > i
    <3>1. j - 1 \in 1 .. Len(tasks') /\ old(j - 1) = j
      BY <1>1, <2>2
    <3> QED
      BY <3>1
  <2> QED
    BY <1>1, <1>3, <2>1, <2>2
<1>4. Pool' = {tasks'[j] : j \in 1 .. Len(tasks')}
  BY DEF Pool
<1> HIDE DEF old
<1>5. Pool' \subseteq Pool
  BY <1>2, <1>4 DEF Pool
<1>6. ASSUME NEW t \in Pool, t # tasks[i]
      PROVE  t \in Pool'
  <2>1. PICK j \in 1 .. Len(tasks) : t = tasks[j]
    BY DEF Pool
  <2>2. PICK k \in 1 .. Len(tasks') : old(k) = j
    BY <1>3, <1>6, <2>1
  <2> QED
    BY <1>2, <1>4, <2>1, <2>2
<1> QED
  BY <1>5, <1>6

(* A sequence is empty when it has no length.                              *)
LEMMA EmptyIs ==
  ASSUME NEW r \in Seq(Nat)
  PROVE  r = << >> <=> Len(r) = 0
BY EmptySeq

-----------------------------------------------------------------------------
(* What the turns say about the slices.                                    *)

TurnsApart(F, W, C, P) ==
  /\ \A k \in F .. P - 1 : k \in Nat /\ Place(k) \in SliceIds /\ state[Place(k)] # "FREE"
  /\ \A k \in F .. W - 1 : state[Place(k)] = "DONE"
  /\ \A j, k \in F .. P - 1 : j # k => Place(j) # Place(k)
  /\ P < F + Slices => \A k \in F .. P - 1 : Place(k) # Place(P)
  /\ P = F + Slices => Place(P) = Place(F) /\ F \in F .. P - 1
  /\ Place(P) \in SliceIds /\ P + 1 \in Nat /\ Slices \in Nat \ {0}

(* The states of the slices keep the turns apart.                          *)
LEMMA TurnSlices ==
  ASSUME TypeInv, NEW F \in Nat, NEW W \in Nat, NEW C \in Nat, NEW P \in Nat, NEW m \in 0 .. RowsPerSlice - 1,
         LogAt(F, W, C, P, m)
  PROVE  TurnsApart(F, W, C, P)
<1>1. Slices \in Nat \ {0} /\ F <= W /\ W <= C /\ C <= P /\ P <= F + Slices
  BY LogDBAssumption DEF LogAt, Turns
<1>2. ASSUME NEW k \in F .. W - 1
      PROVE  state[Place(k)] = "DONE"
  <2>1. PICK t \in Pool : ToWrite(t) /\ t.slice = Place(k)
    BY DEF LogAt, Stages
  <2> QED
    BY <2>1, PoolIs DEF TypeInv, WithPool, ToWrite
<1>3. ASSUME NEW k \in F .. P - 1
      PROVE  k \in Nat /\ Place(k) \in SliceIds /\ state[Place(k)] # "FREE"
  <2>1. k \in F .. W - 1 \/ k \in W .. C - 1 \/ k \in C .. P - 1
    BY <1>1
  <2>2. state[Place(k)] # "FREE"
    BY <1>2, <2>1 DEF LogAt, Stages
  <2>3. k \in Nat
    OBVIOUS
  <2> QED
    BY <2>2, <2>3, PlaceIs
<1>4. ASSUME NEW j \in F .. P - 1, NEW k \in F .. P - 1, j # k
      PROVE  Place(j) # Place(k)
  <2>1. j \in Nat /\ k \in Nat /\ j - k < Slices /\ k - j < Slices
    BY <1>1
  <2> QED
    BY <1>4, <2>1, PlacesDiffer
<1>5. ASSUME P < F + Slices, NEW k \in F .. P - 1
      PROVE  Place(k) # Place(P)
  <2>1. k \in Nat /\ k - P < Slices /\ P - k < Slices /\ k # P
    BY <1>1, <1>5
  <2> QED
    BY <2>1, PlacesDiffer
<1>6. ASSUME P = F + Slices
      PROVE  Place(P) = Place(F) /\ F \in F .. P - 1
  <2>1. F \in F .. P - 1
    BY <1>1, <1>6
  <2> QED
    BY <1>6, <2>1, PlaceWraps
<1>7. Place(P) \in SliceIds /\ P + 1 \in Nat
  BY PlaceIs
<1> QED
  BY <1>1, <1>2, <1>3, <1>4, <1>5, <1>6, <1>7 DEF TurnsApart

-----------------------------------------------------------------------------
(* The steps of the simulation thread keep the log.                        *)

\* What leaves the log alone.
LEMMA QuietKeepsLog ==
  ASSUME LogInv, UNCHANGED << state, rows, packed, first, ringVars, file, added, tasks >>,
         pc # "closed", pc' # "closed"
  PROVE  LogInv'
<1>1. Pool' = Pool
  BY DEF Pool
<1>2. Buffered' /\ Compressed'
  BY <1>1 DEF LogInv, Buffered, Compressed, PackedFor
<1>3. ASSUME NEW F \in Nat, NEW W \in Nat, NEW C \in Nat, NEW P \in Nat, NEW m \in 0 .. RowsPerSlice - 1,
             LogAt(F, W, C, P, m)
      PROVE  LogAt(F, W, C, P, m)'
  <2>1. Turns(F, W, C, P)'
    BY <1>3 DEF LogAt, Turns, ringVars
  <2>2. Contents(F, P)'
    BY <1>3 DEF LogAt, Contents, Held, RowsAre
  <2>3. Partial(F, P, m)'
    BY <1>3 DEF LogAt, Partial, RowsAre
  <2>4. Stages(F, W, C, P)'
    BY <1>1, <1>3 DEF LogAt, Stages, Held
  <2>5. InFile(F)'
    BY <1>3 DEF LogAt, InFile, IsLog
  <2> QED
    BY <2>1, <2>2, <2>3, <2>4, <2>5 DEF LogAt
<1>4. PICK F \in Nat, W \in Nat, C \in Nat, P \in Nat : \E m \in 0 .. RowsPerSlice - 1 : LogAt(F, W, C, P, m)
  BY DEF LogInv
<1>5. PICK m \in 0 .. RowsPerSlice - 1 : LogAt(F, W, C, P, m)
  BY <1>4
<1>6. LogAt(F, W, C, P, m)'
  BY <1>3, <1>4, <1>5
<1> QED
  BY <1>2, <1>4, <1>5, <1>6 DEF LogInv

\* The row that is copied, as a step on what the slice holds.
LEMMA RowAppended ==
  ASSUME NEW r \in Seq(Nat), NEW P \in Nat, NEW m \in Nat, NEW a \in Nat, RowsAre(r, P, m), a = Begin(P) + m + 1
  PROVE  /\ Append(r, a) \in Seq(Nat) /\ RowsAre(Append(r, a), P, m + 1) /\ Append(r, a) # << >>
         /\ r = << >> => Append(r, a)[1] = a
         /\ r # << >> => Append(r, a)[1] = r[1]
<1>1. PICK n \in Nat : n = Len(r)
  BY LenProperties
<1>2. PICK b \in Nat : b = Begin(P)
  BY BeginIs
<1>3. PICK r2 : r2 = Append(r, a)
  OBVIOUS
<1>4. /\ r2 \in Seq(Nat) /\ r2 # << >> /\ Len(r2) = n + 1 /\ r2[n + 1] = a
      /\ \A i \in 1 .. n : r2[i] = r[i]
  BY <1>1, <1>3, AppendProperties
<1>5. n = m
  BY <1>1 DEF RowsAre
<1>6. \A i \in 1 .. m : r[i] = b + i
  BY <1>2 DEF RowsAre
<1>7. ASSUME NEW i \in 1 .. m + 1
      PROVE  r2[i] = b + i
  <2>1. CASE i = m + 1
    BY <1>2, <1>4, <1>5, <2>1
  <2>2. CASE i # m + 1
    <3>1. i \in 1 .. m
      BY <2>2
    <3> QED
      BY <1>4, <1>5, <1>6, <3>1
  <2> QED
    BY <2>1, <2>2
<1>8. RowsAre(r2, P, m + 1)
  BY <1>2, <1>4, <1>5, <1>7 DEF RowsAre
<1>9. r = << >> => r2[1] = a
  <2>1. r = << >> => n = 0
    BY <1>1, EmptyIs
  <2> QED
    BY <1>4, <2>1
<1>10. r # << >> => r2[1] = r[1]
  <2>1. r # << >> => 1 \in 1 .. n
    BY <1>1, EmptyIs
  <2> QED
    BY <1>4, <2>1
<1> QED
  BY <1>3, <1>4, <1>8, <1>9, <1>10

\* No row runs over into the buffer behind the slice.
LEMMA CopyRowLog ==
  ASSUME ~RunsOver, TypeInv, LogInv, CopyRow
  PROVE  LogInv'
<1>1. PICK F, W, C, P \in Nat : \E m \in 0 .. RowsPerSlice - 1 : LogAt(F, W, C, P, m)
  BY DEF LogInv, CopyRow
<1>2. PICK m \in 0 .. RowsPerSlice - 1 : LogAt(F, W, C, P, m)
  BY <1>1
<1>2a. TurnsApart(F, W, C, P)
  BY <1>1, <1>2, TurnSlices
<1>5. PICK s \in SliceIds : s = Place(P)
  BY <1>2a DEF TurnsApart
<1>3. /\ \A k \in F .. P - 1 : k \in Nat /\ Place(k) \in SliceIds /\ state[Place(k)] # "FREE"
      /\ P < F + Slices => \A k \in F .. P - 1 : Place(k) # s
      /\ P = F + Slices => s = Place(F) /\ F \in F .. P - 1
      /\ s \in SliceIds /\ P + 1 \in Nat /\ Slices \in Nat \ {0}
  BY <1>2a, <1>5 DEF TurnsApart
<1>4. F <= W /\ W <= C /\ C <= P /\ W <= F + 1 /\ P <= F + Slices /\ process_slice = s
  BY <1>2, <1>5 DEF LogAt, Turns
<1>6. state[s] = "FREE" /\ pc = "copy"
  BY <1>4 DEF TypeInv, PoolInv, Filling, CopyRow
<1>7. P < F + Slices /\ RowsAre(rows[s], P, m) /\ added = Begin(P) + m
  <2>1. P # F + Slices
    BY <1>3, <1>6
  <2>2. P < F + Slices
    BY <1>3, <1>4, <2>1
  <2> QED
    BY <1>2, <1>5, <2>2 DEF LogAt, Partial
<1>8. \A k \in F .. P - 1 : Place(k) # s
  BY <1>3, <1>7
<1>9. PICK a \in Nat : a = added + 1
  BY DEF TypeInv, Counted
<1>10. PICK r \in Seq(Nat) : r = rows[s]
  BY <1>3 DEF TypeInv, RowsFit
<1>11. PICK b \in Nat : b = Begin(P)
  BY BeginIs
<1>12. PICK r2 : r2 = Append(r, a)
  OBVIOUS
<1>13. m \in Nat /\ a = b + m + 1 /\ RowsAre(r, P, m) /\ RowsPerSlice \in Nat \ {0} /\ m < RowsPerSlice
  BY <1>7, <1>9, <1>10, <1>11, LogDBAssumption
<1>13a. a = Begin(P) + m + 1 /\ P \in Nat
  BY <1>1, <1>11, <1>13
<1>14. /\ r2 \in Seq(Nat) /\ RowsAre(r2, P, m + 1) /\ r2 # << >>
       /\ r = << >> => r2[1] = a
       /\ r # << >> => r2[1] = r[1]
  BY <1>9, <1>10, <1>12, <1>13, <1>13a, RowAppended
<1>15. rows \in [SliceIds -> Seq(Nat)] /\ state \in [SliceIds -> States] /\ first \in [Buffers -> Nat]
  BY DEF TypeInv, RowsFit, PoolInv, Sharing, LogInv, Buffered
<1>16. /\ added' = a /\ rows' = [rows EXCEPT ![s] = r2] /\ pc' = "checkC"
       /\ UNCHANGED << packed, compress_slice, writeback_slice, file, tasks >>
  BY <1>4, <1>9, <1>10, <1>12 DEF CopyRow
<1>17. rows'[s] = r2 /\ \A x \in SliceIds : x # s => rows'[x] = rows[x]
  BY <1>3, <1>15, <1>16
<1>18. first' = [x \in Buffers |-> IF x = s /\ r = << >> THEN a ELSE first[x]]
  BY <1>4, <1>9, <1>10 DEF CopyRow
<1>19. /\ \A x \in Buffers : x # s => first'[x] = first[x]
       /\ s \in Buffers /\ first'[s] = IF r = << >> THEN a ELSE first[s]
       /\ \A x \in SliceIds : x \in Buffers /\ Slices + x \in Buffers /\ Slices + x # s
  <2>1. SliceIds \subseteq Buffers /\ \A x \in SliceIds : Slices + x \in Buffers /\ Slices + x # s
    BY <1>3 DEF SliceIds, Buffers
  <2> QED
    BY <1>3, <1>18, <2>1
<1>20. Buffered'
  <2>1. first' \in [Buffers -> Nat]
    BY <1>15, <1>18
  <2> QED
    BY <1>16, <2>1 DEF LogInv, Buffered
<1>21. Pool' = Pool
  BY <1>16 DEF Pool
<1>22. \/ Len(r2) >= RowsPerSlice /\ state' = [state EXCEPT ![s] = "PROCESS_READY"] /\ process_slice' = Succ(s)
       \/ ~(Len(r2) >= RowsPerSlice) /\ state' = state /\ process_slice' = s
  BY <1>4, <1>17 DEF CopyRow, FillsSlice
<1>23. (state'[s] = "PROCESS_READY" \/ state'[s] = "FREE") /\ \A x \in SliceIds : x # s => state'[x] = state[x]
  BY <1>3, <1>6, <1>15, <1>22
<1>24. Compressed /\ \A t \in Pool : t.slice \in SliceIds /\ t.slice # s
  <2>1. \A t \in Pool : t.slice \in SliceIds /\ t.slice # s
    BY <1>6, PoolIs DEF TypeInv, WithPool
  <2> QED
    BY <1>6, <2>1 DEF LogInv
<1>25. \A x \in SliceIds : x # s /\ PackedFor(x) => PackedFor(x)'
  BY <1>16, <1>17, <1>19 DEF PackedFor
<1>26. Compressed'
  <2>1. \A t \in Pool' : HasPacked(t) => PackedFor(t.slice)'
    BY <1>21, <1>24, <1>25 DEF Compressed
  <2>2. \A x \in SliceIds : state'[x] = "PROCESS_DONE" => PackedFor(x)'
    BY <1>23, <1>24, <1>25 DEF Compressed
  <2>3. ASSUME NEW x \in SliceIds, rows'[x] # << >>
        PROVE  first'[x] = rows'[x][1]
    <3>1. CASE x = s
      <4>1. r # << >> => first[s] = r[1]
        BY <1>3, <1>10, <1>24 DEF Compressed
      <4> QED
        BY <1>14, <1>17, <1>19, <3>1, <4>1
    <3>2. CASE x # s
      BY <1>17, <1>19, <1>24, <2>3, <3>2 DEF Compressed
    <3> QED
      BY <3>1, <3>2
  <2> QED
    BY <2>1, <2>2, <2>3 DEF Compressed
<1>27. InFile(F)'
  BY <1>2, <1>16 DEF LogAt, InFile, IsLog
<1>28. \A k \in F .. P - 1 : RowsAre(rows'[Place(k)], k, RowsPerSlice)
  BY <1>2, <1>3, <1>8, <1>17 DEF LogAt, Contents
<1>29. m + 1 = RowsPerSlice \/ m + 1 < RowsPerSlice
  BY <1>13
<1>30. Len(r2) = m + 1
  BY <1>14 DEF RowsAre
<1>31. CASE m + 1 < RowsPerSlice
  <2>1. state' = state /\ process_slice' = s
    BY <1>13, <1>22, <1>30, <1>31
  <2>2. Turns(F, W, C, P)'
    BY <1>2, <1>4, <1>5, <1>16, <2>1 DEF LogAt, Turns
  <2>3. Contents(F, P)'
    BY <1>2, <1>5, <1>17, <1>28 DEF LogAt, Contents, Held
  <2>4. added' = Begin(P) + (m + 1) /\ m + 1 \in 0 .. RowsPerSlice - 1
    BY <1>11, <1>13, <1>16, <1>31
  <2>5. Partial(F, P, m + 1)'
    BY <1>3, <1>5, <1>7, <1>14, <1>17, <2>4 DEF Partial
  <2>6. Stages(F, W, C, P)'
    BY <1>2, <1>21, <2>1 DEF LogAt, Stages, Held
  <2>7. LogAt(F, W, C, P, m + 1)'
    BY <1>27, <2>2, <2>3, <2>5, <2>6 DEF LogAt
  <2> QED
    BY <1>16, <1>20, <1>26, <2>4, <2>7 DEF LogInv
<1>32. CASE m + 1 = RowsPerSlice
  <2>1. PICK Q \in Nat : Q = P + 1
    BY <1>3
  <2>2. /\ F <= W /\ W <= C /\ C <= Q /\ W <= F + 1 /\ Q <= F + Slices
        /\ \A k \in F .. Q - 1 : k \in F .. P - 1 \/ k = P
        /\ \A k \in F .. P - 1 : k \in F .. Q - 1
        /\ P \in F .. Q - 1
    BY <1>3, <1>4, <1>7, <2>1
  <2>3. state' = [state EXCEPT ![s] = "PROCESS_READY"] /\ process_slice' = Succ(s)
    BY <1>13, <1>22, <1>30, <1>32
  <2>4. Place(Q) = Succ(s) /\ Place(Q) \in SliceIds
    BY <1>5, <2>1, PlaceNext, PlaceIs
  <2>5. Turns(F, W, C, Q)'
    BY <1>2, <1>16, <2>2, <2>3, <2>4 DEF LogAt, Turns
  <2>6. \A x \in SliceIds : ~Held(F, Q, x) => ~Held(F, P, x) /\ x # s
    BY <1>5, <2>2 DEF Held
  <2>7. Contents(F, Q)'
    <3>1. \A k \in F .. Q - 1 : RowsAre(rows'[Place(k)], k, RowsPerSlice)
      BY <1>5, <1>14, <1>17, <1>28, <1>32, <2>2
    <3>2. \A x \in SliceIds : ~Held(F, Q, x) => rows'[x] = << >>
      BY <1>2, <1>5, <1>17, <2>6 DEF LogAt, Contents
    <3> QED
      BY <3>1, <3>2 DEF Contents, Held
  <2>8. Begin(Q) = b + RowsPerSlice
    BY <1>11, <2>1, BeginIs
  <2>9. added' = Begin(Q) + 0 /\ 0 \in 0 .. RowsPerSlice - 1
    <3>1. PICK c \in Nat : c = Begin(Q)
      BY BeginIs
    <3>2. a = c + 0 /\ 0 \in 0 .. RowsPerSlice - 1
      BY <1>13, <1>32, <2>8, <3>1
    <3> QED
      BY <1>16, <3>1, <3>2
  <2>10. ASSUME Q < F + Slices
         PROVE  RowsAre(rows'[Place(Q)], Q, 0)
    <3>1. \A k \in F .. Q - 1 : k \in Nat /\ k # Q /\ k - Q < Slices /\ Q - k < Slices
      BY <1>3, <2>10
    <3>2. \A k \in F .. Q - 1 : Place(k) # Place(Q)
      BY <3>1, PlacesDiffer
    <3>3. rows'[Place(Q)] = << >>
      BY <2>4, <2>7, <3>2, <2>6, <1>17, <1>5, <1>2 DEF LogAt, Contents, Held
    <3>4. Len(<< >>) = 0
      BY EmptySeq
    <3> QED
      BY <3>3, <3>4 DEF RowsAre
  <2>11. Partial(F, Q, 0)'
    BY <2>9, <2>10 DEF Partial
  <2>12. Stages(F, W, C, Q)'
    <3>1. \A k \in C .. Q - 1 : state'[Place(k)] = "PROCESS_READY"
      <4>1. state'[Place(P)] = "PROCESS_READY"
        <5>1. state'[s] = "PROCESS_READY"
          BY <1>3, <1>15, <2>3
        <5> QED
          BY <1>5, <5>1
      <4>2. \A k \in C .. Q - 1 : k = P \/ (k \in C .. P - 1 /\ k \in F .. P - 1)
        BY <1>1, <1>4, <2>1
      <4> QED
        BY <1>2, <1>3, <1>8, <1>23, <4>1, <4>2 DEF LogAt, Stages
    <3>2. \A k \in W .. C - 1 : state'[Place(k)] \in {"PROCESSING", "PROCESS_DONE"}
      <4>1. \A k \in W .. C - 1 : k \in F .. P - 1
        BY <1>4
      <4> QED
        BY <1>2, <1>3, <1>8, <1>23, <4>1 DEF LogAt, Stages
    <3>3. \A x \in SliceIds : ~Held(F, Q, x) => state'[x] \in {"FREE", "DONE"}
      BY <1>2, <1>23, <2>6 DEF LogAt, Stages
    <3> QED
      BY <1>2, <1>21, <3>1, <3>2, <3>3 DEF LogAt, Stages, Held
  <2>13. LogAt(F, W, C, Q, 0)'
    BY <1>16, <1>2, <2>5, <2>7, <2>11, <2>12, <1>27 DEF LogAt
  <2> QED
    BY <1>16, <1>20, <1>26, <2>9, <2>13 DEF LogInv
<1> QED
  BY <1>29, <1>31, <1>32

\* checkCompress submits turn C.
LEMMA CheckCompressLog ==
  ASSUME TypeInv, LogInv, CheckCompress
  PROVE  LogInv'
<1>0. pc # "closed" /\ pc' # "closed" /\ UNCHANGED << rows, packed, first, process_slice, writeback_slice, file, added >>
  BY DEF CheckCompress, AfterCompress
<1>1. CASE state[compress_slice] # "PROCESS_READY"
  BY <1>0, <1>1, QuietKeepsLog DEF CheckCompress, ringVars
<1>2. CASE state[compress_slice] = "PROCESS_READY"
  <2>1. PICK F, W, C, P \in Nat : \E m \in 0 .. RowsPerSlice - 1 : LogAt(F, W, C, P, m)
    BY <1>0 DEF LogInv
  <2>2. PICK m \in 0 .. RowsPerSlice - 1 : LogAt(F, W, C, P, m)
    BY <2>1
  <2>3. TurnsApart(F, W, C, P)
    BY <2>1, <2>2, TurnSlices
  <2>4. F <= W /\ W <= C /\ C <= P /\ W <= F + 1 /\ P <= F + Slices /\ compress_slice = Place(C)
    BY <2>2 DEF LogAt, Turns
  <2>5. PICK s \in SliceIds : s = Place(C)
    BY <2>1, PlaceIs
  <2>6. state[s] = "PROCESS_READY"
    BY <1>2, <2>4, <2>5
  <2>7. C < P
    <3> SUFFICES ASSUME C = P
                 PROVE  FALSE
      BY <2>1, <2>4
    <3>1. CASE Held(F, P, s)
      <4>1. PICK k \in F .. P - 1 : s = Place(k)
        BY <3>1 DEF Held
      <4>2. k \in F .. W - 1 \/ k \in W .. C - 1
        BY <2>1, <2>4, <4>1
      <4> QED
        BY <2>2, <2>3, <2>6, <4>1, <4>2 DEF LogAt, Stages, TurnsApart
    <3>2. CASE ~Held(F, P, s)
      BY <2>2, <2>6, <3>2 DEF LogAt, Stages
    <3> QED
      BY <3>1, <3>2
  <2>8. PICK D \in Nat : D = C + 1
    BY <2>1
  <2>9. /\ F <= W /\ W <= D /\ D <= P /\ C \in F .. P - 1
        /\ \A k \in D .. P - 1 : k \in C .. P - 1 /\ k \in F .. P - 1 /\ k # C
        /\ \A k \in W .. D - 1 : k = C \/ (k \in W .. C - 1 /\ k \in F .. P - 1 /\ k # C)
        /\ \A k \in F .. W - 1 : k \in F .. P - 1 /\ k # C
    BY <2>1, <2>4, <2>7, <2>8
  <2>10. state' = [state EXCEPT ![s] = "PROCESSING"] /\ compress_slice' = Succ(s) /\ Submit("compress", s)
    BY <1>2, <2>4, <2>5 DEF CheckCompress
  <2>11. state'[s] = "PROCESSING" /\ \A x \in SliceIds : x # s => state'[x] = state[x]
    BY <2>10 DEF TypeInv, PoolInv, Sharing
  <2>12. PICK t0 : t0 = [op |-> "compress", slice |-> s, step |-> 1]
    OBVIOUS
  <2>13. Pool' = Pool \cup {t0} /\ ~ToWrite(t0) /\ ~HasPacked(t0)
    BY <2>10, <2>12, PoolSubmits DEF TypeInv, PoolInv, Sharing, ToWrite, HasPacked
  <2>14. Turns(F, W, D, P)'
    <3>1. Place(D) = Succ(s)
      BY <2>1, <2>5, <2>8, PlaceNext
    <3> QED
      BY <1>0, <2>2, <2>9, <2>10, <3>1 DEF LogAt, Turns
  <2>15. Contents(F, P)' /\ Partial(F, P, m)' /\ InFile(F)'
    BY <1>0, <2>2 DEF LogAt, Contents, Held, RowsAre, Partial, InFile, IsLog
  <2>16. \A k \in F .. P - 1 : Place(k) \in SliceIds /\ (k # C => Place(k) # s)
    BY <2>3, <2>5, <2>9 DEF TurnsApart
  <2>17. Stages(F, W, D, P)'
    <3>1. \A k \in D .. P - 1 : state'[Place(k)] = "PROCESS_READY"
      BY <2>2, <2>9, <2>11, <2>16 DEF LogAt, Stages
    <3>2. \A k \in W .. D - 1 : state'[Place(k)] \in {"PROCESSING", "PROCESS_DONE"}
      BY <2>2, <2>5, <2>9, <2>11, <2>16 DEF LogAt, Stages
    <3>3. \A x \in SliceIds : ~Held(F, P, x) => state'[x] \in {"FREE", "DONE"}
      <4>1. Held(F, P, s)
        BY <2>5, <2>9 DEF Held
      <4> QED
        BY <2>2, <2>11, <4>1 DEF LogAt, Stages
    <3>4. \A k \in F .. W - 1 : \E t \in Pool' : ToWrite(t) /\ t.slice = Place(k)
      BY <2>2, <2>13 DEF LogAt, Stages
    <3>5. \A t \in Pool' : ToWrite(t) => F < W /\ t.slice = Place(F)
      BY <2>2, <2>13 DEF LogAt, Stages
    <3> QED
      BY <3>1, <3>2, <3>3, <3>4, <3>5 DEF Stages, Held, ToWrite
  <2>18. Compressed'
    <3>1. Compressed
      BY <1>0 DEF LogInv
    <3>2. \A x : PackedFor(x)' <=> PackedFor(x)
      BY <1>0 DEF PackedFor
    <3>3. \A t \in Pool' : HasPacked(t) => PackedFor(t.slice)'
      BY <2>13, <3>1, <3>2 DEF Compressed
    <3>4. \A x \in SliceIds : state'[x] = "PROCESS_DONE" => PackedFor(x)'
      BY <2>11, <3>1, <3>2 DEF Compressed
    <3> QED
      BY <1>0, <3>1, <3>3, <3>4 DEF Compressed, HasPacked
  <2>19. LogAt(F, W, D, P, m)'
    BY <2>14, <2>15, <2>17 DEF LogAt
  <2>20. Buffered'
    BY <1>0 DEF LogInv, Buffered
  <2> QED
    BY <1>0, <2>1, <2>2, <2>8, <2>18, <2>19, <2>20 DEF LogInv
<1> QED
  BY <1>1, <1>2

\* checkWriteback submits turn W, and only when the turn before it is in the file.
LEMMA CheckWritebackLog ==
  ASSUME TypeInv, LogInv, CheckWriteback
  PROVE  LogInv'
<1>0. pc # "closed" /\ pc' # "closed" /\ UNCHANGED << rows, packed, first, process_slice, compress_slice, file, added >>
  BY DEF CheckWriteback, AfterWriteback
<1>1. CASE ~CanWriteback
  BY <1>0, <1>1, QuietKeepsLog DEF CheckWriteback, ringVars
<1>2. CASE CanWriteback
  <2>1. PICK F, W, C, P \in Nat : \E m \in 0 .. RowsPerSlice - 1 : LogAt(F, W, C, P, m)
    BY <1>0 DEF LogInv
  <2>2. PICK m \in 0 .. RowsPerSlice - 1 : LogAt(F, W, C, P, m)
    BY <2>1
  <2>3. TurnsApart(F, W, C, P)
    BY <2>1, <2>2, TurnSlices
  <2>4. F <= W /\ W <= C /\ C <= P /\ W <= F + 1 /\ P <= F + Slices /\ writeback_slice = Place(W)
    BY <2>2 DEF LogAt, Turns
  <2>5. PICK s \in SliceIds : s = Place(W)
    BY <2>1, PlaceIs
  <2>6. state[s] = "PROCESS_DONE" /\ ~is_writing
    BY <1>2, <2>4, <2>5 DEF CanWriteback
  <2>7. F = W /\ \A t \in Pool : ~ToWrite(t)
    <3>1. \A t \in Pool : ~ToWrite(t)
      BY <2>6, PoolIs DEF TypeInv
    <3>2. ~(F \in F .. W - 1)
      BY <2>2, <3>1 DEF LogAt, Stages
    <3> QED
      BY <2>1, <2>4, <3>1, <3>2
  <2>8. W < C
    <3> SUFFICES ASSUME W = C
                 PROVE  FALSE
      BY <2>1, <2>4
    <3>1. CASE W < P
      <4>1. W \in C .. P - 1
        BY <2>1, <3>1
      <4> QED
        BY <2>2, <2>5, <2>6, <4>1 DEF LogAt, Stages
    <3>2. CASE W = P
      <4>1. ~Held(F, P, s)
        BY <2>1, <2>7, <3>2 DEF Held
      <4> QED
        BY <2>2, <2>6, <4>1 DEF LogAt, Stages
    <3> QED
      BY <2>1, <2>4, <3>1, <3>2
  <2>9. PICK V \in Nat : V = W + 1
    BY <2>1
  <2>10. /\ F <= V /\ V <= C /\ V <= F + 1 /\ F < V /\ F \in F .. P - 1
         /\ \A k \in C .. P - 1 : k \in F .. P - 1 /\ k # F
         /\ \A k \in V .. C - 1 : k \in W .. C - 1 /\ k \in F .. P - 1 /\ k # F
         /\ \A k \in F .. V - 1 : k = F
    BY <2>1, <2>4, <2>7, <2>8, <2>9
  <2>11. state' = [state EXCEPT ![s] = "DONE"] /\ writeback_slice' = Succ(s) /\ Submit("write", s)
    BY <1>2, <2>4, <2>5 DEF CheckWriteback
  <2>12. state'[s] = "DONE" /\ \A x \in SliceIds : x # s => state'[x] = state[x]
    BY <2>11 DEF TypeInv, PoolInv, Sharing
  <2>13. PICK t0 : t0 = [op |-> "write", slice |-> s, step |-> 1]
    OBVIOUS
  <2>14. Pool' = Pool \cup {t0} /\ ToWrite(t0) /\ t0.slice = s /\ s = Place(F)
    BY <2>5, <2>7, <2>11, <2>13, PoolSubmits DEF TypeInv, PoolInv, Sharing, ToWrite
  <2>15. Turns(F, V, C, P)'
    <3>1. Place(V) = Succ(s)
      BY <2>1, <2>5, <2>9, PlaceNext
    <3> QED
      BY <1>0, <2>2, <2>10, <2>11, <3>1 DEF LogAt, Turns
  <2>16. Contents(F, P)' /\ Partial(F, P, m)' /\ InFile(F)'
    BY <1>0, <2>2 DEF LogAt, Contents, Held, RowsAre, Partial, InFile, IsLog
  <2>17. \A k \in F .. P - 1 : Place(k) \in SliceIds /\ (k # F => Place(k) # s)
    BY <2>3, <2>10, <2>14 DEF TurnsApart
  <2>18. Stages(F, V, C, P)'
    <3>1. \A k \in C .. P - 1 : state'[Place(k)] = "PROCESS_READY"
      BY <2>2, <2>10, <2>12, <2>17 DEF LogAt, Stages
    <3>2. \A k \in V .. C - 1 : state'[Place(k)] \in {"PROCESSING", "PROCESS_DONE"}
      BY <2>2, <2>10, <2>12, <2>17 DEF LogAt, Stages
    <3>3. \A x \in SliceIds : ~Held(F, P, x) => state'[x] \in {"FREE", "DONE"}
      BY <2>2, <2>12 DEF LogAt, Stages
    <3>4. \A k \in F .. V - 1 : \E t \in Pool' : ToWrite(t) /\ t.slice = Place(k)
      BY <2>10, <2>14
    <3>5. \A t \in Pool' : ToWrite(t) => F < V /\ t.slice = Place(F)
      BY <2>7, <2>10, <2>14
    <3> QED
      BY <3>1, <3>2, <3>3, <3>4, <3>5 DEF Stages, Held, ToWrite
  <2>19. Compressed'
    <3>1. Compressed
      BY <1>0 DEF LogInv
    <3>2. \A x : PackedFor(x)' <=> PackedFor(x)
      BY <1>0 DEF PackedFor
    <3>3. \A t \in Pool' : HasPacked(t) => PackedFor(t.slice)'
      BY <2>6, <2>14, <3>1, <3>2 DEF Compressed
    <3>4. \A x \in SliceIds : state'[x] = "PROCESS_DONE" => PackedFor(x)'
      BY <2>12, <3>1, <3>2 DEF Compressed
    <3> QED
      BY <1>0, <3>1, <3>3, <3>4 DEF Compressed, HasPacked
  <2>20. LogAt(F, V, C, P, m)'
    BY <2>15, <2>16, <2>18 DEF LogAt
  <2>21. Buffered'
    BY <1>0 DEF LogInv, Buffered
  <2> QED
    BY <1>0, <2>1, <2>2, <2>9, <2>19, <2>20, <2>21 DEF LogInv
<1> QED
  BY <1>1, <1>2

-----------------------------------------------------------------------------
(* The steps of the tasks keep the log.                                    *)

\* A buffer whose first bytes are its own is read as it was filled.
LEMMA ReadIs ==
  ASSUME ~RunsOver, TypeInv, Compressed, NEW s \in SliceIds
  PROVE  Read(s) = rows[s]
<1>1. PICK r \in Seq(Nat) : r = rows[s]
  BY DEF TypeInv, RowsFit
<1>2. PICK n \in Nat : n = Len(r)
  BY <1>1, LenProperties
<1>3. DOMAIN r = 1 .. n /\ r = [i \in 1 .. n |-> r[i]]
  BY <1>1, <1>2, LenProperties
<1>4. \A i \in 1 .. n : i = 1 => first[s] = r[1]
  <2>1. 1 \in 1 .. n => r # << >>
    BY <1>1, <1>2, EmptyIs
  <2> QED
    BY <1>1, <2>1 DEF Compressed
<1>5. Read(s) = [i \in 1 .. n |-> IF i = 1 /\ first[s] # r[1] THEN Torn ELSE r[i]]
  BY <1>1, <1>2 DEF Read
<1>6. \A i \in 1 .. n : (IF i = 1 /\ first[s] # r[1] THEN Torn ELSE r[i]) = r[i]
  BY <1>4
<1> QED
  BY <1>1, <1>3, <1>5, <1>6

(* A compression packs the rows of its slice, which stay until it is       *)
(* written.                                                                *)
LEMMA CompressLog ==
  ASSUME ~RunsOver, TypeInv, LogInv, NEW i \in 1 .. Len(tasks), Compress(i)
  PROVE  LogInv'
<1>1. PICK s \in SliceIds : s = tasks[i].slice
  BY TaskSlices DEF TypeInv
<1>2. /\ tasks[i].op = "compress" /\ tasks[i].step = 1 /\ Step(i)
      /\ packed' = [packed EXCEPT ![s] = Read(s)] /\ first' = [first EXCEPT ![Slices + s] = Packed]
      /\ UNCHANGED << state, rows, process_slice, compress_slice, writeback_slice, file, added, pc >>
  BY <1>1 DEF Compress, ringVars
<1>3. pc # "closed"
  <2>1. tasks # << >>
    BY DEF TypeInv, PoolInv, Sharing
  <2> QED
    BY <2>1 DEF LogInv
<1>4. Compressed /\ Buffered
  BY <1>3 DEF LogInv
<1>5. Read(s) = rows[s] /\ rows[s] \in Seq(Nat)
  BY <1>4, ReadIs DEF TypeInv, RowsFit
<1>6. PICK u \in Task : /\ u.op = "compress" /\ u.slice = s /\ u.step = 2
                        /\ \A t \in Pool' : t = u \/ t \in Pool
                        /\ \A t \in Pool : t # tasks[i] => t \in Pool'
  <2>1. tasks \in Seq(Task) /\ tasks[i].step \in {1, 2} /\ 1 + 1 = 2
    BY <1>2 DEF TypeInv, PoolInv, Sharing
  <2> QED
    BY <1>1, <1>2, <2>1, PoolSteps
<1>7. Packed \in Nat /\ Slices + s \in Buffers /\ \A x \in SliceIds : /\ x \in Buffers /\ x # Slices + s
                                                    /\ Slices + x \in Buffers /\ (x # s => Slices + x # Slices + s)
  BY <1>1, LogDBAssumption DEF SliceIds, Buffers, Packed
<1>8. Buffered'
  BY <1>2, <1>4, <1>5, <1>7 DEF Buffered
<1>9. /\ packed'[s] = rows'[s] /\ first'[Slices + s] = Packed
      /\ \A x \in SliceIds : first'[x] = first[x]
      /\ \A x \in SliceIds : x # s => packed'[x] = packed[x] /\ first'[Slices + x] = first[Slices + x]
  BY <1>1, <1>2, <1>4, <1>5, <1>7 DEF Buffered
<1>10. \A x \in SliceIds : PackedFor(x) \/ x = s => PackedFor(x)'
  BY <1>2, <1>9 DEF PackedFor
<1>11. Compressed'
  <2>1. \A t \in Pool' : HasPacked(t) => t.slice \in SliceIds /\ (PackedFor(t.slice) \/ t.slice = s)
    BY <1>4, <1>6, PoolIs DEF TypeInv, Compressed
  <2>2. \A t \in Pool' : HasPacked(t) => PackedFor(t.slice)'
    BY <1>10, <2>1
  <2>3. \A x \in SliceIds : state'[x] = "PROCESS_DONE" => PackedFor(x)'
    BY <1>2, <1>4, <1>10 DEF Compressed
  <2>4. \A x \in SliceIds : rows'[x] # << >> => first'[x] = rows'[x][1]
    BY <1>2, <1>4, <1>9 DEF Compressed
  <2> QED
    BY <2>2, <2>3, <2>4 DEF Compressed, HasPacked
<1>12. ASSUME NEW F \in Nat, NEW W \in Nat, NEW C \in Nat, NEW P \in Nat, NEW m \in 0 .. RowsPerSlice - 1,
              LogAt(F, W, C, P, m)
       PROVE  LogAt(F, W, C, P, m)'
  <2>1. Turns(F, W, C, P)' /\ Contents(F, P)' /\ Partial(F, P, m)' /\ InFile(F)'
    BY <1>2, <1>12 DEF LogAt, Turns, Contents, Held, RowsAre, Partial, InFile, IsLog
  <2>2. tasks[i] \in Pool /\ ~ToWrite(tasks[i]) /\ ~ToWrite(u)
    BY <1>2, <1>6 DEF Pool, ToWrite
  <2>3. \A k \in F .. W - 1 : \E t \in Pool' : ToWrite(t) /\ t.slice = Place(k)
    BY <1>6, <1>12, <2>2 DEF LogAt, Stages
  <2>4. \A t \in Pool' : ToWrite(t) => F < W /\ t.slice = Place(F)
    BY <1>6, <1>12, <2>2 DEF LogAt, Stages
  <2>5. Stages(F, W, C, P)'
    BY <1>2, <1>12, <2>3, <2>4 DEF LogAt, Stages, Held, ToWrite
  <2> QED
    BY <2>1, <2>5 DEF LogAt
<1> QED
  BY <1>2, <1>3, <1>8, <1>11, <1>12 DEF LogInv

\* clearing is_writing, with the turn in the file.
LEMMA ClearIsWritingLog ==
  ASSUME TypeInv, LogInv, NEW i \in 1 .. Len(tasks), ClearIsWriting(i)
  PROVE  LogInv'
<1>1. /\ tasks[i].op = "write" /\ tasks[i].step = 2 /\ Step(i)
      /\ UNCHANGED << state, rows, packed, first, process_slice, compress_slice, writeback_slice, file, added, pc >>
  BY DEF ClearIsWriting, ringVars, infoVars
<1>2. pc # "closed"
  <2>1. tasks # << >>
    BY DEF TypeInv, PoolInv, Sharing
  <2> QED
    BY <2>1 DEF LogInv
<1>3. Compressed /\ Buffered
  BY <1>2 DEF LogInv
<1>4. PICK u \in Task : /\ u.op = "write" /\ u.step = 3
                        /\ \A t \in Pool' : t = u \/ t \in Pool
                        /\ \A t \in Pool : t # tasks[i] => t \in Pool'
  <2>1. tasks \in Seq(Task) /\ tasks[i].step \in {1, 2} /\ 2 + 1 = 3
    BY <1>1 DEF TypeInv, PoolInv, Sharing
  <2> QED
    BY <1>1, <2>1, PoolSteps
<1>5. ~HasPacked(u) /\ ~ToWrite(u) /\ ~ToWrite(tasks[i])
  BY <1>1, <1>4 DEF HasPacked, ToWrite
<1>6. Compressed'
  <2>1. \A x : PackedFor(x)' <=> PackedFor(x)
    BY <1>1 DEF PackedFor
  <2>2. \A t \in Pool' : HasPacked(t) => PackedFor(t.slice)'
    BY <1>3, <1>4, <1>5, <2>1 DEF Compressed
  <2> QED
    BY <1>1, <1>3, <2>1, <2>2 DEF Compressed, HasPacked
<1>7. ASSUME NEW F \in Nat, NEW W \in Nat, NEW C \in Nat, NEW P \in Nat, NEW m \in 0 .. RowsPerSlice - 1,
             LogAt(F, W, C, P, m)
      PROVE  LogAt(F, W, C, P, m)'
  <2>1. Turns(F, W, C, P)' /\ Contents(F, P)' /\ Partial(F, P, m)' /\ InFile(F)'
    BY <1>1, <1>7 DEF LogAt, Turns, Contents, Held, RowsAre, Partial, InFile, IsLog
  <2>2. \A k \in F .. W - 1 : \E t \in Pool' : ToWrite(t) /\ t.slice = Place(k)
    BY <1>4, <1>5, <1>7 DEF LogAt, Stages
  <2>3. \A t \in Pool' : ToWrite(t) => F < W /\ t.slice = Place(F)
    BY <1>4, <1>5, <1>7 DEF LogAt, Stages
  <2>4. Stages(F, W, C, P)'
    BY <1>1, <1>7, <2>2, <2>3 DEF LogAt, Stages, Held, ToWrite
  <2> QED
    BY <2>1, <2>4 DEF LogAt
<1>8. Buffered'
  BY <1>1, <1>3 DEF Buffered
<1>9. pc' # "closed"
  BY <1>1, <1>2
<1>10. \E F, W, C, P \in Nat : \E m \in 0 .. RowsPerSlice - 1 : LogAt(F, W, C, P, m)'
  <2>1. PICK F, W, C, P \in Nat : \E m \in 0 .. RowsPerSlice - 1 : LogAt(F, W, C, P, m)
    BY <1>2 DEF LogInv
  <2> QED
    BY <1>7, <2>1
<1> QED
  BY <1>6, <1>8, <1>9, <1>10 DEF LogInv

\* A task gives its slice back: compressed, or FREE because its turn is in the file.
LEMMA FinishLog ==
  ASSUME TypeInv, LogInv, NEW i \in 1 .. Len(tasks), Finish(i)
  PROVE  LogInv'
<1>1. PICK s \in SliceIds : s = tasks[i].slice
  BY TaskSlices DEF TypeInv
<1>2. /\ LastStep(tasks[i]) /\ End(i) /\ state' = [state EXCEPT ![s] = NextState(tasks[i])]
      /\ UNCHANGED << rows, packed, first, process_slice, compress_slice, writeback_slice, file, added >>
  BY <1>1 DEF Finish, ringVars
<1>3. pc # "closed" /\ pc' # "closed"
  <2>1. tasks # << >>
    BY DEF TypeInv, PoolInv, Sharing
  <2> QED
    BY <2>1 DEF LogInv, Finish, Notify
<1>4. Compressed /\ Buffered
  BY <1>3 DEF LogInv
<1>5. tasks[i] \in Pool /\ tasks[i].op \in {"compress", "write"}
  BY TaskType DEF Pool, TypeInv, PoolInv, Sharing
<1>6. Pool' \subseteq Pool /\ \A t \in Pool : t # tasks[i] => t \in Pool'
  BY <1>2, PoolEnds DEF TypeInv, PoolInv, Sharing
<1>7. state'[s] = NextState(tasks[i]) /\ \A x \in SliceIds : x # s => state'[x] = state[x]
  BY <1>1, <1>2 DEF TypeInv, PoolInv, Sharing
<1>8. state[s] = WithPool(tasks[i].op) /\ ~ToWrite(tasks[i]) /\ (tasks[i].op = "compress" => HasPacked(tasks[i]))
  BY <1>1, <1>2, <1>5, PoolIs DEF TypeInv, LastStep, ToWrite, HasPacked
<1>9. Compressed'
  <2>1. \A x : PackedFor(x)' <=> PackedFor(x)
    BY <1>2 DEF PackedFor
  <2>2. \A t \in Pool' : HasPacked(t) => PackedFor(t.slice)'
    BY <1>4, <1>6, <2>1 DEF Compressed
  <2>3. state'[s] = "PROCESS_DONE" => PackedFor(s)
    BY <1>1, <1>4, <1>5, <1>7, <1>8 DEF Compressed, NextState
  <2>4. \A x \in SliceIds : state'[x] = "PROCESS_DONE" => PackedFor(x)'
    BY <1>4, <1>7, <2>1, <2>3 DEF Compressed
  <2> QED
    BY <1>2, <1>4, <2>2, <2>4 DEF Compressed, HasPacked
<1>10. ASSUME NEW F \in Nat, NEW W \in Nat, NEW C \in Nat, NEW P \in Nat, NEW m \in 0 .. RowsPerSlice - 1,
              LogAt(F, W, C, P, m)
       PROVE  LogAt(F, W, C, P, m)'
  <2>0. TurnsApart(F, W, C, P) /\ F <= W /\ W <= C /\ C <= P
    BY <1>10, TurnSlices DEF LogAt, Turns
  <2>1. Turns(F, W, C, P)' /\ Contents(F, P)' /\ Partial(F, P, m)' /\ InFile(F)'
    BY <1>2, <1>10 DEF LogAt, Turns, Contents, Held, RowsAre, Partial, InFile, IsLog
  <2>2. \A k \in F .. W - 1 : \E t \in Pool' : ToWrite(t) /\ t.slice = Place(k)
    BY <1>6, <1>8, <1>10 DEF LogAt, Stages
  <2>3. \A t \in Pool' : ToWrite(t) => F < W /\ t.slice = Place(F)
    BY <1>6, <1>10 DEF LogAt, Stages
  <2>4. \A k \in F .. P - 1 : Place(k) \in SliceIds
    BY <2>0 DEF TurnsApart
  <2>5. \A k \in C .. P - 1 : k \in F .. P - 1 /\ state'[Place(k)] = "PROCESS_READY"
    <3>1. \A k \in C .. P - 1 : k \in F .. P - 1 /\ state[Place(k)] = "PROCESS_READY"
      BY <1>10, <2>0 DEF LogAt, Stages
    <3> QED
      BY <1>7, <1>8, <2>4, <3>1 DEF WithPool
  <2>6. \A k \in W .. C - 1 : state'[Place(k)] \in {"PROCESSING", "PROCESS_DONE"}
    <3>1. \A k \in W .. C - 1 : k \in F .. P - 1 /\ state[Place(k)] \in {"PROCESSING", "PROCESS_DONE"}
      BY <1>10, <2>0 DEF LogAt, Stages
    <3> QED
      BY <1>5, <1>7, <1>8, <2>4, <3>1 DEF WithPool, NextState
  <2>7. \A x \in SliceIds : ~Held(F, P, x) => state'[x] \in {"FREE", "DONE"}
    <3>1. \A x \in SliceIds : ~Held(F, P, x) => state[x] \in {"FREE", "DONE"}
      BY <1>10 DEF LogAt, Stages
    <3> QED
      BY <1>5, <1>7, <1>8, <3>1 DEF WithPool, NextState
  <2>8. Stages(F, W, C, P)'
    BY <1>2, <2>2, <2>3, <2>5, <2>6, <2>7 DEF Stages, Held, ToWrite
  <2> QED
    BY <2>1, <2>8 DEF LogAt
<1>11. Buffered'
  BY <1>2, <1>4 DEF Buffered
<1> QED
  BY <1>3, <1>9, <1>10, <1>11 DEF LogInv

\* A turn reaches the file.
LEMMA TurnWritten ==
  ASSUME NEW f \in Seq(Nat), NEW r \in Seq(Nat), NEW k \in Nat, NEW m \in Nat,
         IsLog(f, Begin(k)), RowsAre(r, k, m)
  PROVE  f \o r \in Seq(Nat) /\ IsLog(f \o r, Begin(k) + m)
<1>1. PICK b \in Nat : b = Begin(k)
  BY BeginIs
<1>2. PICK g : g = f \o r
  OBVIOUS
<1>3. Len(f) = b /\ Len(r) = m /\ (\A i \in 1 .. m : r[i] = b + i) /\ \A i \in 1 .. b : f[i] = i
  BY <1>1 DEF RowsAre, IsLog
<1>4. /\ g \in Seq(Nat) /\ Len(g) = Len(f) + Len(r)
      /\ \A i \in 1 .. Len(f) + Len(r) : g[i] = IF i <= Len(f) THEN f[i] ELSE r[i - Len(f)]
  BY <1>2, ConcatProperties
<1>5. g \in Seq(Nat) /\ Len(g) = b + m /\ \A i \in 1 .. b + m : g[i] = IF i <= b THEN f[i] ELSE r[i - b]
  BY <1>3, <1>4
<1>6. ASSUME NEW i \in 1 .. b + m
      PROVE  g[i] = i
  <2>1. CASE i <= b
    BY <1>1, <1>3, <1>5, <2>1
  <2>2. CASE i > b
    <3>1. i - b \in 1 .. m /\ ~(i <= b) /\ b + (i - b) = i
      BY <1>1, <2>2
    <3>2. r[i - b] = b + (i - b)
      BY <1>3, <3>1
    <3> QED
      BY <1>5, <3>1, <3>2
  <2> QED
    BY <1>1, <2>1, <2>2
<1> QED
  BY <1>1, <1>2, <1>5, <1>6 DEF IsLog

(* A write appends the next rows: its slice is that of the first turn not  *)
(* written.                                                                *)
LEMMA WriteFileLog ==
  ASSUME TypeInv, LogInv, NEW i \in 1 .. Len(tasks), WriteFile(i)
  PROVE  LogInv'
<1>1. PICK s \in SliceIds : s = tasks[i].slice
  BY TaskSlices DEF TypeInv
<1>2. /\ tasks[i].op = "write" /\ tasks[i].step = 1 /\ Step(i) /\ file' = file \o Readable(s)
      /\ rows' = [rows EXCEPT ![s] = << >>] /\ packed' = [packed EXCEPT ![s] = << >>]
      /\ UNCHANGED << state, first, process_slice, compress_slice, writeback_slice, added, pc >>
  BY <1>1 DEF WriteFile, ringVars
<1>3. pc # "closed" /\ pc' # "closed"
  <2>1. tasks # << >>
    BY DEF TypeInv, PoolInv, Sharing
  <2> QED
    BY <1>2, <2>1 DEF LogInv
<1>4. Compressed /\ Buffered
  BY <1>3 DEF LogInv
<1>5. tasks[i] \in Pool /\ ToWrite(tasks[i]) /\ HasPacked(tasks[i]) /\ state[s] = "DONE"
  <2>1. tasks[i] \in Pool
    BY DEF Pool
  <2> QED
    BY <1>1, <1>2, <2>1, PoolIs DEF TypeInv, ToWrite, HasPacked, WithPool
<1>6. file' = file \o rows[s]
  BY <1>1, <1>2, <1>4, <1>5 DEF Compressed, PackedFor, Readable
<1>7. PICK u \in Task : /\ u.op = "write" /\ u.step = 2
                        /\ \A t \in Pool' : t = u \/ t \in Pool
                        /\ \A t \in Pool : t # tasks[i] => t \in Pool'
  <2>1. tasks \in Seq(Task) /\ tasks[i].step \in {1, 2} /\ 1 + 1 = 2
    BY <1>2 DEF TypeInv, PoolInv, Sharing
  <2> QED
    BY <1>2, <2>1, PoolSteps
<1>8. ~HasPacked(u) /\ ~ToWrite(u)
  BY <1>7 DEF HasPacked, ToWrite
<1>9. << >> \in Seq(Nat) /\ Len(<< >>) = 0
  BY EmptySeq
<1>10. rows'[s] = << >> /\ \A x \in SliceIds : x # s => rows'[x] = rows[x] /\ packed'[x] = packed[x]
  BY <1>1, <1>2, <1>4 DEF TypeInv, RowsFit, Buffered
<1>11. PICK F, W, C, P \in Nat : \E m \in 0 .. RowsPerSlice - 1 : LogAt(F, W, C, P, m)
  BY <1>3 DEF LogInv
<1>12. PICK m \in 0 .. RowsPerSlice - 1 : LogAt(F, W, C, P, m)
  BY <1>11
<1>13. TurnsApart(F, W, C, P)
  BY <1>11, <1>12, TurnSlices
<1>14. F < W /\ s = Place(F)
  BY <1>1, <1>5, <1>12 DEF LogAt, Stages
<1>15. F <= W /\ W <= C /\ C <= P /\ W <= F + 1 /\ P <= F + Slices /\ Slices \in Nat \ {0}
  BY <1>12, LogDBAssumption DEF LogAt, Turns
<1>16. PICK G \in Nat : G = F + 1
  BY <1>11
<1>17. /\ G = W /\ G <= C /\ G <= P /\ W <= G + 1 /\ P <= G + Slices /\ P # G + Slices /\ F \in F .. P - 1
       /\ \A k \in G .. P - 1 : k \in F .. P - 1 /\ k # F
       /\ \A k \in F .. P - 1 : k = F \/ k \in G .. P - 1
  BY <1>11, <1>14, <1>15, <1>16
<1>18. \A k \in F .. P - 1 : Place(k) \in SliceIds /\ (k # F => Place(k) # s)
  BY <1>13, <1>14, <1>17 DEF TurnsApart
<1>19. RowsAre(rows[s], F, RowsPerSlice) /\ rows[s] \in Seq(Nat) /\ RowsPerSlice \in Nat
  BY <1>1, <1>12, <1>14, <1>17, LogDBAssumption DEF LogAt, Contents, TypeInv, RowsFit
<1>20. file' \in Seq(Nat) /\ InFile(G)'
  <2>1. PICK r \in Seq(Nat) : r = rows[s]
    BY <1>19
  <2>2. file \in Seq(Nat) /\ IsLog(file, Begin(F)) /\ RowsAre(r, F, RowsPerSlice) /\ F \in Nat /\ RowsPerSlice \in Nat
    BY <1>4, <1>11, <1>12, <1>19, <2>1 DEF LogAt, InFile, Buffered
  <2>3. PICK g : g = file \o r
    OBVIOUS
  <2>4. g \in Seq(Nat) /\ IsLog(g, Begin(F) + RowsPerSlice)
    BY <2>1, <2>2, <2>3, TurnWritten
  <2>5. Begin(G) = Begin(F) + RowsPerSlice
    BY <1>11, <1>16, BeginIs
  <2> QED
    BY <1>6, <2>1, <2>3, <2>4, <2>5 DEF InFile
<1>21. Buffered'
  BY <1>2, <1>4, <1>9, <1>20 DEF Buffered
<1>22. Turns(G, W, C, P)'
  BY <1>2, <1>12, <1>17 DEF LogAt, Turns
<1>23. \A x \in SliceIds : ~Held(G, P, x) => ~Held(F, P, x) \/ x = s
  BY <1>14, <1>17 DEF Held
<1>24. Contents(G, P)'
  <2>1. \A k \in G .. P - 1 : RowsAre(rows'[Place(k)], k, RowsPerSlice)
    BY <1>10, <1>12, <1>17, <1>18 DEF LogAt, Contents
  <2>2. ASSUME NEW x \in SliceIds, ~Held(G, P, x), x # Place(P)
        PROVE  rows'[x] = << >>
    BY <1>10, <1>12, <1>23, <2>2 DEF LogAt, Contents
  <2> QED
    BY <2>1, <2>2 DEF Contents, Held
<1>25. Partial(G, P, m)'
  <2>1. added' = Begin(P) + m
    BY <1>2, <1>12 DEF LogAt, Partial
  <2>2. P < F + Slices \/ P = F + Slices
    BY <1>11, <1>15
  <2>3. CASE P < F + Slices
    <3>1. Place(P) \in SliceIds /\ Place(P) # s
      BY <1>13, <1>14, <1>17, <2>3 DEF TurnsApart
    <3> QED
      BY <1>10, <1>12, <1>17, <2>1, <2>3, <3>1 DEF LogAt, Partial
  <2>4. CASE P = F + Slices
    <3>1. Place(P) = s /\ m = 0
      BY <1>12, <1>13, <1>14, <2>4 DEF LogAt, Partial, TurnsApart
    <3>2. RowsAre(rows'[Place(P)], P, 0)
      BY <1>9, <1>10, <3>1 DEF RowsAre
    <3> QED
      BY <1>17, <2>1, <3>1, <3>2 DEF Partial
  <2> QED
    BY <2>2, <2>3, <2>4
<1>26. \A t \in Pool' : ~ToWrite(t) /\ (HasPacked(t) => t \in Pool /\ t.slice # s)
  <2>1. \A t \in Pool : t = tasks[i] \/ (~ToWrite(t) /\ t.slice # s)
    <3>1. \A t \in Pool : t = tasks[i] \/ t.slice # s
      BY <1>1, <1>5, PoolIs DEF TypeInv
    <3>2. \A t \in Pool : ToWrite(t) => t.slice = s
      BY <1>12, <1>14 DEF LogAt, Stages
    <3> QED
      BY <3>1, <3>2
  <2>2. tasks[i] \notin Pool'
    <3>1. tasks[i] # u
      BY <1>5, <1>8
    <3>2. ASSUME tasks[i] \in Pool'
          PROVE  FALSE
      <4>1. PICK j \in 1 .. Len(tasks') : tasks'[j] = tasks[i]
        BY <3>2 DEF Pool
      <4>2. Len(tasks') = Len(tasks) /\ \A l \in 1 .. Len(tasks) : l # i => tasks'[l] = tasks[l]
        BY <1>2, StepTasks DEF TypeInv, PoolInv, Sharing
      <4>3. tasks'[i].step = tasks[i].step + 1
        BY <1>2, StepTasks, TaskType DEF TypeInv, PoolInv, Sharing, Task
      <4>4. j # i
        BY <1>2, <4>1, <4>3
      <4>5. tasks[j] = tasks[i]
        BY <4>1, <4>2, <4>4
      <4> QED
        BY <4>2, <4>4, <4>5 DEF TypeInv, PoolInv, InPool
    <3> QED
      BY <3>2
  <2> QED
    BY <1>7, <1>8, <2>1, <2>2
<1>27. Stages(G, W, C, P)'
  <2>1. \A x \in SliceIds : ~Held(G, P, x) => state'[x] \in {"FREE", "DONE"}
    BY <1>2, <1>5, <1>12, <1>23 DEF LogAt, Stages
  <2>2. \A k \in G .. W - 1 : FALSE
    BY <1>17
  <2> QED
    BY <1>2, <1>12, <1>26, <2>1, <2>2 DEF LogAt, Stages, Held, ToWrite
<1>28. Compressed'
  <2>1. \A x \in SliceIds : x # s /\ PackedFor(x) => PackedFor(x)'
    BY <1>2, <1>10 DEF PackedFor
  <2>2. \A t \in Pool' : HasPacked(t) => PackedFor(t.slice)'
    BY <1>4, <1>26, <2>1, PoolIs DEF Compressed, TypeInv
  <2>3. \A x \in SliceIds : state'[x] = "PROCESS_DONE" => PackedFor(x)'
    BY <1>2, <1>4, <1>5, <2>1 DEF Compressed
  <2>4. \A x \in SliceIds : rows'[x] # << >> => first'[x] = rows'[x][1]
    BY <1>2, <1>4, <1>10 DEF Compressed
  <2> QED
    BY <2>2, <2>3, <2>4 DEF Compressed, HasPacked
<1>29. LogAt(G, W, C, P, m)'
  BY <1>20, <1>22, <1>24, <1>25, <1>27 DEF LogAt
<1> QED
  BY <1>3, <1>11, <1>12, <1>16, <1>21, <1>28, <1>29 DEF LogInv

-----------------------------------------------------------------------------
(* Closing the log.                                                        *)

\* The run from a turn on, and how long it is.
IsRunOf(r, k, S, n) ==
  /\ \A i \in 0 .. n - 1 : Place(k + i) \in S
  /\ n = Slices \/ Place(k + n) \notin S
  /\ r = [i \in 1 .. n |-> Place(k + (i - 1))]

(* What close's loops walk over: a run of slices with a state, from a turn *)
(* on.                                                                     *)
LEMMA RunIs ==
  ASSUME NEW k \in Nat, NEW S
  PROVE  \E n \in 0 .. Slices : IsRunOf(RunFrom(Place(k), S), k, S, n)
<1>1. PICK s \in Nat : s = Place(k)
  BY PlaceIs, LogDBAssumption DEF SliceIds
<1>2. Slices \in Nat \ {0}
  BY LogDBAssumption
<1>3. \A i \in Nat : (s + i) % Slices = Place(k + i)
  BY <1>1, PlaceAdd
<1> DEFINE T == {j \in 0 .. Slices : j = Slices \/ Place(k + j) \notin S}
<1>4. T \in SUBSET Nat /\ T # {}
  <2>1. Slices \in T
    BY <1>2
  <2> QED
    BY <2>1
<1>5. PICK n \in T : \A y \in T : n <= y
  BY <1>4, Smallest
<1>6. ASSUME NEW i \in 0 .. n - 1
      PROVE  Place(k + i) \in S
  <2>1. i \in 0 .. Slices /\ ~(n <= i)
    BY <1>2, <1>5
  <2> QED
    BY <1>5, <2>1
<1>7. n \in 0 .. Slices /\ (n = Slices \/ Place(k + n) \notin S)
  BY <1>5
<1> DEFINE IsRun(j) == /\ \A i \in 0 .. j - 1 : (s + i) % Slices \in S
                       /\ j = Slices \/ (s + j) % Slices \notin S
<1>8. \A j \in 0 .. Slices : IsRun(j) <=> /\ \A i \in 0 .. j - 1 : Place(k + i) \in S
                                          /\ j = Slices \/ Place(k + j) \notin S
  <2>1. \A j \in 0 .. Slices : j \in Nat /\ \A i \in 0 .. j - 1 : i \in Nat
    BY <1>2
  <2> QED
    BY <1>3, <2>1
<1>9. IsRun(n)
  BY <1>6, <1>7, <1>8
<1>10. PICK N : N = CHOOSE j \in 0 .. Slices : IsRun(j)
  OBVIOUS
<1>11. RunFrom(s, S) = [i \in 1 .. N |-> (s + i - 1) % Slices]
  BY <1>10 DEF RunFrom
<1> HIDE DEF IsRun, T
<1>12. N \in 0 .. Slices /\ IsRun(N)
  BY <1>7, <1>9, <1>10
<1>13. \A i \in 1 .. N : (s + i - 1) % Slices = Place(k + (i - 1))
  <2>1. \A i \in 1 .. N : i - 1 \in Nat /\ s + i - 1 = s + (i - 1)
    BY <1>1, <1>2, <1>12
  <2> QED
    BY <1>3, <2>1
<1>14. RunFrom(s, S) = [i \in 1 .. N |-> Place(k + (i - 1))]
  BY <1>11, <1>13
<1> QED
  BY <1>1, <1>8, <1>12, <1>14 DEF IsRunOf

(* The run is as long as the slices in that state are contiguous.          *)
LEMMA RunCovers ==
  ASSUME NEW k \in Nat, NEW S, NEW n \in 0 .. Slices, n = Slices \/ Place(k + n) \notin S,
         NEW d \in 0 .. Slices, \A j \in k .. k + d - 1 : Place(j) \in S
  PROVE  d <= n
<1>1. Slices \in Nat
  BY LogDBAssumption
<1>2. SUFFICES ASSUME n < d
               PROVE  FALSE
  BY <1>1
<1>3. k + n \in k .. k + d - 1 /\ n # Slices
  BY <1>1, <1>2
<1> QED
  BY <1>3

\* What Close does, with its local definitions named.
Ready == {s \in SliceIds : AtCloseReady(s)}
Handed == RunFrom(compress_slice, Ready)
HandedOver == {Handed[x] : x \in DOMAIN Handed}
Done == {s \in SliceIds : state[s] = "PROCESS_DONE"} \ Ready
Written == RunFrom(writeback_slice, Done \cup HandedOver)
DataOf(s) == IF s \in HandedOver THEN Read(s) ELSE Readable(s)

(* close writes what is ready, one slice after the other.                  *)
LEMMA CloseIs ==
  ASSUME Close
  PROVE  file' = (CHOOSE g : g = [n \in 0 .. Len(Written) |->
                                    IF n = 0 THEN file ELSE g[n - 1] \o DataOf(Written[n])])[Len(Written)]
BY DEF Close, Ready, Handed, HandedOver, Done, Written, DataOf, Fn!Range

\* The rows 1 .. n as a log.
Rows(n) == [i \in 1 .. n |-> i]

(* There is one log of a given length.                                     *)
LEMMA RowsAreALog ==
  ASSUME NEW n \in Nat
  PROVE  /\ Rows(n) \in Seq(Nat) /\ IsLog(Rows(n), n)
         /\ \A f \in Seq(Nat) : IsLog(f, n) => f = Rows(n)
<1>1. Rows(n) \in Seq(Nat) /\ Len(Rows(n)) = n /\ \A i \in 1 .. n : Rows(n)[i] = i
  BY DEF Rows
<1>2. ASSUME NEW f \in Seq(Nat), IsLog(f, n)
      PROVE  f = Rows(n)
  <2>1. Len(f) = Len(Rows(n)) /\ \A i \in 1 .. Len(f) : f[i] = Rows(n)[i]
    BY <1>1, <1>2 DEF IsLog
  <2> QED
    BY <1>1, <2>1, SeqEqual
<1> QED
  BY <1>1, <1>2 DEF IsLog

LogUpTo(f, W) == f \in Seq(Nat) /\ IsLog(f, Begin(W))
TurnsIn(d, W, P, N, m) ==
  /\ W \in Nat /\ P \in Nat /\ N \in Nat /\ m \in Nat /\ W <= P /\ W + N <= P + 1
  /\ d \in [1 .. N -> Seq(Nat)]
  /\ \A n \in 1 .. N : RowsAre(d[n], W + n - 1, IF W + n <= P THEN RowsPerSlice ELSE m)
Joined(f0, d, N) == CHOOSE h : h = [n \in 0 .. N |-> IF n = 0 THEN f0 ELSE h[n - 1] \o d[n]]

RowsUpto(W, n, P, m) == IF W + n <= P THEN Begin(W + n) ELSE Begin(P) + m

\* The turns from W on are written one after the other; the last may be short.
LEMMA AllWritten ==
  ASSUME NEW W, NEW P, NEW N, NEW m, NEW d, NEW f0, TurnsIn(d, W, P, N, m), LogUpTo(f0, W)
  PROVE  Joined(f0, d, N)[N] = Rows(RowsUpto(W, N, P, m))
<1> W \in Nat /\ P \in Nat /\ N \in Nat /\ m \in Nat /\ W <= P /\ W + N <= P + 1
    /\ d \in [1 .. N -> Seq(Nat)] /\ f0 \in Seq(Nat) /\ IsLog(f0, Begin(W))
  BY DEF TurnsIn, LogUpTo
<1>0. PICK g : g = Joined(f0, d, N)
  OBVIOUS
<1> DEFINE L(n) == IF W + n <= P THEN Begin(W + n) ELSE Begin(P) + m
<1>1. \A n \in 0 .. N : L(n) \in Nat
  <2>1. \A n \in 0 .. N : Begin(W + n) \in Nat
    <3>1. \A n \in 0 .. N : W + n \in Nat
      OBVIOUS
    <3> QED
      BY <3>1, BeginIs
  <2>2. Begin(P) + m \in Nat
    <3>1. PICK c \in Nat : c = Begin(P)
      BY BeginIs
    <3> QED
      BY <3>1
  <2> QED
    BY <2>1, <2>2
<1>2. ASSUME NEW n \in 1 .. N
      PROVE  Rows(L(n - 1)) \o d[n] = Rows(L(n))
  <2>1. PICK k \in Nat : k = W + n - 1
    OBVIOUS
  <2>2. n - 1 \in 0 .. N /\ n \in 0 .. N /\ k <= P /\ k = W + (n - 1) /\ W + n = k + 1
    BY <2>1
  <2>3. L(n - 1) = Begin(k)
    BY <2>2
  <2>4. PICK c \in Nat : c = IF W + n <= P THEN RowsPerSlice ELSE m
    BY LogDBAssumption
  <2>5. L(n) = Begin(k) + c
    <3>1. CASE W + n <= P
      BY <2>1, <2>2, <2>4, <3>1, BeginIs
    <3>2. CASE ~(W + n <= P)
      <4>1. k = P
        BY <2>1, <2>2, <3>2
      <4> QED
        BY <2>4, <3>2, <4>1
    <3> QED
      BY <3>1, <3>2
  <2>6. PICK l \in Nat : l = L(n - 1)
    BY <1>1, <2>2
  <2>7. PICK l2 \in Nat : l2 = L(n)
    BY <1>1, <2>2
  <2> HIDE DEF L
  <2>8. PICK r \in Seq(Nat) : r = d[n]
    OBVIOUS
  <2>9. PICK f \in Seq(Nat) : f = Rows(l) /\ IsLog(f, Begin(k))
    BY <2>3, <2>6, RowsAreALog
  <2>10. RowsAre(r, k, c)
    BY <2>1, <2>4, <2>8 DEF TurnsIn
  <2>11. f \o r \in Seq(Nat) /\ IsLog(f \o r, Begin(k) + c)
    BY <2>1, <2>4, <2>8, <2>9, <2>10, TurnWritten
  <2>12. f \o r = Rows(l2)
    BY <2>5, <2>7, <2>11, RowsAreALog
  <2> QED
    BY <2>6, <2>7, <2>8, <2>9, <2>12
<1>3. L(0) = Begin(W) /\ f0 = Rows(L(0))
  <2>1. W + 0 = W /\ L(0) = Begin(W) /\ Begin(W) \in Nat
    BY BeginIs
  <2> QED
    BY <2>1, RowsAreALog
<1>4. g[N] = Rows(L(N))
  <2> HIDE DEF L
  <2> DEFINE w == [n \in 0 .. N |-> Rows(L(n))]
  <2>1. w = [n \in 0 .. N |-> IF n = 0 THEN f0 ELSE w[n - 1] \o d[n]]
    <3>1. ASSUME NEW n \in 0 .. N
          PROVE  w[n] = IF n = 0 THEN f0 ELSE w[n - 1] \o d[n]
      <4>1. CASE n = 0
        BY <1>3, <4>1
      <4>2. CASE n # 0
        <5>1. n \in 1 .. N /\ n - 1 \in 0 .. N
          BY <4>2
        <5>2. w[n - 1] = Rows(L(n - 1)) /\ w[n] = Rows(L(n))
          BY <5>1
        <5> QED
          BY <1>2, <4>2, <5>1, <5>2
      <4> QED
        BY <4>1, <4>2
    <3>2. w = [n \in 0 .. N |-> w[n]]
      OBVIOUS
    <3> HIDE DEF w
    <3> QED
      BY <3>1, <3>2
  <2> HIDE DEF w
  <2>2. g = [n \in 0 .. N |-> IF n = 0 THEN f0 ELSE g[n - 1] \o d[n]]
    BY <1>0, <2>1 DEF Joined
  <2>2a. /\ g[0] = f0
         /\ \A n \in 1 .. N : g[n] = g[n - 1] \o d[n]
    <3>1. 0 \in 0 .. N /\ \A n \in 1 .. N : n \in 0 .. N /\ n # 0
      OBVIOUS
    <3>2. \A n \in 0 .. N : g[n] = IF n = 0 THEN f0 ELSE g[n - 1] \o d[n]
      BY <2>2, Zenon
    <3> QED
      BY <3>1, <3>2
  <2> DEFINE S == {n \in Nat : n <= N => g[n] = Rows(L(n))}
  <2>3. 0 \in S
    <3>1. g[0] = f0
      BY <2>2a
    <3> QED
      BY <1>3, <3>1
  <2>4. ASSUME NEW n \in Nat, n \in S
        PROVE  n + 1 \in S
    <3>1. CASE n + 1 <= N
      <4>1. PICK k \in 1 .. N : k = n + 1 /\ k - 1 = n /\ n <= N
        BY <3>1
      <4>2. g[k - 1] = Rows(L(k - 1))
        BY <2>4, <4>1
      <4>3. g[k] = g[k - 1] \o d[k]
        BY <2>2a, <4>1
      <4>4. g[k] = Rows(L(k))
        BY <1>2, <4>1, <4>2, <4>3
      <4> QED
        BY <4>1, <4>4
    <3>2. CASE ~(n + 1 <= N)
      BY <3>2
    <3> QED
      BY <3>1, <3>2
  <2> HIDE DEF S
  <2>5. N \in S
    BY <2>3, <2>4, Induction
  <2> QED
    BY <2>5 DEF S
<1> QED
  BY <1>0, <1>4 DEF RowsUpto

\* What is ready and what is done when the log is closed: together the turns
\* W .. Q - 1, where Q counts the slice being filled if it holds a row.
AtClose(W, C, P, Q) ==
  /\ W <= C /\ C <= P /\ P <= Q /\ Q <= W + Slices
  /\ \A k \in C .. Q - 1 : Place(k) \in Ready
  /\ \A s \in Ready : \E k \in W .. Q - 1 : s = Place(k)
  /\ P = W + Slices => Place(P) \in Ready /\ Place(P) = Place(W)
  /\ \A k \in W .. C - 1 : Place(k) \in Done \/ (k = W /\ P = W + Slices)
  /\ \A s \in Done : PackedFor(s) /\ \E k \in W .. Q - 1 : s = Place(k)

(* At close no task is left, so that every turn not written is ready or in *)
(* the hands of addData.                                                   *)
LEMMA ReadyAre ==
  ASSUME TypeInv, LogInv, pc = "run", tasks = << >>,
         NEW F \in Nat, NEW W \in Nat, NEW C \in Nat, NEW P \in Nat, NEW m \in 0 .. RowsPerSlice - 1,
         LogAt(F, W, C, P, m), NEW Q \in Nat, Q = IF m > 0 THEN P + 1 ELSE P
  PROVE  F = W /\ AtClose(W, C, P, Q)
<1>1. TurnsApart(F, W, C, P)
  BY TurnSlices
<1>2. F <= W /\ W <= C /\ C <= P /\ P <= F + Slices /\ process_slice = Place(P) /\ Slices \in Nat \ {0}
  BY LogDBAssumption DEF LogAt, Turns
<1>3. Pool = {} /\ \A s \in SliceIds : state[s] \notin {"PROCESSING", "DONE"}
  <2>1. Len(tasks) = 0
    BY EmptySeq
  <2> QED
    BY <2>1 DEF Pool, TypeInv, PoolInv, InPool
<1>4. F = W
  <2>1. ~(F \in F .. W - 1)
    BY <1>3 DEF LogAt, Stages
  <2> QED
    BY <1>2, <2>1
<1>5. /\ \A k \in W .. P - 1 : Place(k) \in SliceIds
      /\ \A k \in C .. P - 1 : state[Place(k)] = "PROCESS_READY"
      /\ \A k \in W .. C - 1 : k \in W .. P - 1 /\ state[Place(k)] = "PROCESS_DONE"
      /\ \A s \in SliceIds : state[s] # "FREE" => \E k \in W .. P - 1 : s = Place(k)
  <2>1. \A k \in W .. P - 1 : Place(k) \in SliceIds
    BY <1>1, <1>4 DEF TurnsApart
  <2>2. \A k \in W .. C - 1 : k \in W .. P - 1
    BY <1>2
  <2>3. \A k \in W .. C - 1 : state[Place(k)] = "PROCESS_DONE"
    BY <1>3, <2>1, <2>2 DEF LogAt, Stages
  <2>4. \A s \in SliceIds : state[s] # "FREE" => \E k \in W .. P - 1 : s = Place(k)
    BY <1>3, <1>4 DEF LogAt, Stages, Held
  <2> QED
    BY <2>1, <2>2, <2>3, <2>4 DEF LogAt, Stages
<1>6. P < W + Slices \/ (P = W + Slices /\ m = 0)
  BY <1>2, <1>4 DEF LogAt, Partial
<1>7. P <= Q /\ Q <= W + Slices /\ m \in Nat /\ (m = 0 => Q = P) /\ (m # 0 => Q = P + 1)
  BY <1>2, <1>4, <1>6
<1>8. \A k \in W .. P - 1 : k \in W .. Q - 1
  BY <1>7
<1>9. Place(P) \in SliceIds /\ rows[Place(P)] \in Seq(Nat)
  BY PlaceIs DEF TypeInv, RowsFit
<1>10. P < W + Slices => (rows[Place(P)] # << >> <=> m # 0)
  <2>1. P < W + Slices => Len(rows[Place(P)]) = m
    BY <1>4 DEF LogAt, Partial, RowsAre
  <2> QED
    BY <1>9, <2>1, EmptyIs
<1>11. P = W + Slices => rows[Place(P)] # << >> /\ Place(P) = Place(W) /\ W \in W .. P - 1
  <2>1. P = W + Slices => Place(P) = Place(W) /\ W \in F .. P - 1
    BY <1>1, <1>4 DEF TurnsApart
  <2>2. P = W + Slices => Len(rows[Place(P)]) = RowsPerSlice
    BY <2>1 DEF LogAt, Contents, RowsAre
  <2>3. RowsPerSlice # 0
    BY LogDBAssumption
  <2> QED
    BY <1>4, <1>9, <2>1, <2>2, <2>3, EmptyIs
<1>12. \A s : s \in Ready <=> s \in SliceIds /\ (state[s] = "PROCESS_READY" \/ (s = Place(P) /\ rows[s] # << >>))
  BY <1>2 DEF Ready, AtCloseReady
<1>13. \A k \in C .. Q - 1 : Place(k) \in Ready
  <2> SUFFICES ASSUME NEW k \in C .. Q - 1
               PROVE  Place(k) \in Ready
    OBVIOUS
  <2>1. k \in C .. P - 1 \/ (k = P /\ m # 0 /\ P < W + Slices)
    BY <1>2, <1>6, <1>7
  <2>2. CASE k \in C .. P - 1
    <3>1. k \in W .. P - 1
      BY <1>2, <2>2
    <3> QED
      BY <1>5, <1>12, <2>2, <3>1
  <2>3. CASE k = P /\ m # 0 /\ P < W + Slices
    BY <1>9, <1>10, <1>12, <2>3
  <2> QED
    BY <2>1, <2>2, <2>3
<1>14. ASSUME NEW s \in Ready
       PROVE  \E k \in W .. Q - 1 : s = Place(k)
  <2>1. s \in SliceIds /\ (state[s] = "PROCESS_READY" \/ (s = Place(P) /\ rows[s] # << >>))
    BY <1>12
  <2>2. CASE state[s] = "PROCESS_READY"
    BY <1>5, <1>8, <2>1, <2>2
  <2>3. CASE s = Place(P) /\ rows[s] # << >>
    <3>1. CASE P < W + Slices
      <4>1. m # 0
        BY <1>10, <2>3, <3>1
      <4>2. P \in W .. Q - 1
        BY <1>2, <1>7, <4>1
      <4> QED
        BY <2>3, <4>2
    <3>2. CASE P = W + Slices
      BY <1>8, <1>11, <2>3, <3>2
    <3> QED
      BY <1>6, <3>1, <3>2
  <2> QED
    BY <2>1, <2>2, <2>3
<1>15. P = W + Slices => Place(P) \in Ready
  BY <1>9, <1>11, <1>12
<1>16. ASSUME NEW k \in W .. C - 1
       PROVE  Place(k) \in Done \/ (k = W /\ P = W + Slices)
  <2> SUFFICES ASSUME Place(k) \in Ready
               PROVE  k = W /\ P = W + Slices
    BY <1>5 DEF Done
  <2>1. Place(k) = Place(P)
    BY <1>5, <1>12
  <2>2. k \in F .. P - 1
    BY <1>4, <1>5
  <2>3. P = W + Slices
    BY <1>1, <1>4, <1>6, <2>1, <2>2 DEF TurnsApart
  <2>4. Place(k) = Place(W) /\ W \in F .. P - 1
    BY <1>4, <1>11, <2>1, <2>3
  <2> QED
    BY <1>1, <2>2, <2>3, <2>4 DEF TurnsApart
<1>17. ASSUME NEW s \in Done
       PROVE  PackedFor(s) /\ \E k \in W .. Q - 1 : s = Place(k)
  <2>1. s \in SliceIds /\ state[s] = "PROCESS_DONE"
    BY DEF Done
  <2> QED
    BY <1>5, <1>8, <2>1 DEF LogInv, Compressed
<1> QED
  BY <1>2, <1>4, <1>7, <1>11, <1>13, <1>14, <1>15, <1>16, <1>17 DEF AtClose

WritesFrom(W, N) ==
  /\ Written = [i \in 1 .. N |-> Place(W + (i - 1))]
  /\ \A i \in 1 .. N : Place(W + (i - 1)) \in HandedOver \/ Place(W + (i - 1)) \in Done

(* The slices that close writes are those turns, in order.                 *)
LEMMA WrittenAre ==
  ASSUME TypeInv, NEW W \in Nat, NEW C \in Nat, NEW P \in Nat, NEW Q \in Nat,
         AtClose(W, C, P, Q), compress_slice = Place(C), writeback_slice = Place(W)
  PROVE  WritesFrom(W, Q - W)
<1>0. /\ W <= C /\ C <= P /\ P <= Q /\ Q <= W + Slices
      /\ \A k \in C .. Q - 1 : Place(k) \in Ready
      /\ \A s \in Ready : \E k \in W .. Q - 1 : s = Place(k)
      /\ P = W + Slices => Place(P) \in Ready /\ Place(P) = Place(W)
      /\ \A k \in W .. C - 1 : Place(k) \in Done \/ (k = W /\ P = W + Slices)
      /\ \A s \in Done : \E k \in W .. Q - 1 : s = Place(k)
  BY DEF AtClose
<1>1. Slices \in Nat \ {0}
  BY LogDBAssumption
<1>2. PICK n \in 0 .. Slices : /\ \A i \in 0 .. n - 1 : Place(C + i) \in Ready
                               /\ n = Slices \/ Place(C + n) \notin Ready
                               /\ Handed = [i \in 1 .. n |-> Place(C + (i - 1))]
  <2>1. \E n \in 0 .. Slices : IsRunOf(Handed, C, Ready, n)
    BY RunIs DEF Handed
  <2> QED
    BY <2>1 DEF IsRunOf
<1>3. HandedOver = {Place(C + (i - 1)) : i \in 1 .. n}
  BY <1>2 DEF HandedOver
<1>4. HandedOver \subseteq Ready
  <2>1. \A i \in 1 .. n : i - 1 \in 0 .. n - 1
    BY <1>0, <1>1
  <2> QED
    BY <1>2, <1>3, <2>1
<1>5. ASSUME NEW d \in 0 .. Slices, d <= n, NEW k \in C .. C + d - 1
      PROVE  Place(k) \in HandedOver
  <2>1. k - C + 1 \in 1 .. n /\ C + ((k - C + 1) - 1) = k
    BY <1>0, <1>1, <1>5
  <2> QED
    BY <1>3, <2>1
<1>6. \A k \in C .. Q - 1 : Place(k) \in HandedOver
  <2>1. PICK d \in 0 .. Slices : d = Q - C
    BY <1>0, <1>1
  <2>2. C + d = Q
    BY <2>1
  <2>3. d <= n
    BY <1>0, <1>2, <2>1, <2>2, RunCovers
  <2> QED
    BY <1>5, <2>2, <2>3
<1>7. ASSUME P = W + Slices, W \in W .. C - 1
      PROVE  Place(W) \in HandedOver
  <2>1. PICK d \in 0 .. Slices : d = P + 1 - C
    BY <1>0, <1>1, <1>7
  <2>2. C + d = P + 1 /\ P \in C .. C + d - 1 /\ P = Q /\ \A k \in C .. C + d - 1 : k \in C .. Q - 1 \/ k = P
    BY <1>0, <1>1, <1>7, <2>1
  <2>3. \A k \in C .. C + d - 1 : Place(k) \in Ready
    BY <1>0, <1>7, <2>2
  <2>4. d <= n
    BY <1>2, <2>3, RunCovers
  <2> QED
    BY <1>0, <1>5, <1>7, <2>2, <2>4
<1> DEFINE U == Done \cup HandedOver
<1>8. \A k \in W .. Q - 1 : Place(k) \in U
  <2> SUFFICES ASSUME NEW k \in W .. Q - 1
               PROVE  Place(k) \in U
    OBVIOUS
  <2>1. k \in C .. Q - 1 \/ k \in W .. C - 1
    BY <1>0, <1>1
  <2> QED
    BY <1>0, <1>6, <1>7, <2>1
<1>9. \A s \in U : \E k \in W .. Q - 1 : s = Place(k)
  BY <1>0, <1>4
<1>10. Written = RunFrom(Place(W), U)
  BY DEF Written
<1> HIDE DEF U
<1>11. PICK l \in 0 .. Slices : /\ \A i \in 0 .. l - 1 : Place(W + i) \in U
                                /\ l = Slices \/ Place(W + l) \notin U
                                /\ Written = [i \in 1 .. l |-> Place(W + (i - 1))]
  <2>1. \E l \in 0 .. Slices : IsRunOf(Written, W, U, l)
    BY <1>10, RunIs
  <2> QED
    BY <2>1 DEF IsRunOf
<1>12. PICK N \in 0 .. Slices : N = Q - W
  BY <1>0, <1>1
<1>13. N <= l
  <2>1. W + N = Q
    BY <1>12
  <2> QED
    BY <1>8, <1>11, <2>1, RunCovers
<1>14. ~(N < l)
  <2> SUFFICES ASSUME N < l
               PROVE  FALSE
    OBVIOUS
  <2>1. N \in 0 .. l - 1 /\ W + N = Q
    BY <1>12
  <2>2. PICK k \in W .. Q - 1 : Place(Q) = Place(k)
    BY <1>9, <1>11, <2>1
  <2>3. k \in Nat /\ k # Q /\ k - Q < Slices /\ Q - k < Slices
    BY <1>0, <1>1, <1>12, <2>1, <2>2
  <2> QED
    BY <2>2, <2>3, PlacesDiffer
<1>15. l = Q - W
  BY <1>0, <1>1, <1>11, <1>12, <1>13, <1>14
<1>16. ASSUME NEW i \in 1 .. Q - W
       PROVE  Place(W + (i - 1)) \in HandedOver \/ Place(W + (i - 1)) \in Done
  <2>1. W + (i - 1) \in W .. Q - 1
    OBVIOUS
  <2> QED
    BY <1>8, <2>1 DEF U
<1> QED
  BY <1>11, <1>15, <1>16 DEF WritesFrom

\* The close writes what is left, in order.
LEMMA CloseLog ==
  ASSUME ~RunsOver, TypeInv, LogInv, Close
  PROVE  LogInv'
<1>1. pc = "run" /\ tasks = << >> /\ pc' = "closed" /\ UNCHANGED << rows, packed, first, added, tasks >>
  BY DEF Close, infoVars
<1>2. Compressed /\ Buffered
  BY <1>1 DEF LogInv
<1>3. PICK F, W, C, P \in Nat : \E m \in 0 .. RowsPerSlice - 1 : LogAt(F, W, C, P, m)
  BY <1>1 DEF LogInv
<1>4. PICK m \in 0 .. RowsPerSlice - 1 : LogAt(F, W, C, P, m)
  BY <1>3
<1>5. PICK Q \in Nat : Q = IF m > 0 THEN P + 1 ELSE P
  BY <1>3, <1>4
<1>6. F = W /\ AtClose(W, C, P, Q)
  BY <1>1, <1>3, <1>4, <1>5, ReadyAre
<1>7. compress_slice = Place(C) /\ writeback_slice = Place(W)
  BY <1>4 DEF LogAt, Turns
<1>7a. W <= C /\ C <= P /\ P <= Q /\ Q <= W + Slices /\ \A s \in Done : PackedFor(s)
  BY <1>6 DEF AtClose
<1>8. PICK N \in Nat : N = Q - W
  BY <1>3, <1>5, <1>7a
<1>9. /\ Written = [i \in 1 .. N |-> Place(W + (i - 1))]
      /\ \A i \in 1 .. N : Place(W + (i - 1)) \in HandedOver \/ Place(W + (i - 1)) \in Done
  <2>1. WritesFrom(W, Q - W)
    BY <1>3, <1>5, <1>6, <1>7, WrittenAre
  <2> QED
    BY <1>8, <2>1 DEF WritesFrom
<1>10. Len(Written) = N /\ \A i \in 1 .. N : Written[i] = Place(W + (i - 1))
  BY <1>8, <1>9
<1>11. ASSUME NEW i \in 1 .. N
       PROVE  DataOf(Written[i]) = rows[Place(W + (i - 1))] /\ Place(W + (i - 1)) \in SliceIds
  <2>1. PICK k \in Nat : k = W + (i - 1)
    BY <1>3
  <2>2. Written[i] = Place(k) /\ Place(k) \in SliceIds /\ (Place(k) \in HandedOver \/ Place(k) \in Done)
    BY <1>9, <1>10, <2>1, PlaceIs
  <2>3. Place(k) \in HandedOver => DataOf(Place(k)) = rows[Place(k)]
    BY <1>2, <2>2, ReadIs DEF DataOf
  <2>4. Place(k) \notin HandedOver => DataOf(Place(k)) = rows[Place(k)]
    BY <1>7a, <2>2 DEF DataOf, Readable, PackedFor
  <2> QED
    BY <2>1, <2>2, <2>3, <2>4
<1>12. PICK d : d = [i \in 1 .. N |-> rows[Place(W + (i - 1))]]
  OBVIOUS
<1>13. d \in [1 .. N -> Seq(Nat)]
  BY <1>11, <1>12 DEF TypeInv, RowsFit
<1>14. PICK g : g = Joined(file, d, N)
  OBVIOUS
<1>15. file' = g[N]
  <2>1. \A n \in 1 .. N : DataOf(Written[n]) = d[n]
    BY <1>11, <1>12
  <2>2. \A n \in 0 .. N : n = 0 \/ n \in 1 .. N
    BY <1>8
  <2>3. \A h : [n \in 0 .. N |-> IF n = 0 THEN file ELSE h[n - 1] \o DataOf(Written[n])]
               = [n \in 0 .. N |-> IF n = 0 THEN file ELSE h[n - 1] \o d[n]]
    BY <2>1, <2>2
  <2>4. (CHOOSE h : h = [n \in 0 .. N |-> IF n = 0 THEN file ELSE h[n - 1] \o DataOf(Written[n])]) = g
    BY <1>14, <2>3 DEF Joined
  <2>5. file' = (CHOOSE h : h = [n \in 0 .. Len(Written) |->
                                   IF n = 0 THEN file ELSE h[n - 1] \o DataOf(Written[n])])[Len(Written)]
    BY CloseIs
  <2> QED
    BY <1>10, <2>4, <2>5
<1>16. ASSUME NEW n \in 1 .. N
       PROVE  RowsAre(d[n], W + n - 1, IF W + n <= P THEN RowsPerSlice ELSE m)
  <2>1. PICK k \in Nat : k = W + (n - 1) /\ k = W + n - 1
    BY <1>3
  <2>2. d[n] = rows[Place(k)]
    BY <1>12, <2>1
  <2>3. CASE W + n <= P
    <3>1. k \in F .. P - 1
      BY <1>3, <1>6, <1>7a, <2>1, <2>3
    <3> QED
      BY <1>4, <2>1, <2>2, <2>3, <3>1 DEF LogAt, Contents
  <2>4. CASE ~(W + n <= P)
    <3>1. k = P /\ m # 0
      BY <1>3, <1>4, <1>5, <1>6, <1>7a, <1>8, <2>1, <2>4
    <3>2. P < F + Slices
      BY <1>3, <1>4, <1>6, <1>7a, <3>1, LogDBAssumption DEF LogAt, Turns, Partial
    <3> QED
      BY <1>4, <2>1, <2>2, <2>4, <3>1, <3>2 DEF LogAt, Partial
  <2> QED
    BY <2>3, <2>4
<1>17. g[N] = Rows(IF W + N <= P THEN Begin(W + N) ELSE Begin(P) + m)
  <2>1. W + N <= P + 1 /\ W <= P /\ m \in Nat /\ file \in Seq(Nat) /\ IsLog(file, Begin(W))
    <3>1. W + N <= P + 1 /\ W <= P /\ m \in Nat
      BY <1>3, <1>4, <1>5, <1>6, <1>7a, <1>8
    <3> QED
      BY <1>2, <1>4, <1>6, <3>1 DEF LogAt, InFile, Buffered
  <2>2. W \in Nat /\ P \in Nat /\ N \in Nat
    BY <1>3, <1>8
  <2>3. TurnsIn(d, W, P, N, m)
    BY <1>13, <1>16, <2>1, <2>2 DEF TurnsIn
  <2>4. LogUpTo(file, W)
    BY <2>1 DEF LogUpTo
  <2>5. Joined(file, d, N)[N] = Rows(RowsUpto(W, N, P, m))
    BY <2>3, <2>4, AllWritten
  <2> QED
    BY <1>14, <2>5 DEF RowsUpto
<1>18. PICK a \in Nat : a = added
  BY DEF TypeInv, Counted
<1>19. (IF W + N <= P THEN Begin(W + N) ELSE Begin(P) + m) = a
  <2>1. a = Begin(P) + m
    BY <1>4, <1>18 DEF LogAt, Partial
  <2>2. PICK b \in Nat : b = Begin(P)
    BY <1>3, BeginIs
  <2>3. CASE W + N <= P
    <3>1. W + N = P /\ m = 0
      BY <1>3, <1>4, <1>5, <1>6, <1>7a, <1>8, <2>3
    <3> QED
      BY <2>1, <2>2, <2>3, <3>1
  <2>4. CASE ~(W + N <= P)
    BY <2>1, <2>4
  <2> QED
    BY <2>3, <2>4
<1>20. file' = Rows(a)
  BY <1>15, <1>17, <1>19
<1>21. file' \in Seq(Nat) /\ IsLog(file', a)
  BY <1>18, <1>20, RowsAreALog
<1>22. DOMAIN file' = 1 .. Len(file')
  BY <1>21
<1> QED
  BY <1>1, <1>2, <1>18, <1>21, <1>22 DEF LogInv, Buffered, FileIsLog, IsLog

(* The log starts empty.                                                   *)
LEMMA InitLog ==
  ASSUME Init
  PROVE  LogInv
<1>1. << >> \in Seq(Nat) /\ Len(<< >>) = 0 /\ Slices \in Nat \ {0} /\ RowsPerSlice \in Nat \ {0}
  BY EmptySeq, LogDBAssumption
<1>2. Place(0) = 0 /\ Begin(0) = 0 /\ 0 \in SliceIds
  <2>1. PICK q \in Nat \ {0} : q = Slices
    BY <1>1
  <2>2. 0 % q = 0
    BY <2>1, SMT
  <2> QED
    BY <2>1, <2>2, BeginIs DEF Place, SliceIds
<1>3. Buffered
  BY <1>1 DEF Init, Buffered, Torn
<1>4. Pool = {} /\ \A s \in SliceIds : rows[s] = << >> /\ state[s] = "FREE"
  BY <1>1 DEF Init, Pool
<1>5. Compressed
  BY <1>4 DEF Compressed
<1>6. 0 \in 0 .. RowsPerSlice - 1 /\ 0 + 0 = 0
  BY <1>1
<1>7. LogAt(0, 0, 0, 0, 0)
  <2>1. Turns(0, 0, 0, 0)
    BY <1>1, <1>2 DEF Init, Turns
  <2>2. Contents(0, 0)
    BY <1>4 DEF Contents
  <2>3. Partial(0, 0, 0)
    BY <1>1, <1>2, <1>4, <1>6 DEF Init, Partial, RowsAre
  <2>4. Stages(0, 0, 0, 0)
    BY <1>4 DEF Stages
  <2>5. InFile(0)
    BY <1>1, <1>2 DEF Init, InFile, IsLog
  <2> QED
    BY <2>1, <2>2, <2>3, <2>4, <2>5 DEF LogAt
<1> QED
  BY <1>3, <1>5, <1>6, <1>7 DEF Init, LogInv

(* Every step keeps the log.                                               *)
LEMMA NextLog ==
  ASSUME ~RunsOver, TypeInv, LogInv, [Next]_vars
  PROVE  LogInv'
<1>1. CASE AddData
  BY <1>1, QuietKeepsLog DEF AddData, infoVars
<1>2. CASE TestSlice
  BY <1>2, QuietKeepsLog DEF TestSlice, infoVars
<1>3. CASE SpuriousWakeup
  BY <1>3, QuietKeepsLog DEF SpuriousWakeup, infoVars
<1>4. CASE CopyRow
  BY <1>4, CopyRowLog
<1>5. CASE CheckCompress
  BY <1>5, CheckCompressLog
<1>6. CASE CheckWriteback
  BY <1>6, CheckWritebackLog
<1>7. CASE \E i \in 1 .. Len(tasks) : Compress(i)
  BY <1>7, CompressLog
<1>8. CASE \E i \in 1 .. Len(tasks) : WriteFile(i)
  BY <1>8, WriteFileLog
<1>9. CASE \E i \in 1 .. Len(tasks) : ClearIsWriting(i)
  BY <1>9, ClearIsWritingLog
<1>10. CASE \E i \in 1 .. Len(tasks) : Finish(i)
  BY <1>10, FinishLog
<1>11. CASE Close
  BY <1>11, CloseLog
<1>12. CASE UNCHANGED vars
  <2>1. CASE pc = "closed"
    BY <1>12, <2>1 DEF vars, infoVars, LogInv, Buffered, FileIsLog
  <2>2. CASE pc # "closed"
    BY <1>12, <2>2, QuietKeepsLog DEF vars, infoVars
  <2> QED
    BY <2>1, <2>2
<1> QED
  BY <1>1, <1>2, <1>3, <1>4, <1>5, <1>6, <1>7, <1>8, <1>9, <1>10, <1>11, <1>12 DEF Next

(* The file is the log: every row once, intact and in the order of addData,  *)
(* and all of them when the log is closed, through every interleaving of the *)
(* simulation thread with the tasks of the pool. The assumption is that a    *)
(* slice ends with its last row; with RunsOver it fails (run logdb_overrun). *)
THEOREM LogIsIntact ==
  ASSUME ~RunsOver
  PROVE  Spec => []FileIsLog
<1>1. Init => TypeInv /\ LogInv
  BY InitTyped, InitLog
<1>2. TypeInv /\ LogInv /\ [Next]_vars => TypeInv' /\ LogInv'
  BY NextTyped, NextLog
<1>3. TypeInv /\ LogInv => FileIsLog
  <2> SUFFICES ASSUME TypeInv, LogInv
               PROVE  FileIsLog
    OBVIOUS
  <2>1. CASE pc = "closed"
    BY <2>1 DEF LogInv
  <2>2. CASE pc # "closed"
    <3>1. file \in Seq(Nat) /\ \A i \in 1 .. Len(file) : file[i] = i
      BY <2>2 DEF LogInv, LogAt, InFile, IsLog, Buffered
    <3> QED
      BY <2>2, <3>1 DEF FileIsLog
  <2> QED
    BY <2>1, <2>2
<1> QED
  BY <1>1, <1>2, <1>3, PTL DEF Spec

-----------------------------------------------------------------------------
(* The log as its callers see it: RowLog.                                  *)

(* A ring of turns has Slices * RowsPerSlice rows.                         *)
LEMMA RingOfRows ==
  ASSUME NEW F \in Nat, NEW P \in Nat, NEW m \in Nat, P < F + Slices, m < RowsPerSlice
  PROVE  Begin(P) + m < Begin(F) + Slices * RowsPerSlice
<1>1. PICK q \in Nat \ {0} : q = RowsPerSlice
  BY LogDBAssumption
<1>2. PICK z \in Nat : z = Slices
  BY LogDBAssumption
<1>3. PICK d \in Nat : F + z = (P + 1) + d
  <2>1. F + z - (P + 1) \in Nat /\ F + z = (P + 1) + (F + z - (P + 1))
    BY <1>2
  <2> QED
    BY <2>1
<1>4. (F + z) * q = F * q + z * q /\ ((P + 1) + d) * q = P * q + q + d * q
  BY SMT
<1>5. d * q \in Nat /\ P * q \in Nat /\ F * q \in Nat /\ z * q \in Nat
  BY SMT
<1>6. P * q + q <= F * q + z * q
  BY <1>1, <1>3, <1>4, <1>5
<1>7. P * q + m < F * q + z * q
  BY <1>1, <1>5, <1>6
<1> QED
  BY <1>1, <1>2, <1>7 DEF Begin

(* A log with its rows in order is the rows up to its length.              *)
LEMMA LogIsRows ==
  ASSUME NEW f \in Seq(Nat), NEW n \in Nat, IsLog(f, n)
  PROVE  f = Log!FirstRows(n)
  BY DEF IsLog, Log!FirstRows

(* addData adds a row only to a slice that is not held back.               *)
LEMMA CopyRowAdds ==
  ASSUME TypeInv, LogInv, CopyRow
  PROVE  Log!Add
<1>1. pc = "copy" /\ pc' = "checkC" /\ added' = added + 1 /\ file' = file
  BY DEF CopyRow
<1>2. PICK F, W, C, P \in Nat : \E m \in 0 .. RowsPerSlice - 1 : LogAt(F, W, C, P, m)
  BY <1>1 DEF LogInv
<1>3. PICK m \in 0 .. RowsPerSlice - 1 : LogAt(F, W, C, P, m)
  BY <1>2
<1>4. TurnsApart(F, W, C, P) /\ process_slice = Place(P) /\ P <= F + Slices /\ added = Begin(P) + m
      /\ Len(file) = Begin(F)
  BY <1>2, <1>3, TurnSlices DEF LogAt, Turns, Partial, InFile, IsLog
<1>5. P # F + Slices
  <2>1. state[Place(P)] = "FREE"
    BY <1>1, <1>4 DEF TypeInv, PoolInv, Filling
  <2> QED
    BY <1>4, <2>1 DEF TurnsApart
<1>6. m \in Nat /\ m < RowsPerSlice /\ P < F + Slices
  BY <1>2, <1>3, <1>4, <1>5, LogDBAssumption
<1>7. added < Len(file) + Slices * RowsPerSlice
  BY <1>2, <1>4, <1>6, RingOfRows
<1> QED
  BY <1>1, <1>7 DEF Log!Add

(* The slice whose rows a task writes is full.                             *)
LEMMA WritesSlice ==
  ASSUME TypeInv, LogInv, NEW i \in 1 .. Len(tasks), WriteFile(i)
  PROVE  pc # "closed" /\ Len(file') = Len(file) + RowsPerSlice
<1>1. PICK s \in SliceIds : s = tasks[i].slice
  BY TaskSlices DEF TypeInv
<1>2. tasks[i].op = "write" /\ tasks[i].step = 1 /\ file' = file \o Readable(s)
  BY <1>1 DEF WriteFile
<1>3. pc # "closed"
  <2>1. tasks # << >>
    BY DEF TypeInv, PoolInv, Sharing
  <2> QED
    BY <2>1 DEF LogInv
<1>4. Compressed /\ Buffered
  BY <1>3 DEF LogInv
<1>5. tasks[i] \in Pool /\ ToWrite(tasks[i]) /\ HasPacked(tasks[i])
  BY <1>2 DEF Pool, ToWrite, HasPacked
<1>6. file' = file \o rows[s]
  BY <1>1, <1>2, <1>4, <1>5 DEF Compressed, PackedFor, Readable
<1>7. PICK F, W, C, P \in Nat : \E m \in 0 .. RowsPerSlice - 1 : LogAt(F, W, C, P, m)
  BY <1>3 DEF LogInv
<1>8. PICK m \in 0 .. RowsPerSlice - 1 : LogAt(F, W, C, P, m)
  BY <1>7
<1>9. F < W /\ s = Place(F) /\ W <= C /\ C <= P
  BY <1>1, <1>5, <1>8 DEF LogAt, Stages, Turns
<1>10. F \in F .. P - 1
  BY <1>7, <1>9
<1>11. Len(rows[s]) = RowsPerSlice
  BY <1>8, <1>9, <1>10 DEF LogAt, Contents, RowsAre
<1>12. file \in Seq(Nat) /\ rows[s] \in Seq(Nat)
  BY <1>1, <1>4 DEF Buffered, TypeInv, RowsFit
<1>13. Len(file \o rows[s]) = Len(file) + Len(rows[s])
  BY <1>12, ConcatProperties
<1> QED
  BY <1>3, <1>6, <1>11, <1>13

(* and they are the next ones, all of them added.                          *)
LEMMA WriteFileWrites ==
  ASSUME TypeInv, LogInv, LogInv', NEW i \in 1 .. Len(tasks), WriteFile(i)
  PROVE  Log!Write
<1>1. pc # "closed" /\ Len(file') = Len(file) + RowsPerSlice /\ pc' = pc /\ added' = added
  BY WritesSlice DEF WriteFile
<1>2. file' \in Seq(Nat) /\ file \in Seq(Nat)
  BY DEF LogInv, Buffered
<1>3. \E F, W, C, P \in Nat : \E m \in 0 .. RowsPerSlice - 1 : LogAt(F, W, C, P, m)'
  BY <1>1 DEF LogInv
<1>4. PICK F, W, C, P \in Nat : \E m \in 0 .. RowsPerSlice - 1 : LogAt(F, W, C, P, m)'
  BY <1>3
<1>5. PICK m \in 0 .. RowsPerSlice - 1 : LogAt(F, W, C, P, m)'
  BY <1>4
<1>6. /\ F <= P /\ added' = Begin(P) + m
      /\ IsLog(file', Begin(F))
  BY <1>4, <1>5 DEF LogAt, Turns, Partial, InFile
<1>7. Begin(F) \in Nat /\ Begin(P) \in Nat /\ Begin(F) <= Begin(P)
  <2>1. PICK q \in Nat \ {0} : q = RowsPerSlice
    BY LogDBAssumption
  <2>2. PICK d \in Nat : P = F + d
    <3>1. P - F \in Nat /\ P = F + (P - F)
      BY <1>4, <1>6
    <3> QED
      BY <3>1
  <2>3. (F + d) * q = F * q + d * q /\ d * q \in Nat /\ F * q \in Nat
    BY SMT
  <2>4. P * q = F * q + d * q
    BY <2>2, <2>3
  <2> QED
    BY <2>1, <2>3, <2>4 DEF Begin
<1>8. PICK n \in Nat : n = Begin(F)
  BY <1>7
<1>9. PICK l \in Nat : l = Len(file)
  BY <1>2
<1>10. n = l + RowsPerSlice
  BY <1>1, <1>6, <1>8, <1>9 DEF IsLog
<1>11. file' = Log!FirstRows(Len(file) + RowsPerSlice)
  <2>1. PICK f \in Seq(Nat) : f = file'
    BY <1>2
  <2>2. f = Log!FirstRows(n)
    BY <1>6, <1>8, <2>1, LogIsRows
  <2> QED
    BY <1>9, <1>10, <2>1, <2>2
<1>12. Len(file) + RowsPerSlice <= added
  <2>1. PICK a : a = added /\ a = Begin(P) + m
    BY <1>1, <1>6
  <2>2. m \in Nat
    BY <1>5, LogDBAssumption
  <2> QED
    BY <1>7, <1>8, <1>9, <1>10, <2>1, <2>2
<1> QED
  BY <1>1, <1>11, <1>12 DEF Log!Write

(* close writes the rest.                                                  *)
LEMMA CloseCloses ==
  ASSUME TypeInv, LogInv', Close
  PROVE  Log!Close
<1>1. pc = "run" /\ pc' = "closed" /\ added' = added
  BY DEF Close
<1>2. PICK f \in Seq(Nat) : f = file'
  BY DEF LogInv, Buffered
<1>3. PICK a \in Nat : a = added
  BY DEF TypeInv, Counted
<1>4. IsLog(f, a)
  <2>1. FileIsLog' /\ DOMAIN f = 1 .. Len(f)
    BY <1>1 DEF LogInv
  <2>2. Len(f) = a /\ \A i \in DOMAIN f : f[i] = i
    BY <1>1, <1>2, <1>3, <2>1 DEF FileIsLog
  <2> QED
    BY <2>1, <2>2 DEF IsLog
<1>5. file' = Log!FirstRows(added)
  BY <1>2, <1>3, <1>4, LogIsRows
<1> QED
  BY <1>1, <1>5 DEF Log!Close

(* To the callers of addData and close, LogDB is RowLog: the file grows by   *)
(* a slice of rows at a time, in order, addData never runs ahead of it by    *)
(* more than the ring, and close writes what is left and ends the log. As in *)
(* LogIsIntact, a slice has to end with its last row.                        *)
THEOREM LogRefinement ==
  ASSUME ~RunsOver
  PROVE  Spec => ImplementsLog
<1>1. Init => TypeInv /\ LogInv
  BY InitTyped, InitLog
<1>2. TypeInv /\ LogInv /\ [Next]_vars => TypeInv' /\ LogInv'
  BY NextTyped, NextLog
<1>3. Init => Log!Init
  BY DEF Init, Log!Init
<1>4. TypeInv /\ LogInv /\ LogInv' /\ [Next]_vars => [Log!Next]_(Log!vars)
  <2> SUFFICES ASSUME TypeInv, LogInv, LogInv', [Next]_vars
               PROVE  Log!Next \/ UNCHANGED << added, file, (pc = "closed") >>
    BY DEF Log!vars
  <2>1. CASE CopyRow
    BY <2>1, CopyRowAdds DEF Log!Next
  <2>2. CASE \E i \in 1 .. Len(tasks) : WriteFile(i)
    BY <2>2, WriteFileWrites DEF Log!Next
  <2>3. CASE Close
    BY <2>3, CloseCloses DEF Log!Next
  <2>4. CASE AddData \/ TestSlice \/ SpuriousWakeup \/ CheckCompress \/ CheckWriteback
    BY <2>4 DEF AddData, TestSlice, SpuriousWakeup, CheckCompress, CheckWriteback, AfterCompress, AfterWriteback
  <2>5. CASE \E i \in 1 .. Len(tasks) : Compress(i) \/ ClearIsWriting(i) \/ Finish(i)
    BY <2>5 DEF Compress, ClearIsWriting, Finish, Notify
  <2>6. CASE UNCHANGED vars
    BY <2>6 DEF vars
  <2> QED
    BY <2>1, <2>2, <2>3, <2>4, <2>5, <2>6 DEF Next
<1> QED
  BY <1>1, <1>2, <1>3, <1>4, PTL DEF Spec, ImplementsLog, Log!Spec

-----------------------------------------------------------------------------
(* The wait that no task ends (run logdb_wakeup): what it is that nobody    *)
(* does. A full slice is handed on by the next check, so that none is ready *)
(* when addData waits; the tasks have ended; so the slice it waits for is   *)
(* compressed, and the write that would free it is not submitted.           *)

Stuck == pc = "wait" /\ tasks = << >>

NoneReady == \A s \in SliceIds : state[s] # "PROCESS_READY"
HandedOn ==
  \/ process_slice = compress_slice /\ NoneReady
  \/ /\ pc = "checkC" /\ process_slice = Succ(compress_slice) /\ state[compress_slice] = "PROCESS_READY"
     /\ \A s \in SliceIds : s # compress_slice => state[s] # "PROCESS_READY"
WaitsForSlice == pc = "wait" => state[process_slice] # "FREE"
WriterRuns == is_writing => \E i \in 1 .. Len(tasks) : Writing(tasks[i])

WaitInv == HandedOn /\ WaitsForSlice /\ WriterRuns

(* A task that does not end keeps what waits as it is.                     *)
LEMMA StepKeepsWait ==
  ASSUME PoolInv, WaitInv, NEW i \in 1 .. Len(tasks), Step(i), tasks[i].step \in {1, 2},
         is_writing' => is_writing /\ (Writing(tasks[i]) => tasks[i].step = 1),
         UNCHANGED << state, ringVars, pc >>
  PROVE  WaitInv'
<1>1. HandedOn' /\ WaitsForSlice'
  BY DEF WaitInv, HandedOn, NoneReady, WaitsForSlice, ringVars
<1>2. /\ Len(tasks') = Len(tasks)
      /\ \A j \in 1 .. Len(tasks) : j # i => tasks'[j] = tasks[j]
      /\ tasks'[i] = [tasks[i] EXCEPT !.step = @ + 1]
  BY StepTasks DEF PoolInv, Sharing
<1>3. tasks'[i].op = tasks[i].op /\ tasks'[i].step = tasks[i].step + 1
  BY <1>2, TaskType DEF PoolInv, Sharing, Task
<1>4. ASSUME is_writing'
      PROVE  \E j \in 1 .. Len(tasks') : Writing(tasks'[j])
  <2>1. PICK j \in 1 .. Len(tasks) : Writing(tasks[j])
    BY <1>4 DEF WaitInv, WriterRuns
  <2>2. CASE j = i
    <3>1. tasks[i].op = "write" /\ tasks[i].step = 1
      BY <1>4, <2>1, <2>2 DEF Writing
    <3>2. tasks'[i].op = "write" /\ tasks'[i].step = 2
      BY <1>3, <3>1
    <3> QED
      BY <1>2, <3>2 DEF Writing
  <2>3. CASE j # i
    BY <1>2, <2>1, <2>3
  <2> QED
    BY <2>2, <2>3
<1> QED
  BY <1>1, <1>4 DEF WaitInv, WriterRuns

(* The end of a task wakes addData, and takes no writer away.              *)
LEMMA FinishKeepsWait ==
  ASSUME PoolInv, WaitInv, NEW i \in 1 .. Len(tasks), Finish(i)
  PROVE  WaitInv'
<1>1. PICK s \in SliceIds : s = tasks[i].slice
  BY TaskSlices
<1>2. /\ state' = [state EXCEPT ![s] = NextState(tasks[i])] /\ End(i) /\ LastStep(tasks[i])
      /\ pc' = IF pc = "wait" THEN "wokenC" ELSE pc
      /\ UNCHANGED << process_slice, compress_slice, is_writing >>
  BY <1>1 DEF Finish, Notify, ringVars
<1>3. state'[s] \in {"PROCESS_DONE", "FREE"} /\ \A r \in SliceIds : r # s => state'[r] = state[r]
  BY <1>1, <1>2 DEF PoolInv, Sharing, NextState
<1>4. state[s] # "PROCESS_READY" /\ compress_slice \in SliceIds
  BY <1>1, TaskSlices DEF PoolInv, Indices
<1>5. HandedOn'
  <2>1. CASE process_slice = compress_slice /\ NoneReady
    BY <1>2, <1>3, <2>1 DEF HandedOn, NoneReady
  <2>2. CASE ~(process_slice = compress_slice /\ NoneReady)
    <3>1. /\ pc = "checkC" /\ process_slice = Succ(compress_slice) /\ state[compress_slice] = "PROCESS_READY"
          /\ \A r \in SliceIds : r # compress_slice => state[r] # "PROCESS_READY"
      BY <2>2 DEF WaitInv, HandedOn
    <3>2. compress_slice # s
      BY <1>4, <3>1
    <3> QED
      BY <1>2, <1>3, <1>4, <3>1, <3>2 DEF HandedOn, Succ
  <2> QED
    BY <2>1, <2>2
<1>6. WaitsForSlice'
  BY <1>2 DEF WaitsForSlice
<1>7. ASSUME is_writing'
      PROVE  \E j \in 1 .. Len(tasks') : Writing(tasks'[j])
  <2>1. PICK j \in 1 .. Len(tasks) : Writing(tasks[j])
    BY <1>2, <1>7 DEF WaitInv, WriterRuns
  <2>2. j # i
    BY <1>2, <2>1 DEF Writing, LastStep
  <2>3. /\ Len(tasks') = Len(tasks) - 1 /\ Len(tasks) \in Nat
        /\ \A k \in 1 .. Len(tasks) - 1 : tasks'[k] = tasks[IF k < i THEN k ELSE k + 1]
    BY <1>2, EndTasks DEF PoolInv, Sharing
  <2>4. CASE j < i
    <3>1. j \in 1 .. Len(tasks) - 1 /\ tasks'[j] = tasks[j]
      BY <2>3, <2>4
    <3> QED
      BY <2>1, <2>3, <3>1
  <2>5. CASE j > i
    <3>1. PICK k \in 1 .. Len(tasks) - 1 : k = j - 1 /\ ~(k < i) /\ k + 1 = j
      BY <2>3, <2>5
    <3>2. tasks'[k] = tasks[j]
      BY <2>3, <3>1
    <3> QED
      BY <2>1, <2>3, <3>1, <3>2
  <2> QED
    BY <2>2, <2>4, <2>5
<1> QED
  BY <1>5, <1>6, <1>7 DEF WaitInv, WriterRuns

(* Every step keeps the invariant of the wait.                             *)
LEMMA NextWait ==
  ASSUME PoolInv, WaitInv, [Next]_vars
  PROVE  WaitInv'
<1>1. CASE AddData \/ SpuriousWakeup \/ Close \/ UNCHANGED vars
  BY <1>1 DEF AddData, SpuriousWakeup, Close, vars, infoVars, ringVars, WaitInv, HandedOn, NoneReady,
              WaitsForSlice, WriterRuns
<1>2. CASE TestSlice
  BY <1>2 DEF TestSlice, infoVars, ringVars, WaitInv, HandedOn, NoneReady, WaitsForSlice, WriterRuns
<1>3. CASE CopyRow
  <2>1. PICK s \in SliceIds : s = process_slice
    BY DEF PoolInv, Indices
  <2>2. /\ pc = "copy" /\ pc' = "checkC" /\ compress_slice' = compress_slice
        /\ is_writing' = is_writing /\ tasks' = tasks
    BY <1>3 DEF CopyRow
  <2>3. s = compress_slice /\ NoneReady
    BY <2>1, <2>2 DEF WaitInv, HandedOn
  <2>4. \/ state' = [state EXCEPT ![s] = "PROCESS_READY"] /\ process_slice' = Succ(s)
        \/ state' = state /\ process_slice' = s
    BY <1>3, <2>1 DEF CopyRow, FillsSlice
  <2>5. HandedOn'
    <3>1. CASE state' = [state EXCEPT ![s] = "PROCESS_READY"] /\ process_slice' = Succ(s)
      <4>1. state'[s] = "PROCESS_READY" /\ \A r \in SliceIds : r # s => state'[r] # "PROCESS_READY"
        BY <2>3, <3>1 DEF PoolInv, Sharing, NoneReady
      <4> QED
        BY <2>2, <2>3, <3>1, <4>1 DEF HandedOn, Succ
    <3>2. CASE state' = state /\ process_slice' = s
      BY <2>2, <2>3, <3>2 DEF HandedOn, NoneReady
    <3> QED
      BY <2>4, <3>1, <3>2
  <2>6. WaitsForSlice' /\ WriterRuns'
    BY <2>2 DEF WaitInv, WaitsForSlice, WriterRuns
  <2> QED
    BY <2>5, <2>6 DEF WaitInv
<1>4. CASE CheckCompress
  <2>1. PICK s \in SliceIds : s = compress_slice
    BY DEF PoolInv, Indices
  <2>2. /\ pc \in {"wokenC", "checkC"} /\ pc' \in {"wokenW", "checkW"}
        /\ process_slice' = process_slice /\ is_writing' = is_writing
    BY <1>4 DEF CheckCompress, AfterCompress
  <2>3. WaitsForSlice'
    BY <2>2 DEF WaitsForSlice
  <2>4. CASE state[s] = "PROCESS_READY"
    <3>1. state' = [state EXCEPT ![s] = "PROCESSING"] /\ Submit("compress", s) /\ compress_slice' = Succ(s)
      BY <1>4, <2>1, <2>4 DEF CheckCompress
    <3>2. process_slice = Succ(s) /\ \A r \in SliceIds : r # s => state[r] # "PROCESS_READY"
      BY <2>1, <2>4 DEF WaitInv, HandedOn, NoneReady
    <3>3. \A r \in SliceIds : state'[r] # "PROCESS_READY"
      BY <3>1, <3>2 DEF PoolInv, Sharing
    <3>4. HandedOn'
      BY <2>2, <3>1, <3>2, <3>3 DEF HandedOn, NoneReady
    <3>5. Len(tasks') = Len(tasks) + 1 /\ Len(tasks) \in Nat /\ \A i \in 1 .. Len(tasks) : tasks'[i] = tasks[i]
      <4>1. tasks \in Seq(Task) /\ Submit("compress", s) /\ s \in SliceIds
        BY <3>1 DEF PoolInv, Sharing
      <4>2. Len(tasks') = Len(tasks) + 1 /\ \A i \in 1 .. Len(tasks) : tasks'[i] = tasks[i]
        BY <4>1, SubmitTasks
      <4>3. Len(tasks) \in Nat
        BY <4>1
      <4> QED
        BY <4>2, <4>3
    <3>6. \A i \in 1 .. Len(tasks) : i \in 1 .. Len(tasks')
      BY <3>5
    <3>7. WriterRuns'
      BY <2>2, <3>5, <3>6 DEF WaitInv, WriterRuns
    <3> QED
      BY <2>3, <3>4, <3>7 DEF WaitInv
  <2>5. CASE state[s] # "PROCESS_READY"
    <3>1. UNCHANGED << state, tasks, compress_slice >>
      BY <1>4, <2>1, <2>5 DEF CheckCompress
    <3>2. process_slice = compress_slice /\ NoneReady
      BY <2>1, <2>5 DEF WaitInv, HandedOn
    <3>3. HandedOn' /\ WriterRuns'
      BY <2>2, <3>1, <3>2 DEF WaitInv, HandedOn, NoneReady, WriterRuns
    <3> QED
      BY <2>3, <3>3 DEF WaitInv
  <2> QED
    BY <2>4, <2>5
<1>5. CASE CheckWriteback
  <2>1. PICK s \in SliceIds : s = writeback_slice
    BY DEF PoolInv, Indices
  <2>2. /\ pc \in {"wokenW", "checkW"} /\ pc' \in {"test", "run"}
        /\ process_slice' = process_slice /\ compress_slice' = compress_slice
    BY <1>5 DEF CheckWriteback, AfterWriteback
  <2>3. WaitsForSlice' /\ process_slice = compress_slice /\ NoneReady
    BY <2>2 DEF WaitsForSlice, WaitInv, HandedOn
  <2>4. CASE CanWriteback
    <3>1. state' = [state EXCEPT ![s] = "DONE"] /\ Submit("write", s)
      BY <1>5, <2>1, <2>4 DEF CheckWriteback
    <3>2. \A r \in SliceIds : state'[r] # "PROCESS_READY"
      BY <2>3, <3>1 DEF PoolInv, Sharing, NoneReady
    <3>3. HandedOn'
      BY <2>2, <2>3, <3>2 DEF HandedOn, NoneReady
    <3>4. Len(tasks') = Len(tasks) + 1 /\ Len(tasks) \in Nat
          /\ tasks'[Len(tasks) + 1] = [op |-> "write", slice |-> s, step |-> 1]
      BY <2>1, <3>1, SubmitTasks DEF PoolInv, Sharing
    <3>5. Len(tasks) + 1 \in 1 .. Len(tasks') /\ Writing(tasks'[Len(tasks) + 1])
      BY <3>4 DEF Writing
    <3> QED
      BY <2>3, <3>3, <3>5 DEF WaitInv, WriterRuns
  <2>5. CASE ~CanWriteback
    <3>1. UNCHANGED << is_writing, state, tasks >>
      BY <1>5, <2>5 DEF CheckWriteback
    <3>2. HandedOn' /\ WriterRuns'
      BY <2>2, <2>3, <3>1 DEF WaitInv, HandedOn, NoneReady, WriterRuns
    <3> QED
      BY <2>3, <3>2 DEF WaitInv
  <2> QED
    BY <2>4, <2>5
<1>6. ASSUME NEW i \in 1 .. Len(tasks), Compress(i)
      PROVE  WaitInv'
  BY <1>6, StepKeepsWait DEF Compress, Writing
<1>7. ASSUME NEW i \in 1 .. Len(tasks), WriteFile(i)
      PROVE  WaitInv'
  BY <1>7, StepKeepsWait DEF WriteFile
<1>8. ASSUME NEW i \in 1 .. Len(tasks), ClearIsWriting(i)
      PROVE  WaitInv'
  BY <1>8, StepKeepsWait DEF ClearIsWriting, infoVars
<1>9. ASSUME NEW i \in 1 .. Len(tasks), Finish(i)
      PROVE  WaitInv'
  BY <1>9, FinishKeepsWait
<1> QED
  BY <1>1, <1>2, <1>3, <1>4, <1>5, <1>6, <1>7, <1>8, <1>9 DEF Next

(* Nothing waits at the start.                                             *)
LEMMA InitWait == Init => WaitInv
  BY DEF Init, WaitInv, HandedOn, NoneReady, WaitsForSlice, WriterRuns

(* A slice that is waited for when no task is left has been compressed, and *)
(* nobody writes.                                                           *)
LEMMA StuckIs ==
  ASSUME PoolInv, WaitInv, Stuck
  PROVE  state[process_slice] = "PROCESS_DONE" /\ ~is_writing
<1>1. Len(tasks) = 0 /\ \A i \in 1 .. Len(tasks) : FALSE
  BY DEF Stuck
<1>2. ~is_writing
  BY <1>1 DEF WaitInv, WriterRuns
<1>3. process_slice \in SliceIds /\ state[process_slice] \in States
  BY DEF PoolInv, Indices, Sharing
<1>4. state[process_slice] \notin {"PROCESSING", "DONE"}
  BY <1>1, <1>3 DEF PoolInv, InPool
<1>5. state[process_slice] \notin {"FREE", "PROCESS_READY"}
  BY <1>3 DEF Stuck, WaitInv, WaitsForSlice, HandedOn, NoneReady
<1> QED
  BY <1>2, <1>3, <1>4, <1>5 DEF States

(* addData (the loop around cv.wait) can wait with no task left that would *)
(* notify it, but only for a slice that is compressed and that no task     *)
(* writes: neither a compression nor a running write is ever lost.         *)
THEOREM OnlyWritesAreMissed == Spec => [](Stuck => state[process_slice] = "PROCESS_DONE" /\ ~is_writing)
<1>1. Init => PoolInv /\ WaitInv
  BY InitPool, InitWait
<1>2. PoolInv /\ WaitInv /\ [Next]_vars => PoolInv' /\ WaitInv'
  BY NextPool, NextWait
<1>3. PoolInv /\ WaitInv => (Stuck => state[process_slice] = "PROCESS_DONE" /\ ~is_writing)
  BY StuckIs
<1> QED
  BY <1>1, <1>2, <1>3, PTL DEF Spec

(* And it is the next slice to be written: had checkWriteback been called  *)
(* once more before the wait, it would have submitted the write that frees *)
(* the slice. Whoever wakes addData, if only spuriously, ends the wait.    *)
THEOREM OneCheckWouldDo ==
  ASSUME ~RunsOver
  PROVE  Spec => [](Stuck => CanWriteback /\ writeback_slice = process_slice)
<1>1. Init => TypeInv /\ LogInv /\ WaitInv
  BY InitTyped, InitLog, InitWait
<1>2. TypeInv /\ LogInv /\ WaitInv /\ [Next]_vars => TypeInv' /\ LogInv' /\ WaitInv'
  BY NextTyped, NextLog, NextWait DEF TypeInv
<1>3. TypeInv /\ LogInv /\ WaitInv => (Stuck => CanWriteback /\ writeback_slice = process_slice)
  <2> SUFFICES ASSUME TypeInv, LogInv, WaitInv, Stuck
               PROVE  CanWriteback /\ writeback_slice = process_slice
    OBVIOUS
  <2>1. state[process_slice] = "PROCESS_DONE" /\ ~is_writing
    BY StuckIs DEF TypeInv
  <2>2. PICK F, W, C, P \in Nat : \E m \in 0 .. RowsPerSlice - 1 : LogAt(F, W, C, P, m)
    BY DEF LogInv, Stuck
  <2>3. PICK m \in 0 .. RowsPerSlice - 1 : LogAt(F, W, C, P, m)
    BY <2>2
  <2>4. /\ F <= W /\ W <= F + 1 /\ P <= F + Slices /\ writeback_slice = Place(W) /\ process_slice = Place(P)
        /\ TurnsApart(F, W, C, P)
    BY <2>2, <2>3, TurnSlices DEF LogAt, Turns
  <2>5. Held(F, P, Place(P))
    BY <2>1, <2>3, <2>4 DEF LogAt, Stages, TurnsApart
  <2>6. P = F + Slices
    <3>1. ~(P < F + Slices)
      BY <2>4, <2>5 DEF TurnsApart, Held
    <3> QED
      BY <2>2, <2>4, <3>1, LogDBAssumption
  <2>7. F = W
    <3>1. Pool = {}
      BY DEF Stuck, Pool
    <3>2. ~(F \in F .. W - 1)
      BY <2>3, <3>1 DEF LogAt, Stages
    <3> QED
      BY <2>2, <2>4, <3>2
  <2>8. writeback_slice = process_slice
    BY <2>4, <2>6, <2>7 DEF TurnsApart
  <2> QED
    BY <2>1, <2>8 DEF CanWriteback
<1> QED
  BY <1>1, <1>2, <1>3, PTL DEF Spec
=============================================================================
