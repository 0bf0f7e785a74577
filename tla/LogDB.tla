------------------------------- MODULE LogDB -------------------------------
(***************************************************************************)
(* class LogDB (dbhandler.h, dbhandler.cpp): the simulator's log.  The     *)
(* simulation thread appends rows to a ring of buffer slices (addData); a  *)
(* full slice is compressed and then written to the file by tasks of a     *)
(* thread pool, which give the slice back under mtx and notify cv.         *)
(*                                                                         *)
(* A row is its number.  A buffer is the sequence of its rows, except that *)
(* the bytes at its start also belong to the end of the buffer before it   *)
(* when the rows do not divide SLICE_BUFFER_SIZE: addData closes a slice   *)
(* only after the row that reaches the end, so that row runs over into the *)
(* next buffer (inp_buffer[Slices-1] into out_buffer[0]).  first[b] is     *)
(* what the bytes at the start of buffer b belong to.                      *)
(*                                                                         *)
(* The steps of the simulation thread are the accesses to what the tasks   *)
(* share with it.  A state is read without mtx in checkCompress and        *)
(* checkWriteback when addData calls them after the copy; the read returns *)
(* the old or the new value, as the interleaving of whole steps does.      *)
(***************************************************************************)
EXTENDS Naturals, Sequences, FiniteSets

Fn == INSTANCE Functions

CONSTANTS
  Slices,          \* LogDB::BUFFER_SLICE
  RowsPerSlice,    \* the rows after which inp_buffer_idx >= SLICE_BUFFER_SIZE
  RunsOver,        \* the last of them ends behind the buffer
  Workers,         \* the threads of the pool
  MaxRows          \* bound: the calls of addData before the program ends

ASSUME LogDBAssumption ==
  /\ Slices \in Nat \ {0}
  /\ RowsPerSlice \in Nat \ {0}
  /\ RunsOver \in BOOLEAN
  /\ Workers \in Nat \ {0}
  /\ MaxRows \in Nat

VARIABLES
  state,           \* buffer_slice_info[s].state
  rows,            \* inp_buffer[s] up to inp_buffer_idx
  packed,          \* out_buffer[s] up to out_buffer_size, decompressed
  first,           \* per buffer, what its first bytes belong to
  process_slice, compress_slice, writeback_slice, is_writing,
  file,            \* the rows in the file
  added,           \* origin_size, in rows
  tasks,           \* the pool: the tasks that have not ended, oldest first
  pc               \* where the simulation thread is

infoVars == <<state, rows, packed, first>>
ringVars == <<process_slice, compress_slice, writeback_slice>>
vars == <<infoVars, ringVars, is_writing, file, added, tasks, pc>>

SliceIds == 0 .. Slices - 1
Buffers == 0 .. 2 * Slices - 1
States == {"FREE", "PROCESS_READY", "PROCESSING", "PROCESS_DONE", "DONE"}

(* A row whose bytes were overwritten, and a buffer holding zstd output.   *)
Torn == 0
Packed == MaxRows + 1

(* "test" is the loop condition of addData with mtx held, "wait" cv.wait,  *)
(* "wokenC" and "wokenW" the two checks after it (mtx held), "copy" the    *)
(* memcpy, "checkC" and "checkW" the two checks after it.                  *)
PCs == {"run", "test", "wait", "wokenC", "wokenW", "copy", "checkC", "checkW", "closed"}
HoldsMutex == pc \in {"test", "wokenC", "wokenW"}

Task == [op : {"compress", "write"}, slice : SliceIds, step : 1 .. 3]

(* Fault: a slice index that does not wrap. *)
SuccNoWrap(s) == s + 1

Succ(s) == (s + 1) % Slices

Init ==
  /\ state = [s \in SliceIds |-> "FREE"]
  /\ rows = [s \in SliceIds |-> <<>>]
  /\ packed = [s \in SliceIds |-> <<>>]
  /\ first = [b \in Buffers |-> Torn]
  /\ process_slice = 0 /\ compress_slice = 0 /\ writeback_slice = 0
  /\ is_writing = FALSE
  /\ file = <<>> /\ added = 0
  /\ tasks = <<>>
  /\ pc = "run"

-----------------------------------------------------------------------------
(* LogDB::addData *)

AddData ==
  /\ pc = "run" /\ added < MaxRows
  /\ pc' = "test"
  /\ UNCHANGED <<infoVars, ringVars, is_writing, file, added, tasks>>

TestSlice ==
  /\ pc = "test"
  /\ pc' = IF state[process_slice] = "FREE" THEN "copy" ELSE "wait"
  /\ UNCHANGED <<infoVars, ringVars, is_writing, file, added, tasks>>

(* C++ lets cv.wait return without a notification. *)
SpuriousWakeup ==
  /\ pc = "wait"
  /\ pc' = "wokenC"
  /\ UNCHANGED <<infoVars, ringVars, is_writing, file, added, tasks>>

(* A full slice is handed over; another one stays FREE. *)
FillsSlice(s) ==
  IF Len(rows'[s]) >= RowsPerSlice
    THEN /\ state' = [state EXCEPT ![s] = "PROCESS_READY"]
         /\ process_slice' = Succ(s)
    ELSE UNCHANGED <<state, process_slice>>

CopyRow ==
  /\ pc = "copy"
  /\ added' = added + 1
  /\ LET s == process_slice IN
       /\ rows' = [rows EXCEPT ![s] = Append(@, added')]
       /\ first' = [b \in Buffers |->
                      IF \/ b = s /\ rows[s] = <<>>
                         \/ b = s + 1 /\ RunsOver /\ Len(rows'[s]) = RowsPerSlice
                        THEN added' ELSE first[b]]
       /\ FillsSlice(s)
  /\ pc' = "checkC"
  /\ UNCHANGED <<packed, compress_slice, writeback_slice, is_writing, file, tasks>>

-----------------------------------------------------------------------------
(* LogDB::checkCompress and checkWriteback, called in this order twice: in *)
(* the loop of addData and at its end.                                     *)

AfterCompress == IF pc = "wokenC" THEN "wokenW" ELSE "checkW"
AfterWriteback == IF pc = "wokenW" THEN "test" ELSE "run"

Submit(op, s) == tasks' = Append(tasks, [op |-> op, slice |-> s, step |-> 1])

CheckCompress ==
  /\ pc \in {"wokenC", "checkC"}
  /\ IF state[compress_slice] = "PROCESS_READY"
       THEN /\ state' = [state EXCEPT ![compress_slice] = "PROCESSING"]
            /\ Submit("compress", compress_slice)
            /\ compress_slice' = Succ(compress_slice)
       ELSE UNCHANGED <<state, tasks, compress_slice>>
  /\ pc' = AfterCompress
  /\ UNCHANGED <<rows, packed, first, process_slice, writeback_slice,
                 is_writing, file, added>>

(* Faults: a second write is submitted while one is running; a slice is    *)
(* written before it has been compressed.                                  *)
WriteWhileWriting == state[writeback_slice] = "PROCESS_DONE"
WriteUncompressed == state[writeback_slice] \in {"PROCESSING", "PROCESS_DONE"} /\ ~is_writing

CanWriteback == state[writeback_slice] = "PROCESS_DONE" /\ ~is_writing

CheckWriteback ==
  /\ pc \in {"wokenW", "checkW"}
  /\ IF CanWriteback
       THEN /\ is_writing' = TRUE
            /\ state' = [state EXCEPT ![writeback_slice] = "DONE"]
            /\ Submit("write", writeback_slice)
            /\ writeback_slice' = Succ(writeback_slice)
       ELSE UNCHANGED <<is_writing, state, tasks, writeback_slice>>
  /\ pc' = AfterWriteback
  /\ UNCHANGED <<rows, packed, first, process_slice, compress_slice, file, added>>

-----------------------------------------------------------------------------
(* The tasks.  The pool starts them in order and runs Workers at a time.   *)

Running(i) == i \in 1 .. Len(tasks) /\ i <= Workers
Step(i) == tasks' = [tasks EXCEPT ![i].step = @ + 1]
End(i) == tasks' = SubSeq(tasks, 1, i - 1) \o SubSeq(tasks, i + 1, Len(tasks))

(* The rows of slice s as the compressor reads them.                       *)
Read(s) ==
  [i \in 1 .. Len(rows[s]) |->
     IF \/ i = 1 /\ first[s] # rows[s][1]
        \/ i = RowsPerSlice /\ RunsOver /\ first[s + 1] # rows[s][i]
       THEN Torn ELSE rows[s][i]]

Compress(i) ==
  /\ Running(i) /\ tasks[i].op = "compress" /\ tasks[i].step = 1
  /\ LET s == tasks[i].slice IN
       /\ packed' = [packed EXCEPT ![s] = Read(s)]
       /\ first' = [first EXCEPT ![Slices + s] = Packed]
  /\ Step(i)
  /\ UNCHANGED <<state, rows, ringVars, is_writing, file, added, pc>>

(* What reaches the file: nothing that can be read back once the start of  *)
(* the compressed data has been overwritten.                               *)
Readable(s) ==
  IF first[Slices + s] = Packed THEN packed[s]
  ELSE [i \in DOMAIN packed[s] |-> Torn]

WriteFile(i) ==
  /\ Running(i) /\ tasks[i].op = "write" /\ tasks[i].step = 1
  /\ LET s == tasks[i].slice IN
       /\ file' = file \o Readable(s)
       /\ rows' = [rows EXCEPT ![s] = <<>>]
       /\ packed' = [packed EXCEPT ![s] = <<>>]
  /\ Step(i)
  /\ UNCHANGED <<state, first, ringVars, is_writing, added, pc>>

ClearIsWriting(i) ==
  /\ Running(i) /\ tasks[i].op = "write" /\ tasks[i].step = 2
  /\ is_writing' = FALSE
  /\ Step(i)
  /\ UNCHANGED <<infoVars, ringVars, file, added, pc>>

LastStep(task) == task.step = IF task.op = "compress" THEN 2 ELSE 3
NextState(task) == IF task.op = "compress" THEN "PROCESS_DONE" ELSE "FREE"

(* Fault: the task does not notify cv. *)
NoNotify == UNCHANGED pc

Notify == pc' = IF pc = "wait" THEN "wokenC" ELSE pc

(* Under mtx: the state changes and the simulation thread is notified.     *)
Finish(i) ==
  /\ Running(i) /\ LastStep(tasks[i])
  /\ ~HoldsMutex
  /\ state' = [state EXCEPT ![tasks[i].slice] = NextState(tasks[i])]
  /\ Notify
  /\ End(i)
  /\ UNCHANGED <<rows, packed, first, ringVars, is_writing, file, added>>

-----------------------------------------------------------------------------
(* DBHandler::closeDB: it waits for the pool, so that LogDB::close runs    *)
(* alone.  The slice being filled is handed over, then every slice handed  *)
(* over is compressed, then every compressed slice is written.             *)

(* The slices from s on that are in S, up to the first that is not.        *)
RunFrom(s, S) ==
  LET n == CHOOSE k \in 0 .. Slices :
             /\ \A i \in 0 .. k - 1 : (s + i) % Slices \in S
             /\ k = Slices \/ (s + k) % Slices \notin S
  IN  [i \in 1 .. n |-> (s + i - 1) % Slices]

(* Fault: the slice being filled is forgotten. *)
HandedOverOnly(s) == state[s] = "PROCESS_READY"

AtCloseReady(s) ==
  state[s] = "PROCESS_READY" \/ (s = process_slice /\ rows[s] # <<>>)

Close ==
  /\ pc = "run" /\ tasks = <<>>
  /\ LET ready == {s \in SliceIds : AtCloseReady(s)}
         compressed == RunFrom(compress_slice, ready)
         done == {s \in SliceIds : state[s] = "PROCESS_DONE"} \ ready
         written == RunFrom(writeback_slice, done \cup Fn!Range(compressed))
         Data(s) == IF s \in Fn!Range(compressed) THEN Read(s) ELSE Readable(s)
         Upto[n \in 0 .. Len(written)] ==
           IF n = 0 THEN file ELSE Upto[n - 1] \o Data(written[n])
     IN  file' = Upto[Len(written)]
  /\ pc' = "closed"
  /\ UNCHANGED <<infoVars, ringVars, is_writing, added, tasks>>

-----------------------------------------------------------------------------
Next ==
  \/ AddData \/ TestSlice \/ SpuriousWakeup \/ CopyRow
  \/ CheckCompress \/ CheckWriteback
  \/ \E i \in 1 .. Len(tasks) :
       Compress(i) \/ WriteFile(i) \/ ClearIsWriting(i) \/ Finish(i)
  \/ Close

Spec == Init /\ [][Next]_vars

(* Every thread runs on, and a task that waits for mtx again and again     *)
(* gets it; nothing makes a wait end spuriously.                           *)
Fairness ==
  /\ WF_vars(TestSlice \/ CopyRow \/ CheckCompress \/ CheckWriteback)
  /\ \A i \in 1 .. Slices :
       /\ WF_vars(Compress(i) \/ WriteFile(i) \/ ClearIsWriting(i))
       /\ SF_vars(Finish(i))

FairSpec == Spec /\ Fairness

-----------------------------------------------------------------------------
(* Properties *)

(* Every variable stays in its range; the pool holds at most one task per  *)
(* slice that is with it.                                                  *)
TypeOK ==
  /\ state \in [SliceIds -> States]
  /\ \A s \in SliceIds : Len(rows[s]) <= RowsPerSlice
  /\ process_slice \in SliceIds /\ compress_slice \in SliceIds
  /\ writeback_slice \in SliceIds /\ is_writing \in BOOLEAN
  /\ added \in 0 .. MaxRows /\ pc \in PCs
  /\ tasks \in Seq(Task) /\ Len(tasks) <= Slices

(* A slice is with the pool exactly while a task works on it, and the      *)
(* states tell which: no slice is left in PROCESSING or DONE by a task     *)
(* that has ended, and none is worked on by two (checkCompress,            *)
(* checkWriteback and the two tasks, which do not all hold mtx).           *)
TasksMatchStates ==
  \A s \in SliceIds :
    LET of(op) == Cardinality({i \in DOMAIN tasks :
                                 tasks[i].slice = s /\ tasks[i].op = op})
    IN  /\ of("compress") = (IF state[s] = "PROCESSING" THEN 1 ELSE 0)
        /\ of("write") = (IF state[s] = "DONE" THEN 1 ELSE 0)

(* The file is written by one task at a time: is_writing is the only thing *)
(* between two writers of one fstream.                                     *)
OneWriter ==
  Cardinality({i \in DOMAIN tasks : tasks[i].op = "write" /\ tasks[i].step = 1}) <= 1

(* The file holds the rows in the order in which they were added, intact,  *)
(* and all of them once the log is closed.                                 *)
FileIsLog ==
  /\ \A i \in DOMAIN file : file[i] = i
  /\ pc = "closed" => Len(file) = added

(* addData waits "for process slice to be free" only while a task is left  *)
(* that will notify it.                                                    *)
WaitHasWaker == pc = "wait" => tasks # <<>>

(* A call of addData that waits while a task is left ends: the checks in   *)
(* the loop submit the next task whenever the last one has ended.          *)
AddDataEnds == pc = "wait" /\ tasks # <<>> ~> pc = "run"

(* To its callers the log is one that only grows: no write of a task       *)
(* drops, repeats or reorders rows, addData waits rather than run ahead    *)
(* of the file by more than the ring, and close is the last write.         *)
Log == INSTANCE RowLog WITH
         Capacity <- Slices * RowsPerSlice, Batch <- RowsPerSlice, closed <- (pc = "closed")
ImplementsLog == Log!Spec
=============================================================================
