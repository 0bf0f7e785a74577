----------------------------- MODULE Predictors -----------------------------
(***************************************************************************)
(* PipePredictor with its histories and tables (src/src/pred), driven as   *)
(* PipelineCPU drives it: preId predicts one instruction after another,    *)
(* EXE trains and repairs after a misprediction, WB repairs after an       *)
(* exception. The targets that BTB and RAS give, and the entries of the    *)
(* RAS, only decide whether a prediction fails: any outcome is possible.   *)
(***************************************************************************)
EXTENDS Integers, Sequences, FiniteSets

CONSTANTS GhrSize,     \* ghr_size
          HistBits,    \* hist_bits of GShareBP
          IdxBits,     \* the width of ghr_idx (32 in the code)
          RasSize,     \* entries of the RAS
          InstSizes,   \* real_size of an instruction: 2 and 4 bytes
          TableBits,   \* clog2(table_size) of GShareBP
          BitSize,     \* bit_size of GShareBP
          MetaSlots,   \* retire_size of the predictor
          InFlight,    \* instructions in ID, EXE, MEM and WB
          Types,       \* the branch types that occur
          Pcs,         \* the addresses of predicted instructions
          MaxFaults    \* bound: fetch faults in a behaviour

TableIndices == 0 .. 2 ^ TableBits - 1

\* EXE compares the target, and of a conditional branch the direction, of
\* all but the direct jumps. The types of calls push onto the RAS.
Direct == {"DIRECT", "PUSH"}
Mispredictable == {"COND", "INDIRECT", "IND_CALL", "IND_PUSH", "POP", "POP_PUSH"}
Pushing == {"PUSH", "IND_PUSH"}

ASSUME PredictorAssumption ==
  /\ GhrSize \in Nat \ {0} /\ HistBits \in 1 .. GhrSize
  /\ {IdxBits, RasSize, TableBits, MetaSlots, InFlight} \subseteq Nat \ {0}
  /\ HistBits <= TableBits /\ Pcs \subseteq TableIndices /\ Pcs # {} /\ MaxFaults \in Nat
  /\ Types \subseteq Direct \cup Mispredictable \cup {"INT"}
  /\ BitSize \in Nat
  /\ InstSizes \subseteq 1 .. RasSize /\ InstSizes # {}
  /\ InFlight >= 2 /\ MetaSlots >= 2 * InFlight - 1

VARIABLES ghr,         \* GHR::ghr, bit 0 is the latest branch
          ghrIdx,      \* GHR::ghr_idx
          top,         \* RAS::top
          table,       \* GShareBP::table
          metas,       \* Predictor::metas
          metaIdx,     \* Predictor::meta_idx
          insts,       \* the instructions in the pipeline, oldest first
          faults       \* fetch faults so far

predictorVars == << ghr, ghrIdx, top, table, metas, metaIdx, insts, faults >>

Idx == 0 .. 2 ^ IdxBits - 1
MinCounter == -(2 ^ BitSize)
MaxCounter == 2 ^ BitSize - 1

-----------------------------------------------------------------------------
(* GHR *)

ZeroGhr == [i \in 0 .. GhrSize - 1 |-> 0]
PushBit(g, taken) == [i \in 0 .. GhrSize - 1 |-> IF i = 0 THEN (IF taken THEN 1 ELSE 0) ELSE g[i - 1]]

\* ghr_idx is unsigned; the difference is an int, and dynamic_bitset shifts
\* by it as an unsigned number: a negative one clears the history.
\* Fault for the mutation run: the difference of a wrapped index is negative.
PlainDifference(from, to) == from - to

ShiftSize(from, to) ==
  LET d == (from - to) % (2 ^ IdxBits)
  IN  IF d < 2 ^ (IdxBits - 1) THEN d ELSE d - 2 ^ IdxBits
ShiftRight(g, n) ==
  [i \in 0 .. GhrSize - 1 |-> IF n >= 0 /\ i + n < GhrSize THEN g[i + n] ELSE 0]

\* GHR::update: a history is << bits, idx >>
Speculate(h, type, taken) ==
  IF type = "COND" THEN << PushBit(h[1], taken), (h[2] + 1) % (2 ^ IdxBits) >> ELSE h
Rollback(h, meta, type, taken) ==
  Speculate(<< ShiftRight(h[1], ShiftSize(h[2], meta.idx)), meta.idx >>, type, taken)

HistoryBecomes(h) == ghr' = h[1] /\ ghrIdx' = h[2]

Recent(g) == [i \in 0 .. HistBits - 1 |-> g[i]]

-----------------------------------------------------------------------------
(* RAS *)

TopAfter(t, type, size) ==
  CASE type \in Pushing -> (t + 1) % size
    [] type = "POP" -> IF t = 0 THEN size - 1 ELSE t - 1
    [] OTHER -> t

\* In RAS::redirect the parameter `size`, that of the instruction, hides the
\* number of entries.
RasPredict(type) == TopAfter(top, type, RasSize)
RasRedirect(meta, type, size) == TopAfter(meta.top, type, size)

-----------------------------------------------------------------------------
(* GShareBP *)

\* (((pc & table_pc_mask) >> offset) ^ ghist) & table_pc_mask, with offset 0
Bit(n, i) == (n \div 2 ^ i) % 2
TableIdx(pc, hist) ==
  LET x(i) == IF i < HistBits THEN (Bit(pc, i) + hist[i]) % 2 ELSE Bit(pc, i)
      sum[i \in 0 .. TableBits] == IF i = 0 THEN 0 ELSE sum[i - 1] + x(i - 1) * 2 ^ (i - 1)
  IN  sum[TableBits]

\* Fault for the mutation run: the counter does not saturate.
CountOn(old, taken) == old + (IF taken THEN 1 ELSE -1)

UpdateCounter(old, taken) ==
  LET new == old + (IF taken THEN 1 ELSE -1)
  IN  IF new < MinCounter THEN MinCounter ELSE IF new > MaxCounter THEN MaxCounter ELSE new

\* GShareBP::predict: the history that was used goes to the meta
GShareTaken(pc) == table[TableIdx(pc, Recent(ghr))] \in 0 .. MaxCounter

\* GShareBP::update, with the history of the meta
GShareTrain(inst, taken) ==
  IF inst.type # "COND" THEN UNCHANGED table
  ELSE LET i == TableIdx(inst.pc, metas[inst.meta].hist)
       IN  table' = [table EXCEPT ![i] = UpdateCounter(@, taken)]

-----------------------------------------------------------------------------
(* Predictor and PipePredictor *)

\* Predictor::redirect: the histories first, then the RAS
Redirect(meta, type, size, taken) ==
  /\ HistoryBecomes(Rollback(<< ghr, ghrIdx >>, meta, type, taken))
  /\ top' = RasRedirect(meta, type, size)

PredictedTaken(type, pc) ==
  CASE type = "COND" -> GShareTaken(pc)
    [] type = "INT" -> FALSE
    [] OTHER -> TRUE

\* Fault for the mutation run: the ring has one slot less than it should.
NextMetaShort(m) == (m + 1) % (MetaSlots - 1)

NextMeta(m) == (m + 1) % MetaSlots

\* An instruction waits in ID while EXE is busy, and only one.
IdFree == Len(insts) < InFlight /\ Cardinality({i \in 1 .. Len(insts) : ~insts[i].resolved}) < 2

\* PipelineCPU::preId: PipePredictor::predict, and for a taken branch
\* frontRedirect, which redirects with the meta just written. An interrupt or
\* a trap of the instruction may have been seen by then.
Predict(type, pc, size, exc) ==
  LET taken == PredictedTaken(type, pc)
      meta  == [idx |-> ghrIdx, top |-> top, hist |-> Recent(ghr)]
      spec  == Speculate(<< ghr, ghrIdx >>, type, taken)
  IN  /\ IdFree
      /\ metas' = [metas EXCEPT ![metaIdx] = meta]
      /\ metaIdx' = NextMeta(metaIdx)
      /\ insts' = Append(insts, [type |-> type, pc |-> pc, size |-> size, meta |-> metaIdx,
                                 taken |-> taken, exc |-> exc, at |-> meta,
                                 resolved |-> FALSE, fault |-> FALSE])
      /\ HistoryBecomes(IF taken THEN Rollback(spec, meta, type, taken) ELSE spec)
      /\ top' = IF taken THEN RasRedirect(meta, type, size) ELSE RasPredict(type)
      /\ UNCHANGED << table, faults >>

\* preId ends early on a fetch fault: bp_meta_idx is that of the last use of
\* the Inst object.
FetchFault(slot) ==
  /\ IdFree /\ faults < MaxFaults
  /\ faults' = faults + 1
  /\ insts' = Append(insts, [type |-> "INT", pc |-> CHOOSE pc \in Pcs : TRUE, size |-> CHOOSE n \in InstSizes : TRUE, meta |-> slot,
                             taken |-> FALSE, exc |-> TRUE, at |-> metas[slot],
                             resolved |-> FALSE, fault |-> TRUE])
  /\ UNCHANGED << ghr, ghrIdx, top, table, metas, metaIdx >>

\* The instruction in EXE is the oldest that is not resolved; ID comes after it.
InExe(i) == i \in 1 .. InFlight - 1 /\ ~insts[i].resolved /\ \A j \in 1 .. i - 1 : insts[j].resolved

Resolve(i) == [insts EXCEPT ![i].resolved = TRUE]

\* EXE passes an instruction with an exception on.
PassExe(i) ==
  /\ InExe(i) /\ insts[i].exc
  /\ insts' = Resolve(i)
  /\ UNCHANGED << ghr, ghrIdx, top, table, metas, metaIdx, faults >>

\* EXE with a right prediction
Train(i, taken) ==
  /\ InExe(i) /\ ~insts[i].exc
  /\ insts[i].type = "COND" => taken = insts[i].taken
  /\ GShareTrain(insts[i], taken)
  /\ insts' = Resolve(i)
  /\ UNCHANGED << ghr, ghrIdx, top, metas, metaIdx, faults >>

\* EXE with a wrong direction or target: brRedirect, then update
BrRedirect(i, taken) ==
  /\ InExe(i) /\ ~insts[i].exc
  /\ insts[i].type \in Mispredictable
  /\ Redirect(metas[insts[i].meta], insts[i].type, insts[i].size, taken)
  /\ GShareTrain(insts[i], taken)
  /\ insts' = SubSeq(Resolve(i), 1, i)
  /\ UNCHANGED << metas, metaIdx, faults >>

Retire ==
  /\ insts # << >> /\ Head(insts).resolved /\ ~Head(insts).exc
  /\ insts' = Tail(insts)
  /\ UNCHANGED << ghr, ghrIdx, top, table, metas, metaIdx, faults >>

\* WB with an exception: excRedirect, whose type is INT
ExcRedirect ==
  /\ insts # << >> /\ Head(insts).resolved /\ Head(insts).exc
  /\ Redirect(metas[Head(insts).meta], "INT", Head(insts).size, FALSE)
  /\ insts' = << >>
  /\ UNCHANGED << table, metas, metaIdx, faults >>

NoMeta == [idx |-> 0, top |-> 0, hist |-> Recent(ZeroGhr)]

PredictorInit ==
  /\ ghr = ZeroGhr /\ ghrIdx = 0 /\ top = 0
  /\ table = [i \in TableIndices |-> 0]
  /\ metas = [i \in 0 .. MetaSlots - 1 |-> NoMeta]
  /\ metaIdx = 0
  /\ insts = << >>
  /\ faults = 0

PredictorNext ==
  \/ \E type \in Types, pc \in Pcs, size \in InstSizes, exc \in BOOLEAN : Predict(type, pc, size, exc)
  \/ \E slot \in 0 .. MetaSlots - 1 : FetchFault(slot)
  \/ \E i \in 1 .. Len(insts) : PassExe(i)
  \/ \E i \in 1 .. Len(insts), taken \in BOOLEAN : Train(i, taken) \/ BrRedirect(i, taken)
  \/ Retire
  \/ ExcRedirect

PredictorSpec == PredictorInit /\ [][PredictorNext]_predictorVars

-----------------------------------------------------------------------------
MetaType == [idx: Idx, top: 0 .. RasSize - 1, hist: [0 .. HistBits - 1 -> {0, 1}]]

PredictorTypeOK ==
  /\ ghr \in [0 .. GhrSize - 1 -> {0, 1}] /\ ghrIdx \in Idx /\ top \in 0 .. RasSize - 1
  /\ table \in [TableIndices -> MinCounter .. MaxCounter]
  /\ metas \in [0 .. MetaSlots - 1 -> MetaType] /\ metaIdx \in 0 .. MetaSlots - 1
  /\ Len(insts) <= InFlight /\ faults \in 0 .. MaxFaults
  /\ \A i \in 1 .. Len(insts) :
       insts[i] \in [type: Types \cup {"INT"}, pc: Pcs, size: InstSizes, meta: 0 .. MetaSlots - 1, taken: BOOLEAN,
                     exc: BOOLEAN, at: MetaType, resolved: BOOLEAN, fault: BOOLEAN]

(* The ring of metas is long enough: what predict stored for an instruction is
   still there when EXE trains with it or a redirect rolls back to it, through
   whatever was predicted and killed in between (Predictor::metas, meta_idx). *)
MetaIntact ==
  \A i \in 1 .. Len(insts) : ~insts[i].fault => metas[insts[i].meta] = insts[i].at

(* A repair brings back the history and the top of the RAS that the
   instruction was predicted with, followed by its outcome if it is a
   conditional branch, whatever was speculated behind it, over the wrap of
   ghr_idx and after rollbacks that lost the far end of the history
   (GHR::update, RAS::redirect; a fetch fault has no snapshot of its own). *)
After(hist, type, taken) ==
  IF type = "COND" THEN [j \in 0 .. HistBits - 1 |-> IF j > 0 THEN hist[j - 1] ELSE IF taken THEN 1 ELSE 0]
  ELSE hist
HistoryRestored ==
  [][/\ ExcRedirect /\ ~Head(insts).fault =>
          Recent(ghr') = Head(insts).at.hist /\ top' = Head(insts).at.top
     /\ \A i \in 1 .. Len(insts), taken \in BOOLEAN :
          BrRedirect(i, taken) => Recent(ghr') = After(insts[i].at.hist, insts[i].type, taken)]_predictorVars
=============================================================================
