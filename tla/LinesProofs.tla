---------------------------- MODULE LinesProofs ----------------------------
(***************************************************************************)
(* Proofs about InterruptLines for every width of the timer. The devices   *)
(* report edges and the handler keeps one register, so the levels agree    *)
(* only as long as every edge is reported: IrqLines is inductive once      *)
(* irqValid and msip are known to be the Booleans of a record.             *)
(***************************************************************************)
EXTENDS InterruptLines, TLAPS

Shape ==
  /\ clint = [mtime |-> clint.mtime, mtimecmp |-> clint.mtimecmp, msip |-> clint.msip, irqValid |-> clint.irqValid]
  /\ clint.msip \in BOOLEAN /\ clint.irqValid \in BOOLEAN /\ uartLine \in BOOLEAN

LevelInv == Shape /\ IrqLines

\* The register for the levels of the three outputs.
Levels(timer, soft, uart) ==
  (IF timer THEN {"MTIMER"} ELSE {}) \cup (IF soft THEN {"MSI"} ELSE {}) \cup (IF uart THEN {"SSI"} ELSE {})

-----------------------------------------------------------------------------
(* setIrqState changes one line of the register. *)
LEMMA OneLine ==
  ASSUME NEW line, NEW v \in BOOLEAN, SetIrqState(line, v),
         NEW t \in BOOLEAN, NEW m \in BOOLEAN, NEW u \in BOOLEAN, irq = Levels(t, m, u)
  PROVE  /\ mip' = irq'
         /\ line = "MTIMER" => irq' = Levels(v, m, u)
         /\ line = "MSI" => irq' = Levels(t, v, u)
         /\ line = "SSI" => irq' = Levels(t, m, v)
  BY DEF SetIrqState, Levels

(* Clint::tick sets irqValid and the line together.                        *)
LEMMA ClintTickKeeps ==
  ASSUME LevelInv, ClintTick
  PROVE  LevelInv'
<1> DEFINE c == [clint EXCEPT !.mtime = (@ + 1) % 2 ^ TimeBits]
           on == TimerExpired(c)
<1>1. /\ c.irqValid = clint.irqValid /\ c.mtimecmp = clint.mtimecmp /\ c.msip = clint.msip
      /\ c = [mtime |-> c.mtime, mtimecmp |-> c.mtimecmp, msip |-> c.msip, irqValid |-> c.irqValid]
  BY DEF LevelInv, Shape
<1>2. on \in BOOLEAN
  BY DEF TimerExpired
<1>3. /\ clint' = [c EXCEPT !.irqValid = on] /\ uartLine' = uartLine
      /\ IF on = c.irqValid THEN UNCHANGED << irq, mip >> ELSE SetIrqState("MTIMER", on)
  BY DEF ClintTick
<1> HIDE DEF c, on
<1>4. Shape' /\ clint'.irqValid = on /\ clint'.msip = clint.msip
  BY <1>1, <1>2, <1>3 DEF LevelInv, Shape
<1>5. irq = Levels(clint.irqValid, clint.msip, uartLine)
  BY DEF LevelInv, IrqLines, Levels
<1>6. irq' = Levels(on, clint.msip, uartLine) /\ (mip' = irq' \/ (irq' = irq /\ mip' = mip))
  <2>1. CASE on = c.irqValid
    BY <1>1, <1>3, <1>5, <2>1
  <2>2. CASE on # c.irqValid
    BY <1>2, <1>3, <1>5, <2>2, OneLine DEF LevelInv, Shape
  <2> QED
    BY <2>1, <2>2
<1>7. IrqLines'
  BY <1>3, <1>4, <1>6 DEF LevelInv, IrqLines, Levels
<1> QED
  BY <1>4, <1>7 DEF LevelInv

(* An edge of the UART's line.                                             *)
LEMMA UartIrqKeeps ==
  ASSUME LevelInv, NEW level \in BOOLEAN, UartIrq(level)
  PROVE  LevelInv'
<1>1. irq = Levels(clint.irqValid, clint.msip, uartLine)
  BY DEF LevelInv, IrqLines, Levels
<1>2. irq' = Levels(clint.irqValid, clint.msip, level) /\ mip' = irq'
  BY <1>1, OneLine DEF UartIrq, LevelInv, Shape
<1>3. IrqLines'
  BY <1>2 DEF UartIrq, IrqLines, Levels
<1> QED
  BY <1>3 DEF UartIrq, LevelInv, Shape

(* A write of msip.                                                        *)
LEMMA WriteMsipKeeps ==
  ASSUME LevelInv, NEW v \in BOOLEAN, WriteMsip(v)
  PROVE  LevelInv'
<1>1. irq = Levels(clint.irqValid, clint.msip, uartLine)
  BY DEF LevelInv, IrqLines, Levels
<1>2. irq' = Levels(clint.irqValid, v, uartLine) /\ mip' = irq'
  BY <1>1, OneLine DEF WriteMsip, LevelInv, Shape
<1>3. Shape' /\ clint'.msip = v /\ clint'.irqValid = clint.irqValid /\ uartLine' = uartLine
  BY DEF WriteMsip, LevelInv, Shape
<1>4. IrqLines'
  BY <1>2, <1>3 DEF IrqLines, Levels
<1> QED
  BY <1>3, <1>4 DEF LevelInv

(* Every step keeps the invariant.                                         *)
LEMMA LinesNextInv == LevelInv /\ [LinesNext]_lineVars => LevelInv'
<1> SUFFICES ASSUME LevelInv, [LinesNext]_lineVars
             PROVE  LevelInv'
  OBVIOUS
<1>1. CASE ClintTick
  BY <1>1, ClintTickKeeps
<1>2. CASE EndOfCycle
  BY <1>2 DEF EndOfCycle, LevelInv, Shape, IrqLines
<1>3. ASSUME NEW level \in BOOLEAN, UartIrq(level) \/ WriteMsip(level)
      PROVE  LevelInv'
  BY <1>3, UartIrqKeeps, WriteMsipKeeps
<1>4. ASSUME NEW t \in Times, WriteTime(t) \/ WriteTimeCmp(t)
      PROVE  LevelInv'
  <2>1. /\ clint' = [clint EXCEPT !.mtime = t] \/ clint' = [clint EXCEPT !.mtimecmp = t]
        /\ UNCHANGED << uartLine, irq, mip >>
    BY <1>4 DEF WriteTime, WriteTimeCmp
  <2>2. Shape' /\ clint'.irqValid = clint.irqValid /\ clint'.msip = clint.msip
    BY <2>1 DEF LevelInv, Shape
  <2> QED
    BY <2>1, <2>2 DEF LevelInv, IrqLines
<1>5. ASSUME NEW bits \in SUBSET Lines, WriteMip(bits)
      PROVE  LevelInv'
  <2>1. mip' \cap MachineLines = mip \cap MachineLines
    BY <1>5 DEF WriteMip, Writable
  <2>2. UNCHANGED << clint, uartLine, irq >>
    BY <1>5 DEF WriteMip
  <2> QED
    BY <2>1, <2>2 DEF LevelInv, Shape, IrqLines
<1>6. CASE UNCHANGED lineVars
  BY <1>6 DEF lineVars, LevelInv, Shape, IrqLines
<1> QED
  BY <1>1, <1>2, <1>3, <1>4, <1>5, <1>6 DEF LinesNext

(* All lines start low.                                                    *)
LEMMA LinesInitInv == LinesInit => LevelInv
<1> SUFFICES ASSUME LinesInit
             PROVE  LevelInv
  OBVIOUS
<1>1. Shape /\ ~clint.irqValid /\ ~clint.msip /\ ~uartLine
  BY DEF LinesInit, Shape
<1> QED
  BY <1>1 DEF LinesInit, LevelInv, IrqLines

(* The interrupt register and the machine bits of mip show the levels of the
   devices, over every order of ticks, writes and UART edges. *)
THEOREM LinesAgree == LinesSpec => []IrqLines
<1>1. LevelInv => IrqLines
  BY DEF LevelInv
<1> QED
  BY <1>1, LinesInitInv, LinesNextInv, PTL DEF LinesSpec

(* After Clint::tick the timer bit of mip is what mtime and mtimecmp say. *)
THEOREM TimerIsLevel == LinesSpec => TimerLevel
<1> DEFINE Level == ClintTick => ("MTIMER" \in mip') = (clint'.mtime >= clint'.mtimecmp)
<1>1. LevelInv /\ [LinesNext]_lineVars /\ LevelInv' => [Level]_lineVars
  <2> SUFFICES ASSUME LevelInv, LevelInv', ClintTick
               PROVE  ("MTIMER" \in mip') = (clint'.mtime >= clint'.mtimecmp)
    OBVIOUS
  <2> DEFINE c == [clint EXCEPT !.mtime = (@ + 1) % 2 ^ TimeBits]
             on == TimerExpired(c)
  <2>1. clint' = [c EXCEPT !.irqValid = on]
    BY DEF ClintTick
  <2>2. clint'.irqValid = on /\ clint'.mtime = c.mtime /\ clint'.mtimecmp = c.mtimecmp
    BY <2>1 DEF LevelInv, Shape
  <2>3. on = (c.mtime >= c.mtimecmp)
    BY DEF TimerExpired
  <2> HIDE DEF c, on
  <2>4. "MTIMER" \in mip' <=> clint'.irqValid
    <3>1. "MTIMER" \in mip' <=> "MTIMER" \in irq'
      BY DEF LevelInv, IrqLines, MachineLines
    <3>2. "MTIMER" \in irq' <=> clint'.irqValid
      BY DEF LevelInv, IrqLines
    <3> QED
      BY <3>1, <3>2
  <2>5. clint'.irqValid = (clint'.mtime >= clint'.mtimecmp)
    BY <2>2, <2>3, Zenon
  <2>6. ("MTIMER" \in mip') = clint'.irqValid
    BY <2>4 DEF LevelInv, Shape
  <2> QED
    BY <2>5, <2>6, Zenon
<1> QED
  BY <1>1, LinesInitInv, LinesNextInv, PTL DEF LinesSpec, TimerLevel
=============================================================================
