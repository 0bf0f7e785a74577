--------------------------- MODULE InterruptLines ---------------------------
(***************************************************************************)
(* From the devices' interrupt outputs to mip: CLINT                       *)
(* (src/src/arch/riscv/clint.cpp), the UART's line, the register of the    *)
(* interrupt handler and the listener that EMU::init installs. A cycle is  *)
(* Clint::tick (in Memory::tick), then what the program does.              *)
(***************************************************************************)
EXTENDS Naturals

CONSTANT TimeBits         \* the width of mtime and mtimecmp (64 in the code)

ASSUME TimeAssumption == TimeBits \in Nat \ {0}

VARIABLES
  ticked,      \* Clint::tick has run in this cycle and the program has not
  clint,       \* Clint: mtime, mtimecmp, msip, irqValid
  uartLine,    \* the level of the UART's interrupt output
  irq,         \* IrqHandler::irq, a set of lines
  mip          \* ArchState::mip, a set of bits

lineVars == << ticked, clint, uartLine, irq, mip >>

Times == 0 .. 2 ^ TimeBits - 1

\* UART's irq_number is 1, the bit of SSIP; the CLINT has the machine lines.
MachineLines == {"MSI", "MTIMER"}
Lines == MachineLines \cup {"SSI"}

-----------------------------------------------------------------------------
\* IrqHandler::setIrqState, and the listener: it replaces the whole of mip.
SetIrqState(line, state) ==
  /\ irq' = IF state THEN irq \cup {line} ELSE irq \ {line}
  /\ mip' = irq'

\* Fault for the mutation run: a line that is up is not taken down.
OnlyRises(c) == c.irqValid \/ c.mtime >= c.mtimecmp

TimerExpired(c) == c.mtime >= c.mtimecmp

ClintTick ==
  LET c  == [clint EXCEPT !.mtime = (@ + 1) % 2 ^ TimeBits]
      on == TimerExpired(c)
  IN  /\ ~ticked /\ ticked' = TRUE
      /\ clint' = [c EXCEPT !.irqValid = on]
      /\ IF on = c.irqValid THEN UNCHANGED << irq, mip >> ELSE SetIrqState("MTIMER", on)
      /\ UNCHANGED uartLine

\* Uart::setIrq, called by the 16550 (module Serial) when a register is read,
\* also while an instruction is decoded in a cache's callback, or written.
UartIrq(level) ==
  /\ uartLine' = level
  /\ SetIrqState("SSI", level)
  /\ UNCHANGED << ticked, clint >>

\* Clint::write
WriteMsip(v) ==
  /\ ticked
  /\ clint' = [clint EXCEPT !.msip = v]
  /\ SetIrqState("MSI", v)
  /\ UNCHANGED << ticked, uartLine >>
WriteTime(t) ==
  /\ ticked
  /\ clint' = [clint EXCEPT !.mtime = t]
  /\ UNCHANGED << ticked, uartLine, irq, mip >>
WriteTimeCmp(t) ==
  /\ ticked
  /\ clint' = [clint EXCEPT !.mtimecmp = t]
  /\ UNCHANGED << ticked, uartLine, irq, mip >>

\* Fault for the mutation run: software writes every bit of mip.
AllBits == Lines

\* Software writes the delegable bits.
Writable == Lines \ MachineLines

\* RiscvArch::rmw_mip
WriteMip(bits) ==
  /\ ticked
  /\ mip' = (mip \ Writable) \cup (bits \cap Writable)
  /\ UNCHANGED << ticked, clint, uartLine, irq >>

EndOfCycle == ticked /\ ticked' = FALSE /\ UNCHANGED << clint, uartLine, irq, mip >>

LinesInit ==
  /\ ticked = FALSE
  /\ clint = [mtime |-> 0, mtimecmp |-> 0, msip |-> FALSE, irqValid |-> FALSE]
  /\ uartLine = FALSE /\ irq = {} /\ mip = {}

LinesNext ==
  \/ ClintTick \/ EndOfCycle
  \/ \E level \in BOOLEAN : UartIrq(level) \/ WriteMsip(level)
  \/ \E t \in Times : WriteTime(t) \/ WriteTimeCmp(t)
  \/ \E bits \in SUBSET Lines : WriteMip(bits)

LinesSpec == LinesInit /\ [][LinesNext]_lineVars

-----------------------------------------------------------------------------
LinesTypeOK ==
  /\ ticked \in BOOLEAN
  /\ clint \in [mtime: Times, mtimecmp: Times, msip: BOOLEAN, irqValid: BOOLEAN]
  /\ uartLine \in BOOLEAN /\ irq \subseteq Lines /\ mip \subseteq Lines

(* The edges that the devices report add up to their levels: the register
   shows each line as its device has it, the timer's that Clint::tick tracks
   in irqValid through writes of both registers and the wrap of mtime; and
   software's writes of mip do not hide or feign a machine line (setIrqState,
   Clint::tick and write, irqListener, rmw_mip). *)
IrqLines ==
  /\ irq = (IF clint.irqValid THEN {"MTIMER"} ELSE {}) \cup (IF clint.msip THEN {"MSI"} ELSE {})
           \cup (IF uartLine THEN {"SSI"} ELSE {})
  /\ mip \cap MachineLines = irq \cap MachineLines

(* When the program runs, the timer interrupt has been up or down as mtime and
   mtimecmp say since Clint::tick, whatever was written in the cycle before. *)
TimerLevel ==
  [][ClintTick => ("MTIMER" \in mip') = (clint'.mtime >= clint'.mtimecmp)]_lineVars
=============================================================================
