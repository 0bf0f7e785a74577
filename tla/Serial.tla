------------------------------- MODULE Serial -------------------------------
(***************************************************************************)
(* The 16550A of src/src/device/serial.cpp as the guest sees it through    *)
(* serial_ioport_read and serial_ioport_write. A register is the set of    *)
(* its bits. The FIFOs are byte sequences (module Fifo8 has their rings).  *)
(*                                                                         *)
(* Bytes come in by loopback only: nothing calls serial_check_io, so there *)
(* is no character timeout either. The divisor and the scratch register    *)
(* are storage that nothing else reads.                                    *)
(***************************************************************************)
EXTENDS Naturals, Sequences

CONSTANTS FifoLength,    \* UART_FIFO_LENGTH
          Bytes,         \* the bytes that are told apart
          TriggerLevels, \* the values of recv_fifo_itl that FCR selects
          ModemLines     \* the modem status lines that are told apart

ASSUME SerialAssumption ==
  /\ FifoLength \in Nat \ {0} /\ Bytes # {}
  /\ TriggerLevels \subseteq 1 .. FifoLength
  /\ ModemLines \subseteq {"CTS", "DSR", "RI", "DCD"}

VARIABLE serial          \* SerialState

NoInt == "NO_INT"
EnableBits == {"MSI", "RLSI", "THRI", "RDI"}
LineErrors == {"BI", "FE", "PE", "OE"}
Delta == [CTS |-> "DCTS", DSR |-> "DDSR", RI |-> "TERI", DCD |-> "DDCD"]
Deltas == {Delta[l] : l \in ModemLines}

-----------------------------------------------------------------------------
(* The helpers that every handler ends with.                               *)

ReceiveTriggered(s) == "DR" \in s.lsr /\ (s.fe => Len(s.recv) >= s.itl)

\* The interrupt that serial_update_irq picks, highest priority first.
Pending(s) ==
  IF "RLSI" \in s.ier /\ s.lsr \cap LineErrors # {} THEN "RLSI"
  ELSE IF "RDI" \in s.ier /\ ReceiveTriggered(s) THEN "RDI"
  ELSE IF "THRI" \in s.ier /\ s.thrIpending THEN "THRI"
  ELSE IF "MSI" \in s.ier /\ s.msr \cap Deltas # {} THEN "MSI"
  ELSE NoInt

\* Fault for the mutation run: the line is raised and never lowered.
RaiseOnly(s) == [s EXCEPT !.iir = Pending(s), !.irq = @ \/ Pending(s) # NoInt]

UpdateIrq(s) == [s EXCEPT !.iir = Pending(s), !.irq = Pending(s) # NoInt]

\* serial_update_msl reads an uninitialised `flags`: any lines.
ChangedLines(s, lines) == {l \in ModemLines : (l \in s.msr) # (l \in lines)}
UpdateMsl(s, lines) ==
  LET changed == ChangedLines(s, lines)
      msr     == lines \cup (s.msr \cap Deltas) \cup {Delta[l] : l \in changed}
  IN  IF changed = {} THEN s
      \* TERI stands for a line that was up
      ELSE UpdateIrq([s EXCEPT !.msr = IF "RI" \in s.msr THEN msr ELSE msr \ {"TERI"}])

Receive(s, b) ==
  UpdateIrq(
    IF s.fe
    THEN [s EXCEPT !.recv = IF Len(@) < FifoLength THEN Append(@, b) ELSE @,
                   !.lsr = @ \cup {"DR"} \cup (IF Len(s.recv) < FifoLength THEN {} ELSE {"OE"})]
    ELSE [s EXCEPT !.rbr = b,
                   !.lsr = @ \cup {"DR"} \cup (IF "DR" \in @ THEN {"OE"} ELSE {})])

-----------------------------------------------------------------------------
(* serial_xmit: send what is in THR or the transmit FIFO until it is empty. *)

\* The shift register takes a byte; THRE and its interrupt when that was the last.
LoadShiftRegister(s) ==
  LET rest  == IF s.fe THEN Tail(s.xmit) ELSE s.xmit
      empty == s.fe => rest = << >>
      t     == [s EXCEPT !.xmit = rest, !.lsr = IF empty THEN @ \cup {"THRE"} ELSE @]
  IN  IF empty /\ ~s.thrIpending THEN UpdateIrq([t EXCEPT !.thrIpending = TRUE]) ELSE t

SendOne(s, thr) ==
  LET b == IF s.fe THEN Head(s.xmit) ELSE thr
      t == LoadShiftRegister(s)
  IN  IF "LOOP" \in s.mcr THEN Receive(t, b) ELSE t

\* The loop runs while a byte is left in the FIFO.
Transmit(s, thr) ==
  LET rounds == IF s.fe THEN Len(s.xmit) ELSE 1
      after[n \in 0 .. rounds] == IF n = 0 THEN s ELSE SendOne(after[n - 1], thr)
  IN  [after[rounds] EXCEPT !.lsr = @ \cup {"TEMT"}]

-----------------------------------------------------------------------------
(* serial_ioport_write                                                     *)

WriteThr(b) ==
  /\ ~serial.dlab
  /\ LET room   == IF Len(serial.xmit) = FifoLength THEN Tail(serial.xmit) ELSE serial.xmit
         queued == IF serial.fe THEN Append(room, b) ELSE serial.xmit
         s      == UpdateIrq([serial EXCEPT !.xmit = queued, !.thrIpending = FALSE,
                                            !.lsr = @ \ {"THRE", "TEMT"}])
     IN  serial' = Transmit(s, b)

\* While DLAB is set registers 0 and 1 are the divisor.
WriteDivisor == serial.dlab /\ UNCHANGED serial

WriteIer(bits, lines) ==
  /\ ~serial.dlab
  /\ LET changed == {x \in EnableBits : (x \in bits) # (x \in serial.ier)}
         s == [serial EXCEPT !.ier = bits]
         t == IF "MSI" \in changed /\ "MSI" \in bits THEN UpdateMsl(s, lines) ELSE s
         u == IF "THRI" \in changed
              THEN [t EXCEPT !.thrIpending = "THRI" \in bits /\ "THRE" \in t.lsr] ELSE t
     IN  serial' = IF changed # {} THEN UpdateIrq(u) ELSE u

\* Fault for the mutation run: the FIFOs survive a change of FE.
WriteFcrNoFlush(fe, itl, rfr, xfr) ==
  serial' = UpdateIrq([serial EXCEPT !.fe = fe, !.iirFe = fe, !.itl = IF fe THEN itl ELSE @])

\* A change of FE flushes both FIFOs, whatever RFR and XFR say.
WriteFcr(fe, itl, rfr, xfr) ==
  LET flushed == fe # serial.fe
      s == IF rfr \/ flushed
           THEN [serial EXCEPT !.lsr = @ \ {"DR", "BI"}, !.recv = << >>] ELSE serial
      t == IF xfr \/ flushed
           THEN [s EXCEPT !.lsr = @ \cup {"THRE"}, !.thrIpending = TRUE, !.xmit = << >>] ELSE s
      u == [t EXCEPT !.fe = fe, !.iirFe = fe, !.itl = IF fe THEN itl ELSE @]
  IN  serial' = UpdateIrq(u)

WriteLcr(dlab) == serial' = [serial EXCEPT !.dlab = dlab]

WriteMcr(bits) == serial' = [serial EXCEPT !.mcr = bits]

-----------------------------------------------------------------------------
(* serial_ioport_read                                                      *)

ReadRbr ==
  /\ ~serial.dlab
  /\ LET rest == IF serial.fe /\ serial.recv # << >> THEN Tail(serial.recv) ELSE serial.recv
         none == serial.fe => rest = << >>
     IN  serial' = UpdateIrq([serial EXCEPT !.recv = rest,
                                            !.lsr = IF none THEN @ \ {"DR", "BI"} ELSE @])

\* Fault for the mutation run: any read of IIR acknowledges.
ReadIirAlways == serial' = UpdateIrq([serial EXCEPT !.thrIpending = FALSE])

\* Reading IIR acknowledges a transmitter interrupt if that is the one shown.
ReadIir ==
  serial' = IF serial.iir = "THRI"
            THEN UpdateIrq([serial EXCEPT !.thrIpending = FALSE]) ELSE serial

ReadLsr ==
  serial' = IF serial.lsr \cap {"BI", "OE"} # {}
            THEN UpdateIrq([serial EXCEPT !.lsr = @ \ {"BI", "OE"}]) ELSE serial

ReadMsr(lines) ==
  serial' = IF "LOOP" \in serial.mcr THEN serial
            ELSE LET s == UpdateMsl(serial, lines)
                 IN  IF s.msr \cap Deltas # {}
                     THEN UpdateIrq([s EXCEPT !.msr = @ \ Deltas]) ELSE s

\* IER, LCR, MCR and the divisor are read without an effect.
ReadPlain == UNCHANGED serial

-----------------------------------------------------------------------------
(* simple_serial_init: malloc, then serial_reset, which leaves fcr and     *)
(* recv_fifo_itl as malloc left them.                                      *)

Reset16550(fe, itl, lines) ==
  [ier |-> {}, iir |-> NoInt, iirFe |-> FALSE, dlab |-> FALSE, mcr |-> {},
   lsr |-> {"TEMT", "THRE"}, msr |-> lines, rbr |-> CHOOSE b \in Bytes : TRUE,
   thrIpending |-> FALSE, recv |-> << >>, xmit |-> << >>, fe |-> fe, itl |-> itl, irq |-> FALSE]

SerialInit ==
  \E fe \in BOOLEAN, itl \in 0 .. FifoLength + 1, lines \in SUBSET ModemLines :
    serial = Reset16550(fe, itl, lines)

SerialNext ==
  \/ \E b \in Bytes : WriteThr(b)
  \/ WriteDivisor
  \/ \E bits \in SUBSET EnableBits, lines \in SUBSET ModemLines : WriteIer(bits, lines)
  \/ \E fe, rfr, xfr \in BOOLEAN, itl \in TriggerLevels : WriteFcr(fe, itl, rfr, xfr)
  \/ \E dlab \in BOOLEAN : WriteLcr(dlab)
  \/ \E bits \in SUBSET {"LOOP"} : WriteMcr(bits)
  \/ ReadRbr
  \/ ReadIir
  \/ ReadLsr
  \/ \E lines \in SUBSET ModemLines : ReadMsr(lines)
  \/ ReadPlain

SerialSpec == SerialInit /\ [][SerialNext]_serial

-----------------------------------------------------------------------------
SerialTypeOK ==
  serial \in [ier: SUBSET EnableBits, iir: {NoInt, "RLSI", "RDI", "THRI", "MSI"}, iirFe: BOOLEAN,
              dlab: BOOLEAN, mcr: SUBSET {"LOOP"}, lsr: SUBSET ({"TEMT", "THRE", "DR"} \cup LineErrors),
              msr: SUBSET (ModemLines \cup Deltas), rbr: Bytes, thrIpending: BOOLEAN,
              recv: UNION {[1 .. n -> Bytes] : n \in 0 .. FifoLength}, xmit: {<< >>},
              fe: BOOLEAN, itl: 0 .. FifoLength + 1, irq: BOOLEAN]

(* The interrupt line and IIR show what the registers call for after every
   access: each handler that changes an enable or a cause ends in
   serial_update_irq, the nested ones of serial_xmit in loopback included. *)
IrqFollowsState ==
  /\ serial.iir = Pending(serial)
  /\ serial.irq = (serial.iir # NoInt)

(* LSR.DR tells the guest the truth about the receive FIFO, over overruns,
   flushes and changes of mode, whatever malloc left in fcr: a byte in the
   FIFO is announced, and none is announced that is not there. *)
ReceiverConsistent ==
  /\ serial.fe => (("DR" \in serial.lsr) = (serial.recv # << >>))
  /\ ~serial.fe => serial.recv = << >>

(* A transmitter interrupt ends only when the guest has seen it in IIR or has
   disabled it: an IIR read that shows a higher priority, or a write of THR
   (which serial_xmit follows at once), does not lose it. *)
ThreNotLost ==
  [][serial.thrIpending /\ ~serial'.thrIpending => serial.iir = "THRI" \/ "THRI" \notin serial'.ier]_serial
=============================================================================
