------------------------------ MODULE Decoder ------------------------------
(***************************************************************************)
(* RiscvArch::fetch and interpreter(): a word is compressed by its two low *)
(* bits, and its decoder picks the trans_ function. A state is a class of  *)
(* words: the properties quantify over the rest of the fields.             *)
(***************************************************************************)
EXTENDS Decode32, Decode16, Encodings, Integers

CONSTANT Opcodes32   \* the opcodes in bits 6..0 that are fetched

ASSUME OpcodesAssumption == \A op \in Opcodes32 : op % 4 = 3

VARIABLE insn

NoInsn == [rvc |-> FALSE, op |-> 0, f3 |-> 0]
Fetch(op, f3) == insn = NoInsn /\ insn' = [rvc |-> op % 4 # 3, op |-> op, f3 |-> f3]
Executed == insn # NoInsn /\ insn' = NoInsn

DecoderInit == insn = NoInsn
DecoderNext == Executed \/ \E op \in Opcodes32 \cup {0, 1, 2}, f3 \in 0 .. 7 : Fetch(op, f3)

-----------------------------------------------------------------------------
Words32 ==
  [op: {insn.op}, f3: {insn.f3}, f7: 0 .. 127, rs2: 0 .. 31, rs1: {0, 1}, rd: {0, 1}]
Words16 == {insn.op + 4 * bits + 8192 * insn.f3 : bits \in 0 .. 2047}

Ends == {"stub", "none"}
\* The instructions of the listing with this opcode and f3.
Near == {e \in Listing : e.op = insn.op /\ insn.f3 \in e.f3}
DecodedAs(w, near) ==
  LET is == {e.trans : e \in {e \in near : Matches(e, w)}} IN
  IF is = {} THEN DecodeInsn32(w) \in Ends
  ELSE DecodeInsn32(w) = IF "pause" \in is THEN "pause" ELSE CHOOSE n \in is : TRUE

(* decode_insn32 hands a word to the trans_ function of the instruction that the
   listing says it is, pause before fence; a word that no implemented instruction
   has ends the program or is reported as invalid, and is never taken for one that
   is (decode_insn32 in trans_rv32.h). *)
DecodeMatches ==
  insn # NoInsn /\ ~insn.rvc =>
    LET near == Near IN \A w \in Words32 : DecodedAs(w, near)

(* A compressed instruction does what the 32-bit one does that decode_insn16 takes
   it for: its operands fit that instruction, whose word decode_insn32 gives to the
   same function with the same operands, and its immediate is the one that the
   listing scatters over the half-word (decode_insn16 and its extract functions). *)
ExpansionsAgree ==
  insn.rvc =>
    \A w \in Words16 :
      LET to == DecodeInsn16(w) IN
      to.trans \notin Ends =>
        LET x == Encode(to.trans, to.args) IN
        /\ DecodeInsn32(x) = to.trans
        /\ Operands(x) = to.args
        /\ LayoutOf(w) # << >> => Immediate(w) = IF "shamt" \in DOMAIN to.args THEN to.args.shamt ELSE to.args.imm
=============================================================================
