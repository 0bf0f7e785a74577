------------------------------- MODULE MCHart -------------------------------
(***************************************************************************)
(* The architecture: privilege and traps, the records that instructions    *)
(* leave, and the decoders, each explored alone. CSR instructions set and  *)
(* clear the bits that steer a trap, a return or a translation.            *)
(***************************************************************************)
EXTENDS Hart, Instructions, Decoder

VARIABLE unit

unitVars == << unit, hartVars, instVars, insn >>

SetOrClear(name, bits) == {[csr |-> name, how |-> h, bits |-> {b}] : h \in {"s", "c"}, b \in bits}
Writes(name, values) == {[csr |-> name, how |-> "w", bits |-> v] : v \in values}
MCCsrInsts ==
  SetOrClear("mstatus", {SIE, MIE, MPP0, MPRV, FS0}) \cup SetOrClear("sstatus", {SPP})
  \cup Writes("mstatus", {{MPP0, MPP1, MIE}}) \cup Writes("mideleg", {{1}}) \cup Writes("medeleg", {{EXC_ECU}})
  \cup Writes("mie", {{1, 7}}) \cup Writes("satp", {{60}, {63}}) \cup Writes("sepc", {{}})
  \cup {[csr |-> "sie", how |-> "c", bits |-> {1, 7}], [csr |-> "sip", how |-> "s", bits |-> {1}],
        [csr |-> "mepc", how |-> "c", bits |-> {0}]}

Init == unit \in {"hart", "instructions", "decoder"} /\ HartInit /\ InstInit /\ DecoderInit

HartStep == unit = "hart" /\ HartNext /\ UNCHANGED << unit, instVars, insn >>
InstStep == unit = "instructions" /\ InstNext /\ UNCHANGED << unit, hartVars, insn >>
DecoderStep == unit = "decoder" /\ DecoderNext /\ UNCHANGED << unit, hartVars, instVars >>

Next == HartStep \/ InstStep \/ DecoderStep

Spec == Init /\ [][Next]_unitVars
=============================================================================
