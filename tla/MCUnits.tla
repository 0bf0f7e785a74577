------------------------------ MODULE MCUnits ------------------------------
(***************************************************************************)
(* The units that touch nothing but their own state, each explored alone:  *)
(* the initial state picks one and the others keep theirs.                 *)
(***************************************************************************)
EXTENDS Fifo8, Serial, Predictors, InterruptLines

VARIABLE unit

unitVars == << unit, fifo, serial, predictorVars, lineVars >>

Init ==
  /\ unit \in {"fifo", "serial", "predictor", "lines"}
  /\ FifoInit /\ (unit # "fifo" => \A i \in Slots : fifo.data[i] = 0)
  /\ SerialInit /\ (unit # "serial" => ~serial.fe /\ serial.itl = 0 /\ serial.msr = {})
  /\ PredictorInit /\ LinesInit

FifoStep == unit = "fifo" /\ FifoNext /\ UNCHANGED << unit, serial, predictorVars, lineVars >>
SerialStep == unit = "serial" /\ SerialNext /\ UNCHANGED << unit, fifo, predictorVars, lineVars >>
PredictorStep == unit = "predictor" /\ PredictorNext /\ UNCHANGED << unit, fifo, serial, lineVars >>
LinesStep == unit = "lines" /\ LinesNext /\ UNCHANGED << unit, fifo, serial, predictorVars >>

Next == FifoStep \/ SerialStep \/ PredictorStep \/ LinesStep

Spec == Init /\ [][Next]_unitVars

TypeOK == FifoTypeOK /\ SerialTypeOK /\ PredictorTypeOK /\ LinesTypeOK
=============================================================================
