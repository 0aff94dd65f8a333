--------------------------- MODULE ModbusRtuProofs ---------------------------
(***************************************************************************)
(* Machine-checked proofs about the Modbus RTU slave, for every size of    *)
(* its frames and of its receive queue.                                    *)
(***************************************************************************)
EXTENDS ModbusRtu, TLAPS

(* The parts of TypeOK, by sort.                                           *)
NamesOK ==
  /\ rcv \in RcvStates /\ st \in RcvStates /\ snd \in {"idle", "xmit"}
  /\ event \in Events /\ taken \in Events
  /\ addr \in {"own", "broadcast", "other"}
  /\ pc \in Pcs
  /\ failed \in {"none", "length", "sender", "timer"}

CountsOK == pos \in 0..MaxPdu /\ queue \in 0..QueueLen /\ left \in Nat

FlagsOK == timer \in BOOLEAN /\ checked \in BOOLEAN /\ bridged \in BOOLEAN

(* While bytes are being read, their number is at least one and at most    *)
(* that of a full queue.                                                   *)
Reading == pc \in {"byte", "store", "enable"} => 1 <= left /\ left <= QueueLen

(* The timer is off, so the interrupt silent, from a poll that found an    *)
(* event to its end.                                                       *)
Quiet ==
  /\ pc = "poll" /\ timer => event = "none"
  /\ pc \in {"clear", "received", "post", "execute", "reply"} => ~timer
  /\ pc = "clear" => event = taken
  /\ pc \in {"received", "post", "execute", "reply"} => event = "none"

(* Between a request's acceptance and its execution lies one drain.  If    *)
(* bytes in it start another frame, that frame fits the buffer, and the    *)
(* T35 that ends it replaces the event.                                    *)
Pending ==
  event = "execute" =>
    /\ rcv \in {"idle", "rcv"}
    /\ rcv = "idle" => checked
    /\ rcv = "rcv" => pc \in {"byte", "store", "enable", "delay"}
    /\ pc = "store" => st = rcv
    /\ rcv = "rcv" /\ pc \in {"byte", "store"} => pos + left <= MaxPdu
    /\ rcv = "rcv" /\ pc = "enable" => pos + left <= MaxPdu + 1

Accepted == pc \in {"post", "execute"} => checked

(* TypeOK is the conjunction of its sorts.                                 *)
LEMMA TypeParts == TypeOK <=> NamesOK /\ CountsOK /\ FlagsOK
BY DEF TypeOK, NamesOK, CountsOK, FlagsOK

(* Every variable over a set of names keeps its type.                      *)
LEMMA NamesTyped ==
  ASSUME NamesOK, [Next]_vars
  PROVE  NamesOK'
<1> USE DEF NamesOK, RcvStates, Events, Pcs, receiver, task, Goto, Fail
<1>1. CASE PollTake \/ PollClear \/ PollReceived
  BY <1>1 DEF PollTake, PollClear, PollReceived
<1>2. CASE PollPost \/ PollExecute \/ PollReply
  BY <1>2 DEF PollPost, PollExecute, PollReply, TransmitFSM
<1>3. CASE Drain \/ DrainByte \/ DrainEnable
  BY <1>3 DEF Drain, DrainByte, DrainEnable
<1>4. CASE DrainStore
  BY <1>4 DEF DrainStore
<1>5. CASE Wake \/ T35Expired
  BY <1>5 DEF Wake, T35Expired
<1>6. CASE LineByte \/ BridgeEmpties \/ UNCHANGED vars
  BY <1>6 DEF LineByte, BridgeEmpties, vars
<1> QED BY <1>1, <1>2, <1>3, <1>4, <1>5, <1>6 DEF Next, Task

(* The receive buffer and the queue keep their bounds.  The last byte of a *)
(* drain is read with left = 1, so left never falls below 0.               *)
LEMMA CountsTyped ==
  ASSUME CountsOK, Reading, [Next]_vars
  PROVE  CountsOK'
<1> USE ConstantsAssumption DEF CountsOK, receiver, task, Goto, Fail
<1>1. CASE PollTake \/ PollClear \/ PollReceived
  BY <1>1 DEF PollTake, PollClear, PollReceived
<1>2. CASE PollPost \/ PollExecute \/ PollReply
  BY <1>2 DEF PollPost, PollExecute, PollReply, TransmitFSM
<1>3. CASE Drain
  BY <1>3 DEF Drain
<1>4. CASE DrainByte
  BY <1>4 DEF DrainByte
<1>5. CASE DrainStore
  BY <1>5 DEF DrainStore
<1>6. CASE DrainEnable
  <2>1. 1 <= left
    BY <1>6 DEF DrainEnable, Reading
  <2> QED BY <2>1, <1>6 DEF DrainEnable
<1>7. CASE Wake \/ T35Expired
  BY <1>7 DEF Wake, T35Expired
<1>8. CASE LineByte
  BY <1>8 DEF LineByte
<1>9. CASE BridgeEmpties \/ UNCHANGED vars
  BY <1>9 DEF BridgeEmpties, vars
<1> QED BY <1>1, <1>2, <1>3, <1>4, <1>5, <1>6, <1>7, <1>8, <1>9 DEF Next, Task

(* The Boolean variables stay Boolean.                                     *)
LEMMA FlagsTyped ==
  ASSUME FlagsOK, [Next]_vars
  PROVE  FlagsOK'
<1> USE DEF FlagsOK, receiver, task, Goto, Fail
<1>1. CASE PollTake \/ PollClear \/ PollReceived
  BY <1>1 DEF PollTake, PollClear, PollReceived
<1>2. CASE PollPost \/ PollExecute \/ PollReply
  BY <1>2 DEF PollPost, PollExecute, PollReply, TransmitFSM
<1>3. CASE Drain \/ DrainByte \/ DrainStore \/ DrainEnable
  BY <1>3 DEF Drain, DrainByte, DrainStore, DrainEnable
<1>4. CASE Wake \/ T35Expired \/ LineByte \/ BridgeEmpties \/ UNCHANGED vars
  BY <1>4 DEF Wake, T35Expired, LineByte, BridgeEmpties, vars
<1> QED BY <1>1, <1>2, <1>3, <1>4 DEF Next, Task

(* What is left to read was counted in the queue.                          *)
LEMMA ReadingKept ==
  ASSUME CountsOK, Reading, [Next]_vars
  PROVE  Reading'
<1> USE ConstantsAssumption DEF Reading, CountsOK, receiver, task, Goto, Fail
<1>1. CASE PollTake \/ PollClear \/ PollReceived
  BY <1>1 DEF PollTake, PollClear, PollReceived
<1>2. CASE PollPost \/ PollExecute \/ PollReply
  BY <1>2 DEF PollPost, PollExecute, PollReply, TransmitFSM
<1>3. CASE Drain
  BY <1>3 DEF Drain
<1>4. CASE DrainByte
  BY <1>4 DEF DrainByte
<1>5. CASE DrainStore \/ DrainEnable
  BY <1>5 DEF DrainStore, DrainEnable
<1>6. CASE Wake \/ T35Expired \/ LineByte \/ BridgeEmpties \/ UNCHANGED vars
  BY <1>6 DEF Wake, T35Expired, LineByte, BridgeEmpties, vars
<1> QED BY <1>1, <1>2, <1>3, <1>4, <1>5, <1>6 DEF Next, Task

(* TypeOK is inductive together with Reading.                              *)
LEMMA TypedReading == Spec => [](TypeOK /\ Reading)
<1>1. Init => TypeOK /\ Reading
  <2>1. Init => NamesOK /\ Reading
    BY DEF Init, NamesOK, Reading, RcvStates, Events, Pcs
  <2>2. Init => CountsOK
    BY ConstantsAssumption DEF Init, CountsOK
  <2>3. Init => FlagsOK
    BY DEF Init, FlagsOK
  <2> QED BY <2>1, <2>2, <2>3, TypeParts
<1>2. TypeOK /\ Reading /\ [Next]_vars => (TypeOK /\ Reading)'
  <2> SUFFICES ASSUME TypeOK, Reading, [Next]_vars
               PROVE  TypeOK' /\ Reading'
    OBVIOUS
  <2>1. NamesOK'
    BY TypeParts, NamesTyped
  <2>2. CountsOK' /\ Reading'
    BY TypeParts, CountsTyped, ReadingKept
  <2>3. FlagsOK'
    BY TypeParts, FlagsTyped
  <2>4. TypeOK'
    BY <2>1, <2>2, <2>3 DEF TypeOK, NamesOK, CountsOK, FlagsOK
  <2> QED BY <2>2, <2>4
<1> QED BY <1>1, <1>2, PTL DEF Spec

(* The receiver never writes outside ucRTUBuf and the queue never holds    *)
(* more than its length, whatever interrupts the task (mbrtu.c 271-285,    *)
(* board.c 145-156).                                                       *)
THEOREM TypeCorrect == Spec => []TypeOK
BY TypedReading, PTL

(* A frame being received always has its timer running or about to be      *)
(* started (mbrtu.c 244-288, 333-365).                                     *)
THEOREM TimerGuards == Spec => []TimerGuardsFrame
<1>1. Init => TimerGuardsFrame
  BY DEF Init, TimerGuardsFrame
<1>2. TimerGuardsFrame /\ [Next]_vars => TimerGuardsFrame'
  <2> SUFFICES ASSUME TimerGuardsFrame, [Next]_vars
               PROVE  TimerGuardsFrame'
    OBVIOUS
  <2> USE DEF TimerGuardsFrame, receiver, task, Goto, Fail
  <2>1. CASE PollTake \/ PollClear \/ PollReceived
    BY <2>1 DEF PollTake, PollClear, PollReceived
  <2>2. CASE PollPost \/ PollExecute \/ PollReply
    BY <2>2 DEF PollPost, PollExecute, PollReply, TransmitFSM
  <2>3. CASE Drain \/ DrainByte \/ DrainStore \/ DrainEnable
    BY <2>3 DEF Drain, DrainByte, DrainStore, DrainEnable
  <2>4. CASE Wake \/ T35Expired \/ LineByte \/ BridgeEmpties \/ UNCHANGED vars
    BY <2>4 DEF Wake, T35Expired, LineByte, BridgeEmpties, vars
  <2> QED BY <2>1, <2>2, <2>3, <2>4 DEF Next, Task
<1> QED BY <1>1, <1>2, PTL DEF Spec

(* Until the bridge interferes, and with a receive queue no longer than    *)
(* the buffer, as on the board (256 and 256), a handler only ever executes *)
(* a frame as it passed the CRC check (mb.c 380-404, mbrtu.c 155-189,      *)
(* 257-285).                                                               *)
THEOREM CheckedExecution ==
  ASSUME QueueLen <= MaxPdu
  PROVE  Spec => []ExecutesChecked
<1> DEFINE Alone == TimerGuardsFrame /\ Quiet /\ Pending /\ Accepted
           IInv == ~bridged => Alone
<1> USE DEF receiver, task, Goto, Fail
<1>1. Init => IInv
  BY DEF Init, TimerGuardsFrame, Quiet, Pending, Accepted
<1>2. bridged /\ [Next]_vars => bridged'
  <2>1. CASE PollTake \/ PollClear \/ PollReceived
    BY <2>1 DEF PollTake, PollClear, PollReceived
  <2>2. CASE PollPost \/ PollExecute \/ PollReply
    BY <2>2 DEF PollPost, PollExecute, PollReply, TransmitFSM
  <2>3. CASE Drain \/ DrainByte \/ DrainStore \/ DrainEnable
    BY <2>3 DEF Drain, DrainByte, DrainStore, DrainEnable
  <2>4. CASE Wake \/ T35Expired \/ LineByte \/ BridgeEmpties \/ UNCHANGED vars
    BY <2>4 DEF Wake, T35Expired, LineByte, BridgeEmpties, vars
  <2> QED BY <2>1, <2>2, <2>3, <2>4 DEF Next, Task
<1>3. TypeOK /\ Reading /\ Alone /\ [Next]_vars /\ ~bridged' => Alone'
  <2> SUFFICES ASSUME TypeOK, Reading, Alone, [Next]_vars, ~bridged'
               PROVE  Alone'
    OBVIOUS
  <2>1. CountsOK /\ CountsOK'
    BY TypeParts, CountsTyped
  <2>2. timer \in BOOLEAN /\ checked \in BOOLEAN
    BY DEF TypeOK
  <2>3. rcv \in RcvStates /\ event \in Events /\ taken \in Events
    BY DEF TypeOK
  <2>4. CASE PollTake
    BY <2>4, <2>3 DEF PollTake, TimerGuardsFrame, Quiet, Pending, Accepted, Events
  <2>5. CASE PollClear
    BY <2>5 DEF PollClear, TimerGuardsFrame, Quiet, Pending, Accepted
  <2>6. CASE PollReceived
    BY <2>6 DEF PollReceived, TimerGuardsFrame, Quiet, Pending, Accepted
  <2>7. CASE PollPost
    BY <2>7 DEF PollPost, TimerGuardsFrame, Quiet, Pending, Accepted
  <2>8. CASE PollExecute
    BY <2>8 DEF PollExecute, TimerGuardsFrame, Quiet, Pending, Accepted
  <2>9. CASE PollReply
    BY <2>9 DEF PollReply, TransmitFSM, TimerGuardsFrame, Quiet, Pending, Accepted
  <2>10. CASE Drain
    BY <2>10 DEF Drain, TimerGuardsFrame, Quiet, Pending, Accepted
  <2>11. CASE DrainByte
    BY <2>11 DEF DrainByte, TimerGuardsFrame, Quiet, Pending, Accepted
  <2>12. CASE DrainStore
    <3>1. TimerGuardsFrame' /\ Quiet' /\ Accepted'
      BY <2>12 DEF DrainStore, TimerGuardsFrame, Quiet, Accepted
    <3>2. 1 <= left /\ left <= MaxPdu /\ left \in Nat /\ pos \in Nat
      BY <2>1, <2>12, ConstantsAssumption DEF DrainStore, Reading, CountsOK
    <3>3. Pending'
      BY <2>12, <3>2, ConstantsAssumption DEF DrainStore, Pending
    <3> QED BY <3>1, <3>3
  <2>13. CASE DrainEnable
    <3>1. TimerGuardsFrame' /\ Quiet' /\ Accepted'
      BY <2>13 DEF DrainEnable, TimerGuardsFrame, Quiet, Accepted
    <3>2. left \in Nat /\ pos \in Nat
      BY <2>1, ConstantsAssumption DEF CountsOK
    <3>3. Pending'
      BY <2>13, <3>2, ConstantsAssumption DEF DrainEnable, Pending
    <3> QED BY <3>1, <3>3
  <2>14. CASE Wake
    BY <2>14 DEF Wake, TimerGuardsFrame, Quiet, Pending, Accepted
  <2>15. CASE T35Expired
    <3>1. CASE Fail("timer")
      BY <3>1 DEF TimerGuardsFrame, Quiet, Pending, Accepted
    <3>2. CASE rcv # "idle" /\ rcv' = "idle"
      <4>1. /\ timer /\ timer' = FALSE
            /\ UNCHANGED <<pos, checked, pc, taken, left, st>>
        BY <2>15, <3>2 DEF T35Expired
      <4>2. event' # "execute"
        <5>1. event = "execute" => rcv = "rcv"
          BY <3>2 DEF Pending
        <5> QED BY <2>15, <3>2, <5>1 DEF T35Expired
      <4>3. Quiet'
        BY <4>1 DEF Quiet
      <4> QED BY <3>2, <4>1, <4>2, <4>3 DEF TimerGuardsFrame, Pending, Accepted
    <3> QED BY <2>15, <3>1, <3>2 DEF T35Expired
  <2>16. CASE LineByte \/ BridgeEmpties \/ UNCHANGED vars
    BY <2>16 DEF LineByte, BridgeEmpties, vars, TimerGuardsFrame, Quiet, Pending, Accepted
  <2> QED BY <2>4, <2>5, <2>6, <2>7, <2>8, <2>9, <2>10, <2>11, <2>12, <2>13, <2>14, <2>15,
             <2>16 DEF Next, Task
<1>4. TypeOK /\ Reading /\ IInv /\ [Next]_vars => IInv'
  <2> HIDE DEF Alone
  <2> QED BY <1>2, <1>3
<1>5. IInv => ExecutesChecked
  BY DEF Accepted, ExecutesChecked
<1> QED BY <1>1, <1>4, <1>5, TypedReading, PTL DEF Spec
=============================================================================
