------------------------------ MODULE UartPort ------------------------------
(***************************************************************************)
(* USART1's receive queue and its two readers: Modbus, which counts the    *)
(* bytes that wait and then fetches them one by one (portserial.c), and    *)
(* the bridge, which counts them and then reads that many into its buffer  *)
(* (usb_rs485.c).  Neither count is made again, and neither reader looks   *)
(* at the other: suspending Modbus is all that keeps them apart, and the   *)
(* shell (priority 55) may do that between any two of Modbus' reads.       *)
(*                                                                         *)
(* A byte is its number on the line.  xQueueReceive is called with a wait  *)
(* of one tick, so a reader sleeps only while the queue is empty.  The     *)
(* interrupt is assumed to be wired: in this commit nothing calls          *)
(* bsp_uart_rx_cb.                                                         *)
(***************************************************************************)
EXTENDS Naturals, Sequences

CONSTANTS
  QueueLen,  (* length of the receive queue                                *)
  MaxBytes   (* bound: bytes that arrive                                   *)

ASSUME UartPortAssumption == QueueLen \in Nat \ {0} /\ MaxBytes \in Nat

VARIABLES
  queue,      (* rx_queue, the next byte to be received first              *)
  arrived,    (* bytes that have come off the line                         *)
  enabled,    (* s_enabled.  The shell's commands are one step each, so    *)
              (* here Modbus is suspended exactly while the bridge is on   *)
  notified,   (* the bridge task's notification                            *)
  m_pc, left, (* Modbus: asleep or reading, and the reads still to come    *)
  b_pc, want, got,  (* the bridge: its place, rx_avail, and what it has    *)
              (* read of it                                                *)
  frame,      (* history: the bytes Modbus has been given                  *)
  undefined,  (* history: Modbus has used a byte that was never read       *)
  host,       (* history: the bytes sent to the host                       *)
  piled,      (* history: two bytes have waited at once                    *)
  cut         (* history: the shell has suspended Modbus among its reads,  *)
              (* or has kept the processor for a read's whole 10 ms        *)

control == <<enabled, notified>>
modbus == <<m_pc, left, frame, undefined>>
bridge == <<b_pc, want, got, host>>
vars == <<queue, arrived, control, modbus, bridge, piled, cut>>

-----------------------------------------------------------------------------
(* bsp_uart_rx_cb sends to the FRONT of the queue, in the interrupt; a     *)
(* full queue loses the byte.                                              *)
LineByte ==
  /\ arrived < MaxBytes /\ arrived' = arrived + 1
  /\ queue' = IF Len(queue) < QueueLen THEN <<arrived + 1>> \o queue ELSE queue
  /\ piled' = (piled \/ queue # <<>>)
  /\ UNCHANGED <<control, modbus, bridge, cut>>

(* usb_rs485_enable and usb_rs485_disable, by the shell.                   *)
BridgeOn ==
  /\ ~enabled /\ enabled' = TRUE /\ notified' = TRUE
  /\ cut' = (cut \/ m_pc = "read")
  /\ UNCHANGED <<queue, arrived, modbus, bridge, piled>>

BridgeOff ==
  /\ enabled /\ enabled' = FALSE
  /\ UNCHANGED <<queue, arrived, notified, modbus, bridge, piled, cut>>

-----------------------------------------------------------------------------
(* modbusTask: mb_uart_rx_task, with one xMBPortSerialGetByte for every    *)
(* byte counted.                                                           *)
ModbusCount ==
  /\ ~enabled /\ m_pc = "asleep" /\ queue # <<>>
  /\ left' = Len(queue) /\ m_pc' = "read"
  /\ UNCHANGED <<queue, arrived, control, frame, undefined, bridge, piled, cut>>

ModbusReads == ~enabled /\ m_pc = "read"

NextRead ==
  /\ left' = left - 1
  /\ m_pc' = IF left = 1 THEN "asleep" ELSE "read"

ModbusByte ==
  /\ ModbusReads /\ NextRead
  /\ queue # <<>> /\ queue' = Tail(queue) /\ frame' = Append(frame, Head(queue))
  /\ UNCHANGED <<arrived, control, undefined, bridge, piled, cut>>

(* Nothing for 10 ms: the result is ignored, and ucByte is what it was.    *)
ModbusNoByte ==
  /\ ModbusReads /\ NextRead /\ queue = <<>>
  /\ undefined' = TRUE
  /\ UNCHANGED <<queue, arrived, control, frame, bridge, piled, cut>>

(* The 10 ms pass before bsp_uart_receive looks at the queue for the first *)
(* time: the shell, which logs by polling, has had the processor.          *)
ModbusTooLate ==
  /\ ModbusReads /\ NextRead /\ queue # <<>>
  /\ undefined' = TRUE /\ cut' = TRUE
  /\ UNCHANGED <<queue, arrived, control, frame, bridge, piled>>

-----------------------------------------------------------------------------
(* The bridge's task, of the lowest priority.                              *)

(* Mutant: the bridge's task created above Modbus'.                        *)
BridgeAlwaysRuns == TRUE

BridgeMayRun == ~(ModbusReads /\ queue # <<>>)

(* An iteration begins: with the bridge on, or woken by a notification     *)
(* that has outlived it.                                                   *)
BridgeCount ==
  /\ BridgeMayRun /\ b_pc = "gate" /\ queue # <<>>
  /\ enabled \/ notified
  /\ notified' = (notified /\ enabled)
  /\ want' = Len(queue) /\ got' = <<>> /\ b_pc' = "read"
  /\ UNCHANGED <<queue, arrived, enabled, modbus, host, piled, cut>>

(* Mutant: the byte is looked at and left in the queue.                    *)
BridgePeeks ==
  /\ BridgeMayRun /\ b_pc = "read" /\ queue # <<>>
  /\ got' = Append(got, Head(queue))
  /\ b_pc' = IF Len(got') = want THEN "send" ELSE "read"
  /\ UNCHANGED <<queue, arrived, control, modbus, want, host, piled, cut>>

BridgeByte ==
  /\ BridgeMayRun /\ b_pc = "read" /\ queue # <<>>
  /\ queue' = Tail(queue) /\ got' = Append(got, Head(queue))
  /\ b_pc' = IF Len(got') = want THEN "send" ELSE "read"
  /\ UNCHANGED <<arrived, control, modbus, want, host, piled, cut>>

(* 10 ms have passed, whatever the queue holds by now.                     *)
BridgeTimeout ==
  /\ BridgeMayRun /\ b_pc = "read" /\ b_pc' = "send"
  /\ UNCHANGED <<queue, arrived, control, modbus, want, got, host, piled, cut>>

(* What has been read goes to the host, or, with no host, nowhere.         *)
BridgeSend ==
  /\ BridgeMayRun /\ b_pc = "send" /\ b_pc' = "gate"
  /\ host' \in {host, host \o got}
  /\ got' = <<>>
  /\ UNCHANGED <<queue, arrived, control, modbus, want, piled, cut>>

-----------------------------------------------------------------------------
Init ==
  /\ queue = <<>> /\ arrived = 0
  /\ enabled = FALSE /\ notified = FALSE
  /\ m_pc = "asleep" /\ left = 0 /\ frame = <<>> /\ undefined = FALSE
  /\ b_pc = "gate" /\ want = 0 /\ got = <<>> /\ host = <<>>
  /\ piled = FALSE /\ cut = FALSE

Next ==
  \/ LineByte \/ BridgeOn \/ BridgeOff
  \/ ModbusCount \/ ModbusByte \/ ModbusNoByte \/ ModbusTooLate
  \/ BridgeCount \/ BridgeByte \/ BridgeTimeout \/ BridgeSend

Spec == Init /\ [][Next]_vars

-----------------------------------------------------------------------------
(* Properties.                                                             *)

(* Every variable has its type.                                            *)
TypeOK ==
  /\ queue \in Seq(1..MaxBytes) /\ Len(queue) <= QueueLen /\ arrived \in 0..MaxBytes
  /\ enabled \in BOOLEAN /\ notified \in BOOLEAN
  /\ m_pc \in {"asleep", "read"} /\ b_pc \in {"gate", "read", "send"}
  /\ left \in 0..QueueLen /\ want \in 0..QueueLen
  /\ got \in Seq(1..MaxBytes) /\ Len(got) <= want
  /\ frame \in Seq(1..MaxBytes) /\ host \in Seq(1..MaxBytes)
  /\ undefined \in BOOLEAN /\ piled \in BOOLEAN /\ cut \in BOOLEAN

(* A byte of a Modbus frame is undefined only if the shell has suspended   *)
(* Modbus among its reads or kept the processor for 10 ms: a bridge that   *)
(* is still reading after it has been turned off takes none of the bytes   *)
(* Modbus has counted (mbrtu.c 241, portserial.c 32-42 and 76-80,          *)
(* board.c 114-128, usb_rs485.c 60-69).                                    *)
UndefinedOnlyIfCut == undefined => cut

(* Every byte has one reader, however often the bridge is turned on and    *)
(* off while either reads; and each reader has its bytes in the line's     *)
(* order, unless two have waited at once: the interrupt then puts the      *)
(* later one in front (board.c 145-156).                                   *)
EachByteOnce ==
  LET given == frame \o host \o got IN
  /\ \A i, j \in 1..Len(given) : i # j => given[i] # given[j]
  /\ \A i, j \in 1..Len(frame) : i < j => frame[i] < frame[j] \/ piled
  /\ \A i, j \in 1..Len(host) : i < j => host[i] < host[j] \/ piled
=============================================================================
