------------------------------ MODULE ModbusRtu ------------------------------
(***************************************************************************)
(* The Modbus RTU slave: modbusTask (poll, drain, sleep), the FreeModbus   *)
(* receiver and the T35 timer interrupt (mb.c, mbrtu.c, mbport/).          *)
(*                                                                         *)
(* The interrupt can run between any two accesses of the task to the state *)
(* they share, so the task is cut there; what the code does inside a       *)
(* critical section is one step.  Bytes arrive one by one and are not told *)
(* apart: whether a frame passes the CRC check and whom it addresses is a  *)
(* choice.  The transmitter state stays STATE_TX_XMIT after a reply: HAL's *)
(* polling transmit signals no end and nothing calls bsp_uart_tx_done.     *)
(*                                                                         *)
(* A failed assert ends in an endless loop, and ends the behaviour here.   *)
(***************************************************************************)
EXTENDS Naturals

CONSTANTS
  MinPdu,    (* MB_SER_PDU_SIZE_MIN                                        *)
  MaxPdu,    (* MB_SER_PDU_SIZE_MAX, also the size of ucRTUBuf             *)
  QueueLen   (* length of the UART's receive queue                         *)

ASSUME ConstantsAssumption ==
  /\ MinPdu \in Nat /\ MaxPdu \in Nat /\ QueueLen \in Nat
  /\ 0 < MinPdu /\ MinPdu <= MaxPdu

VARIABLES
  rcv,      (* *RcvState                                                   *)
  snd,      (* *SndState                                                   *)
  pos,      (* usRcvBufferPos                                              *)
  timer,    (* TIM1 is running, with its interrupt enabled                 *)
  event,    (* eQueuedEvent, or "none" while xEventInQueue is FALSE        *)
  queue,    (* bytes in the receive queue                                  *)
  pc,       (* where modbusTask is                                         *)
  taken,    (* eMBPoll's eEvent                                            *)
  addr,     (* ucRcvAddress, as far as eMBPoll tells addresses apart       *)
  left,     (* bytes mb_uart_rx_task has still to read                     *)
  st,       (* the state xMBRTUReceiveFSM switches on                      *)
  checked,  (* history: ucRTUBuf holds a frame as it passed the check, not *)
            (* yet executed                                                *)
  failed,   (* the assert that has failed                                  *)
  bridged   (* history: the USB bridge has interfered: it has emptied the  *)
            (* receive queue, or its end has cut a sleep short             *)

receiver == <<rcv, pos, timer, checked>>
task == <<pc, taken, addr, left, st>>
vars == <<receiver, task, snd, event, queue, failed, bridged>>

Goto(from, to) == failed = "none" /\ pc = from /\ pc' = to

(* A failed assert; everything else stays as it is.                        *)
Fail(where) ==
  /\ failed' = where
  /\ UNCHANGED <<receiver, task, snd, event, queue, bridged>>

-----------------------------------------------------------------------------
(* eMBPoll.  xMBPortEventGet reads the event, then clears the flag.        *)
PollTake ==
  /\ Goto("poll", IF event = "none" THEN "drain" ELSE "clear")
  /\ taken' = event
  /\ UNCHANGED <<receiver, addr, left, st, snd, event, queue, failed, bridged>>

(* Mutant: no case for EV_FRAME_RECEIVED.                                  *)
PollClearNotReceived ==
  /\ Goto("clear", IF taken = "execute" THEN taken ELSE "drain")
  /\ event' = "none"
  /\ UNCHANGED <<receiver, taken, addr, left, st, snd, queue, failed, bridged>>

PollClear ==
  /\ Goto("clear", IF taken \in {"received", "execute"} THEN taken ELSE "drain")
  /\ event' = "none"
  /\ UNCHANGED <<receiver, taken, addr, left, st, snd, queue, failed, bridged>>

(* EV_FRAME_RECEIVED: eMBRTUReceive, with its assert.                      *)
PollReceived ==
  /\ failed = "none" /\ pc = "received"
  /\ \/ pos >= MaxPdu /\ Fail("length")
     \/ /\ pos < MaxPdu /\ pc' = "drain"
        /\ UNCHANGED <<receiver, taken, addr, left, st, snd, event, queue, failed, bridged>>
     \/ /\ MinPdu <= pos /\ pos < MaxPdu
        /\ addr' \in {"own", "broadcast", "other"}
        /\ checked' = TRUE
        /\ pc' = IF addr' = "other" THEN "drain" ELSE "post"
        /\ UNCHANGED <<rcv, pos, timer, taken, left, st, snd, event, queue, failed, bridged>>

(* Mutant: the event posted is the one the interrupt posts.                *)
PollPostReceived ==
  /\ Goto("post", "drain")
  /\ event' = "received"
  /\ UNCHANGED <<receiver, taken, addr, left, st, snd, queue, failed, bridged>>

PollPost ==
  /\ Goto("post", "drain")
  /\ event' = "execute"
  /\ UNCHANGED <<receiver, taken, addr, left, st, snd, queue, failed, bridged>>

(* EV_EXECUTE: the handler turns the request in ucRTUBuf into its reply.   *)
PollExecute ==
  /\ Goto("execute", IF addr = "broadcast" THEN "drain" ELSE "reply")
  /\ checked' = FALSE
  /\ UNCHANGED <<rcv, pos, timer, taken, addr, left, st, snd, event, queue, failed, bridged>>

(* The state one call of xMBRTUTransmitFSM leaves, with count bytes to     *)
(* send: it sends them all, and only a further call ends the transmission. *)
TransmitFSM(state, count) == IF state = "xmit" /\ count = 0 THEN "idle" ELSE state

(* eMBRTUSend calls the transmitter inside its critical section, with the  *)
(* address and more to send, unless the receiver has left STATE_RX_IDLE.   *)
PollReply ==
  /\ Goto("reply", "drain")
  /\ snd' = IF rcv = "idle" THEN TransmitFSM("xmit", 1) ELSE snd
  /\ UNCHANGED <<receiver, taken, addr, left, st, event, queue, failed, bridged>>

-----------------------------------------------------------------------------
(* vMBPortSerialPoll: xMBRTUReceiveFSM once for every byte counted.        *)
Drain ==
  /\ Goto("drain", IF queue = 0 THEN "delay" ELSE "byte")
  /\ left' = queue
  /\ UNCHANGED <<receiver, taken, addr, st, snd, event, queue, failed, bridged>>

(* The assert, the byte, and the switch.  With the queue empty             *)
(* bsp_uart_receive gives up after 10 ms and an undefined byte is used.    *)
DrainByte ==
  \/ /\ failed = "none" /\ pc = "byte" /\ snd # "idle" /\ Fail("sender")
  \/ /\ Goto("byte", "store") /\ snd = "idle"
     /\ queue' = IF queue = 0 THEN 0 ELSE queue - 1
     /\ st' = rcv
     /\ UNCHANGED <<receiver, taken, addr, left, snd, event, failed, bridged>>

(* Mutant: "<=" in the test of the buffer's end.                           *)
DrainStoreOverrun ==
  /\ Goto("store", "enable")
  /\ \/ st = "idle" /\ pos' = 1 /\ rcv' = "rcv" /\ checked' = FALSE
     \/ st = "rcv" /\ pos <= MaxPdu /\ pos' = pos + 1 /\ checked' = FALSE /\ UNCHANGED rcv
     \/ st = "rcv" /\ pos > MaxPdu /\ rcv' = "error" /\ UNCHANGED <<pos, checked>>
     \/ st \in {"init", "error"} /\ UNCHANGED <<pos, rcv, checked>>
  /\ UNCHANGED <<timer, taken, addr, left, st, snd, event, queue, failed, bridged>>

DrainStore ==
  /\ Goto("store", "enable")
  /\ \/ st = "idle" /\ pos' = 1 /\ rcv' = "rcv" /\ checked' = FALSE
     \/ st = "rcv" /\ pos < MaxPdu /\ pos' = pos + 1 /\ checked' = FALSE /\ UNCHANGED rcv
     \/ st = "rcv" /\ pos >= MaxPdu /\ rcv' = "error" /\ UNCHANGED <<pos, checked>>
     \/ st \in {"init", "error"} /\ UNCHANGED <<pos, rcv, checked>>
  /\ UNCHANGED <<timer, taken, addr, left, st, snd, event, queue, failed, bridged>>

(* Mutant: the first byte of a frame does not start the timer.             *)
DrainEnableNotFirst ==
  /\ Goto("enable", IF left <= 1 THEN "delay" ELSE "byte")
  /\ timer' = (timer \/ st # "idle")
  /\ left' = left - 1
  /\ UNCHANGED <<rcv, pos, checked, taken, addr, st, snd, event, queue, failed, bridged>>

(* vMBPortTimersEnable: HAL_TIM_Base_Start_IT starts a stopped timer and   *)
(* returns HAL_ERROR, restarting nothing, for a running one.               *)
DrainEnable ==
  /\ Goto("enable", IF left <= 1 THEN "delay" ELSE "byte")
  /\ timer' = TRUE
  /\ left' = left - 1
  /\ UNCHANGED <<rcv, pos, checked, taken, addr, st, snd, event, queue, failed, bridged>>

(* Mutant: a poll interval shorter than T35.                               *)
WakeEarly ==
  /\ Goto("delay", "poll")
  /\ UNCHANGED <<receiver, taken, addr, left, st, snd, event, queue, failed, bridged>>

(* vTaskDelay(20 ms).  T35 is TIM1's 7.8 ms, so a running timer expires    *)
(* before the sleep ends, unless the USB bridge is turned off: vTaskResume *)
(* cuts the sleep short.                                                   *)
Wake ==
  /\ Goto("delay", "poll")
  /\ \/ ~timer /\ UNCHANGED bridged
     \/ bridged' = TRUE
  /\ UNCHANGED <<receiver, taken, addr, left, st, snd, event, queue, failed>>

Task ==
  \/ PollTake \/ PollClear \/ PollReceived \/ PollPost \/ PollExecute \/ PollReply
  \/ Drain \/ DrainByte \/ DrainStore \/ DrainEnable \/ Wake

-----------------------------------------------------------------------------
(* The T35 interrupt: xMBRTUTimerT35Expired.                               *)

T35Expired ==
  /\ failed = "none" /\ timer
  /\ \/ rcv = "idle" /\ Fail("timer")
     \/ /\ rcv # "idle" /\ rcv' = "idle" /\ timer' = FALSE
        /\ event' = CASE rcv = "init" -> "ready"
                      [] rcv = "rcv"  -> "received"
                      [] OTHER        -> event
        /\ UNCHANGED <<pos, checked, task, snd, queue, failed, bridged>>

(* The UART interrupt queues a byte, or drops it when the queue is full.   *)
LineByte ==
  /\ failed = "none"
  /\ queue < QueueLen /\ queue' = queue + 1
  /\ UNCHANGED <<receiver, task, snd, event, failed, bridged>>

(* The USB bridge reads everything that is queued.                         *)
BridgeEmpties ==
  /\ failed = "none"
  /\ queue' = 0 /\ bridged' = TRUE
  /\ UNCHANGED <<receiver, task, snd, event, failed>>

-----------------------------------------------------------------------------
(* After eMBInit and eMBEnable.                                            *)
Init ==
  /\ rcv = "init" /\ snd = "idle" /\ pos = 0 /\ timer = TRUE
  /\ event = "none" /\ queue = 0
  /\ pc = "poll" /\ taken = "none" /\ addr = "other" /\ left = 0 /\ st = "init"
  /\ checked = FALSE /\ failed = "none" /\ bridged = FALSE

Next == Task \/ T35Expired \/ LineByte \/ BridgeEmpties

Spec == Init /\ [][Next]_vars

(* The task is not starved (it shares its priority, and what is above it   *)
(* sleeps), and a running timer expires.                                   *)
FairSpec == Spec /\ WF_vars(Task) /\ WF_vars(T35Expired)

-----------------------------------------------------------------------------
(* Properties.                                                             *)

Pcs ==
  {"poll", "clear", "received", "post", "execute", "reply",
   "drain", "byte", "store", "enable", "delay"}
RcvStates == {"init", "idle", "rcv", "error"}
Events == {"none", "ready", "received", "execute"}

(* Every variable has its type; pos stays inside ucRTUBuf.                 *)
TypeOK ==
  /\ rcv \in RcvStates /\ st \in RcvStates /\ snd \in {"idle", "xmit"}
  /\ pos \in 0..MaxPdu /\ queue \in 0..QueueLen /\ left \in Nat
  /\ timer \in BOOLEAN /\ checked \in BOOLEAN /\ bridged \in BOOLEAN
  /\ event \in Events /\ taken \in Events
  /\ addr \in {"own", "broadcast", "other"}
  /\ pc \in Pcs
  /\ failed \in {"none", "length", "sender", "timer"}

(* While a frame is being received, or waited out, the timer that ends it  *)
(* runs or is about to be started, whatever interrupt hit the receiver in  *)
(* between (mbrtu.c 244-288, 333-365; porttimer.c 134-146).                *)
TimerGuardsFrame == rcv # "idle" => timer \/ pc = "enable"

(* Until the USB bridge interferes, what a handler executes is the frame   *)
(* that passed the CRC check, not one overwritten by the bytes of a later  *)
(* frame or by a reply already built there (mb.c 380-404, mbrtu.c 155-189, *)
(* 257-285).                                                               *)
ExecutesChecked == ~bridged /\ pc = "execute" => checked

(* "Function called in an illegal state" (mbrtu.c 356-358): T35 never      *)
(* expires in STATE_RX_IDLE, with no bridge about.                         *)
TimerStateAsserted == ~bridged => failed # "timer"

(* The receiver always gets back to STATE_RX_IDLE (mbrtu.c 333-365).       *)
ReceiverReturns == rcv # "idle" ~> (rcv = "idle" \/ failed # "none")

(* A request that was accepted is executed, unless bytes that follow it    *)
(* start another frame first (mb.c 380-404, mbrtu.c 197-200).              *)
AcceptedIsExecuted ==
  pc = "post" ~> (pc = "execute" \/ rcv # "idle" \/ failed # "none" \/ bridged)

(* A frame that was ended by T35 is looked at by eMBPoll (mbrtu.c 346-348, *)
(* mb.c 373-390).                                                          *)
FrameIsLookedAt == event = "received" ~> (pc = "received" \/ failed # "none" \/ bridged)
=============================================================================
