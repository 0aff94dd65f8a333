------------------------------ MODULE UsbRs485 ------------------------------
(***************************************************************************)
(* Arbitration of USART1 and the RS485 driver between the Modbus slave and *)
(* the USB<->RS485 bridge (synaptix/app/user/usb_rs485/usb_rs485.c).       *)
(*                                                                         *)
(* Five tasks of a single-core, fixed-priority, preemptive FreeRTOS system *)
(* take part; a step of a task is possible only while every task of higher *)
(* priority is blocked or suspended, and equal priorities are time-sliced: *)
(*                                                                         *)
(*   55  shellTask          bridge_on / bridge_off, typed by the user      *)
(*   24  modbusTask         eMBPoll, drain the receive queue, sleep 20 ms  *)
(*   24  lwIP's thread      linkoutput_fn calls tud_task() while the       *)
(*                          network class cannot take another packet       *)
(*   10  usb_netif_process  tud_task(), which runs tud_cdc_line_state_cb   *)
(*    2  bridgeTask         the forwarding loop                            *)
(*                                                                         *)
(* Nothing preempts the shell but interrupts, so a shell command is one    *)
(* step.  usb_rs485_enable/disable run by a task that handles USB events   *)
(* are cut at every access to shared state, and so is the bridge's loop.   *)
(***************************************************************************)
EXTENDS Naturals, Sequences

CONSTANTS
  Triggers,  (* what starts and stops the bridge: "dtr", "shell" or both   *)
  Unplugs,   (* whether the bus may be reset or the cable pulled           *)
  NetOutput, (* whether the network interface's output handles USB events  *)
  RxWired,   (* whether the USART1 interrupt fills the receive queue: in   *)
             (* this commit nothing calls bsp_uart_rx_cb                   *)
  MaxCmds    (* bound: shell commands waiting in the CDC receive FIFO      *)

ASSUME ConstantsAssumption ==
  /\ Triggers \subseteq {"dtr", "shell"}
  /\ Unplugs \in BOOLEAN
  /\ NetOutput \in BOOLEAN
  /\ RxWired \in BOOLEAN
  /\ MaxCmds \in Nat

VARIABLES
  s_enabled,  (* the module's flag                                         *)
  suspended,  (* modbusTask is in FreeRTOS' suspended state                *)
  notified,   (* the bridge task's notification count is not zero          *)
  mounted,    (* tud_mounted()                                             *)
  dtr,        (* the DTR bit of the bridge port's line_state               *)
  cmds,       (* commands in the shell port's receive FIFO                 *)
  usb_rx,     (* the bridge port's receive FIFO holds bytes from the host  *)
  rx_queue,   (* USART1's receive queue holds bytes                        *)
  frame,      (* Modbus holds received bytes that may be a request         *)
  sending,    (* *SndState = STATE_TX_XMIT                                 *)
  de,         (* the RS485 driver-enable pin                               *)
  u_pc,       (* where each task is that handles USB events                *)
  m_pc, b_pc, (* where the Modbus and bridge tasks are                     *)
  leaks,      (* history: bridge iterations begun with s_enabled false     *)
              (* since it was last set                                     *)
  history     (* "plain", until the bus has been reset ("unplugged"),      *)
              (* another task than USB's has called usb_rs485_enable or    *)
              (* _disable ("shared"), or one call has preempted another    *)
              (* ("nested")                                                *)

taskVars == <<u_pc, m_pc, b_pc>>
hostVars == <<mounted, dtr, cmds, history>>
byteVars == <<usb_rx, rx_queue, frame, sending, de>>
vars == <<s_enabled, suspended, notified, leaks, taskVars, hostVars, byteVars>>

-----------------------------------------------------------------------------
(* Scheduling.                                                             *)

(* Modbus blocks in vTaskDelay only: it reads the receive queue for bytes  *)
(* it has just counted, and transmits by polling.                          *)
ModbusReady == ~suspended /\ m_pc # "delay"

(* The tasks that call tud_task().                                         *)
UsbTasks == IF NetOutput THEN {"usb", "net"} ELSE {"usb"}

UsbIdle == \A t \in UsbTasks : u_pc[t] = "idle"

(* Mutant: the USB task created above modbusTask.                          *)
UsbAboveModbus(t) == TRUE
UsbMayRun(t) ==
  \/ t = "net"
  \/ ~ModbusReady /\ \A o \in UsbTasks \ {t} : u_pc[o] = "idle"

BridgeMayRun == ~ModbusReady /\ UsbIdle

Goto(pc, from, to) == pc = from /\ pc' = to

UsbGoto(t, from, to) ==
  /\ UsbMayRun(t)
  /\ u_pc[t] = from
  /\ u_pc' = [u_pc EXCEPT ![t] = to]

-----------------------------------------------------------------------------
(* vTaskSuspend and vTaskResume on modbusTask.  A task resumed out of a    *)
(* delay is put on the ready list at once.                                 *)
SuspendModbus == suspended' = TRUE /\ UNCHANGED m_pc

ResumeModbus ==
  /\ suspended' = FALSE
  /\ m_pc' = IF suspended /\ m_pc = "delay" THEN "poll" ELSE m_pc

SetEnabled == s_enabled' = TRUE /\ leaks' = 0

(* A call of usb_rs485_enable or usb_rs485_disable by a task begins.       *)
Called(task) ==
  history' = IF history = "nested" \/ \E t \in UsbTasks \ {task} : u_pc[t] # "idle" THEN "nested"
             ELSE IF task # "usb" THEN "shared" ELSE history

-----------------------------------------------------------------------------
(* The shell task.  usb_rs485_enable() and usb_rs485_disable() in one      *)
(* step, with their early returns.                                         *)
EnableNow ==
  IF s_enabled THEN UNCHANGED <<s_enabled, leaks, suspended, m_pc, notified>>
  ELSE SuspendModbus /\ SetEnabled /\ notified' = TRUE

(* Mutant: the wake-up of Modbus forgotten.                                *)
DisableNowNoResume ==
  IF ~s_enabled THEN UNCHANGED <<s_enabled, leaks, suspended, m_pc, notified>>
  ELSE s_enabled' = FALSE /\ UNCHANGED <<leaks, suspended, m_pc, notified>>

DisableNow ==
  IF ~s_enabled THEN UNCHANGED <<s_enabled, leaks, suspended, m_pc, notified>>
  ELSE /\ s_enabled' = FALSE
       /\ ResumeModbus
       /\ UNCHANGED <<leaks, notified>>

ShellCommand ==
  /\ cmds # <<>>
  /\ \/ Head(cmds) = "on" /\ EnableNow
     \/ Head(cmds) = "off" /\ DisableNow
  /\ cmds' = Tail(cmds) /\ Called("shell")
  /\ UNCHANGED <<u_pc, b_pc, mounted, dtr, byteVars>>

-----------------------------------------------------------------------------
(* The tasks that handle USB events.  From "idle" (in tud_task) a task     *)
(* takes one event of the device stack.                                    *)

(* SET_CONTROL_LINE_STATE on the bridge port stores line_state and calls   *)
(* tud_cdc_line_state_cb.                                                  *)
UsbLineState(t, b) ==
  /\ "dtr" \in Triggers /\ mounted
  /\ UsbGoto(t, "idle", IF b THEN "enable" ELSE "disable")
  /\ dtr' = b /\ Called(t)
  /\ UNCHANGED <<s_enabled, suspended, notified, leaks, m_pc, b_pc, mounted, cmds, byteVars>>

(* The early returns of usb_rs485_enable and usb_rs485_disable.            *)
UsbTest(t) ==
  /\ \/ UsbGoto(t, "enable", IF s_enabled THEN "idle" ELSE "en_suspend")
     \/ UsbGoto(t, "disable", IF s_enabled THEN "dis_clear" ELSE "idle")
  /\ UNCHANGED <<s_enabled, suspended, notified, leaks, m_pc, b_pc, hostVars, byteVars>>

UsbEnableSuspend(t) ==
  /\ UsbGoto(t, "en_suspend", "en_set")
  /\ SuspendModbus
  /\ UNCHANGED <<s_enabled, notified, leaks, b_pc, hostVars, byteVars>>

UsbEnableSet(t) ==
  /\ UsbGoto(t, "en_set", "en_notify")
  /\ SetEnabled
  /\ UNCHANGED <<suspended, notified, m_pc, b_pc, hostVars, byteVars>>

(* Mutant: the notification dropped, as if "volatile s_enabled" were seen  *)
(* by a task that is blocked.                                              *)
UsbEnableNoNotify(t) ==
  /\ UsbGoto(t, "en_notify", "idle")
  /\ UNCHANGED <<s_enabled, suspended, notified, leaks, m_pc, b_pc, hostVars, byteVars>>

UsbEnableNotify(t) ==
  /\ UsbGoto(t, "en_notify", "idle")
  /\ notified' = TRUE
  /\ UNCHANGED <<s_enabled, suspended, leaks, m_pc, b_pc, hostVars, byteVars>>

UsbDisableClear(t) ==
  /\ UsbGoto(t, "dis_clear", "dis_resume")
  /\ s_enabled' = FALSE
  /\ UNCHANGED <<suspended, notified, leaks, m_pc, b_pc, hostVars, byteVars>>

(* Mutant: the resume guarded by the flag that was cleared a line before.  *)
UsbDisableSkipResume(t) ==
  /\ UsbGoto(t, "dis_resume", "idle")
  /\ IF s_enabled THEN ResumeModbus ELSE UNCHANGED <<suspended, m_pc>>
  /\ UNCHANGED <<s_enabled, notified, leaks, b_pc, hostVars, byteVars>>

UsbDisableResume(t) ==
  /\ UsbGoto(t, "dis_resume", "idle")
  /\ ResumeModbus
  /\ UNCHANGED <<s_enabled, notified, leaks, b_pc, hostVars, byteVars>>

(* Mutant: a FIFO that does not stop the host when it is full.             *)
UsbShellDataOverflow(t, c) ==
  /\ UsbMayRun(t) /\ u_pc[t] = "idle" /\ mounted
  /\ "shell" \in Triggers
  /\ cmds' = Append(cmds, c)
  /\ UNCHANGED <<s_enabled, suspended, notified, leaks, taskVars, mounted, dtr, history, byteVars>>

(* Bytes arrive on the shell port, and on the bridge port.                 *)
UsbShellData(t, c) ==
  /\ UsbMayRun(t) /\ u_pc[t] = "idle" /\ mounted
  /\ "shell" \in Triggers
  /\ Len(cmds) < MaxCmds
  /\ cmds' = Append(cmds, c)
  /\ UNCHANGED <<s_enabled, suspended, notified, leaks, taskVars, mounted, dtr, history, byteVars>>

UsbBridgeData(t) ==
  /\ UsbMayRun(t) /\ u_pc[t] = "idle" /\ mounted
  /\ usb_rx' = TRUE
  /\ UNCHANGED <<s_enabled, suspended, notified, leaks, taskVars, hostVars,
                 rx_queue, frame, sending, de>>

(* Bus reset or unplug: the class drivers are reset, which clears          *)
(* line_state without calling tud_cdc_line_state_cb.                       *)
UsbReset(t) ==
  /\ UsbMayRun(t) /\ u_pc[t] = "idle" /\ mounted /\ Unplugs
  /\ mounted' = FALSE /\ dtr' = FALSE
  /\ history' = IF history = "plain" THEN "unplugged" ELSE history
  /\ UNCHANGED <<s_enabled, suspended, notified, leaks, taskVars, cmds, byteVars>>

(* SET_CONFIGURATION opens the interfaces and clears their FIFOs.          *)
UsbConfigured(t) ==
  /\ UsbMayRun(t) /\ u_pc[t] = "idle" /\ ~mounted
  /\ mounted' = TRUE /\ cmds' = <<>> /\ usb_rx' = FALSE
  /\ UNCHANGED <<s_enabled, suspended, notified, leaks, taskVars, dtr, history,
                 rx_queue, frame, sending, de>>

-----------------------------------------------------------------------------
(* The Modbus task: eMBPoll; vMBPortSerialPoll; heartbeat; vTaskDelay(20). *)

(* A request that is answered turns the driver on and transmits inside a   *)
(* critical section, so poll is one step.  The transmitter state stays     *)
(* STATE_TX_XMIT: nothing calls bsp_uart_tx_done afterwards.               *)
ModbusPoll ==
  /\ ~suspended /\ Goto(m_pc, "poll", "drain")
  /\ \/ UNCHANGED <<frame, sending, de>>
     \/ frame /\ frame' = FALSE /\ UNCHANGED <<sending, de>>
     \/ frame /\ frame' = FALSE /\ sending' = TRUE /\ de' = TRUE
  /\ UNCHANGED <<s_enabled, suspended, notified, leaks, u_pc, b_pc, hostVars, usb_rx, rx_queue>>

(* xMBRTUReceiveFSM asserts STATE_TX_IDLE on every byte; a failed assert   *)
(* ends in _exit's endless loop.                                           *)
ModbusDrain ==
  /\ ~suspended /\ m_pc = "drain"
  /\ IF rx_queue /\ sending
     THEN m_pc' = "halted" /\ UNCHANGED <<rx_queue, frame>>
     ELSE /\ m_pc' = "heartbeat"
          /\ rx_queue' = FALSE
          /\ frame' = (frame \/ rx_queue)
  /\ UNCHANGED <<s_enabled, suspended, notified, leaks, u_pc, b_pc, hostVars,
                 usb_rx, sending, de>>

ModbusSleep ==
  /\ ~suspended /\ Goto(m_pc, "heartbeat", "delay")
  /\ UNCHANGED <<s_enabled, suspended, notified, leaks, u_pc, b_pc, hostVars, byteVars>>

ModbusWake ==
  /\ ~suspended /\ Goto(m_pc, "delay", "poll")
  /\ UNCHANGED <<s_enabled, suspended, notified, leaks, u_pc, b_pc, hostVars, byteVars>>

-----------------------------------------------------------------------------
(* The bridge task.                                                        *)
BridgeMove(from, to) ==
  /\ BridgeMayRun /\ Goto(b_pc, from, to)
  /\ UNCHANGED <<u_pc, m_pc, s_enabled, suspended, hostVars, frame, sending>>

BridgeTop ==
  /\ BridgeMove("top", IF mounted THEN "gate" ELSE "delay")
  /\ UNCHANGED <<notified, leaks, usb_rx, rx_queue, de>>

(* An iteration begins.                                                    *)
BridgeBegin ==
  /\ leaks' = IF s_enabled THEN leaks ELSE leaks + 1
  /\ UNCHANGED <<usb_rx, rx_queue, de>>

BridgeGate ==
  \/ s_enabled /\ BridgeMove("gate", "from_usb") /\ BridgeBegin /\ UNCHANGED notified
  \/ ~s_enabled /\ BridgeMove("gate", "wait")
     /\ UNCHANGED <<notified, leaks, usb_rx, rx_queue, de>>

(* Mutant: ulTaskNotifyTake(pdFALSE, ...) over a count that enable may     *)
(* have raised more than once.                                             *)
BridgeTakeNoClear ==
  /\ notified /\ notified' \in BOOLEAN
  /\ BridgeMove("wait", "from_usb") /\ BridgeBegin

(* ulTaskNotifyTake(pdTRUE, portMAX_DELAY): the count is cleared, and      *)
(* s_enabled is not read again.                                            *)
BridgeTake ==
  /\ notified /\ notified' = FALSE
  /\ BridgeMove("wait", "from_usb") /\ BridgeBegin

(* USB -> RS485: bytes are read and the driver turned on.  In "transmit"   *)
(* HAL_UART_Transmit polls and the line is logged, before the driver is    *)
(* turned off.                                                             *)
BridgeFromUsb ==
  /\ BridgeMove("from_usb", IF usb_rx THEN "transmit" ELSE "from_rs485")
  /\ usb_rx' = FALSE
  /\ de' = (de \/ usb_rx)
  /\ UNCHANGED <<notified, leaks, rx_queue>>

(* Mutant: an early return between bsp_rs485_de_on and bsp_rs485_de_off.   *)
BridgeTransmitKeepsDe ==
  /\ BridgeMove("transmit", "from_rs485")
  /\ de' \in {de, FALSE}
  /\ UNCHANGED <<notified, leaks, usb_rx, rx_queue>>

BridgeTransmitted ==
  /\ BridgeMove("transmit", "from_rs485")
  /\ de' = FALSE
  /\ UNCHANGED <<notified, leaks, usb_rx, rx_queue>>

(* RS485 -> USB: everything queued is read, and lost unless the port is    *)
(* connected.                                                              *)
BridgeFromRs485 ==
  /\ BridgeMove("from_rs485", "delay")
  /\ rx_queue' = FALSE
  /\ UNCHANGED <<notified, leaks, usb_rx, de>>

BridgeWake ==
  /\ BridgeMove("delay", "top")
  /\ UNCHANGED <<notified, leaks, usb_rx, rx_queue, de>>

-----------------------------------------------------------------------------
(* The USART1 interrupt hands received bytes to bsp_uart_rx_cb.            *)
LineByte ==
  /\ RxWired
  /\ rx_queue' = TRUE
  /\ UNCHANGED <<s_enabled, suspended, notified, leaks, taskVars, hostVars,
                 usb_rx, frame, sending, de>>

Init ==
  /\ s_enabled = FALSE /\ suspended = FALSE /\ notified = FALSE
  /\ leaks = 0 /\ history = "plain"
  /\ mounted = FALSE /\ dtr = FALSE /\ cmds = <<>>
  /\ usb_rx = FALSE /\ rx_queue = FALSE /\ frame = FALSE
  /\ sending = FALSE /\ de = FALSE
  /\ u_pc = [t \in UsbTasks |-> "idle"] /\ m_pc = "poll" /\ b_pc = "top"

Callback(t) ==
  \/ UsbTest(t)
  \/ UsbEnableSuspend(t) \/ UsbEnableSet(t) \/ UsbEnableNotify(t)
  \/ UsbDisableClear(t) \/ UsbDisableResume(t)

Host(t) ==
  \/ \E b \in BOOLEAN : UsbLineState(t, b)
  \/ \E c \in {"on", "off"} : UsbShellData(t, c)
  \/ UsbBridgeData(t) \/ UsbReset(t) \/ UsbConfigured(t)

Modbus == ModbusPoll \/ ModbusDrain \/ ModbusSleep \/ ModbusWake

Bridge ==
  \/ BridgeTop \/ BridgeGate \/ BridgeTake \/ BridgeFromUsb
  \/ BridgeTransmitted \/ BridgeFromRs485 \/ BridgeWake

Next ==
  \/ ShellCommand \/ Modbus \/ Bridge \/ LineByte
  \/ \E t \in UsbTasks : Callback(t) \/ Host(t)

Spec == Init /\ [][Next]_vars

(* Modbus sleeps 20 ms in every loop and USB events are handled in bounded *)
(* time, so the processor is free again and again for the tasks below    *)
(* them: a step that is ready again and again is taken (strong fairness).  *)
(* The host owes nothing.                                                  *)
Fairness ==
  /\ WF_vars(ShellCommand)
  /\ WF_vars(Modbus)
  /\ \A t \in UsbTasks : SF_vars(Callback(t))
  /\ SF_vars(Bridge)

FairSpec == Spec /\ Fairness

-----------------------------------------------------------------------------
(* Properties.                                                             *)

UsbPcs ==
  {"idle", "enable", "disable", "en_suspend", "en_set", "en_notify", "dis_clear", "dis_resume"}
ModbusPcs == {"poll", "drain", "heartbeat", "delay", "halted"}
Histories == {"plain", "unplugged", "shared", "nested"}
BridgePcs == {"top", "gate", "wait", "from_usb", "transmit", "from_rs485", "delay"}

FlagsOK ==
  /\ s_enabled \in BOOLEAN /\ suspended \in BOOLEAN /\ notified \in BOOLEAN
  /\ mounted \in BOOLEAN /\ dtr \in BOOLEAN
  /\ usb_rx \in BOOLEAN /\ rx_queue \in BOOLEAN
  /\ frame \in BOOLEAN /\ sending \in BOOLEAN /\ de \in BOOLEAN

PlacesOK == u_pc \in [UsbTasks -> UsbPcs] /\ m_pc \in ModbusPcs /\ b_pc \in BridgePcs

CmdsOK == cmds \in Seq({"on", "off"}) /\ Len(cmds) <= MaxCmds

(* Every variable has its type, and the shell FIFO never overflows.        *)
TypeOK ==
  /\ FlagsOK /\ PlacesOK /\ CmdsOK
  /\ leaks \in Nat /\ history \in Histories

(* Modbus is never left suspended by a disabled bridge: whenever the two   *)
(* flags disagree that way, a USB callback is inside usb_rs485_enable or   *)
(* usb_rs485_disable and its next write repairs it, whatever the shell and *)
(* another callback do in between (usb_rs485.c 104-131).                   *)
NoLostResume ==
  suspended /\ ~s_enabled => \E t \in UsbTasks : u_pc[t] \in {"en_set", "dis_resume"}

(* When no callback is running, the bridge is enabled exactly when Modbus  *)
(* is suspended, as long as no call has preempted another: whoever calls   *)
(* and in whatever order, only nesting can break it (usb_rs485.c 104-131). *)
ExclusiveAtRest == UsbIdle /\ history # "nested" => (s_enabled <=> suspended)

(* The same for nested calls too: enable and disable "are idempotent       *)
(* (guarded by the s_enabled check), so no conflict between the two        *)
(* triggers" (usb_rs485.c 142-144).                                        *)
NoConflict == UsbIdle => (s_enabled <=> suspended)

(* ulTaskNotifyTake does not re-read s_enabled, so a disabled bridge may   *)
(* still forward; but one enable leaves at most one such iteration behind  *)
(* (usb_rs485.c 43-45, 104-131).                                           *)
AtMostOneLeak == leaks <= 1

(* The line-state callback runs below Modbus: as long as the USB task is   *)
(* the only caller, Modbus is only ever suspended in its sleep, never in   *)
(* the middle of a poll or of a frame's bytes (usb_rs485.c 109-111,        *)
(* usb_netif.c 324, modbus_service.c 38).                                  *)
SuspendedAsleep == suspended /\ history \in {"plain", "unplugged"} => m_pc = "delay"

(* The driver is on while the bridge sends, and on at no other time except *)
(* after a Modbus reply, whose end nothing signals (usb_rs485.c 53-56,     *)
(* portserial.c 62-74, bsp_board_gpio.c 14-22).                            *)
DriverFollowsSender ==
  /\ b_pc = "transmit" => de
  /\ de => b_pc = "transmit" \/ sending

(* Once the bridge port is closed, Modbus runs again, unless the port is   *)
(* opened again first, another task takes part or the bus is reset         *)
(* (usb_rs485.c 139-140).                                                  *)
ClosedResumesModbus == ~dtr ~> (dtr \/ ~suspended \/ history # "plain")

(* The same with resets: closing the port "auto-disables (and resumes      *)
(* Modbus)" (usb_rs485.c 139-140).                                         *)
ClosingResumes == ~dtr ~> (dtr \/ ~suspended)

(* Bytes the host sends into an open bridge port reach HAL_UART_Transmit,  *)
(* unless the port is closed first, another task takes part, the bus is    *)
(* reset or modbusTask spins in a failed assert (usb_rs485.c 48-58).       *)
OpenForwards ==
  (dtr /\ mounted /\ usb_rx) ~>
    (b_pc = "transmit" \/ ~dtr \/ history # "plain" \/ m_pc = "halted")

(* With both triggers in use, a Modbus task stranded by an interleaving    *)
(* of enable and disable is resumed, or the bridge is really on.           *)
StrandedModbusResumes == (suspended /\ ~s_enabled) ~> (~suspended \/ s_enabled)
=============================================================================
