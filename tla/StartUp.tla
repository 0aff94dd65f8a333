------------------------------ MODULE StartUp ------------------------------
(***************************************************************************)
(* From StartDefaultTask to the running system (Core/Src/app_freertos.c,   *)
(* synaptix/app/app.c and the *_init functions they call), composed with   *)
(* the USB task of UsbNetif, which is created first and initialises        *)
(* TinyUSB, and everything after it, in its own time.                      *)
(*                                                                         *)
(* There are no locks and no flags: that nothing is used before it exists  *)
(* rests on the priorities, on the order of the calls, and on who blocks   *)
(* when.  The default task does not block before it is finished (the       *)
(* logger polls its UART), so tasks of lower priority wait that long, and  *)
(* tasks of equal priority share the processor with it.  lwIP's thread,    *)
(* which tcpip_init starts before all of them, waits until the interface   *)
(* is added; from then on it is above the USB task.                        *)
(***************************************************************************)
EXTENDS UsbNetif

Tasks == {"default", "shell", "modbus", "app", "usb", "bridge"}

(* Mutant: the USB task created above the default task.                    *)
PriorityUsbHigh ==
  [shell |-> 55, lwip |-> 24, default |-> 24, modbus |-> 24, app |-> 24, usb |-> 30,
   bridge |-> 2]

Priority ==
  [shell |-> 55, lwip |-> 24, default |-> 24, modbus |-> 24, app |-> 24, usb |-> 10,
   bridge |-> 2]

VARIABLES
  task,   (* every task's state                                            *)
  line,   (* the default task's next step                                  *)
  made,   (* what has been initialised                                     *)
  early   (* history: what has been used before it was                     *)

startVars == <<task, line, made, early>>
vars == <<startVars, netifVars>>

-----------------------------------------------------------------------------
(* The USB task waits for an event or a tick between two calls of tud_task *)
(* and, inside a callback, in linkoutput_fn's.                             *)
UsbBlocked == Waits("usb") /\ (Has("usb") \/ u_pc \in {"wait", "run"})

Ready(t) == task[t] = "ready" /\ (t = "usb" => ~UsbBlocked)

(* No task above this priority has anything to do.                         *)
Foremost(priority) ==
  /\ u_pc # "fault"
  /\ \A other \in Tasks : Ready(other) => Priority[other] <= priority
  /\ Priority.lwip > priority => Waits("lwip")

(* A task that waits may run as soon as its delay is over; it then goes on *)
(* to its next delay, in one step.                                         *)
MayRun(t) == task[t] \in {"ready", "blocked"} /\ Foremost(Priority[t])

Uses(things) == early' = early \cup (things \ made)

Becomes(t, state) == task' = [task EXCEPT ![t] = state]

-----------------------------------------------------------------------------
(* The default task: what each step uses, initialises and starts.          *)
BootStep(uses, makes, starts) ==
  [uses |-> uses, makes |-> makes, starts |-> starts]

(* usb_netif_init; app_logger_init; shell_app_init; bsp_uart_init, eMBInit *)
(* and eMBEnable; the Modbus task; its handle; usb_rs485_init, whose       *)
(* xTaskCreate stores the handle itself; the application task.             *)
Boot ==
  <<BootStep({}, {}, {"usb"}),
    BootStep({}, {"logger"}, {}),
    BootStep({}, {}, {"shell"}),
    BootStep({}, {"rs485"}, {}),
    BootStep({}, {}, {"modbus"}),
    BootStep({}, {"modbus_handle"}, {}),
    BootStep({"logger"}, {"bridge_handle"}, {"bridge"}),
    BootStep({"logger"}, {}, {"app"})>>

DefaultStep ==
  /\ MayRun("default") /\ line <= Len(Boot) /\ line' = line + 1
  /\ Uses(Boot[line].uses)
  /\ made' = made \cup Boot[line].makes
  /\ task' = [t \in Tasks |-> IF t \in Boot[line].starts THEN "ready" ELSE task[t]]
  /\ UNCHANGED netifVars

(* tcp_server_init fills in a structure; from then on osDelay.             *)
DefaultSleeps ==
  /\ task["default"] = "ready" /\ MayRun("default") /\ line > Len(Boot)
  /\ Becomes("default", "blocked")
  /\ UNCHANGED <<line, made, early, netifVars>>

-----------------------------------------------------------------------------
(* The other tasks, each up to its vTaskDelay.                             *)

(* Mutant: the shell polls for the host without a delay.                   *)
ShellSpins ==
  /\ MayRun("shell") /\ Uses({"logger", "usb"}) /\ UNCHANGED <<task, line, made, netifVars>>

(* shell_receive_task asks TinyUSB for the host; with one, a command may   *)
(* be bridge on or off.                                                    *)
ShellStep ==
  /\ MayRun("shell") /\ Becomes("shell", "blocked")
  /\ \/ Uses({"logger", "usb"})
     \/ mounted /\ ~suspended /\ Uses({"usb", "logger", "modbus_handle", "bridge_handle"})
  /\ UNCHANGED <<line, made, netifVars>>

(* eMBPoll, the drain of the receive queue, and the heartbeat.             *)
ModbusStep ==
  /\ MayRun("modbus") /\ Becomes("modbus", "blocked") /\ Uses({"rs485", "logger"})
  /\ UNCHANGED <<line, made, netifVars>>

(* vTaskDelete(NULL).                                                      *)
AppStep ==
  /\ MayRun("app") /\ Becomes("app", "deleted") /\ Uses({"logger"})
  /\ UNCHANGED <<line, made, netifVars>>

BridgeStep ==
  /\ MayRun("bridge") /\ Becomes("bridge", "blocked")
  /\ Uses(IF mounted THEN {"logger", "usb", "rs485"} ELSE {"logger", "usb"})
  /\ UNCHANGED <<line, made, netifVars>>

(* The USB task: tusb_init, or a step of UsbNetif, whose callbacks log.    *)
UsbStep ==
  /\ MayRun("usb") /\ UsbTask
  /\ Uses({"logger"})
  /\ made' = IF u_pc = "start" THEN made \cup {"usb"} ELSE made
  /\ UNCHANGED <<task, line>>

(* lwIP's thread, whose events log as well.                                *)
LwipStep ==
  /\ Foremost(Priority.lwip) /\ LwipThread
  /\ Uses({"logger"})
  /\ UNCHANGED <<task, line, made>>

(* The line state of the bridge's port, an event like the others:          *)
(* usb_rs485_enable or usb_rs485_disable.                                  *)
LineState ==
  /\ ~Ended /\ mounted
  /\ (MayRun("usb") /\ InTudTask("usb")) \/ (Foremost(Priority.lwip) /\ InTudTask("lwip"))
  /\ Uses({"modbus_handle", "bridge_handle"})
  /\ UNCHANGED <<task, line, made, netifVars>>

LwipFrees == added /\ LwipFreesPbuf /\ UNCHANGED startVars

Halted == Ended /\ UNCHANGED vars

-----------------------------------------------------------------------------
Init ==
  /\ NetifInit
  /\ task = [t \in Tasks |-> IF t = "default" THEN "ready" ELSE "absent"]
  /\ line = 1 /\ made = {} /\ early = {}

Next ==
  \/ DefaultStep \/ DefaultSleeps \/ ShellStep \/ ModbusStep \/ AppStep \/ BridgeStep
  \/ UsbStep \/ LwipStep \/ LineState \/ LwipFrees \/ Halted

(* Every task that may run does sooner or later; of equals, each gets its  *)
(* turn; and the events of the bus, in lwIP's thread too, leave the        *)
(* processor to the USB task and the bridge's again and again.  The host   *)
(* enumerates the device as it likes.                                      *)
Spec ==
  /\ Init /\ [][Next]_vars
  /\ WF_vars(DefaultStep \/ DefaultSleeps) /\ WF_vars(ShellStep) /\ WF_vars(ModbusStep)
  /\ WF_vars(AppStep) /\ SF_vars(BridgeStep)
  /\ WF_vars(UsbStep /\ u_pc' # u_pc) /\ SF_vars(UsbStep /\ u_pc' = "run")
  /\ NetifFairness

-----------------------------------------------------------------------------
(* Properties.                                                             *)

(* No task uses what has not been initialised, although five of them run   *)
(* before StartDefaultTask is done: the logger, the receive queue, Modbus' *)
(* handle and the bridge's.  The one exception is the shell, which asks    *)
(* TinyUSB for a host before tusb_init (app_freertos.c 148-170, app.c      *)
(* 32-47, usb_netif.c 319-325, shell_app.c 57).                            *)
NothingEarly == early \subseteq {"usb"}

(* Start-up always ends with every task in its loop, whatever the host     *)
(* does: none spins while another of lower priority still has to run       *)
(* (shell_app.c 57-62, usb_netif.c 287-291, app.c 49-57).  Unless the host *)
(* sends before netif_add, which is a hard fault, or the USB task and      *)
(* lwIP's thread cut into each other.                                      *)
AllTasksStart ==
  <>(\/ u_pc = "fault" \/ cut
     \/ u_pc # "start" /\ task = [t \in Tasks |->
          IF t = "app" THEN "deleted" ELSE IF t = "usb" THEN "ready" ELSE "blocked"])
=============================================================================
