--------------------------- MODULE UsbRs485Proofs ---------------------------
(***************************************************************************)
(* Machine-checked proofs about the arbitration of USART1, for every set   *)
(* of triggers, with and without unplugging and network output, and for    *)
(* every length of the shell's command queue.                              *)
(***************************************************************************)
EXTENDS UsbRs485, SequenceTheorems, TLAPS

(* The shell's command queue keeps its type and its bound: only a command  *)
(* taken and a command received change it (shell_app.c 66-74).             *)
LEMMA CmdsTyped == TypeOK /\ [Next]_vars => CmdsOK'
<1> SUFFICES ASSUME CmdsOK, [Next]_vars
             PROVE  CmdsOK'
  BY DEF TypeOK
<1> USE DEF hostVars
<1>1. CASE ShellCommand
  <2>1. cmds' = Tail(cmds) /\ cmds # <<>>
    BY <1>1 DEF ShellCommand
  <2>2. cmds \in Seq({"on", "off"}) /\ Len(cmds) <= MaxCmds
    BY DEF CmdsOK
  <2>3. Tail(cmds) \in Seq({"on", "off"}) /\ Len(Tail(cmds)) = Len(cmds) - 1
    BY <2>1, <2>2, HeadTailProperties
  <2>4. Len(cmds) \in Nat
    BY <2>2, LenProperties
  <2>5. Len(Tail(cmds)) <= MaxCmds
    BY <2>2, <2>3, <2>4, ConstantsAssumption
  <2> QED BY <2>1, <2>3, <2>5 DEF CmdsOK
<1>2. ASSUME NEW t \in UsbTasks, NEW c \in {"on", "off"}, UsbShellData(t, c)
      PROVE  CmdsOK'
  <2>1. cmds' = Append(cmds, c) /\ Len(cmds) < MaxCmds
    BY <1>2 DEF UsbShellData
  <2>2. cmds \in Seq({"on", "off"})
    BY DEF CmdsOK
  <2>3. Append(cmds, c) \in Seq({"on", "off"}) /\ Len(Append(cmds, c)) = Len(cmds) + 1
    BY <2>2, AppendProperties
  <2>4. Len(cmds) \in Nat
    BY <2>2, LenProperties
  <2>5. Len(Append(cmds, c)) <= MaxCmds
    BY <2>1, <2>3, <2>4, ConstantsAssumption
  <2> QED BY <2>1, <2>3, <2>5 DEF CmdsOK
<1>3. ASSUME NEW t \in UsbTasks, UsbConfigured(t)
      PROVE  CmdsOK'
  <2>1. cmds' = <<>>
    BY <1>3 DEF UsbConfigured
  <2> QED BY <2>1, EmptySeq, ConstantsAssumption DEF CmdsOK
<1>4. CASE UNCHANGED cmds
  BY <1>4 DEF CmdsOK
<1>5. \/ ShellCommand \/ UNCHANGED cmds
      \/ \E t \in UsbTasks : UsbConfigured(t) \/ \E c \in {"on", "off"} : UsbShellData(t, c)
  <2>1. ASSUME NEW t \in UsbTasks, Callback(t)
        PROVE  UNCHANGED cmds
    BY <2>1 DEF Callback, UsbTest, UsbEnableSuspend, UsbEnableSet, UsbEnableNotify,
                UsbDisableClear, UsbDisableResume
  <2>2. ASSUME NEW t \in UsbTasks, Host(t)
        PROVE  \/ UNCHANGED cmds \/ UsbConfigured(t)
               \/ \E c \in {"on", "off"} : UsbShellData(t, c)
    BY <2>2 DEF Host, UsbLineState, UsbBridgeData, UsbReset
  <2>3. CASE Modbus \/ LineByte
    BY <2>3 DEF Modbus, ModbusPoll, ModbusDrain, ModbusSleep, ModbusWake, LineByte
  <2>4. CASE Bridge
    BY <2>4 DEF Bridge, BridgeMove, BridgeTop, BridgeGate, BridgeTake, BridgeFromUsb,
                BridgeTransmitted, BridgeFromRs485, BridgeWake
  <2>5. CASE UNCHANGED vars
    BY <2>5 DEF vars
  <2> QED BY <2>1, <2>2, <2>3, <2>4, <2>5 DEF Next
<1> QED BY <1>1, <1>2, <1>3, <1>4, <1>5

(* The Boolean variables keep theirs.                                      *)
LEMMA FlagsTyped ==
  ASSUME FlagsOK, [Next]_vars
  PROVE  FlagsOK'
<1> USE DEF FlagsOK, UsbGoto, hostVars, byteVars, taskVars
<1>1. CASE ShellCommand
  BY <1>1 DEF ShellCommand, EnableNow, DisableNow, SuspendModbus, ResumeModbus, SetEnabled
<1>2. ASSUME NEW t \in UsbTasks, Callback(t)
      PROVE  FlagsOK'
  BY <1>2 DEF Callback, UsbTest, UsbEnableSuspend, UsbEnableSet, UsbEnableNotify, UsbDisableClear,
              UsbDisableResume, SuspendModbus, ResumeModbus, SetEnabled
<1>3. ASSUME NEW t \in UsbTasks, Host(t)
      PROVE  FlagsOK'
  BY <1>3 DEF Host, UsbLineState, UsbShellData, UsbBridgeData, UsbReset, UsbConfigured
<1>4. CASE Modbus
  BY <1>4 DEF Modbus, ModbusPoll, ModbusDrain, ModbusSleep, ModbusWake
<1>5. CASE Bridge
  BY <1>5 DEF Bridge, BridgeMove, BridgeTop, BridgeGate, BridgeBegin, BridgeTake, BridgeFromUsb,
              BridgeTransmitted, BridgeFromRs485, BridgeWake
<1>6. CASE LineByte
  BY <1>6 DEF LineByte
<1>7. CASE UNCHANGED vars
  BY <1>7 DEF vars
<1> QED BY <1>1, <1>2, <1>3, <1>4, <1>5, <1>6, <1>7 DEF Next

(* What has happened so far is one of the four histories.                  *)
LEMMA HistoryTyped ==
  ASSUME history \in Histories, [Next]_vars
  PROVE  history' \in Histories
<1> USE DEF Histories, hostVars
<1>1. CASE ShellCommand
  BY <1>1 DEF ShellCommand, Called
<1>2. ASSUME NEW t \in UsbTasks, Callback(t)
      PROVE  history' \in Histories
  BY <1>2 DEF Callback, UsbTest, UsbEnableSuspend, UsbEnableSet, UsbEnableNotify, UsbDisableClear,
              UsbDisableResume
<1>3. ASSUME NEW t \in UsbTasks, Host(t)
      PROVE  history' \in Histories
  BY <1>3 DEF Host, UsbLineState, Called, UsbShellData, UsbBridgeData, UsbReset, UsbConfigured
<1>4. CASE Modbus \/ LineByte
  BY <1>4 DEF Modbus, ModbusPoll, ModbusDrain, ModbusSleep, ModbusWake, LineByte
<1>5. CASE Bridge
  BY <1>5 DEF Bridge, BridgeMove, BridgeTop, BridgeGate, BridgeTake, BridgeFromUsb,
              BridgeTransmitted, BridgeFromRs485, BridgeWake
<1>6. CASE UNCHANGED vars
  BY <1>6 DEF vars
<1> QED BY <1>1, <1>2, <1>3, <1>4, <1>5, <1>6 DEF Next

(* Every task stays at one of its places, and the leaks are counted.       *)
LEMMA PlacesTyped ==
  ASSUME PlacesOK, leaks \in Nat, [Next]_vars
  PROVE  PlacesOK' /\ leaks' \in Nat
<1> USE DEF PlacesOK, UsbPcs, ModbusPcs, BridgePcs, hostVars, byteVars, taskVars, Goto, UsbGoto
<1>1. CASE ShellCommand
  BY <1>1 DEF ShellCommand, EnableNow, DisableNow, SuspendModbus, ResumeModbus, SetEnabled
<1>2. ASSUME NEW t \in UsbTasks, Callback(t)
      PROVE  PlacesOK' /\ leaks' \in Nat
  BY <1>2 DEF Callback, UsbTest, UsbEnableSuspend, UsbEnableSet, UsbEnableNotify, UsbDisableClear,
              UsbDisableResume, SuspendModbus, ResumeModbus, SetEnabled
<1>3. ASSUME NEW t \in UsbTasks, Host(t)
      PROVE  PlacesOK' /\ leaks' \in Nat
  BY <1>3 DEF Host, UsbLineState, UsbShellData, UsbBridgeData, UsbReset, UsbConfigured
<1>4. CASE Modbus
  BY <1>4 DEF Modbus, ModbusPoll, ModbusDrain, ModbusSleep, ModbusWake
<1>5. CASE Bridge
  BY <1>5 DEF Bridge, BridgeMove, BridgeTop, BridgeGate, BridgeBegin, BridgeTake, BridgeFromUsb,
              BridgeTransmitted, BridgeFromRs485, BridgeWake
<1>6. CASE LineByte
  BY <1>6 DEF LineByte
<1>7. CASE UNCHANGED vars
  BY <1>7 DEF vars
<1> QED BY <1>1, <1>2, <1>3, <1>4, <1>5, <1>6, <1>7 DEF Next

(* Every reachable state has the types TypeOK gives (the state of          *)
(* usb_rs485.c 19-21 and of the three tasks around it).                    *)
THEOREM TypeCorrect == Spec => []TypeOK
<1>1. Init => TypeOK
  <2>1. Init => CmdsOK
    BY EmptySeq, ConstantsAssumption DEF Init, CmdsOK
  <2>2. Init => FlagsOK
    BY DEF Init, FlagsOK
  <2>3. Init => PlacesOK /\ leaks \in Nat
    BY DEF Init, PlacesOK, UsbPcs, ModbusPcs, BridgePcs
  <2>4. Init => history \in Histories
    BY DEF Init, Histories
  <2> QED BY <2>1, <2>2, <2>3, <2>4 DEF TypeOK
<1>2. TypeOK /\ [Next]_vars => TypeOK'
  <2> SUFFICES ASSUME TypeOK, [Next]_vars
               PROVE  TypeOK'
    OBVIOUS
  <2>1. CmdsOK'
    BY CmdsTyped
  <2>2. FlagsOK'
    BY FlagsTyped DEF TypeOK
  <2>3. PlacesOK' /\ leaks' \in Nat
    BY PlacesTyped DEF TypeOK
  <2>4. history' \in Histories
    BY HistoryTyped DEF TypeOK
  <2> QED BY <2>1, <2>2, <2>3, <2>4 DEF TypeOK
<1> QED BY <1>1, <1>2, PTL DEF Spec

-----------------------------------------------------------------------------
(* Modbus is never left suspended by a disabled bridge outside the two     *)
(* windows of the USB task's callback, for any mix of the two triggers     *)
(* (usb_rs485.c 104-131).  Beside the types the property is inductive as   *)
(* it stands.                                                              *)
THEOREM ModbusNeverStranded == Spec => []NoLostResume
<1> USE DEF hostVars, byteVars, taskVars, Goto, UsbGoto
<1>1. Init => NoLostResume
  BY DEF Init, NoLostResume
<1>2. TypeOK /\ NoLostResume /\ [Next]_vars => NoLostResume'
  <2> SUFFICES ASSUME TypeOK, NoLostResume, [Next]_vars
               PROVE  NoLostResume'
    OBVIOUS
  <2>0. u_pc \in [UsbTasks -> UsbPcs]
    BY DEF TypeOK, PlacesOK
  <2>1. CASE ShellCommand
    BY <2>1 DEF NoLostResume, ShellCommand, EnableNow, DisableNow, SuspendModbus,
                ResumeModbus, SetEnabled
  <2>2. ASSUME NEW t \in UsbTasks, Callback(t)
        PROVE  NoLostResume'
    BY <2>0, <2>2 DEF NoLostResume, Callback, UsbTest, UsbEnableSuspend, UsbEnableSet, UsbEnableNotify,
                UsbDisableClear, UsbDisableResume, SuspendModbus, ResumeModbus, SetEnabled
  <2>3. ASSUME NEW t \in UsbTasks, Host(t)
        PROVE  NoLostResume'
    BY <2>0, <2>3 DEF NoLostResume, Host, UsbLineState, UsbShellData, UsbBridgeData, UsbReset,
                UsbConfigured
  <2>4. CASE Modbus
    BY <2>4 DEF NoLostResume, Modbus, ModbusPoll, ModbusDrain, ModbusSleep, ModbusWake
  <2>5. CASE Bridge
    BY <2>5 DEF NoLostResume, Bridge, BridgeMove, BridgeTop, BridgeGate, BridgeTake,
                BridgeFromUsb, BridgeTransmitted, BridgeFromRs485, BridgeWake
  <2>6. CASE LineByte
    BY <2>6 DEF NoLostResume, LineByte
  <2>7. CASE UNCHANGED vars
    BY <2>7 DEF NoLostResume, vars
  <2> QED BY <2>1, <2>2, <2>3, <2>4, <2>5, <2>6, <2>7 DEF Next
<1> QED BY <1>1, <1>2, TypeCorrect, PTL DEF Spec

-----------------------------------------------------------------------------
(* What bounds the leak: a disabled bridge that has leaked once holds no   *)
(* notification, and the USB task is not about to send one.                *)
LeakInv ==
  /\ leaks \in {0, 1}
  /\ s_enabled => leaks = 0
  /\ leaks = 1 => ~notified /\ \A t \in UsbTasks : u_pc[t] # "en_notify"

(* One enable leaves at most one iteration of the bridge to run after the  *)
(* bridge has been disabled, however the triggers interleave               *)
(* (usb_rs485.c 43-45, 104-131).                                           *)
THEOREM LeakBounded == Spec => []AtMostOneLeak
<1> USE DEF hostVars, byteVars, taskVars, Goto, UsbGoto
<1>1. Init => LeakInv
  BY DEF Init, LeakInv
<1>2. TypeOK /\ LeakInv /\ [Next]_vars => LeakInv'
  <2> SUFFICES ASSUME TypeOK, LeakInv, [Next]_vars
               PROVE  LeakInv'
    OBVIOUS
  <2>0. u_pc \in [UsbTasks -> UsbPcs]
    BY DEF TypeOK, PlacesOK
  <2>1. CASE ShellCommand
    BY <2>1 DEF LeakInv, ShellCommand, EnableNow, DisableNow, SuspendModbus, ResumeModbus,
                SetEnabled
  <2>2. ASSUME NEW t \in UsbTasks, Callback(t)
        PROVE  LeakInv'
    BY <2>0, <2>2 DEF LeakInv, Callback, UsbTest, UsbEnableSuspend, UsbEnableSet, UsbEnableNotify,
                UsbDisableClear, UsbDisableResume, SuspendModbus, ResumeModbus, SetEnabled
  <2>3. ASSUME NEW t \in UsbTasks, Host(t)
        PROVE  LeakInv'
    BY <2>0, <2>3 DEF LeakInv, Host, UsbLineState, UsbShellData, UsbBridgeData, UsbReset,
                UsbConfigured
  <2>4. CASE Modbus
    BY <2>4 DEF LeakInv, Modbus, ModbusPoll, ModbusDrain, ModbusSleep, ModbusWake
  <2>5. CASE Bridge
    <3>1. UsbIdle /\ UNCHANGED <<u_pc, s_enabled>>
      BY <2>5 DEF Bridge, BridgeMove, BridgeMayRun, BridgeTop, BridgeGate, BridgeTake,
                  BridgeFromUsb, BridgeTransmitted, BridgeFromRs485, BridgeWake
    <3>2. CASE BridgeTake
      BY <3>1, <3>2 DEF LeakInv, UsbIdle, BridgeTake, BridgeBegin
    <3>3. CASE BridgeGate
      BY <3>1, <3>3 DEF LeakInv, UsbIdle, BridgeGate, BridgeBegin
    <3>4. CASE BridgeTop \/ BridgeFromUsb \/ BridgeTransmitted \/ BridgeFromRs485 \/ BridgeWake
      BY <3>1, <3>4 DEF LeakInv, BridgeTop, BridgeFromUsb, BridgeTransmitted, BridgeFromRs485,
                        BridgeWake
    <3> QED BY <2>5, <3>2, <3>3, <3>4 DEF Bridge
  <2>6. CASE LineByte
    BY <2>6 DEF LeakInv, LineByte
  <2>7. CASE UNCHANGED vars
    BY <2>7 DEF LeakInv, vars
  <2> QED BY <2>1, <2>2, <2>3, <2>4, <2>5, <2>6, <2>7 DEF Next
<1>3. LeakInv => AtMostOneLeak
  BY DEF LeakInv, AtMostOneLeak
<1> QED BY <1>1, <1>2, <1>3, TypeCorrect, PTL DEF Spec

-----------------------------------------------------------------------------
(* What a call of usb_rs485_enable or usb_rs485_disable knows of the two   *)
(* flags at each of its steps, when no other call cuts it.                 *)
InCall(t) ==
  /\ u_pc[t] = "en_suspend" => ~s_enabled /\ ~suspended
  /\ u_pc[t] \in {"en_set", "dis_resume"} => ~s_enabled /\ suspended
  /\ u_pc[t] \in {"en_notify", "dis_clear"} => s_enabled /\ suspended

OneCall == \A t, o \in UsbTasks : u_pc[t] # "idle" /\ u_pc[o] # "idle" => t = o

NothingWritten == \A t \in UsbTasks : u_pc[t] \in {"idle", "enable", "disable"}

Handover ==
  /\ OneCall
  /\ \A t \in UsbTasks : InCall(t)
  /\ NothingWritten => (s_enabled <=> suspended)

HandoverInv == history # "nested" => Handover

(* One step of an uncut call keeps the hand-over going.                    *)
LEMMA CallKeepsHandover ==
  ASSUME TypeOK, Handover, NEW t \in UsbTasks, Callback(t)
  PROVE  Handover'
<1> USE DEF Handover, OneCall, NothingWritten, InCall
<1>0. /\ u_pc \in [UsbTasks -> UsbPcs] /\ s_enabled \in BOOLEAN /\ suspended \in BOOLEAN
      /\ UsbTasks' = UsbTasks
  BY DEF TypeOK, PlacesOK, FlagsOK, UsbTasks
<1>1. ASSUME NEW from \in UsbPcs \ {"idle"}, NEW to \in UsbPcs, UsbGoto(t, from, to)
      PROVE  /\ u_pc[t] = from /\ u_pc'[t] = to /\ OneCall'
             /\ \A o \in UsbTasks \ {t} : u_pc[o] = "idle" /\ u_pc'[o] = "idle"
  BY <1>0, <1>1 DEF UsbGoto, UsbPcs
<1>2. CASE UsbTest(t)
  <2>1. s_enabled' = s_enabled /\ suspended' = suspended
    BY <1>2 DEF UsbTest
  <2>2. CASE UsbGoto(t, "enable", IF s_enabled THEN "idle" ELSE "en_suspend")
    BY <1>0, <1>1, <2>1, <2>2 DEF UsbPcs
  <2>3. CASE UsbGoto(t, "disable", IF s_enabled THEN "dis_clear" ELSE "idle")
    BY <1>0, <1>1, <2>1, <2>3 DEF UsbPcs
  <2> QED BY <1>2, <2>2, <2>3 DEF UsbTest
<1>3. CASE UsbEnableSuspend(t)
  <2>1. UsbGoto(t, "en_suspend", "en_set") /\ s_enabled' = s_enabled /\ suspended' = TRUE
    BY <1>3 DEF UsbEnableSuspend, SuspendModbus
  <2> QED BY <1>0, <1>1, <2>1 DEF UsbPcs
<1>4. CASE UsbEnableSet(t)
  <2>1. UsbGoto(t, "en_set", "en_notify") /\ s_enabled' = TRUE /\ suspended' = suspended
    BY <1>4 DEF UsbEnableSet, SetEnabled
  <2> QED BY <1>0, <1>1, <2>1 DEF UsbPcs
<1>5. CASE UsbEnableNotify(t)
  <2>1. UsbGoto(t, "en_notify", "idle") /\ s_enabled' = s_enabled /\ suspended' = suspended
    BY <1>5 DEF UsbEnableNotify
  <2> QED BY <1>0, <1>1, <2>1 DEF UsbPcs
<1>6. CASE UsbDisableClear(t)
  <2>1. UsbGoto(t, "dis_clear", "dis_resume") /\ s_enabled' = FALSE /\ suspended' = suspended
    BY <1>6 DEF UsbDisableClear
  <2> QED BY <1>0, <1>1, <2>1 DEF UsbPcs
<1>7. CASE UsbDisableResume(t)
  <2>1. UsbGoto(t, "dis_resume", "idle") /\ s_enabled' = s_enabled /\ suspended' = FALSE
    BY <1>7 DEF UsbDisableResume, ResumeModbus
  <2> QED BY <1>0, <1>1, <2>1 DEF UsbPcs
<1> QED BY <1>2, <1>3, <1>4, <1>5, <1>6, <1>7 DEF Callback

(* Whoever enables and disables the bridge and in whatever order, it is    *)
(* enabled exactly when Modbus is suspended whenever no callback runs, as  *)
(* long as no call has preempted another (usb_rs485.c 104-131, 137-158).   *)
THEOREM HandoverExcludes == Spec => []ExclusiveAtRest
<1> USE DEF hostVars, byteVars, taskVars
<1>1. Init => HandoverInv
  BY DEF Init, HandoverInv, Handover, OneCall, InCall, NothingWritten
<1>2. TypeOK /\ HandoverInv /\ [Next]_vars => HandoverInv'
  <2> SUFFICES ASSUME TypeOK, HandoverInv, [Next]_vars, history' # "nested"
               PROVE  Handover'
    BY DEF HandoverInv
  <2>0. u_pc \in [UsbTasks -> UsbPcs] /\ "shell" \notin UsbTasks
    BY DEF TypeOK, PlacesOK, UsbTasks
  <2>1. CASE ShellCommand
    <3>1. Handover /\ u_pc' = u_pc /\ \A t \in UsbTasks : u_pc[t] = "idle"
      BY <2>0, <2>1 DEF HandoverInv, ShellCommand, Called
    <3>2. s_enabled' <=> suspended'
      BY <2>1, <3>1 DEF Handover, NothingWritten, ShellCommand, EnableNow, DisableNow,
                        SuspendModbus, ResumeModbus, SetEnabled
    <3> QED BY <3>1, <3>2 DEF Handover, OneCall, InCall, NothingWritten
  <2>2. ASSUME NEW t \in UsbTasks, Callback(t)
        PROVE  Handover'
    <3>1. history' = history
      BY <2>2 DEF Callback, UsbTest, UsbEnableSuspend, UsbEnableSet, UsbEnableNotify,
                  UsbDisableClear, UsbDisableResume
    <3> QED BY <2>2, <3>1, CallKeepsHandover DEF HandoverInv
  <2>3. ASSUME NEW t \in UsbTasks, Host(t)
        PROVE  Handover'
    <3>1. UNCHANGED <<s_enabled, suspended>>
      BY <2>3 DEF Host, UsbLineState, UsbShellData, UsbBridgeData, UsbReset, UsbConfigured
    <3>2. ASSUME NEW b \in BOOLEAN, UsbLineState(t, b)
          PROVE  Handover'
      <4>1. Handover /\ \A o \in UsbTasks : u_pc[o] = "idle"
        BY <3>2 DEF HandoverInv, UsbLineState, UsbGoto, Called
      <4>2. u_pc' = [u_pc EXCEPT ![t] = IF b THEN "enable" ELSE "disable"]
        BY <3>2 DEF UsbLineState, UsbGoto
      <4>3. \A o \in UsbTasks : /\ u_pc'[o] \in {"idle", "enable", "disable"}
                                /\ o # t => u_pc'[o] = "idle"
        BY <2>0, <4>1, <4>2
      <4> QED BY <3>1, <4>1, <4>3 DEF Handover, OneCall, InCall, NothingWritten
    <3>3. CASE u_pc' = u_pc
      <4>1. history # "nested"
        BY <2>3, <3>3 DEF Host, UsbLineState, Called, UsbShellData, UsbBridgeData, UsbReset,
                          UsbConfigured
      <4> QED BY <3>1, <3>3, <4>1 DEF HandoverInv, Handover, OneCall, InCall, NothingWritten
    <3> QED BY <2>3, <3>2, <3>3 DEF Host, UsbShellData, UsbBridgeData, UsbReset, UsbConfigured
  <2>4. ASSUME UNCHANGED <<s_enabled, suspended, u_pc, history>>
        PROVE  Handover'
    BY <2>4 DEF HandoverInv, Handover, OneCall, InCall, NothingWritten
  <2>5. CASE Modbus \/ LineByte
    BY <2>4, <2>5 DEF Modbus, ModbusPoll, ModbusDrain, ModbusSleep, ModbusWake, LineByte
  <2>6. CASE Bridge
    BY <2>4, <2>6 DEF Bridge, BridgeMove, BridgeTop, BridgeGate, BridgeTake, BridgeFromUsb,
                      BridgeTransmitted, BridgeFromRs485, BridgeWake
  <2>7. CASE UNCHANGED vars
    BY <2>4, <2>7 DEF vars
  <2> QED BY <2>1, <2>2, <2>3, <2>5, <2>6, <2>7 DEF Next
<1>3. HandoverInv => ExclusiveAtRest
  BY DEF HandoverInv, Handover, NothingWritten, ExclusiveAtRest, UsbIdle
<1> QED BY <1>1, <1>2, <1>3, TypeCorrect, PTL DEF Spec

-----------------------------------------------------------------------------
(* While the USB task is the only caller, only it can be in a call, and it *)
(* runs below Modbus.                                                      *)
AsleepInv ==
  /\ SuspendedAsleep
  /\ history \in {"plain", "unplugged"} => \A t \in UsbTasks \ {"usb"} : u_pc[t] = "idle"

(* As long as the USB task is the only caller, Modbus is only ever         *)
(* suspended in its 20 ms sleep: the callback that suspends it runs at a   *)
(* lower priority (usb_netif.c 324, modbus_service.c 38, usb_rs485.c       *)
(* 109-111).                                                               *)
THEOREM DtrSuspendsAsleep == Spec => []SuspendedAsleep
<1> USE DEF hostVars, byteVars, taskVars, Goto
<1>1. Init => AsleepInv
  BY DEF Init, AsleepInv, SuspendedAsleep
<1>2. TypeOK /\ AsleepInv /\ [Next]_vars => AsleepInv'
  <2> SUFFICES ASSUME TypeOK, AsleepInv, [Next]_vars, history' \in {"plain", "unplugged"}
               PROVE  /\ suspended' => m_pc' = "delay"
                      /\ \A t \in UsbTasks \ {"usb"} : u_pc'[t] = "idle"
    BY DEF AsleepInv, SuspendedAsleep, UsbTasks
  <2>0. u_pc \in [UsbTasks -> UsbPcs]
    BY DEF TypeOK, PlacesOK
  <2>1. ~ShellCommand
    BY DEF ShellCommand, Called
  <2>2. ASSUME NEW t \in UsbTasks, Callback(t)
        PROVE  /\ suspended' => m_pc' = "delay"
               /\ \A o \in UsbTasks \ {"usb"} : u_pc'[o] = "idle"
    <3>1. u_pc[t] # "idle" /\ UsbMayRun(t) /\ history' = history
      BY <2>2 DEF Callback, UsbGoto, UsbTest, UsbEnableSuspend, UsbEnableSet, UsbEnableNotify,
                  UsbDisableClear, UsbDisableResume
    <3>2. t = "usb"
      BY <3>1 DEF AsleepInv
    <3>3. m_pc = "delay"
      <4>1. suspended \/ m_pc = "delay"
        BY <3>1, <3>2 DEF UsbMayRun, ModbusReady
      <4>2. history \in {"plain", "unplugged"}
        BY <3>1
      <4> QED BY <4>1, <4>2 DEF AsleepInv, SuspendedAsleep
    <3>4. suspended' => m_pc' = m_pc
      BY <2>2 DEF Callback, UsbTest, UsbEnableSuspend, UsbEnableSet, UsbEnableNotify,
                  UsbDisableClear, UsbDisableResume, SuspendModbus, ResumeModbus, SetEnabled
    <3>5. \A o \in UsbTasks \ {t} : u_pc'[o] = u_pc[o]
      BY <2>0, <2>2 DEF Callback, UsbGoto, UsbTest, UsbEnableSuspend, UsbEnableSet,
                        UsbEnableNotify, UsbDisableClear, UsbDisableResume
    <3> QED BY <3>1, <3>2, <3>3, <3>4, <3>5 DEF AsleepInv
  <2>3. ASSUME NEW t \in UsbTasks, Host(t)
        PROVE  /\ suspended' => m_pc' = "delay"
               /\ \A o \in UsbTasks \ {"usb"} : u_pc'[o] = "idle"
    <3>1. UNCHANGED <<suspended, m_pc>>
      BY <2>3 DEF Host, UsbLineState, UsbShellData, UsbBridgeData, UsbReset, UsbConfigured
    <3>2. history \in {"plain", "unplugged"}
      BY <2>3 DEF Host, UsbLineState, Called, UsbShellData, UsbBridgeData, UsbReset, UsbConfigured
    <3>3. t = "usb" \/ u_pc' = u_pc
      BY <2>3 DEF Host, UsbLineState, Called, UsbShellData, UsbBridgeData, UsbReset, UsbConfigured
    <3>4. \A o \in UsbTasks \ {t} : u_pc'[o] = u_pc[o]
      BY <2>0, <2>3 DEF Host, UsbLineState, UsbGoto, UsbShellData, UsbBridgeData, UsbReset,
                        UsbConfigured
    <3> QED BY <3>1, <3>2, <3>3, <3>4 DEF AsleepInv, SuspendedAsleep
  <2>4. CASE Modbus
    BY <2>4 DEF AsleepInv, SuspendedAsleep, Modbus, ModbusPoll, ModbusDrain, ModbusSleep,
                ModbusWake
  <2>5. ASSUME UNCHANGED <<suspended, m_pc, u_pc, history>>
        PROVE  /\ suspended' => m_pc' = "delay"
               /\ \A o \in UsbTasks \ {"usb"} : u_pc'[o] = "idle"
    BY <2>5 DEF AsleepInv, SuspendedAsleep
  <2>6. CASE Bridge
    BY <2>5, <2>6 DEF Bridge, BridgeMove, BridgeTop, BridgeGate, BridgeTake, BridgeFromUsb,
                      BridgeTransmitted, BridgeFromRs485, BridgeWake
  <2>7. CASE LineByte \/ UNCHANGED vars
    BY <2>5, <2>7 DEF LineByte, vars
  <2> QED BY <2>1, <2>2, <2>3, <2>4, <2>6, <2>7 DEF Next
<1>3. AsleepInv => SuspendedAsleep
  BY DEF AsleepInv
<1> QED BY <1>1, <1>2, <1>3, TypeCorrect, PTL DEF Spec

-----------------------------------------------------------------------------
(* The driver is on while the bridge sends, although Modbus may preempt    *)
(* it with a reply, and otherwise only after such a reply (usb_rs485.c     *)
(* 53-56, portserial.c 62-74).  Beside the types the property is inductive *)
(* as it stands.                                                           *)
THEOREM DriverFollows == Spec => []DriverFollowsSender
<1> USE DEF hostVars, byteVars, taskVars, Goto, DriverFollowsSender
<1>1. Init => DriverFollowsSender
  BY DEF Init
<1>2. TypeOK /\ DriverFollowsSender /\ [Next]_vars => DriverFollowsSender'
  <2> SUFFICES ASSUME TypeOK, DriverFollowsSender, [Next]_vars
               PROVE  DriverFollowsSender'
    OBVIOUS
  <2>1. CASE UNCHANGED <<b_pc, de, sending>>
    BY <2>1
  <2>2. CASE ModbusPoll
    BY <2>2 DEF ModbusPoll
  <2>3. CASE BridgeFromUsb
    <3>1. usb_rx \in BOOLEAN /\ UNCHANGED sending /\ b_pc = "from_usb"
      BY <2>3 DEF BridgeFromUsb, BridgeMove, TypeOK, FlagsOK
    <3>2. /\ usb_rx => b_pc' = "transmit" /\ de'
          /\ ~usb_rx => b_pc' = "from_rs485" /\ (de' => de)
      BY <2>3, <3>1 DEF BridgeFromUsb, BridgeMove
    <3> QED BY <3>1, <3>2
  <2>4. CASE BridgeTransmitted
    BY <2>4 DEF BridgeTransmitted, BridgeMove
  <2>5. CASE BridgeTop \/ BridgeGate \/ BridgeTake \/ BridgeFromRs485 \/ BridgeWake
    BY <2>5 DEF BridgeTop, BridgeGate, BridgeBegin, BridgeTake, BridgeFromRs485, BridgeWake,
                BridgeMove
  <2>6. ASSUME NEW t \in UsbTasks, Callback(t) \/ Host(t)
        PROVE  UNCHANGED <<b_pc, de, sending>>
    BY <2>6 DEF Callback, UsbTest, UsbEnableSuspend, UsbEnableSet, UsbEnableNotify,
                UsbDisableClear, UsbDisableResume, Host, UsbLineState, UsbShellData,
                UsbBridgeData, UsbReset, UsbConfigured
  <2>7. ShellCommand \/ ModbusDrain \/ ModbusSleep \/ ModbusWake \/ LineByte \/ UNCHANGED vars =>
          UNCHANGED <<b_pc, de, sending>>
    BY DEF ShellCommand, ModbusDrain, ModbusSleep, ModbusWake, LineByte, vars
  <2> QED BY <2>1, <2>2, <2>3, <2>4, <2>5, <2>6, <2>7 DEF Next, Modbus, Bridge
<1> QED BY <1>1, <1>2, TypeCorrect, PTL DEF Spec
=============================================================================
