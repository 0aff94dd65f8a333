---------------------------- MODULE MCUsbRs485 ----------------------------
(* The instances of UsbRs485 that TLC checks: the bridge driven by the DTR *)
(* line of its USB port alone, and by that line and the shell.             *)
EXTENDS UsbRs485

Dtr == {"dtr"}
DtrAndShell == {"dtr", "shell"}
=============================================================================
