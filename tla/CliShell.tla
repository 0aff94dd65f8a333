------------------------------ MODULE CliShell ------------------------------
(***************************************************************************)
(* The command-line shell on the first CDC port: shellTask, its line       *)
(* buffer and its command table (services/shell/cli_shell.c,               *)
(* app/user/shell).  The task outranks every other, so receiving one       *)
(* character, with the command it may complete, is one step.               *)
(***************************************************************************)
EXTENDS Integers, Sequences

CONSTANTS
  Letter,     (* the characters of words                                   *)
  Command,    (* the table: the handler of each name                       *)
  Atoi,       (* atoi, of every word                                       *)
  BufferSize, (* SHELL_RX_BUFFER_SIZE                                      *)
  MaxArgs,    (* SHELL_MAX_ARGS                                            *)
  Channels,   (* the number of digital outputs                             *)
  FifoSize    (* bound: characters waiting in the port's receive FIFO      *)

(* The characters: letters, space, line feed, backspace, carriage return.  *)
Typed == Letter \cup {"sp", "nl", "bs", "cr"}

ASSUME ShellAssumption ==
  /\ {"sp", "nl", "bs", "cr"} \cap Letter = {}
  /\ BufferSize \in Nat \ {0} /\ MaxArgs \in Nat \ {0}
  /\ Channels \in Nat /\ FifoSize \in Nat

(* atoi finds an int in every word that fits into a line.                  *)
ASSUME AtoiAssumption ==
  \A n \in 1..BufferSize - 1 : \A word \in [1..n -> Letter] : Atoi[word] \in Int

VARIABLES
  fifo,       (* the port's receive FIFO                                   *)
  connected,  (* tud_cdc_n_connected: the host has set DTR                 *)
  s_pc,       (* the task "waiting" for a host, "polling" the FIFO or      *)
              (* "rebooting"                                               *)
  rx_buffer,  (* the first rx_size characters of the line buffer           *)
  output,     (* whether each digital output is on                         *)
  answer      (* what the last character was answered                      *)

hostVars == <<fifo, connected>>
vars == <<hostVars, s_pc, rx_buffer, output, answer>>

-----------------------------------------------------------------------------
(* Mutant: the last place is not overwritten, nor the word there ended.    *)
EndsAtBlank(buffer, i) == buffer[i] \in {"sp", "nl"}

(* prv_process' scan of the buffer, left to right: the words complete so   *)
(* far, and the letters since next_arg was set.  The character at the last *)
(* place is overwritten whatever it is.                                    *)
Ends(buffer, i) == buffer[i] \in {"sp", "nl"} \/ i = Len(buffer)

Scan(buffer) ==
  LET scan[i \in 0..Len(buffer)] ==
        IF i = 0 THEN [argv |-> <<>>, word |-> <<>>]
        ELSE LET before == scan[i - 1]
             IN IF Len(before.argv) = MaxArgs THEN before
                ELSE IF ~Ends(buffer, i)
                THEN [before EXCEPT !.word = Append(before.word, buffer[i])]
                ELSE IF before.word = <<>> THEN before
                ELSE [argv |-> Append(before.argv, before.word), word |-> <<>>]
  IN scan[Len(buffer)].argv

-----------------------------------------------------------------------------
(* The handlers.  Those that read, and those of the bridge, change nothing *)
(* here.                                                                   *)
Says(what) == answer' = what /\ UNCHANGED <<s_pc, output>>

(* cmd_set_do.                                                             *)
SetDo(argv) ==
  LET ch == Atoi[argv[2]]
  IN \/ Len(argv) # 3 /\ Says("usage")
     \/ Len(argv) = 3 /\ (ch < 1 \/ ch > Channels) /\ Says("channel")
     \/ /\ Len(argv) = 3 /\ ~(ch < 1 \/ ch > Channels)
        /\ output' = [output EXCEPT ![ch] = Atoi[argv[3]] # 0]
        /\ answer' = "set" /\ UNCHANGED s_pc

(* cmd_reboot answers, and sleeps before it resets.                        *)
StartReboot == s_pc' = "rebooting" /\ answer' = "reboot" /\ UNCHANGED output

Handle(name, argv) ==
  \/ Command[name] = "set_do" /\ SetDo(argv)
  \/ Command[name] = "reboot" /\ StartReboot
  \/ Command[name] \notin {"set_do", "reboot"} /\ Says(Command[name])

(* prv_process on a buffer that is a line or full; it is empty afterwards. *)
Process(buffer) ==
  LET argv == Scan(buffer)
  IN /\ \/ argv = <<>> /\ Says("prompt")
        \/ argv # <<>> /\ argv[1] \notin DOMAIN Command /\ Says("unknown")
        \/ argv # <<>> /\ argv[1] \in DOMAIN Command /\ Handle(argv[1], argv)
     /\ rx_buffer' = <<>>

(* Mutant: a full buffer is not processed.                                 *)
CompleteLineOnly(buffer) == buffer[Len(buffer)] = "nl"

Complete(buffer) == buffer[Len(buffer)] = "nl" \/ Len(buffer) >= BufferSize

(* cli_shell_receive_char.                                                 *)
Receive(c) ==
  \/ (c = "cr" \/ Len(rx_buffer) >= BufferSize) /\ Says("none") /\ UNCHANGED rx_buffer
  \/ /\ c # "cr" /\ Len(rx_buffer) < BufferSize
     /\ \/ /\ c = "bs" /\ Says("none")
           /\ rx_buffer' = IF rx_buffer = <<>> THEN <<>>
                           ELSE SubSeq(rx_buffer, 1, Len(rx_buffer) - 1)
        \/ /\ c # "bs" /\ ~Complete(Append(rx_buffer, c)) /\ Says("none")
           /\ rx_buffer' = Append(rx_buffer, c)
        \/ c # "bs" /\ Complete(Append(rx_buffer, c)) /\ Process(Append(rx_buffer, c))

-----------------------------------------------------------------------------
(* shellTask.                                                              *)

(* The loop that waits for a host sees it, and cli_shell_boot.             *)
Boot ==
  /\ s_pc = "waiting" /\ connected
  /\ s_pc' = "polling" /\ rx_buffer' = <<>>
  /\ UNCHANGED <<hostVars, output, answer>>

Poll ==
  /\ s_pc = "polling" /\ fifo # <<>>
  /\ fifo' = Tail(fifo) /\ Receive(Head(fifo))
  /\ UNCHANGED connected

(* bsp_restart: the device begins anew.                                    *)
Restart ==
  /\ s_pc = "rebooting"
  /\ fifo' = <<>> /\ connected' = FALSE /\ s_pc' = "waiting"
  /\ rx_buffer' = <<>> /\ answer' = "none"
  /\ output' = [ch \in 1..Channels |-> FALSE]

-----------------------------------------------------------------------------
(* The host.  It can send without having set DTR, and what is received     *)
(* waits for the task; a bus reset closes the port and empties its FIFO,   *)
(* but not the task's line buffer.                                         *)

(* Mutant: a FIFO that does not stop the host when it is full.             *)
HostOverflows(c) ==
  /\ fifo' = Append(fifo, c)
  /\ UNCHANGED <<connected, s_pc, rx_buffer, output, answer>>

HostTypes(c) ==
  /\ Len(fifo) < FifoSize
  /\ fifo' = Append(fifo, c)
  /\ UNCHANGED <<connected, s_pc, rx_buffer, output, answer>>

HostSetsDtr(b) ==
  /\ connected' = b
  /\ UNCHANGED <<fifo, s_pc, rx_buffer, output, answer>>

HostResets ==
  /\ connected' = FALSE /\ fifo' = <<>>
  /\ UNCHANGED <<s_pc, rx_buffer, output, answer>>

-----------------------------------------------------------------------------
Init ==
  /\ fifo = <<>> /\ connected = FALSE
  /\ s_pc = "waiting" /\ rx_buffer = <<>> /\ answer = "none"
  /\ output = [ch \in 1..Channels |-> FALSE]

Next ==
  \/ Boot \/ Poll \/ Restart \/ HostResets
  \/ \E c \in Typed : HostTypes(c)
  \/ \E b \in BOOLEAN : HostSetsDtr(b)

Spec == Init /\ [][Next]_vars

-----------------------------------------------------------------------------
(* Properties.                                                             *)

(* Every variable has its type.                                            *)
TypeOK ==
  /\ fifo \in Seq(Typed) /\ Len(fifo) <= FifoSize
  /\ connected \in BOOLEAN
  /\ s_pc \in {"waiting", "polling", "rebooting"}
  /\ rx_buffer \in Seq(Typed)
  /\ output \in [1..Channels -> BOOLEAN]
  /\ answer \in {"none", "prompt", "unknown", "usage", "channel", "set", "reboot"}
                 \cup {Command[name] : name \in DOMAIN Command}

(* Between two characters the buffer is never full, or the shell would     *)
(* ignore everything from then on, and holds no line end, which would run  *)
(* two lines together (cli_shell.c 84-87, 134-146).                        *)
AlwaysListens ==
  /\ Len(rx_buffer) < BufferSize
  /\ \A i \in DOMAIN rx_buffer : rx_buffer[i] \in Letter \cup {"sp"}

(* The buffer, its in-place scan, the early returns and the table do what  *)
(* an edited line promises (cli_shell.c 76-146, shell_commands.c 23-57).   *)
Lines == INSTANCE CommandLines WITH line <- rx_buffer
IsCommandLine == Lines!Spec
=============================================================================
