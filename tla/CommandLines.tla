---------------------------- MODULE CommandLines ----------------------------
(***************************************************************************)
(* What the shell promises whoever types into it: a line is executed once, *)
(* when it ends, as the words left in it after every erasure; set_do alone *)
(* changes the outputs, and reboot clears everything.  A line that reaches *)
(* the limit is executed without its last character, and what follows is   *)
(* a line of its own.                                                      *)
(***************************************************************************)
EXTENDS Naturals, FiniteSets, SequencesExt

CONSTANTS
  Letter,     (* the characters of words                                   *)
  Command,    (* the command named by each known word                      *)
  Atoi,       (* the number that atoi reads in a word                      *)
  BufferSize, (* the limit of a line                                       *)
  MaxArgs,    (* the most words that are told apart                        *)
  Channels    (* the number of digital outputs                             *)

VARIABLES
  line,       (* what is left of the current line                          *)
  output,     (* whether each digital output is on                         *)
  answer      (* what the last character was answered                      *)

AllOff == [ch \in 1..Channels |-> FALSE]

Starts(text) == {i \in DOMAIN text : text[i] # "sp" /\ (i = 1 \/ text[i - 1] = "sp")}

WordFrom(text, i) ==
  SubSeq(text, i, Min({j \in i..Len(text) : j = Len(text) \/ text[j + 1] = "sp"}))

(* The k-th word is the one before which k - 1 others start.               *)
Start(text, k) ==
  CHOOSE i \in Starts(text) : Cardinality({j \in Starts(text) : j < i}) = k - 1

Words(text) ==
  [k \in 1..Min({Cardinality(Starts(text)), MaxArgs}) |-> WordFrom(text, Start(text, k))]

Answer(with) == answer' = with /\ UNCHANGED output

SetOutput(args) ==
  LET ch == Atoi[args[2]]
  IN \/ Len(args) # 3 /\ Answer("usage")
     \/ Len(args) = 3 /\ ch \notin 1..Channels /\ Answer("channel")
     \/ /\ Len(args) = 3 /\ ch \in 1..Channels
        /\ output' = [output EXCEPT ![ch] = Atoi[args[3]] # 0]
        /\ answer' = "set"

Execute(args) ==
  \/ args = <<>> /\ Answer("prompt")
  \/ args # <<>> /\ args[1] \notin DOMAIN Command /\ Answer("unknown")
  \/ /\ args # <<>> /\ args[1] \in DOMAIN Command
     /\ \/ Command[args[1]] = "set_do" /\ SetOutput(args)
        \/ Command[args[1]] # "set_do" /\ Answer(Command[args[1]])

Running == answer # "reboot"

Type(c) ==
  /\ Running /\ Len(line) + 1 < BufferSize
  /\ line' = Append(line, c) /\ Answer("none")

Cut ==
  /\ Running /\ Len(line) + 1 = BufferSize
  /\ line' = <<>> /\ Execute(Words(line))

Erase ==
  /\ Running
  /\ line' = IF line = <<>> THEN line ELSE Front(line)
  /\ Answer("none")

Ignore == Running /\ UNCHANGED line /\ Answer("none")

Enter == Running /\ line' = <<>> /\ Execute(Words(line))

Reboot ==
  /\ answer = "reboot"
  /\ line' = <<>> /\ output' = AllOff /\ answer' = "none"

Init == line = <<>> /\ output = AllOff /\ answer = "none"

Next ==
  \/ \E c \in Letter \cup {"sp"} : Type(c)
  \/ Cut \/ Erase \/ Ignore \/ Enter \/ Reboot

Spec == Init /\ [][Next]_<<line, output, answer>>
=============================================================================
