--------------------------- MODULE CliShellProofs ---------------------------
(***************************************************************************)
(* Machine-checked proofs about the shell, for every alphabet, command     *)
(* table, buffer size and number of arguments.                             *)
(***************************************************************************)
EXTENDS CliShell, SequenceTheorems, FiniteSetTheorems, TLAPS

(* What waits in the FIFO has been typed, and what is in the buffer is     *)
(* part of one line, with room for another character.                      *)
LineInv ==
  /\ fifo \in Seq(Typed)
  /\ rx_buffer \in Seq(Letter \cup {"sp"})
  /\ Len(rx_buffer) < BufferSize

(* One received character leaves part of a line in the buffer, and room.   *)
LEMMA ReceiveKeepsLine ==
  ASSUME rx_buffer \in Seq(Letter \cup {"sp"}), Len(rx_buffer) < BufferSize,
         NEW c \in Typed, Receive(c)
  PROVE  /\ rx_buffer' \in Seq(Letter \cup {"sp"})
         /\ Len(rx_buffer') < BufferSize
<1> DEFINE Text == Letter \cup {"sp"}
<1>0. BufferSize \in Nat \ {0} /\ Len(rx_buffer) \in Nat
  BY LenProperties, ShellAssumption
<1>1. CASE rx_buffer' = <<>>
  <2>1. <<>> \in Seq(Text) /\ Len(<<>>) = 0
    BY EmptySeq
  <2> QED BY <1>0, <1>1, <2>1
<1>2. CASE rx_buffer' = rx_buffer
  BY <1>2
<1>3. CASE rx_buffer # <<>> /\ rx_buffer' = SubSeq(rx_buffer, 1, Len(rx_buffer) - 1)
  <2>1. Len(rx_buffer) - 1 \in 0..Len(rx_buffer) /\ Len(rx_buffer) >= 1
    BY <1>0, <1>3, EmptySeq
  <2>2. /\ SubSeq(rx_buffer, 1, Len(rx_buffer) - 1) \in Seq(Text)
        /\ Len(SubSeq(rx_buffer, 1, Len(rx_buffer) - 1)) = Len(rx_buffer) - 1
    BY <1>0, <2>1
  <2> QED BY <1>0, <1>3, <2>2
<1>4. CASE /\ c \notin {"cr", "bs"} /\ ~Complete(Append(rx_buffer, c))
           /\ rx_buffer' = Append(rx_buffer, c)
  <2>1. /\ Append(rx_buffer, c) \in Seq(Text \cup {c})
        /\ Len(Append(rx_buffer, c)) = Len(rx_buffer) + 1
        /\ Append(rx_buffer, c)[Len(rx_buffer) + 1] = c
    BY AppendProperties
  <2>2. c # "nl" /\ ~(Len(rx_buffer) + 1 >= BufferSize)
    BY <1>4, <2>1 DEF Complete
  <2>3. c \in Text
    BY <1>4, <2>2 DEF Typed
  <2>4. Text \cup {c} = Text
    BY <2>3
  <2> QED BY <1>0, <1>4, <2>1, <2>2, <2>4
<1> QED
  <2>1. ~(Len(rx_buffer) >= BufferSize)
    BY <1>0
  <2> QED BY <2>1, <1>1, <1>2, <1>3, <1>4 DEF Receive, Process

(* The line invariant holds.                                               *)
LEMMA LineInvariant == Spec => []LineInv
<1>1. Init => LineInv
  BY EmptySeq, ShellAssumption DEF Init, LineInv
<1>2. LineInv /\ [Next]_vars => LineInv'
  <2> SUFFICES ASSUME LineInv, [Next]_vars
               PROVE  LineInv'
    OBVIOUS
  <2>1. CASE Poll
    <3>1. Head(fifo) \in Typed /\ Tail(fifo) \in Seq(Typed)
      BY <2>1, HeadTailProperties DEF Poll, LineInv
    <3>2. rx_buffer' \in Seq(Letter \cup {"sp"}) /\ Len(rx_buffer') < BufferSize
      BY <2>1, <3>1, ReceiveKeepsLine DEF Poll, LineInv
    <3> QED BY <2>1, <3>1, <3>2 DEF Poll, LineInv
  <2>2. CASE Boot
    BY <2>2, EmptySeq, ShellAssumption DEF Boot, LineInv, hostVars
  <2>3. CASE Restart
    BY <2>3, EmptySeq, ShellAssumption DEF Restart, LineInv
  <2>4. ASSUME NEW c \in Typed, HostTypes(c)
        PROVE  LineInv'
    BY <2>4, AppendProperties DEF HostTypes, LineInv
  <2>5. CASE HostResets
    BY <2>5, EmptySeq DEF HostResets, LineInv
  <2>6. CASE UNCHANGED <<fifo, rx_buffer>>
    BY <2>6 DEF LineInv
  <2>7. ASSUME NEW b \in BOOLEAN, HostSetsDtr(b)
        PROVE  LineInv'
    BY <2>6, <2>7 DEF HostSetsDtr
  <2>8. CASE UNCHANGED vars
    BY <2>6, <2>8 DEF vars, hostVars
  <2> QED BY <2>1, <2>2, <2>3, <2>4, <2>5, <2>7, <2>8 DEF Next
<1> QED BY <1>1, <1>2, PTL DEF Spec

(* Between two characters the buffer holds part of one line and has room   *)
(* for another: the shell never stops listening and never writes beyond    *)
(* the buffer (cli_shell.c 134-146).                                       *)
THEOREM ShellAlwaysListens == Spec => []AlwaysListens
<1>1. LineInv => AlwaysListens
  BY ElementOfSeq DEF LineInv, AlwaysListens
<1> QED BY <1>1, LineInvariant, PTL

-----------------------------------------------------------------------------
(* What the host and the handlers change has its type.                     *)
AroundOK ==
  /\ Len(fifo) <= FifoSize /\ connected \in BOOLEAN
  /\ s_pc \in {"waiting", "polling", "rebooting"}
  /\ output \in [1..Channels -> BOOLEAN]
  /\ answer \in {"none", "prompt", "unknown", "usage", "channel", "set", "reboot"}
                \cup {Command[name] : name \in DOMAIN Command}

(* A received character leaves the task, the outputs and the answer typed. *)
LEMMA ReceiveTyped ==
  ASSUME AroundOK, NEW c, Receive(c)
  PROVE  /\ s_pc' \in {"waiting", "polling", "rebooting"}
         /\ output' \in [1..Channels -> BOOLEAN]
         /\ answer' \in {"none", "prompt", "unknown", "usage", "channel", "set", "reboot"}
                        \cup {Command[name] : name \in DOMAIN Command}
<1>1. ASSUME NEW what, Says(what),
             what \in {"none", "prompt", "unknown", "usage", "channel", "set", "reboot"}
                      \cup {Command[name] : name \in DOMAIN Command}
      PROVE  /\ UNCHANGED <<s_pc, output>> /\ answer' = what
  BY <1>1 DEF Says
<1>2. ASSUME NEW argv, SetDo(argv)
      PROVE  /\ UNCHANGED s_pc /\ output' \in [1..Channels -> BOOLEAN]
             /\ answer' \in {"usage", "channel", "set"}
  BY <1>2 DEF SetDo, Says, AroundOK
<1>3. ASSUME NEW name \in DOMAIN Command, NEW argv, Handle(name, argv)
      PROVE  /\ s_pc' \in {s_pc, "rebooting"}
             /\ output' \in [1..Channels -> BOOLEAN]
             /\ answer' \in {"usage", "channel", "set", "reboot", Command[name]}
  BY <1>2, <1>3 DEF Handle, StartReboot, Says, AroundOK
<1>4. CASE \E what \in {"none", "prompt", "unknown"} : Says(what)
  BY <1>4 DEF Says, AroundOK
<1>5. ASSUME NEW name \in DOMAIN Command, NEW argv, Handle(name, argv)
      PROVE  /\ s_pc' \in {"waiting", "polling", "rebooting"}
             /\ output' \in [1..Channels -> BOOLEAN]
             /\ answer' \in {"none", "prompt", "unknown", "usage", "channel", "set", "reboot"}
                            \cup {Command[n] : n \in DOMAIN Command}
  BY <1>3, <1>5 DEF AroundOK
<1> QED BY <1>4, <1>5 DEF Receive, Process

(* Every reachable state has the types TypeOK gives (cli_shell.h 46-50,    *)
(* shell_app.c 48-76).                                                     *)
THEOREM TypeCorrect == Spec => []TypeOK
<1>0. 0 <= FifoSize /\ [ch \in 1..Channels |-> FALSE] \in [1..Channels -> BOOLEAN]
  BY ShellAssumption
<1>1. Init => AroundOK
  <2>1. Init => Len(fifo) <= FifoSize
    BY <1>0, EmptySeq DEF Init
  <2> QED BY <1>0, <2>1 DEF Init, AroundOK
<1>2. LineInv /\ AroundOK /\ [Next]_vars => AroundOK'
  <2> SUFFICES ASSUME LineInv, AroundOK, [Next]_vars
               PROVE  AroundOK'
    OBVIOUS
  <2>0. Len(fifo) \in Nat /\ FifoSize \in Nat
    BY LenProperties, ShellAssumption DEF LineInv
  <2>1. CASE Poll
    <3>1. Len(fifo') <= FifoSize
      BY <2>0, <2>1, HeadTailProperties DEF Poll, LineInv, AroundOK
    <3>2. connected' = connected /\ Receive(Head(fifo))
      BY <2>1 DEF Poll
    <3> QED BY <3>1, <3>2, ReceiveTyped DEF AroundOK
  <2>2. CASE Boot
    BY <2>2 DEF Boot, AroundOK, hostVars
  <2>3. CASE Restart
    <3>1. fifo' = <<>> /\ Len(fifo') <= FifoSize
      BY <1>0, <2>3, EmptySeq DEF Restart
    <3> QED BY <1>0, <2>3, <3>1 DEF Restart, AroundOK
  <2>4. ASSUME NEW c \in Typed, HostTypes(c)
        PROVE  AroundOK'
    BY <2>0, <2>4, AppendProperties DEF HostTypes, LineInv, AroundOK
  <2>5. CASE HostResets
    <3>1. fifo' = <<>> /\ Len(fifo') <= FifoSize
      BY <1>0, <2>5, EmptySeq DEF HostResets
    <3> QED BY <2>5, <3>1 DEF HostResets, AroundOK
  <2>6. ASSUME NEW b \in BOOLEAN, HostSetsDtr(b)
        PROVE  AroundOK'
    BY <2>6 DEF HostSetsDtr, AroundOK
  <2>7. CASE UNCHANGED vars
    BY <2>7 DEF vars, hostVars, AroundOK
  <2> QED BY <2>1, <2>2, <2>3, <2>4, <2>5, <2>6, <2>7 DEF Next
<1>3. AroundOK /\ LineInv => TypeOK
  <2> SUFFICES ASSUME AroundOK, LineInv
               PROVE  TypeOK
    OBVIOUS
  <2>1. Letter \cup {"sp"} \subseteq Typed
    BY DEF Typed
  <2>2. rx_buffer \in Seq(Typed)
    BY <2>1 DEF LineInv
  <2> QED BY <2>2 DEF AroundOK, LineInv, TypeOK
<1> QED BY <1>1, <1>2, <1>3, LineInvariant, PTL DEF Spec

-----------------------------------------------------------------------------
(* The words of a line.                                                    *)

Text == Seq(Letter \cup {"sp"})

(* The end of the line is as good as a space.                              *)
Blank(text, i) == i = Len(text) + 1 \/ text[i] = "sp"

(* The starts of the words that have ended before the character i or there.*)
Ended(text, i) == {j \in Lines!Starts(text) : \E e \in j + 1..i : Blank(text, e)}

(* A word that begins at c and is not over at i.                           *)
Growing(text, c, i) ==
  /\ c \in Lines!Starts(text) /\ c <= i /\ i <= Len(text)
  /\ \A x \in c..i : text[x] # "sp"

LEMMA StartsFinite ==
  ASSUME NEW text \in Text, NEW S \in SUBSET Lines!Starts(text)
  PROVE  /\ Lines!Starts(text) \subseteq 1..Len(text)
         /\ Len(text) \in Nat /\ DOMAIN text = 1..Len(text)
         /\ IsFiniteSet(S) /\ Cardinality(S) \in Nat
<1>1. Len(text) \in Nat /\ DOMAIN text = 1..Len(text)
  BY LenProperties DEF Text
<1>2. Lines!Starts(text) \subseteq 1..Len(text)
  BY <1>1 DEF Lines!Starts
<1>3. IsFiniteSet(1..Len(text))
  BY <1>1, FS_Interval
<1>4. S \in SUBSET (1..Len(text))
  BY <1>2
<1>5. IsFiniteSet(S)
  BY <1>3, <1>4, FS_Subset
<1> QED BY <1>1, <1>2, <1>5, FS_CardinalityType

LEMMA LinesCardinality ==
  ASSUME NEW S PROVE Lines!Cardinality(S) = Cardinality(S)
BY DEF Lines!Cardinality, Cardinality

(* There is but one word before which k - 1 others start.                  *)
LEMMA StartUnique ==
  ASSUME NEW text \in Text, NEW c \in Lines!Starts(text), NEW k \in Nat,
         Cardinality({j \in Lines!Starts(text) : j < c}) = k - 1
  PROVE  Lines!Start(text, k) = c
<1> DEFINE S == Lines!Starts(text)
           Before(i) == {j \in S : j < i}
<1>1. \A i \in S : i \in Nat
  BY StartsFinite
<1>2. ASSUME NEW i \in S, NEW h \in S, i < h
      PROVE  Cardinality(Before(i)) < Cardinality(Before(h))
  <2>1. /\ Before(i) \in SUBSET S /\ Before(h) \in SUBSET S
        /\ Before(i) \cup {i} \in SUBSET Before(h) /\ i \notin Before(i)
    BY <1>1, <1>2
  <2> HIDE DEF Before
  <2>2. /\ IsFiniteSet(Before(i)) /\ Cardinality(Before(i)) \in Nat
        /\ IsFiniteSet(Before(h)) /\ Cardinality(Before(h)) \in Nat
    BY <2>1, StartsFinite
  <2>3. Cardinality(Before(i) \cup {i}) = Cardinality(Before(i)) + 1
    BY <2>1, <2>2, FS_AddElement
  <2>4. Cardinality(Before(i) \cup {i}) <= Cardinality(Before(h))
    BY <2>1, <2>2, FS_Subset
  <2> QED BY <2>2, <2>3, <2>4
<1>3. \A i \in S : Cardinality(Before(i)) \in Nat
  <2> SUFFICES ASSUME NEW i \in S PROVE Cardinality(Before(i)) \in Nat
    OBVIOUS
  <2>1. Before(i) \in SUBSET S
    OBVIOUS
  <2> HIDE DEF Before
  <2> QED BY <2>1, StartsFinite
<1>4. Lines!Start(text, k) = CHOOSE i \in S : Cardinality(Before(i)) = k - 1
  BY LinesCardinality DEF Lines!Start
<1>5. Cardinality(Before(c)) = k - 1
  OBVIOUS
<1> HIDE DEF S, Before
<1>6. c \in S
  BY DEF S
<1>7. \A i \in S : Cardinality(Before(i)) = k - 1 => i = c
  <2> SUFFICES ASSUME NEW i \in S, Cardinality(Before(i)) = k - 1, i # c
               PROVE  FALSE
    OBVIOUS
  <2>1. i < c \/ c < i
    BY <1>1, <1>6
  <2> QED BY <1>2, <1>3, <1>5, <1>6, <2>1
<1> QED BY <1>4, <1>5, <1>6, <1>7

(* A word that grows until a blank ends there.                             *)
LEMMA WordEnds ==
  ASSUME NEW text \in Text, NEW c, NEW i \in Nat, Growing(text, c, i), Blank(text, i + 1)
  PROVE  Lines!WordFrom(text, c) = SubSeq(text, c, i)
<1> DEFINE ends == {j \in c..Len(text) : j = Len(text) \/ text[j + 1] = "sp"}
<1>1. /\ c \in Nat /\ i \in Nat /\ Len(text) \in Nat /\ c <= i /\ i <= Len(text)
      /\ \A x \in c..i : text[x] # "sp"
  <2>1. c \in 1..Len(text) /\ Len(text) \in Nat
    BY StartsFinite DEF Growing
  <2>2. c <= i /\ i <= Len(text) /\ \A x \in c..i : text[x] # "sp"
    BY DEF Growing
  <2> QED BY <2>1, <2>2
<1>2. i \in ends
  BY <1>1 DEF Blank
<1>3. \A j \in ends : i <= j
  <2> SUFFICES ASSUME NEW j \in ends, j < i PROVE FALSE
    BY <1>1
  <2>1. j + 1 \in c..i /\ text[j + 1] = "sp"
    BY <1>1
  <2> QED BY <1>1, <2>1
<1>4. Lines!Min(ends) = CHOOSE x \in ends : \A y \in ends : x <= y
  BY DEF Lines!Min
<1>5. \A j \in ends : j \in Nat
  BY <1>1
<1> HIDE DEF ends
<1>6. Lines!Min(ends) = i
  <2>1. \A x \in ends : (\A y \in ends : x <= y) => x = i
    BY <1>2, <1>3, <1>5
  <2> QED BY <1>2, <1>3, <1>4, <2>1
<1> QED BY <1>6 DEF Lines!WordFrom, ends

(* What one character more does to the set of ended words.                 *)
LEMMA EndedStep ==
  ASSUME NEW text \in Text, NEW i \in 0..Len(text)
  PROVE  /\ Ended(text, 0) = {}
         /\ Ended(text, Len(text) + 1) = Lines!Starts(text)
         /\ Ended(text, i) \subseteq Ended(text, i + 1)
         /\ ~Blank(text, i + 1) => Ended(text, i + 1) = Ended(text, i)
         /\ i = 0 \/ Blank(text, i) => Ended(text, i + 1) = Ended(text, i)
         /\ (i = 0 \/ Blank(text, i)) /\ ~Blank(text, i + 1) => Growing(text, i + 1, i + 1)
         /\ \A c : Growing(text, c, i) =>
              /\ ~Blank(text, i + 1) => Growing(text, c, i + 1)
              /\ Blank(text, i + 1) =>
                   /\ Ended(text, i + 1) = Ended(text, i) \cup {c}
                   /\ c \notin Ended(text, i)
                   /\ Ended(text, i) = {j \in Lines!Starts(text) : j < c}
<1> DEFINE S == Lines!Starts(text)
           n == Len(text)
<1>1. /\ n \in Nat /\ i \in Nat /\ i <= n /\ S \subseteq 1..n
      /\ \A j \in 1..n : j \in S <=> text[j] # "sp" /\ (j = 1 \/ text[j - 1] = "sp")
  <2>1. n \in Nat /\ DOMAIN text = 1..n
    BY StartsFinite
  <2> QED BY <2>1 DEF Lines!Starts
<1>2. \A e \in 1..n : Blank(text, e) <=> text[e] = "sp"
  BY <1>1 DEF Blank
<1>3. Blank(text, n + 1)
  BY DEF Blank
<1>4. \A e : Ended(text, e) = {j \in S : \E x \in j + 1..e : Blank(text, x)}
  BY DEF Ended
<1>5. \A c, e : Growing(text, c, e) <=>
                 c \in S /\ c <= e /\ e <= n /\ \A x \in c..e : text[x] # "sp"
  BY DEF Growing
<1> HIDE DEF S, n
<1>5a. \A j \in S : j \in 1..n
  BY <1>1
<1>6. Ended(text, 0) = {}
  <2> SUFFICES ASSUME NEW j \in Ended(text, 0) PROVE FALSE
    OBVIOUS
  <2>1. j \in S /\ \E x \in j + 1..0 : Blank(text, x)
    BY <1>4
  <2> QED BY <1>1, <1>5a, <2>1
<1>7. Ended(text, n + 1) = S
  <2>1. ASSUME NEW j \in S
        PROVE  n + 1 \in j + 1..n + 1
    BY <1>1, <1>5a
  <2> QED BY <1>3, <1>4, <2>1
<1>8. Ended(text, i) \subseteq Ended(text, i + 1)
  BY <1>1, <1>4
<1>9. ~Blank(text, i + 1) => Ended(text, i + 1) = Ended(text, i)
  <2> SUFFICES ASSUME ~Blank(text, i + 1), NEW j \in Ended(text, i + 1)
               PROVE  j \in Ended(text, i)
    BY <1>8
  <2>1. j \in S /\ j \in Nat
    BY <1>4, <1>5a
  <2>2. PICK x \in j + 1..i + 1 : Blank(text, x)
    BY <1>4
  <2>3. x \in j + 1..i
    BY <1>1, <2>1, <2>2
  <2> QED BY <1>4, <2>1, <2>2, <2>3
<1>10. i = 0 \/ Blank(text, i) => Ended(text, i + 1) = Ended(text, i)
  <2> SUFFICES ASSUME i = 0 \/ Blank(text, i), NEW j \in Ended(text, i + 1)
               PROVE  j \in Ended(text, i)
    BY <1>8
  <2>1. PICK x \in j + 1..i + 1 : Blank(text, x)
    BY <1>4
  <2>2. j \in S /\ j \in 1..n
    BY <1>1, <1>4
  <2>3. CASE x <= i
    BY <1>1, <1>4, <2>1, <2>2, <2>3
  <2>4. CASE x = i + 1
    <3>1. i # 0 /\ j <= i /\ Blank(text, i)
      BY <1>1, <2>1, <2>2, <2>4
    <3>2. j # i
      BY <1>1, <1>2, <2>2, <3>1
    <3>3. i \in j + 1..i
      BY <1>1, <2>2, <3>1, <3>2
    <3> QED BY <1>4, <2>2, <3>1, <3>3
  <2> QED BY <1>1, <2>1, <2>2, <2>3, <2>4
<1>11. (i = 0 \/ Blank(text, i)) /\ ~Blank(text, i + 1) => Growing(text, i + 1, i + 1)
  <2> SUFFICES ASSUME i = 0 \/ Blank(text, i), ~Blank(text, i + 1)
               PROVE  Growing(text, i + 1, i + 1)
    OBVIOUS
  <2>1. i + 1 \in 1..n /\ i + 1 # n + 1
    BY <1>1, <1>3
  <2>2. text[i + 1] # "sp" /\ (i + 1 = 1 \/ text[(i + 1) - 1] = "sp")
    BY <1>1, <1>2, <2>1
  <2>3. i + 1 \in S
    BY <1>1, <2>1, <2>2
  <2> QED BY <1>1, <1>5, <2>1, <2>2, <2>3
<1>12. ASSUME NEW c, Growing(text, c, i), ~Blank(text, i + 1)
       PROVE  Growing(text, c, i + 1)
  <2>1. i + 1 # n + 1
    BY <1>3, <1>12
  <2>2. i + 1 \in 1..n
    BY <1>1, <2>1
  <2>3. text[i + 1] # "sp"
    BY <1>2, <1>12, <2>2
  <2>4. c \in S /\ c \in Nat /\ c <= i /\ \A x \in c..i : text[x] # "sp"
    BY <1>5, <1>5a, <1>12
  <2>5. \A x \in c..i + 1 : x \in c..i \/ x = i + 1
    BY <1>1, <2>4
  <2>6. c <= i + 1 /\ i + 1 <= n
    BY <1>1, <2>2, <2>4
  <2>7. \A x \in c..i + 1 : text[x] # "sp"
    BY <2>3, <2>4, <2>5
  <2> QED BY <1>5, <2>4, <2>6, <2>7
<1>13. ASSUME NEW c, Growing(text, c, i), Blank(text, i + 1)
       PROVE  /\ Ended(text, i + 1) = Ended(text, i) \cup {c}
              /\ c \notin Ended(text, i)
              /\ Ended(text, i) = {j \in S : j < c}
  <2>1. /\ c \in S /\ c \in 1..n /\ c <= i /\ \A x \in c..i : text[x] # "sp"
    BY <1>1, <1>5, <1>13
  <2>2. c \notin Ended(text, i)
    BY <1>1, <1>2, <1>4, <2>1
  <2>3. c \in Ended(text, i + 1)
    BY <1>1, <1>4, <1>13, <2>1
  <2>4. ASSUME NEW j \in S, j < c
        PROVE  j \in Ended(text, i)
    <3>1. c - 1 \in 1..n /\ text[c - 1] = "sp" /\ j \in 1..n /\ text[j] # "sp"
      BY <1>1, <2>1, <2>4
    <3>2. c - 1 \in j + 1..i /\ Blank(text, c - 1)
      BY <1>1, <1>2, <2>1, <2>4, <3>1
    <3> QED BY <1>4, <3>2
  <2>5. ASSUME NEW j \in S, c < j, j <= i
        PROVE  FALSE
    <3>1. j - 1 \in c..i /\ text[j - 1] = "sp"
      BY <1>1, <2>1, <2>5
    <3> QED BY <2>1, <3>1
  <2>6. \A j \in Ended(text, i + 1) : j \in S /\ j \in 1..n /\ j <= i
    <3> SUFFICES ASSUME NEW j \in Ended(text, i + 1)
                 PROVE  j \in S /\ j \in 1..n /\ j <= i
      OBVIOUS
    <3>1. j \in S /\ j \in 1..n /\ \E x \in j + 1..i + 1 : Blank(text, x)
      BY <1>4, <1>5a
    <3> QED BY <1>1, <3>1
  <2>7. \A j \in Ended(text, i + 1) : j = c \/ j < c
    <3> SUFFICES ASSUME NEW j \in Ended(text, i + 1), c < j PROVE FALSE
      BY <2>1, <2>6
    <3> QED BY <2>5, <2>6
  <2>8. Ended(text, i) \subseteq S
    BY <1>4
  <2> QED BY <1>8, <2>2, <2>3, <2>4, <2>6, <2>7, <2>8
<1> QED BY <1>6, <1>7, <1>8, <1>9, <1>10, <1>11, <1>12, <1>13 DEF S, n

-----------------------------------------------------------------------------
(* The scan in place.                                                      *)

Begun == [argv |-> <<>>, word |-> <<>>]

(* One turn of the scan's loop.                                            *)
Turn(buffer, before, i) ==
  IF Len(before.argv) = MaxArgs THEN before
  ELSE IF ~Ends(buffer, i) THEN [before EXCEPT !.word = Append(before.word, buffer[i])]
  ELSE IF before.word = <<>> THEN before
  ELSE [argv |-> Append(before.argv, before.word), word |-> <<>>]

Loop(buffer, n, f) ==
  f = [i \in 0..n |-> IF i = 0 THEN Begun ELSE Turn(buffer, f[i - 1], i)]

(* Induction over the naturals, for a set: a set that is not all of them   *)
(* would lack a least one.                                                 *)
LEMMA NatSetInduction ==
  ASSUME NEW T, 0 \in T, \A n \in Nat : n \in T => n + 1 \in T
  PROVE  \A n \in Nat : n \in T
<1> DEFINE Missing == {n \in Nat : n \notin T}
<1> SUFFICES ASSUME Missing # {}
             PROVE  FALSE
  OBVIOUS
<1>1. \E m \in Missing : \A k \in Missing : ~(<<k, m>> \in OpToRel(<, Nat))
  <2>1. Missing \subseteq Nat
    OBVIOUS
  <2> HIDE DEF Missing
  <2> QED BY <2>1, NatLessThanWellFounded, WFMin, Zenon
<1>2. \A k, m \in Missing : k < m => <<k, m>> \in OpToRel(<, Nat)
  BY DEF OpToRel
<1>3. \E m \in Missing : \A k \in Missing : ~(k < m)
  <2> HIDE DEF Missing
  <2> QED BY <1>1, <1>2, Zenon
<1>4. PICK m \in Missing : \A k \in Missing : ~(k < m)
  BY <1>3
<1>5. m # 0 /\ m - 1 \in Nat /\ m - 1 \notin Missing
  BY <1>4
<1>6. m - 1 \in T
  BY <1>5
<1>7. (m - 1) + 1 \in T
  BY <1>5, <1>6
<1> QED BY <1>4, <1>7

(* The recursive function that Scan takes its words from exists.           *)
LEMMA LoopExists ==
  ASSUME NEW buffer, NEW n \in Nat
  PROVE  \E f : Loop(buffer, n, f)
<1> DEFINE T == {m \in Nat : \E f : Loop(buffer, m, f)}
<1>1. 0 \in T
  <2> DEFINE f == [i \in 0..0 |-> Begun]
  <2>1. f = [i \in 0..0 |-> IF i = 0 THEN Begun ELSE Turn(buffer, f[i - 1], i)]
    OBVIOUS
  <2> QED BY <2>1 DEF Loop
<1>2. ASSUME NEW m \in Nat, m \in T
      PROVE  m + 1 \in T
  <2>1. PICK f : f = [i \in 0..m |-> IF i = 0 THEN Begun ELSE Turn(buffer, f[i - 1], i)]
    BY <1>2 DEF Loop
  <2> DEFINE g == [i \in 0..m + 1 |-> IF i = m + 1 THEN Turn(buffer, f[m], m + 1) ELSE f[i]]
  <2>2. g = [i \in 0..m + 1 |-> IF i = 0 THEN Begun ELSE Turn(buffer, g[i - 1], i)]
    BY <2>1
  <2>3. Loop(buffer, m + 1, g)
    BY <2>2 DEF Loop
  <2> HIDE DEF g
  <2> QED BY <2>3
<1>3. \A m \in Nat : m \in T
  <2> HIDE DEF T
  <2> QED BY <1>1, <1>2, NatSetInduction
<1> QED BY <1>3

LEMMA ScanIsLoop ==
  ASSUME NEW buffer, Len(buffer) \in Nat
  PROVE  \E f : Loop(buffer, Len(buffer), f) /\ Scan(buffer) = f[Len(buffer)].argv
<1> DEFINE f == CHOOSE f : Loop(buffer, Len(buffer), f)
<1>1. Scan(buffer) = f[Len(buffer)].argv
  BY DEF Scan, Loop, Turn, Begun
<1>2. Loop(buffer, Len(buffer), f)
  BY LoopExists
<1> HIDE DEF f
<1> QED BY <1>1, <1>2

Lesser(a, b) == IF a <= b THEN a ELSE b

(* What a word of a line can be.                                           *)
WordOf(text) == {w \in Seq(Letter) : w # <<>> /\ Len(w) <= Len(text)}

(* What the scan knows after i characters: the words that have ended, as   *)
(* many as it takes, and the one that grows.                               *)
Known(text, i, e) ==
  /\ e \in [argv : Seq(WordOf(text)), word : Seq(Letter)]
  /\ Len(e.argv) = Lesser(Cardinality(Ended(text, i)), MaxArgs)
  /\ \A k \in 1..Len(e.argv) : e.argv[k] = Lines!WordFrom(text, Lines!Start(text, k))
  /\ Cardinality(Ended(text, i)) < MaxArgs =>
       \/ e.word = <<>> /\ (i = 0 \/ Blank(text, i))
       \/ \E c : Growing(text, c, i) /\ e.word = SubSeq(text, c, i)

LEMMA GrowingWord ==
  ASSUME NEW text \in Text, NEW i \in Nat, NEW c, Growing(text, c, i)
  PROVE  /\ SubSeq(text, c, i) \in WordOf(text)
         /\ i + 1 <= Len(text) => Append(SubSeq(text, c, i), text[i + 1]) = SubSeq(text, c, i + 1)
<1>1. /\ c \in 1..Len(text) /\ Len(text) \in Nat /\ c <= i /\ i <= Len(text)
      /\ \A x \in c..i : text[x] # "sp"
  BY StartsFinite DEF Growing
<1>2. \A x \in 1..Len(text) : text[x] \in Letter \cup {"sp"}
  BY ElementOfSeq DEF Text
<1>3. \A x \in c..i : text[x] \in Letter
  BY <1>1, <1>2
<1>4. /\ SubSeq(text, c, i) \in Seq(Letter) /\ Len(SubSeq(text, c, i)) = i - c + 1
      /\ \A x \in 1..i - c + 1 : SubSeq(text, c, i)[x] = text[c + x - 1]
  BY <1>1, <1>3, SubSeqProperties
<1>5. SubSeq(text, c, i) # <<>>
  BY <1>1, <1>4, EmptySeq
<1>6. ASSUME i + 1 <= Len(text)
      PROVE  Append(SubSeq(text, c, i), text[i + 1]) = SubSeq(text, c, i + 1)
  <2> DEFINE S == Letter \cup {"sp"}
             long == Append(SubSeq(text, c, i), text[i + 1])
  <2>1. \A x \in c..i + 1 : text[x] \in S
    BY <1>1, <1>2, <1>6
  <2>2. /\ SubSeq(text, c, i + 1) \in Seq(S) /\ Len(SubSeq(text, c, i + 1)) = i + 1 - c + 1
        /\ \A x \in 1..i + 1 - c + 1 : SubSeq(text, c, i + 1)[x] = text[c + x - 1]
    BY <1>1, <2>1, SubSeqProperties
  <2>3. SubSeq(text, c, i) \in Seq(S) /\ text[i + 1] \in S
    BY <1>1, <1>2, <1>4, <1>6
  <2>4. /\ long \in Seq(S) /\ Len(long) = i - c + 1 + 1
        /\ \A x \in 1..i - c + 1 : long[x] = text[c + x - 1]
        /\ long[i - c + 1 + 1] = text[i + 1]
    BY <1>4, <2>3, AppendProperties
  <2> HIDE DEF long
  <2>5. ASSUME NEW x \in 1..i - c + 1 + 1
        PROVE  long[x] = SubSeq(text, c, i + 1)[x]
    <3>1. CASE x \in 1..i - c + 1
      BY <1>1, <2>2, <2>4, <3>1
    <3>2. CASE x = i - c + 1 + 1
      <4>1. c + x - 1 = i + 1 /\ x \in 1..i + 1 - c + 1
        BY <1>1, <3>2
      <4> QED BY <2>2, <2>4, <3>2, <4>1
    <3>3. x \in 1..i - c + 1 \/ x = i - c + 1 + 1
      BY <1>1
    <3> QED BY <3>1, <3>2, <3>3
  <2>6. i - c + 1 + 1 = i + 1 - c + 1
    BY <1>1
  <2>7. long = SubSeq(text, c, i + 1)
    BY <2>2, <2>4, <2>5, <2>6, SeqEqual
  <2> QED BY <2>7 DEF long
<1>7. Len(SubSeq(text, c, i)) <= Len(text)
  BY <1>1, <1>4
<1> QED BY <1>4, <1>5, <1>6, <1>7 DEF WordOf

(* A subsequence of one element.                                           *)
LEMMA OneOf ==
  ASSUME NEW S, NEW text, NEW m \in Nat, text[m] \in S
  PROVE  /\ SubSeq(text, m, m) \in Seq(S) /\ Len(SubSeq(text, m, m)) = 1
         /\ SubSeq(text, m, m)[1] = text[m]
<1>1. ASSUME NEW k \in Int, k = m
      PROVE  /\ SubSeq(text, m, k) \in Seq(S)
             /\ Len(SubSeq(text, m, k)) = IF m <= k THEN k - m + 1 ELSE 0
             /\ \A x \in 1..k - m + 1 : SubSeq(text, m, k)[x] = text[m + x - 1]
  <2>1. \A x \in m..k : text[x] \in S
    BY <1>1
  <2>2. m \in Int
    OBVIOUS
  <2> HIDE <1>1
  <2> QED BY ONLY <2>1, <2>2, k \in Int, SubSeqProperties
<1> QED BY <1>1

(* One turn of the loop keeps that knowledge.                              *)
LEMMA KnownKept ==
  ASSUME NEW text \in Text, NEW i \in 0..Len(text), NEW e, Known(text, i, e), NEW buffer,
         Ends(buffer, i + 1) <=> Blank(text, i + 1),
         i + 1 <= Len(text) => buffer[i + 1] = text[i + 1]
  PROVE  Known(text, i + 1, Turn(buffer, e, i + 1))
<1> DEFINE Count(j) == Cardinality(Ended(text, j))
           Word(k) == Lines!WordFrom(text, Lines!Start(text, k))
<1>0. /\ MaxArgs \in Nat \ {0} /\ Len(text) \in Nat /\ i \in Nat /\ i <= Len(text)
      /\ Count(i) \in Nat /\ Count(i + 1) \in Nat
      /\ IsFiniteSet(Ended(text, i)) /\ IsFiniteSet(Ended(text, i + 1))
  <2>1. Ended(text, i) \in SUBSET Lines!Starts(text) /\ Ended(text, i + 1) \in SUBSET Lines!Starts(text)
    BY DEF Ended
  <2> QED BY <2>1, StartsFinite, ShellAssumption
<1>1. Count(i) <= Count(i + 1)
  <2>1. Ended(text, i) \in SUBSET Ended(text, i + 1)
    BY EndedStep
  <2> QED BY <1>0, <2>1, FS_Subset
<1>2. /\ e.argv \in Seq(WordOf(text)) /\ e.word \in Seq(Letter)
      /\ e = [argv |-> e.argv, word |-> e.word]
      /\ Len(e.argv) = Lesser(Count(i), MaxArgs)
      /\ \A k \in 1..Len(e.argv) : e.argv[k] = Word(k)
  BY DEF Known
<1>3. Count(i) < MaxArgs =>
        \/ e.word = <<>> /\ (i = 0 \/ Blank(text, i))
        \/ \E c : Growing(text, c, i) /\ e.word = SubSeq(text, c, i)
  BY DEF Known
<1>4. \A j, b : Known(text, j, b) <=>
        /\ b \in [argv : Seq(WordOf(text)), word : Seq(Letter)]
        /\ Len(b.argv) = Lesser(Count(j), MaxArgs)
        /\ \A k \in 1..Len(b.argv) : b.argv[k] = Word(k)
        /\ Count(j) < MaxArgs =>
             \/ b.word = <<>> /\ (j = 0 \/ Blank(text, j))
             \/ \E c : Growing(text, c, j) /\ b.word = SubSeq(text, c, j)
  BY DEF Known
<1>5. i + 1 <= Len(text) <=> i + 1 # Len(text) + 1
  BY <1>0
<1> HIDE DEF Count, Word
<1>6. CASE Len(e.argv) = MaxArgs
  <2>1. ~(Count(i + 1) < MaxArgs) /\ Lesser(Count(i + 1), MaxArgs) = MaxArgs
    BY <1>0, <1>1, <1>2, <1>6 DEF Lesser
  <2>2. Turn(buffer, e, i + 1) = e
    BY <1>6 DEF Turn
  <2>3. e \in [argv : Seq(WordOf(text)), word : Seq(Letter)]
    BY DEF Known
  <2> QED BY <1>2, <1>4, <1>6, <2>1, <2>2, <2>3
<1>7. CASE Len(e.argv) # MaxArgs
  <2>0. Count(i) < MaxArgs /\ Len(e.argv) = Count(i)
    BY <1>0, <1>2, <1>7 DEF Lesser
  <2>1. CASE ~Blank(text, i + 1)
    <3> DEFINE b == [argv |-> e.argv, word |-> Append(e.word, text[i + 1])]
    <3>1. i + 1 <= Len(text) /\ buffer[i + 1] = text[i + 1] /\ text[i + 1] # "sp"
      BY <1>5, <2>1 DEF Blank
    <3>2. text[i + 1] \in Letter
      <4>1. i + 1 \in 1..Len(text)
        BY <1>0, <3>1
      <4> QED BY <3>1, <4>1, ElementOfSeq DEF Text
    <3>3. Turn(buffer, e, i + 1) = b
      BY <1>2, <1>7, <2>1, <3>1 DEF Turn
    <3>4. Count(i + 1) = Count(i)
      BY <2>1, EndedStep DEF Count
    <3>5. \E c : Growing(text, c, i + 1) /\ b.word = SubSeq(text, c, i + 1)
      <4>1. CASE e.word = <<>> /\ (i = 0 \/ Blank(text, i))
        <5>1. Growing(text, i + 1, i + 1)
          BY <2>1, <4>1, EndedStep
        <5>2. /\ Append(<<>>, text[i + 1]) \in Seq(Letter) /\ Len(Append(<<>>, text[i + 1])) = 1
              /\ Append(<<>>, text[i + 1])[1] = text[i + 1]
          BY <3>2, EmptySeq, AppendProperties
        <5>3. /\ SubSeq(text, i + 1, i + 1) \in Seq(Letter)
              /\ Len(SubSeq(text, i + 1, i + 1)) = 1
              /\ SubSeq(text, i + 1, i + 1)[1] = text[i + 1]
          BY <1>0, <3>2, OneOf
        <5>4. Append(<<>>, text[i + 1]) = SubSeq(text, i + 1, i + 1)
          BY <5>2, <5>3, SeqEqual
        <5> QED BY <4>1, <5>1, <5>4
      <4>2. CASE \E c : Growing(text, c, i) /\ e.word = SubSeq(text, c, i)
        <5>1. PICK c : Growing(text, c, i) /\ e.word = SubSeq(text, c, i)
          BY <4>2
        <5>2. Growing(text, c, i + 1)
          BY <2>1, <5>1, EndedStep
        <5>3. Append(e.word, text[i + 1]) = SubSeq(text, c, i + 1)
          BY <1>0, <3>1, <5>1, GrowingWord
        <5> QED BY <5>2, <5>3
      <4> QED BY <1>3, <2>0, <4>1, <4>2
    <3>6. Append(e.word, text[i + 1]) \in Seq(Letter)
      BY <1>2, <3>2, AppendProperties
    <3>7. b \in [argv : Seq(WordOf(text)), word : Seq(Letter)] /\ b.argv = e.argv
      BY <1>2, <3>6
    <3> HIDE DEF b
    <3> QED BY <1>2, <1>4, <3>3, <3>4, <3>5, <3>7
  <2>2. CASE Blank(text, i + 1) /\ e.word = <<>>
    <3>1. i = 0 \/ Blank(text, i)
      <4>1. \A c : Growing(text, c, i) => SubSeq(text, c, i) # <<>>
        BY <1>0, GrowingWord DEF WordOf
      <4> QED BY <1>3, <2>0, <2>2, <4>1
    <3>2. Turn(buffer, e, i + 1) = e
      BY <1>7, <2>2 DEF Turn
    <3>3. Count(i + 1) = Count(i)
      BY <3>1, EndedStep DEF Count
    <3>4. e \in [argv : Seq(WordOf(text)), word : Seq(Letter)]
      BY DEF Known
    <3> QED BY <1>2, <1>4, <2>2, <3>2, <3>3, <3>4
  <2>3. CASE Blank(text, i + 1) /\ e.word # <<>>
    <3> DEFINE b == [argv |-> Append(e.argv, e.word), word |-> <<>>]
    <3>1. PICK c : Growing(text, c, i) /\ e.word = SubSeq(text, c, i)
      BY <1>3, <2>0, <2>3
    <3>2. Turn(buffer, e, i + 1) = b
      BY <1>7, <2>3 DEF Turn
    <3>3. /\ Ended(text, i + 1) = Ended(text, i) \cup {c} /\ c \notin Ended(text, i)
          /\ Ended(text, i) = {j \in Lines!Starts(text) : j < c}
      BY <2>3, <3>1, EndedStep
    <3>4. Count(i + 1) = Count(i) + 1
      BY <1>0, <3>3, FS_AddElement DEF Count
    <3>5. Lines!Start(text, Count(i) + 1) = c
      <4>1. c \in Lines!Starts(text)
        BY <3>1 DEF Growing
      <4>2. Cardinality({j \in Lines!Starts(text) : j < c}) = (Count(i) + 1) - 1
        BY <1>0, <3>3 DEF Count
      <4> QED BY <1>0, <4>1, <4>2, StartUnique
    <3>6. Word(Count(i) + 1) = e.word
      BY <1>0, <2>3, <3>1, <3>5, WordEnds DEF Word
    <3>7. e.word \in WordOf(text)
      BY <1>0, <3>1, GrowingWord
    <3>8. /\ b.argv \in Seq(WordOf(text)) /\ Len(b.argv) = Count(i) + 1
          /\ \A k \in 1..Count(i) : b.argv[k] = e.argv[k]
          /\ b.argv[Count(i) + 1] = e.word
      <4>1. /\ Append(e.argv, e.word) \in Seq(WordOf(text))
            /\ Len(Append(e.argv, e.word)) = Len(e.argv) + 1
            /\ \A k \in 1..Len(e.argv) : Append(e.argv, e.word)[k] = e.argv[k]
            /\ Append(e.argv, e.word)[Len(e.argv) + 1] = e.word
        BY <1>2, <3>7, AppendProperties
      <4>2. b.argv = Append(e.argv, e.word)
        OBVIOUS
      <4> QED BY <2>0, <4>1, <4>2
    <3>9. b \in [argv : Seq(WordOf(text)), word : Seq(Letter)] /\ b.word = <<>>
      BY <3>8, EmptySeq
    <3> HIDE DEF b
    <3>10. Len(b.argv) = Lesser(Count(i + 1), MaxArgs)
      BY <1>0, <2>0, <3>4, <3>8 DEF Lesser
    <3>11. ASSUME NEW k \in 1..Len(b.argv)
           PROVE  b.argv[k] = Word(k)
      <4>1. k \in 1..Count(i) \/ k = Count(i) + 1
        BY <1>0, <3>8
      <4> QED BY <1>2, <2>0, <3>6, <3>8, <4>1
    <3> QED BY <1>4, <2>3, <3>2, <3>9, <3>10, <3>11
  <2> QED BY <2>1, <2>2, <2>3
<1> QED BY <1>6, <1>7

(* The scan of a line and one more character finds the line's words,       *)
(* whatever that character is (cli_shell.c 88-104).                        *)
LEMMA ScanIsWords ==
  ASSUME NEW text \in Text, NEW last \in Typed
  PROVE  /\ Scan(Append(text, last)) = Lines!Words(text)
         /\ Lines!Words(text) \in Seq(WordOf(text))
<1> DEFINE buffer == Append(text, last)
           n == Len(text)
<1>1. /\ n \in Nat /\ Len(buffer) = n + 1
      /\ \A i \in 1..n : buffer[i] = text[i] /\ text[i] \in Letter \cup {"sp"}
  <2>1. text \in Seq(Typed)
    BY DEF Text, Typed
  <2>2. Len(text) \in Nat /\ \A i \in 1..Len(text) : text[i] \in Letter \cup {"sp"}
    BY LenProperties, ElementOfSeq DEF Text
  <2> QED BY <2>1, <2>2, AppendProperties
<1>2. \A i \in 1..n + 1 : Ends(buffer, i) <=> Blank(text, i)
  <2> HIDE DEF buffer, n
  <2>1. "nl" \notin Letter \cup {"sp"}
    BY ShellAssumption
  <2>2. Ends(buffer, n + 1) /\ Blank(text, n + 1)
    BY <1>1 DEF Ends, Blank, n
  <2>3. \A i \in 1..n : i # n + 1
    BY <1>1
  <2>4. \A i \in 1..n : Ends(buffer, i) <=> Blank(text, i)
    BY <1>1, <2>1, <2>3 DEF Ends, Blank, n
  <2>5. \A i \in 1..n + 1 : i \in 1..n \/ i = n + 1
    BY <1>1
  <2> QED BY <2>2, <2>4, <2>5
<1>3. PICK f : Loop(buffer, n + 1, f) /\ Scan(buffer) = f[n + 1].argv
  <2> HIDE DEF buffer, n
  <2> QED BY <1>1, ScanIsLoop
<1> HIDE DEF buffer, n
<1> DEFINE T == {i \in Nat : i <= n + 1 => Known(text, i, f[i])}
<1>4. 0 \in T
  <2>1. f[0] = Begun
    BY <1>1, <1>3 DEF Loop
  <2>2. Ended(text, 0) = {}
    BY <1>1, EndedStep DEF n
  <2>3. Cardinality(Ended(text, 0)) = 0 /\ Lesser(0, MaxArgs) = 0
    BY <2>2, FS_EmptySet, ShellAssumption DEF Lesser
  <2>4. <<>> \in Seq(WordOf(text)) /\ <<>> \in Seq(Letter) /\ Len(<<>>) = 0
    BY EmptySeq
  <2>5. /\ Begun \in [argv : Seq(WordOf(text)), word : Seq(Letter)]
        /\ Len(Begun.argv) = Lesser(Cardinality(Ended(text, 0)), MaxArgs)
        /\ \A k \in 1..Len(Begun.argv) : FALSE
        /\ Begun.word = <<>>
    <3>1. Begun \in [argv : Seq(WordOf(text)), word : Seq(Letter)]
      BY <2>4 DEF Begun
    <3>2. Begun.argv = <<>> /\ Begun.word = <<>> /\ Len(Begun.argv) = 0
      BY <2>4 DEF Begun
    <3>3. \A k \in 1..Len(Begun.argv) : FALSE
      BY <3>2
    <3> QED BY <2>3, <3>1, <3>2, <3>3
  <2>6. Known(text, 0, Begun)
    BY <2>5 DEF Known
  <2> QED BY <2>1, <2>6
<1>5. ASSUME NEW i \in Nat, i \in T
      PROVE  i + 1 \in T
  <2> SUFFICES ASSUME i + 1 <= n + 1
               PROVE  Known(text, i + 1, f[i + 1])
    OBVIOUS
  <2>1. i \in 0..n /\ i <= n + 1 /\ i + 1 \in 1..n + 1 /\ i + 1 # 0 /\ (i + 1) - 1 = i
    BY <1>1
  <2>2. f[i + 1] = Turn(buffer, f[i], i + 1)
    BY <1>1, <1>3, <2>1 DEF Loop
  <2>3. Known(text, i, f[i])
    BY <1>5, <2>1
  <2>4. Ends(buffer, i + 1) <=> Blank(text, i + 1)
    BY <1>2, <2>1
  <2>5. i + 1 <= Len(text) => buffer[i + 1] = text[i + 1]
    BY <1>1, <2>1 DEF n
  <2> QED BY <2>1, <2>2, <2>3, <2>4, <2>5, KnownKept DEF n
<1>6. Known(text, n + 1, f[n + 1])
  <2>1. \A i \in Nat : i \in T
    <3> HIDE DEF T
    <3> QED BY <1>4, <1>5, NatSetInduction
  <2> QED BY <1>1, <2>1
<1>7. Ended(text, n + 1) = Lines!Starts(text)
  BY <1>1, EndedStep DEF n
<1> DEFINE argv == f[n + 1].argv
           count == Cardinality(Lines!Starts(text))
<1>8. /\ argv \in Seq(WordOf(text)) /\ Len(argv) = Lesser(count, MaxArgs)
      /\ \A k \in 1..Len(argv) : argv[k] = Lines!WordFrom(text, Lines!Start(text, k))
  BY <1>6, <1>7 DEF Known
<1> HIDE DEF argv, count
<1>9. count \in Nat /\ MaxArgs \in Nat
  BY StartsFinite, ShellAssumption DEF count
<1>10. Lines!Min({count, MaxArgs}) = Lesser(count, MaxArgs)
  <2>1. \A x \in {count, MaxArgs} :
          (\A y \in {count, MaxArgs} : x <= y) <=> x = Lesser(count, MaxArgs)
    BY <1>9 DEF Lesser
  <2>2. Lesser(count, MaxArgs) \in {count, MaxArgs}
    BY DEF Lesser
  <2> QED BY <2>1, <2>2 DEF Lines!Min
<1>11. Lines!Words(text) =
         [k \in 1..Lesser(count, MaxArgs) |-> Lines!WordFrom(text, Lines!Start(text, k))]
  BY <1>10, LinesCardinality DEF Lines!Words, count
<1>12. argv = [k \in 1..Len(argv) |-> argv[k]]
  BY <1>8
<1>13. argv = Lines!Words(text)
  BY <1>8, <1>11, <1>12
<1> QED BY <1>3, <1>8, <1>13 DEF buffer, argv

-----------------------------------------------------------------------------
(* The shell implements the edited line.                                   *)

(* Only a command to reboot is answered so, the task then does nothing but *)
(* restart, and it waits for a host with an empty buffer.                  *)
TaskInv ==
  /\ answer = "reboot" <=> s_pc = "rebooting"
  /\ s_pc = "waiting" => rx_buffer = <<>>

LEMMA ReceiveReboots ==
  ASSUME s_pc = "polling", answer # "reboot", NEW c, Receive(c)
  PROVE  /\ answer' = "reboot" <=> s_pc' = "rebooting"
         /\ s_pc' # "waiting"
<1>1. ASSUME NEW what, Says(what), what # "reboot"
      PROVE  answer' # "reboot" /\ s_pc' = "polling"
  BY <1>1 DEF Says
<1>2. ASSUME NEW argv, SetDo(argv)
      PROVE  answer' # "reboot" /\ s_pc' = "polling"
  BY <1>2 DEF SetDo, Says
<1>3. CASE StartReboot
  BY <1>3 DEF StartReboot
<1>4. ASSUME NEW name, NEW argv, Handle(name, argv), ~StartReboot
      PROVE  answer' # "reboot" /\ s_pc' = "polling"
  BY <1>1, <1>2, <1>4 DEF Handle
<1>5. CASE \E what : what # "reboot" /\ Says(what)
  BY <1>1, <1>5
<1>6. CASE \E name, argv : Handle(name, argv)
  BY <1>3, <1>4, <1>6
<1> QED BY <1>5, <1>6 DEF Receive, Process

LEMMA TaskInvariant == Spec => []TaskInv
<1>1. Init => TaskInv
  BY DEF Init, TaskInv
<1>2. TaskInv /\ [Next]_vars => TaskInv'
  <2> SUFFICES ASSUME TaskInv, [Next]_vars
               PROVE  TaskInv'
    OBVIOUS
  <2>1. CASE Poll
    <3>1. s_pc = "polling" /\ answer # "reboot" /\ Receive(Head(fifo))
      BY <2>1 DEF Poll, TaskInv
    <3> QED BY <3>1, ReceiveReboots DEF TaskInv
  <2>2. CASE Boot
    BY <2>2 DEF Boot, TaskInv
  <2>3. CASE Restart
    BY <2>3 DEF Restart, TaskInv
  <2>4. CASE UNCHANGED <<s_pc, rx_buffer, answer>>
    BY <2>4 DEF TaskInv
  <2>5. ASSUME NEW c \in Typed, HostTypes(c)
        PROVE  TaskInv'
    BY <2>4, <2>5 DEF HostTypes
  <2>6. ASSUME NEW b \in BOOLEAN, HostSetsDtr(b)
        PROVE  TaskInv'
    BY <2>4, <2>6 DEF HostSetsDtr
  <2>7. CASE HostResets
    BY <2>4, <2>7 DEF HostResets
  <2>8. CASE UNCHANGED vars
    BY <2>4, <2>8 DEF vars
  <2> QED BY <2>1, <2>2, <2>3, <2>5, <2>6, <2>7, <2>8 DEF Next
<1> QED BY <1>1, <1>2, PTL DEF Spec

(* Every word of a line that leaves room in the buffer is one for which    *)
(* atoi finds an int.                                                      *)
LEMMA WordsHaveNumbers ==
  ASSUME NEW text \in Text, Len(text) < BufferSize, NEW w \in WordOf(text)
  PROVE  Atoi[w] \in Int
<1>1. w \in Seq(Letter) /\ w # <<>> /\ Len(w) <= Len(text)
  BY DEF WordOf
<1>2. Len(w) \in Nat /\ Len(w) # 0 /\ w \in [1..Len(w) -> Letter]
  BY <1>1, EmptySeq, LenProperties
<1>3. Len(text) \in Nat /\ BufferSize \in Nat
  BY LenProperties, ShellAssumption DEF Text
<1>4. Len(w) \in 1..BufferSize - 1
  BY <1>1, <1>2, <1>3
<1> QED BY <1>2, <1>4, AtoiAssumption

(* A line that is complete is executed as its words.                       *)
LEMMA ProcessExecutes ==
  ASSUME rx_buffer \in Text, Len(rx_buffer) < BufferSize, NEW c \in Typed,
         Process(Append(rx_buffer, c))
  PROVE  Lines!Execute(Lines!Words(rx_buffer)) /\ rx_buffer' = <<>>
<1> DEFINE args == Lines!Words(rx_buffer)
<1>1. Scan(Append(rx_buffer, c)) = args /\ args \in Seq(WordOf(rx_buffer))
  BY ScanIsWords
<1> HIDE DEF args
<1>2. ASSUME NEW what, Says(what)
      PROVE  Lines!Answer(what)
  BY <1>2 DEF Says, Lines!Answer
<1>3. ASSUME SetDo(args)
      PROVE  Lines!SetOutput(args)
  <2>1. CASE Len(args) # 3
    BY <1>2, <1>3, <2>1 DEF SetDo, Lines!SetOutput
  <2>2. CASE Len(args) = 3
    <3> DEFINE ch == Atoi[args[2]]
    <3>1. args[2] \in WordOf(rx_buffer)
      BY <1>1, <2>2, ElementOfSeq
    <3>2. ch \in Int /\ Channels \in Nat
      BY <3>1, WordsHaveNumbers, ShellAssumption
    <3>3. ch \in 1..Channels <=> ~(ch < 1 \/ ch > Channels)
      BY <3>2
    <3>4. \/ (ch < 1 \/ ch > Channels) /\ Says("channel")
          \/ /\ ~(ch < 1 \/ ch > Channels)
             /\ output' = [output EXCEPT ![ch] = Atoi[args[3]] # 0]
             /\ answer' = "set"
      BY <1>3, <2>2 DEF SetDo
    <3> HIDE DEF ch
    <3>5. \/ ch \notin 1..Channels /\ Lines!Answer("channel")
          \/ /\ ch \in 1..Channels
             /\ output' = [output EXCEPT ![ch] = Atoi[args[3]] # 0]
             /\ answer' = "set"
      BY <1>2, <3>3, <3>4
    <3> QED BY <2>2, <3>5 DEF Lines!SetOutput, ch
  <2> QED BY <2>1, <2>2
<1>4. ASSUME args # <<>>, args[1] \in DOMAIN Command, Handle(args[1], args)
      PROVE  Lines!Execute(args)
  <2>1. CASE Command[args[1]] = "set_do"
    <3>1. SetDo(args)
      BY <1>4, <2>1 DEF Handle
    <3> QED BY <1>3, <1>4, <2>1, <3>1 DEF Lines!Execute
  <2>2. CASE Command[args[1]] # "set_do"
    <3>1. answer' = Command[args[1]] /\ UNCHANGED output
      BY <1>4, <2>2 DEF Handle, StartReboot, Says
    <3> QED BY <1>4, <2>2, <3>1 DEF Lines!Execute, Lines!Answer
  <2> QED BY <2>1, <2>2
<1>5. ASSUME args = <<>>, Says("prompt")
      PROVE  Lines!Execute(args)
  BY <1>2, <1>5 DEF Lines!Execute
<1>6. ASSUME args # <<>>, args[1] \notin DOMAIN Command, Says("unknown")
      PROVE  Lines!Execute(args)
  BY <1>2, <1>6 DEF Lines!Execute
<1>7. rx_buffer' = <<>>
  BY DEF Process
<1>8. Lines!Execute(args)
  BY <1>1, <1>4, <1>5, <1>6 DEF Process
<1> QED BY <1>7, <1>8 DEF args

(* Every character received types, erases, ends or ignores.                *)
LEMMA ReceiveEdits ==
  ASSUME rx_buffer \in Text, Len(rx_buffer) < BufferSize, answer # "reboot",
         NEW c \in Typed, Receive(c)
  PROVE  Lines!Next
<1> DEFINE long == Append(rx_buffer, c)
<1>1. /\ Len(rx_buffer) \in Nat /\ BufferSize \in Nat /\ ~(Len(rx_buffer) >= BufferSize)
      /\ Len(long) = Len(rx_buffer) + 1 /\ long[Len(long)] = c
  <2>1. /\ Len(rx_buffer) \in Nat /\ Len(long) = Len(rx_buffer) + 1
        /\ long[Len(rx_buffer) + 1] = c
    BY LenProperties, AppendProperties DEF Text
  <2> QED BY <2>1, ShellAssumption
<1>2. Lines!Running
  BY DEF Lines!Running
<1>3. Complete(long) <=> c = "nl" \/ Len(rx_buffer) + 1 >= BufferSize
  <2> HIDE DEF long
  <2> QED BY <1>1 DEF Complete
<1>4. ASSUME Says("none")
      PROVE  Lines!Answer("none")
  BY <1>4 DEF Says, Lines!Answer
<1>5. CASE c = "cr" /\ Says("none") /\ UNCHANGED rx_buffer
  BY <1>2, <1>4, <1>5 DEF Lines!Ignore, Lines!Next
<1>6. CASE /\ Says("none")
           /\ rx_buffer' = IF rx_buffer = <<>> THEN <<>>
                           ELSE SubSeq(rx_buffer, 1, Len(rx_buffer) - 1)
  BY <1>2, <1>4, <1>6 DEF Lines!Erase, Lines!Front, Lines!Next
<1>7. CASE c \notin {"cr", "bs"} /\ ~Complete(long) /\ Says("none") /\ rx_buffer' = long
  <2>1. c \in Letter \cup {"sp"}
    BY <1>3, <1>7 DEF Typed
  <2>2. Len(rx_buffer) + 1 < BufferSize
    BY <1>1, <1>3, <1>7
  <2>3. Lines!Type(c)
    BY <1>2, <1>4, <1>7, <2>2 DEF Lines!Type
  <2> QED BY <2>1, <2>3 DEF Lines!Next
<1>8. CASE Complete(long) /\ Process(long)
  <2>1. Lines!Execute(Lines!Words(rx_buffer)) /\ rx_buffer' = <<>>
    BY <1>8, ProcessExecutes
  <2>2. CASE c = "nl"
    BY <1>2, <2>1 DEF Lines!Enter, Lines!Next
  <2>3. CASE Len(rx_buffer) + 1 = BufferSize
    BY <1>2, <2>1, <2>3 DEF Lines!Cut, Lines!Next
  <2>4. c = "nl" \/ Len(rx_buffer) + 1 = BufferSize
    BY <1>1, <1>3, <1>8
  <2> QED BY <2>2, <2>3, <2>4
<1> QED BY <1>1, <1>5, <1>6, <1>7, <1>8 DEF Receive

(* The buffer, its scan in place, the early returns and the table do what  *)
(* an edited line promises: a line is executed once, when it ends or fills *)
(* the buffer, as the words left in it; set_do alone changes the outputs,  *)
(* and reboot clears everything (cli_shell.c 76-146, shell_commands.c      *)
(* 23-57).                                                                 *)
THEOREM ShellIsCommandLine == Spec => IsCommandLine
<1> DEFINE lineVars == <<rx_buffer, output, answer>>
<1>1. Init => Lines!Init
  BY DEF Init, Lines!Init, Lines!AllOff
<1>2. LineInv /\ TaskInv /\ [Next]_vars => [Lines!Next]_lineVars
  <2> SUFFICES ASSUME LineInv, TaskInv, [Next]_vars
               PROVE  Lines!Next \/ UNCHANGED lineVars
    OBVIOUS
  <2>1. CASE Poll
    <3>1. Head(fifo) \in Typed
      BY <2>1, HeadTailProperties DEF Poll, LineInv
    <3>2. rx_buffer \in Text /\ Len(rx_buffer) < BufferSize /\ answer # "reboot"
      BY <2>1 DEF Poll, LineInv, TaskInv, Text
    <3> QED BY <2>1, <3>1, <3>2, ReceiveEdits DEF Poll
  <2>2. CASE Boot
    BY <2>2 DEF Boot, TaskInv
  <2>3. CASE Restart
    BY <2>3 DEF Restart, TaskInv, Lines!Reboot, Lines!AllOff, Lines!Next
  <2>4. ASSUME NEW c \in Typed, HostTypes(c)
        PROVE  UNCHANGED lineVars
    BY <2>4 DEF HostTypes
  <2>5. ASSUME NEW b \in BOOLEAN, HostSetsDtr(b)
        PROVE  UNCHANGED lineVars
    BY <2>5 DEF HostSetsDtr
  <2>6. CASE HostResets
    BY <2>6 DEF HostResets
  <2>7. CASE UNCHANGED vars
    BY <2>7 DEF vars
  <2> QED BY <2>1, <2>2, <2>3, <2>4, <2>5, <2>6, <2>7 DEF Next
<1> QED BY <1>1, <1>2, LineInvariant, TaskInvariant, PTL DEF Spec, IsCommandLine, Lines!Spec
=============================================================================
