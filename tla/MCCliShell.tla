----------------------------- MODULE MCCliShell -----------------------------
(* An alphabet of two letters, of which one is a digit, and commands with  *)
(* names of one and of two letters.                                        *)
EXTENDS CliShell, TLC

Letters == {"s", "1"}

Table == (<<"s">> :> "set_do") @@ (<<"1">> :> "help") @@ (<<"1", "s">> :> "reboot")

(* The value of the digits before the first letter.                        *)
Digits ==
  LET Value(word) ==
        LET ones == {i \in 0..Len(word) : \A j \in 1..i : word[j] = "1"}
            value[i \in ones] == IF i = 0 THEN 0 ELSE 10 * value[i - 1] + 1
        IN value[CHOOSE i \in ones : \A j \in ones : j <= i]
  IN [word \in UNION {[1..n -> Letters] : n \in 1..BufferSize - 1} |-> Value(word)]
=============================================================================
