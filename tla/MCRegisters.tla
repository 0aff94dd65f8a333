---------------------------- MODULE MCRegisters ----------------------------
(* The instance of Registers that TLC checks: two coil bytes of two bits,  *)
(* two registers of two two-bit bytes, and words whose bytes differ.       *)
EXTENDS Registers

MixedWords == {<<1, 2>>, <<3, 0>>}
=============================================================================
