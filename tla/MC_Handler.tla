---------------------------- MODULE MC_Handler ----------------------------
(***************************************************************************)
(* Handler instantiated for TLC: payload d1 is exactly MAX_DATA_LENGTH     *)
(* bytes long, d2 one byte longer.                                         *)
(***************************************************************************)
EXTENDS Handler

MCDataLength(d) == IF d = "d1" THEN 8192 ELSE 8193

MCPayloads == {"d1", "d2"}

=============================================================================
