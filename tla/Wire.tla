-------------------------------- MODULE Wire --------------------------------
(***************************************************************************)
(* What serializePacket and DeserializeLSPacket (sharedUtils.cpp,          *)
(* LinkState.cpp) do to the 16-bit fields of an LS packet between two      *)
(* routers.  (A DV packet is read 16 bits at a time, and changes nothing.) *)
(*                                                                         *)
(* The byte-order conversions of the two ends cancel.  What is left is the *)
(* width: the LS branch of serializePacket reads each id and each cost of  *)
(* the payload as one char.                                                *)
(***************************************************************************)
EXTENDS Integers

CONSTANT CharIsSigned     \* of the platform's char; TRUE on x86 and Darwin/arm64

ASSUME CharAssumption == CharIsSigned \in BOOLEAN

\* An unsigned short of an LS payload as the other end reads it: the low byte of v,
\* sign-extended to 16 bits where char is signed.
LSShort(v) ==
  LET byte == v % 256
  IN IF CharIsSigned /\ byte >= 128 THEN byte + 65280 ELSE byte
=============================================================================
