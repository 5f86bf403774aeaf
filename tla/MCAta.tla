------------------------------- MODULE MCAta -------------------------------
(* Ata with registers of one bit each and sectors of two words; the three  *)
(* addresses tell every register from every other.                         *)
EXTENDS Ata
=============================================================================
