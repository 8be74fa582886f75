----------------------------- MODULE ByteStream -----------------------------
(***************************************************************************)
(* What a Buffer is for: bytes are written at one end and taken at the     *)
(* other, in order, without loss, duplication or change.                   *)
(***************************************************************************)
EXTENDS Naturals, Sequences

CONSTANT Byte

VARIABLES
  written,  \* every byte ever put in, oldest first
  taken     \* every byte ever taken out, oldest first

vars == <<written, taken>>

Init == written = <<>> /\ taken = <<>>

Write ==
  /\ written' \in Seq(Byte)
  /\ Len(written') >= Len(written)
  /\ written = SubSeq(written', 1, Len(written))
  /\ UNCHANGED taken

Take ==
  /\ Len(taken') >= Len(taken)
  /\ taken = SubSeq(taken', 1, Len(taken))
  /\ taken' = SubSeq(written, 1, Len(taken'))
  /\ UNCHANGED written

Next == Write \/ Take

Spec == Init /\ [][Next]_vars

=============================================================================
