------------------------------- MODULE ByteStream -------------------------------
(***************************************************************************)
(* What a streamed response promises: a writer produces bytes until it     *)
(* closes, a reader takes them in order, at least one at a time, and is    *)
(* told the end only when it has taken everything.  Bytes are numbered in  *)
(* the order they are produced.                                            *)
(***************************************************************************)
EXTENDS Naturals

VARIABLES
  written,   \* bytes produced
  closed,    \* no more will come
  read,      \* bytes taken
  ended      \* the reader was told the end

Init == written \in Nat /\ closed = FALSE /\ read = 0 /\ ended = FALSE

Write ==
  /\ ~closed
  /\ written' \in Nat /\ written' >= written
  /\ closed' \in BOOLEAN
  /\ UNCHANGED <<read, ended>>

Read ==
  /\ ~ended
  /\ read' \in Nat /\ read < read' /\ read' <= written
  /\ UNCHANGED <<written, closed, ended>>

End ==
  /\ closed /\ read = written
  /\ ended' = TRUE
  /\ UNCHANGED <<written, closed, read>>

Next == Write \/ Read \/ End

Spec == Init /\ [][Next]_<<written, closed, read, ended>>
=============================================================================
