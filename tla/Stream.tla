------------------------------- MODULE Stream -------------------------------
(***************************************************************************)
(* What a buffer promises to the threads on its two sides: a stream that   *)
(* is written once and read in full, in order, by every reader.  A reader  *)
(* may be told that the stream has ended only when it is closed and the    *)
(* reader has everything that was ever sent.                               *)
(***************************************************************************)
EXTENDS Naturals, Sequences

CONSTANTS Item, Reader

VARIABLES sent,      \* everything written to the stream
          closed,    \* no more writes
          received,  \* what each reader has
          ended      \* the readers that were told the stream is over

vars == <<sent, closed, received, ended>>

(* A stream that nobody will write to is closed from the start.            *)
Init ==
  /\ sent = <<>>
  /\ closed \in BOOLEAN
  /\ received = [r \in Reader |-> <<>>]
  /\ ended = {}

Send(x) ==
  /\ ~closed
  /\ sent' = Append(sent, x)
  /\ UNCHANGED <<closed, received, ended>>

Close ==
  /\ closed' = TRUE
  /\ UNCHANGED <<sent, received, ended>>

Deliver(r) ==
  /\ r \notin ended
  /\ Len(received[r]) < Len(sent)
  /\ received' = [received EXCEPT ![r] = Append(@, sent[Len(@) + 1])]
  /\ UNCHANGED <<sent, closed, ended>>

End(r) ==
  /\ closed
  /\ received[r] = sent
  /\ ended' = ended \cup {r}
  /\ UNCHANGED <<sent, closed, received>>

Next ==
  \/ \E x \in Item : Send(x)
  \/ Close
  \/ \E r \in Reader : Deliver(r) \/ End(r)

Spec == Init /\ [][Next]_vars
=============================================================================
