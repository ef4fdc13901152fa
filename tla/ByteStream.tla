------------------------------ MODULE ByteStream ------------------------------
(***************************************************************************)
(* What a connection promises the application that receives from it: the   *)
(* bytes the peer has put on the stream, numbered as they were sent, are   *)
(* handed over in that order, each once, until the stream breaks.          *)
(***************************************************************************)
EXTENDS Naturals, Sequences

VARIABLES
  arrived,     \* how many bytes the peer has put on the stream
  delivered,   \* the bytes handed over, in the order they were
  broken       \* bytes are missing, or out of order: no promise any more

Init == arrived = 0 /\ delivered = <<>> /\ broken = FALSE

Arrive ==
  /\ arrived' \in Nat
  /\ arrived' > arrived
  /\ UNCHANGED <<delivered, broken>>

Deliver ==
  /\ ~broken
  /\ Len(delivered') > Len(delivered)
  /\ Len(delivered') <= arrived
  /\ delivered' = [k \in 1..Len(delivered') |-> k]
  /\ UNCHANGED <<arrived, broken>>

Break ==
  /\ broken'
  /\ UNCHANGED arrived

Next == Arrive \/ Deliver \/ Break

Spec == Init /\ [][Next]_<<arrived, delivered, broken>>
===============================================================================
