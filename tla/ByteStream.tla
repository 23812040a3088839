----------------------------- MODULE ByteStream -----------------------------
(***************************************************************************)
(* What the client of a generated response is promised: all bytes the      *)
(* generator ever writes, each once and in their order, and the end of the *)
(* response only after the last of them.  Bytes are numbered from 1.       *)
(***************************************************************************)
EXTENDS Naturals, Sequences

VARIABLES
    made,      \* how many bytes the generator has written
    finished,  \* whether it will write no more
    sent,      \* the bytes the client has got
    ended      \* whether the client was told that the response is over

vars == <<made, finished, sent, ended>>

Init ==
    /\ made \in Nat
    /\ finished = FALSE
    /\ sent = <<>>
    /\ ended = FALSE

Write ==
    /\ ~finished
    /\ made' \in Nat /\ made' >= made
    /\ finished' \in BOOLEAN
    /\ UNCHANGED <<sent, ended>>

Deliver ==
    /\ ~ended
    /\ \E n \in 1 .. made - Len(sent) :
          sent' = sent \o [i \in 1 .. n |-> Len(sent) + i]
    /\ UNCHANGED <<made, finished, ended>>

End ==
    /\ finished
    /\ Len(sent) = made
    /\ ended' = TRUE
    /\ UNCHANGED <<made, finished, sent>>

Next == Write \/ Deliver \/ End

Spec == Init /\ [][Next]_vars
=============================================================================
