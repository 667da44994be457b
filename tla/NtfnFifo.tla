------------------------------ MODULE NtfnFifo ------------------------------
(***************************************************************************)
(* What rpcclient.go promises about chain server notifications: each one   *)
(* the client accepted is handed to its handler exactly once, in the order *)
(* of acceptance, and the stream ends only after the client was stopped    *)
(* and everything accepted before that has been handed over.               *)
(***************************************************************************)
EXTENDS Naturals, Sequences

CONSTANT Ntfn           \* the notifications the chain server can send

VARIABLES accepted,     \* all notifications accepted so far, in order
          delivered,    \* all notifications handed to the handler, in order
          stopped,      \* the client was told to stop
          ended         \* the handler was told that no more will come

vars == <<accepted, delivered, stopped, ended>>

Init == /\ accepted = <<>>
        /\ delivered = <<>>
        /\ stopped = FALSE
        /\ ended = FALSE

Accept == /\ ~stopped
          /\ \E n \in Ntfn : accepted' = Append(accepted, n)
          /\ UNCHANGED <<delivered, stopped, ended>>

Deliver == /\ Len(delivered) < Len(accepted)
           /\ delivered' = Append(delivered, accepted[Len(delivered) + 1])
           /\ UNCHANGED <<accepted, stopped, ended>>

Stop == /\ stopped' = TRUE
        /\ UNCHANGED <<accepted, delivered, ended>>

End == /\ stopped
       /\ delivered = accepted
       /\ ended' = TRUE
       /\ UNCHANGED <<accepted, delivered, stopped>>

Next == Accept \/ Deliver \/ Stop \/ End

Spec == Init /\ [][Next]_vars
=============================================================================
