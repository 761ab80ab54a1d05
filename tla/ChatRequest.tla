----------------------------- MODULE ChatRequest -----------------------------
(***************************************************************************)
(* What the request protocol of the chat promises its users: one message   *)
(* asks for the connection, the room is registered after it, and the       *)
(* conversation goes on once the request has been accepted.                *)
(***************************************************************************)
EXTENDS Naturals

VARIABLES
  phase,     \* "none" until the room is registered, then its request status
  sent,      \* messages stored
  opened     \* the request has been accepted at some time

vars == <<phase, sent, opened>>

\* The state of the protocol.
TypeOK ==
  /\ phase \in {"none", "pending", "accepted", "declined"}
  /\ sent \in Nat
  /\ opened \in BOOLEAN

Init == phase = "none" /\ sent = 0 /\ opened = FALSE

\* The request message.
Ask ==
  /\ sent = 0
  /\ sent' = 1
  /\ UNCHANGED <<phase, opened>>

\* Only now the peer can see the request in a list.
Register ==
  /\ phase = "none" /\ sent = 1
  /\ phase' = "pending"
  /\ UNCHANGED <<sent, opened>>

\* The two answers may come from two devices; the later one stands.
Answer ==
  /\ phase # "none"
  /\ \/ phase' = "accepted" /\ opened' = TRUE
     \/ phase' = "declined" /\ UNCHANGED opened
  /\ UNCHANGED sent

\* A message may still arrive after a decline that overtook it.
Chat ==
  /\ opened
  /\ sent' = sent + 1
  /\ UNCHANGED <<phase, opened>>

Next == Ask \/ Register \/ Answer \/ Chat

Spec == Init /\ [][Next]_vars

=============================================================================
