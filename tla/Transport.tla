----------------------------- MODULE Transport -----------------------------
(***************************************************************************)
(* What the protocol code may assume of a link (interface Transport): a    *)
(* duplex channel of whole messages, in order, without loss while the      *)
(* connection lives; and an end that did not hang up itself hears of the   *)
(* close only after everything the other end said.                         *)
(***************************************************************************)
EXTENDS Naturals, Sequences

CONSTANT Text             \* the messages

End     == {"client", "server"}
Peer(e) == IF e = "client" THEN "server" ELSE "client"

VARIABLES sent,           \* per end: messages its send() has taken
          got,            \* per end: messages handed to its onMessage callback
          quit,           \* per end: its own close() was called
          told,           \* per end: its onClose callback has run
          broken          \* the connection was lost

vars == <<sent, got, quit, told, broken>>

Init ==
  /\ sent = [e \in End |-> <<>>] /\ got  = [e \in End |-> <<>>]
  /\ quit = [e \in End |-> FALSE] /\ told = [e \in End |-> FALSE]
  /\ broken = FALSE

Send(e, m) ==
  /\ ~quit[e]
  /\ sent' = [sent EXCEPT ![e] = Append(@, m)]
  /\ UNCHANGED <<got, quit, told, broken>>

\* Some more of what the peer said, in order.
Hand(e) ==
  /\ \E n \in (Len(got[e]) + 1)..Len(sent[Peer(e)]) :
       got' = [got EXCEPT ![e] = SubSeq(sent[Peer(e)], 1, n)]
  /\ UNCHANGED <<sent, quit, told, broken>>

Close(e) ==
  /\ ~quit[e]
  /\ quit' = [quit EXCEPT ![e] = TRUE]
  /\ told' \in {told, [told EXCEPT ![e] = TRUE]}
  /\ UNCHANGED <<sent, got, broken>>

\* The close event; the end that did not ask for it has heard the rest first.
Tell(e) ==
  /\ told' = [told EXCEPT ![e] = TRUE]
  /\ \/ (quit[e] \/ broken) /\ UNCHANGED got
     \/ quit[Peer(e)] /\ got' = [got EXCEPT ![e] = sent[Peer(e)]]
  /\ UNCHANGED <<sent, quit, broken>>

Break == broken' = TRUE /\ UNCHANGED <<sent, got, quit, told>>

Next == \/ \E e \in End : (\E m \in Text : Send(e, m)) \/ Hand(e) \/ Close(e) \/ Tell(e)
        \/ Break

Spec == Init /\ [][Next]_vars

-----------------------------------------------------------------------------
\* No message is lost in the middle, repeated, altered or reordered.
InOrder ==
  \A e \in End : /\ Len(got[e]) <= Len(sent[Peer(e)])
                 /\ got[e] = SubSeq(sent[Peer(e)], 1, Len(got[e]))

\* A party that learns of the close has missed nothing that was said before it.
HeardAll ==
  \A e \in End : (told[e] /\ ~quit[e] /\ ~broken) => got[e] = sent[Peer(e)]
=============================================================================
