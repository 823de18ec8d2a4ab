--------------------------- MODULE LosslessStream ---------------------------
(***************************************************************************)
(* What a stream job promises the reader that follows it: of the events    *)
(* that matter it gets each once, in the order they were published, and    *)
(* nothing is published behind the event that ends the stream.             *)
(***************************************************************************)
EXTENDS Naturals, Sequences

CONSTANT Ends       \* the events that end a stream

VARIABLES sent, received

Ended == Len(sent) > 0 /\ sent[Len(sent)] \in Ends

Init == sent = << >> /\ received = << >>

\* One step of the program may publish several events.
Publish ==
    /\ ~Ended /\ UNCHANGED received
    /\ Len(sent') > Len(sent) /\ SubSeq(sent', 1, Len(sent)) = sent
    /\ \A i \in (Len(sent) + 1)..(Len(sent') - 1) : sent'[i] \notin Ends

Receive ==
    /\ Len(received) < Len(sent) /\ UNCHANGED sent
    /\ received' = Append(received, sent[Len(received) + 1])

Next == Publish \/ Receive

Spec == Init /\ [][Next]_<<sent, received>>
=============================================================================
