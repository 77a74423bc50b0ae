--------------------------- MODULE ReliableStream ---------------------------
(***************************************************************************)
(* What the transport promises its two users, whatever key exchanges run   *)
(* underneath: the payloads one side submits come out on the other side    *)
(* once each, in order, and nothing else comes out.                        *)
(***************************************************************************)
EXTENDS Integers, Sequences

CONSTANTS Side, Other(_), Item

VARIABLES sent, got

Init == /\ sent = [r \in Side |-> <<>>]
        /\ got = [r \in Side |-> <<>>]

Submit(r) == /\ \E m \in Item : sent' = [sent EXCEPT ![r] = Append(@, m)]
             /\ UNCHANGED got

\* The next n payloads come out together.
Deliver(r) ==
    /\ \E n \in 1..(Len(sent[Other(r)]) - Len(got[r])) :
          got' = [got EXCEPT ![r] = SubSeq(sent[Other(r)], 1, Len(@) + n)]
    /\ UNCHANGED sent

Next == \E r \in Side : Submit(r) \/ Deliver(r)

Spec == Init /\ [][Next]_<<sent, got>>
=============================================================================
