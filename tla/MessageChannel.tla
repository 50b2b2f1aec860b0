-------------------------- MODULE MessageChannel --------------------------
(***************************************************************************)
(* What the netchan layer (qcommon/net_chan.cpp) promises to the code above *)
(* it, for one direction of a connection: messages are handed over in the   *)
(* order they were transmitted, each at most once, and each byte for byte.  *)
(* Messages may be lost: nothing obliges Deliver to happen, and delivering  *)
(* message k gives up every earlier message for good.                       *)
(***************************************************************************)
EXTENDS Integers, Sequences

CONSTANT Message        \* anything with a length field

VARIABLES sent,         \* the messages transmitted so far, in order
          delivered     \* what the receiver was given: a sequence number
                        \* and the bytes it reassembled

\* The i-th byte of message m: bytes of different messages are different, so
\* that a message assembled from pieces of two is no message.
Byte(m, i) == <<m, i>>

Content(m) == [i \in 1 .. m.length |-> Byte(m, i - 1)]

\* The sequence number of the last message handed over, 0 before the first.
LastDelivered == IF delivered = << >> THEN 0 ELSE delivered[Len(delivered)].sequence

Init == sent = << >> /\ delivered = << >>

Submit == \E m \in Message : /\ sent' = Append(sent, m)
                             /\ UNCHANGED delivered

Deliver ==
    \E k \in 1 .. Len(sent) :
        /\ k > LastDelivered
        /\ delivered' = Append(delivered, [sequence |-> k, bytes |-> Content(sent[k])])
        /\ UNCHANGED sent

Next == Submit \/ Deliver

Spec == Init /\ [][Next]_<<sent, delivered>>
=============================================================================
