---------------------------- MODULE DirectChannel ----------------------------
(***************************************************************************)
(* What send_direct promises a program (protocol-architecture.md, "Direct  *)
(* messages"): between two participants a first-in, first-out channel that *)
(* hands over every message once, until one of the two ends its session.   *)
(***************************************************************************)
EXTENDS Naturals, Sequences

CONSTANTS Participants, Payloads

VARIABLES
  sent,       \* sent[p][q]: what p's program sent to q, oldest first
  handed,     \* handed[p][q]: what q's program was given of it
  open        \* the participants whose session has not ended

channel == <<sent, handed, open>>

Nothing == [p \in Participants |-> [q \in Participants |-> <<>>]]

ChannelInit == sent = Nothing /\ handed = Nothing /\ open = Participants

\* p's program sends a batch: none, one or several messages to each peer.
Extends(old, new) ==
  /\ Len(old) <= Len(new)
  /\ SubSeq(new, 1, Len(old)) = old

Send(p) ==
  /\ p \in open
  /\ \A q \in Participants \ {p} : sent'[q] = sent[q]
  /\ \A q \in Participants : Extends(sent[p][q], sent'[p][q])

\* q's program is given the next message of p; its handler may send.
Hand(p, q) ==
  /\ q \in open
  /\ Len(handed[p][q]) < Len(sent[p][q])
  /\ handed' = [handed EXCEPT ![p][q] =
                  Append(@, sent[p][q][Len(handed[p][q]) + 1])]
  /\ Send(q) \/ sent' = sent

End(p) == p \in open /\ open' = open \ {p}

ChannelNext ==
  \/ \E p \in Participants : Send(p) /\ UNCHANGED <<handed, open>>
  \/ \E p, q \in Participants : Hand(p, q) /\ UNCHANGED open
  \/ \E p \in Participants : End(p) /\ UNCHANGED <<sent, handed>>

ChannelSpec == ChannelInit /\ [][ChannelNext]_channel

=============================================================================
