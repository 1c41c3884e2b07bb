---------------------------- MODULE LocalStreams ----------------------------
(* Streams of the in-process network: endpoints that attach and close, the    *)
(* registration of a stream with both endpoints while either may close, the   *)
(* bounded inbound queues, and execution packets with the one-shot receipt    *)
(* that tells the sender what the receiver decided.  Fetch streams register   *)
(* and are accepted the same way, from a queue of their own, and carry no     *)
(* receipt.                                                                   *)
EXTENDS Naturals, FiniteSets, Sequences, SequencesExt

CONSTANTS
    Peers,
    Ends,       \* endpoints (LocalTransport values), each attached once
    Streams,    \* streams, each opened once
    Packets,    \* calls of send_exec, each on one stream
    Rejections, \* what a receiver may answer instead of an acknowledgement: NotYet, Rejected, Conflict
    None,
    InboundCap, \* capacity of an endpoint's inbound queue
    Cap         \* channel_capacity of a stream

CapAssumption == InboundCap \in Nat \ {0} /\ Cap \in Nat \ {0}

VARIABLES
    peerOf,     \* per endpoint: its identity
    peers,      \* LocalNetworkInner.peers: the endpoint registered for a peer
    end,        \* per endpoint: New, Live, Marked, Detached, Drained, Shut
    streams,    \* per endpoint: streams registered with it
    inbound,    \* per endpoint: streams waiting to be accepted
    acceptor,   \* per endpoint: Idle or Waiting in accept_exec
    open,       \* per stream: the opener's place
    from, to,   \* per stream: opening and target endpoint
    closed,     \* streams whose shared StreamState is closed
    receiver,   \* per stream: None, Queued, Held or Dropped
    channel,    \* per stream: packets under way
    reader,     \* per stream: Idle or Waiting in recv_exec
    on,         \* per packet: its stream
    send,       \* per packet: the sender's place or result
    receipt     \* per packet: the receiver's side of the receipt

ends == <<peerOf, peers, end, streams, inbound, acceptor>>
opens == <<open, from, to>>
sends == <<on, send, receipt>>
vars == <<ends, opens, closed, receiver, channel, reader, sends>>

Decisions == {"Ok", "Dropped"} \cup Rejections
Results == Decisions \cup {"ConnectionClosed"}

TypeOK ==
    /\ peerOf \in [Ends -> Peers] /\ peers \in [Peers -> Ends \cup {None}]
    /\ end \in [Ends -> {"New", "Live", "Marked", "Detached", "Drained", "Shut"}]
    /\ streams \in [Ends -> SUBSET Streams]
    /\ \A e \in Ends : inbound[e] \in Seq(Streams) /\ Len(inbound[e]) <= InboundCap
    /\ acceptor \in [Ends -> {"Idle", "Waiting"}]
    /\ open \in [Streams -> {"New", "Local", "Lookup", "Remote", "Sending", "Sent", "Open", "Failed"}]
    /\ from \in [Streams -> Ends \cup {None}] /\ to \in [Streams -> Ends \cup {None}]
    /\ closed \subseteq Streams
    /\ receiver \in [Streams -> {"None", "Queued", "Held", "Dropped"}]
    /\ \A s \in Streams : channel[s] \in Seq(Packets) /\ Len(channel[s]) <= Cap
    /\ reader \in [Streams -> {"Idle", "Waiting"}]
    /\ on \in [Packets -> Streams]
    /\ send \in [Packets -> {"New", "Offering", "Waiting"} \cup Results]
    /\ receipt \in [Packets -> {"None", "Pending", "Held", "Lost"} \cup Decisions]

Init ==
    /\ peerOf \in [Ends -> Peers] /\ peers = [p \in Peers |-> None]
    /\ end = [e \in Ends |-> "New"] /\ streams = [e \in Ends |-> {}]
    /\ inbound = [e \in Ends |-> <<>>] /\ acceptor = [e \in Ends |-> "Idle"]
    /\ open = [s \in Streams |-> "New"]
    /\ from = [s \in Streams |-> None] /\ to = [s \in Streams |-> None]
    /\ closed = {} /\ receiver = [s \in Streams |-> "None"]
    /\ channel = [s \in Streams |-> <<>>] /\ reader = [s \in Streams |-> "Idle"]
    /\ on \in [Packets -> Streams]
    /\ send = [k \in Packets |-> "New"] /\ receipt = [k \in Packets |-> "None"]

-----------------------------------------------------------------------------
(* Endpoints                                                                *)

Attach(e) ==
    /\ end[e] = "New" /\ peers[peerOf[e]] = None
    /\ end' = [end EXCEPT ![e] = "Live"]
    /\ peers' = [peers EXCEPT ![peerOf[e]] = e]
    /\ UNCHANGED <<peerOf, streams, inbound, acceptor, opens, closed, receiver, channel, reader, sends>>

IsClosed(e) == end[e] \notin {"New", "Live"}

\* close_sync: the flag, then detach_peer under the peers lock, then the registered streams.
CloseMarks(e) ==
    /\ end[e] = "Live"
    /\ end' = [end EXCEPT ![e] = "Marked"]
    /\ UNCHANGED <<peerOf, peers, streams, inbound, acceptor, opens, closed, receiver, channel, reader,
                   sends>>

Detach(e) ==
    /\ end[e] = "Marked"
    /\ end' = [end EXCEPT ![e] = "Detached"]
    /\ peers' = IF peers[peerOf[e]] = e THEN [peers EXCEPT ![peerOf[e]] = None] ELSE peers
    /\ UNCHANGED <<peerOf, streams, inbound, acceptor, opens, closed, receiver, channel, reader, sends>>

CloseStreams(e) ==
    /\ end[e] = "Detached"
    /\ end' = [end EXCEPT ![e] = "Drained"]
    /\ closed' = closed \cup streams[e] /\ streams' = [streams EXCEPT ![e] = {}]
    /\ UNCHANGED <<peerOf, peers, inbound, acceptor, opens, receiver, channel, reader, sends>>

\* A close that leaves the inbound queues open.
LeaveInboundOpen(e) ==
    /\ end[e] = "Drained" /\ acceptor[e] = "Idle"
    /\ UNCHANGED vars

\* close waits for the receiver locks, which a waiting accept holds, and closes the queues: senders
\* fail, what is queued stays until the endpoint is dropped.
CloseInbound(e) ==
    /\ end[e] = "Drained" /\ acceptor[e] = "Idle"
    /\ end' = [end EXCEPT ![e] = "Shut"]
    /\ UNCHANGED <<peerOf, peers, streams, inbound, acceptor, opens, closed, receiver, channel, reader,
                   sends>>

AcceptStarts(e) ==
    /\ end[e] = "Live" /\ acceptor[e] = "Idle"
    /\ acceptor' = [acceptor EXCEPT ![e] = "Waiting"]
    /\ UNCHANGED <<peerOf, peers, end, streams, inbound, opens, closed, receiver, channel, reader, sends>>

\* Both branches of accept's select may be ready; either may be taken.
AcceptTakes(e) ==
    /\ acceptor[e] = "Waiting" /\ inbound[e] # <<>>
    /\ acceptor' = [acceptor EXCEPT ![e] = "Idle"]
    /\ inbound' = [inbound EXCEPT ![e] = Tail(@)]
    /\ receiver' = [receiver EXCEPT ![Head(inbound[e])] = "Held"]
    /\ UNCHANGED <<peerOf, peers, end, streams, opens, closed, channel, reader, sends>>

AcceptCloses(e) ==
    /\ acceptor[e] = "Waiting" /\ IsClosed(e)
    /\ acceptor' = [acceptor EXCEPT ![e] = "Idle"]
    /\ UNCHANGED <<peerOf, peers, end, streams, inbound, opens, closed, receiver, channel, reader, sends>>

-----------------------------------------------------------------------------
(* open_stream                                                              *)

OpenStarts(s, e) ==
    /\ open[s] = "New" /\ end[e] = "Live"
    /\ open' = [open EXCEPT ![s] = "Local"] /\ from' = [from EXCEPT ![s] = e]
    /\ UNCHANGED <<ends, to, closed, receiver, channel, reader, sends>>

OpenFails(s) ==
    /\ open' = [open EXCEPT ![s] = "Failed"] /\ closed' = closed \cup {s}

\* register_stream for the opener: only while it is the endpoint registered for its peer.
RegisterLocal(s) ==
    /\ open[s] = "Local"
    /\ LET e == from[s] IN
         IF peers[peerOf[e]] = e
           THEN /\ streams' = [streams EXCEPT ![e] = @ \cup {s}]
                /\ IF IsClosed(e) THEN OpenFails(s)
                   ELSE open' = [open EXCEPT ![s] = "Lookup"] /\ UNCHANGED closed
           ELSE OpenFails(s) /\ UNCHANGED streams
    /\ UNCHANGED <<peerOf, peers, end, inbound, acceptor, from, to, receiver, channel, reader, sends>>

\* inbound_sender: the endpoint the target peer has now.
Lookup(s, p) ==
    /\ open[s] = "Lookup" /\ p # peerOf[from[s]]
    /\ IF peers[p] = None THEN OpenFails(s) /\ UNCHANGED to
       ELSE /\ to' = [to EXCEPT ![s] = peers[p]]
            /\ open' = [open EXCEPT ![s] = "Remote"] /\ UNCHANGED closed
    /\ UNCHANGED <<ends, from, receiver, channel, reader, sends>>

\* A registration that does not check that the endpoint is still the peer's.
RegisterStale(s) ==
    /\ open[s] = "Remote"
    /\ streams' = [streams EXCEPT ![to[s]] = @ \cup {s}]
    /\ open' = [open EXCEPT ![s] = "Sending"]
    /\ UNCHANGED <<peerOf, peers, end, inbound, acceptor, from, to, closed, receiver, channel, reader,
                   sends>>

\* register_stream for the target, which may have closed or been replaced since the lookup.
RegisterRemote(s) ==
    /\ open[s] = "Remote"
    /\ IF peers[peerOf[to[s]]] = to[s]
         THEN /\ streams' = [streams EXCEPT ![to[s]] = @ \cup {s}]
              /\ open' = [open EXCEPT ![s] = "Sending"] /\ UNCHANGED closed
         ELSE OpenFails(s) /\ UNCHANGED streams
    /\ UNCHANGED <<peerOf, peers, end, inbound, acceptor, from, to, receiver, channel, reader, sends>>

\* The bounded inbound queue holds the opener back; it fails only when the queue is closed.
SendInbound(s) ==
    /\ open[s] = "Sending"
    /\ IF end[to[s]] = "Shut" THEN OpenFails(s) /\ UNCHANGED <<inbound, receiver>>
       ELSE /\ Len(inbound[to[s]]) < InboundCap
            /\ inbound' = [inbound EXCEPT ![to[s]] = Append(@, s)]
            /\ receiver' = [receiver EXCEPT ![s] = "Queued"]
            /\ open' = [open EXCEPT ![s] = "Sent"] /\ UNCHANGED closed
    /\ UNCHANGED <<peerOf, peers, end, streams, acceptor, from, to, channel, reader, sends>>

OpenReturns(s) ==
    /\ open[s] = "Sent"
    /\ open' = [open EXCEPT ![s] = IF s \in closed THEN "Failed" ELSE "Open"]
    /\ UNCHANGED <<ends, from, to, closed, receiver, channel, reader, sends>>

-----------------------------------------------------------------------------
(* send_exec                                                                *)

SendStarts(k) ==
    /\ send[k] = "New" /\ open[on[k]] = "Open"
    /\ send' = [send EXCEPT ![k] = IF on[k] \in closed THEN "ConnectionClosed" ELSE "Offering"]
    /\ UNCHANGED <<ends, opens, closed, receiver, channel, reader, on, receipt>>

\* send_packet's select: the channel takes the packet, or the stream is seen closed; when both are
\* possible either happens.
OfferSends(k) ==
    /\ send[k] = "Offering" /\ receiver[on[k]] # "Dropped" /\ Len(channel[on[k]]) < Cap
    /\ channel' = [channel EXCEPT ![on[k]] = Append(@, k)]
    /\ send' = [send EXCEPT ![k] = "Waiting"] /\ receipt' = [receipt EXCEPT ![k] = "Pending"]
    /\ UNCHANGED <<ends, opens, closed, receiver, reader, on>>

OfferCloses(k) ==
    /\ send[k] = "Offering" /\ (on[k] \in closed \/ receiver[on[k]] = "Dropped")
    /\ send' = [send EXCEPT ![k] = "ConnectionClosed"]
    /\ UNCHANGED <<ends, opens, closed, receiver, channel, reader, on, receipt>>

\* The receipt is looked at first, and once more after the stream was seen closed.
WaitDecides(k) ==
    /\ send[k] = "Waiting" /\ receipt[k] \in Decisions \cup {"Lost"}
    /\ send' = [send EXCEPT ![k] = IF receipt[k] = "Lost" THEN "ConnectionClosed" ELSE receipt[k]]
    /\ UNCHANGED <<ends, opens, closed, receiver, channel, reader, on, receipt>>

WaitCloses(k) ==
    /\ send[k] = "Waiting" /\ on[k] \in closed /\ receipt[k] \in {"Pending", "Held"}
    /\ send' = [send EXCEPT ![k] = "ConnectionClosed"]
    /\ UNCHANGED <<ends, opens, closed, receiver, channel, reader, on, receipt>>

-----------------------------------------------------------------------------
(* recv_exec and the receiver's decision                                    *)

RecvStarts(s) ==
    /\ receiver[s] = "Held" /\ reader[s] = "Idle" /\ s \notin closed
    /\ reader' = [reader EXCEPT ![s] = "Waiting"]
    /\ UNCHANGED <<ends, opens, closed, receiver, channel, sends>>

\* A packet taken from a stream that is closed by then is dropped with its receipt.
RecvTakes(s) ==
    /\ reader[s] = "Waiting" /\ channel[s] # <<>>
    /\ reader' = [reader EXCEPT ![s] = "Idle"]
    /\ channel' = [channel EXCEPT ![s] = Tail(@)]
    /\ LET k == Head(channel[s]) IN
         IF s \in closed
           THEN receipt' = [receipt EXCEPT ![k] = "Lost"]
           ELSE receipt' = [receipt EXCEPT ![k] = "Held"]
    /\ UNCHANGED <<ends, opens, closed, receiver, on, send>>

RecvCloses(s) ==
    /\ reader[s] = "Waiting" /\ s \in closed
    /\ reader' = [reader EXCEPT ![s] = "Idle"]
    /\ UNCHANGED <<ends, opens, closed, receiver, channel, sends>>

\* acknowledge, reject or drop of an ExecDelivery: the decision reaches the sender only while it
\* waits; acknowledge then returns ConnectionClosed and the receipt stays as it was.
Decide(k, decision) ==
    /\ receipt[k] = "Held"
    /\ receipt' = [receipt EXCEPT ![k] = IF send[k] = "Waiting" THEN decision ELSE "Lost"]
    /\ UNCHANGED <<ends, opens, closed, receiver, channel, reader, on, send>>

\* Dropping the RecvHandle closes the stream; packets still under way lose their receipts.
DropReceiver(s) ==
    /\ receiver[s] = "Held" /\ reader[s] = "Idle"
    /\ receiver' = [receiver EXCEPT ![s] = "Dropped"]
    /\ closed' = closed \cup {s}
    /\ channel' = [channel EXCEPT ![s] = <<>>]
    /\ receipt' = [k \in Packets |-> IF Contains(channel[s], k) THEN "Lost" ELSE receipt[k]]
    /\ UNCHANGED <<ends, opens, reader, on, send>>

-----------------------------------------------------------------------------
CloseStep(e) == Detach(e) \/ CloseStreams(e) \/ CloseInbound(e)
AcceptStep(e) == AcceptStarts(e) \/ AcceptTakes(e) \/ AcceptCloses(e)
OpenStep(s) ==
    RegisterLocal(s) \/ (\E p \in Peers : Lookup(s, p)) \/ RegisterRemote(s) \/ SendInbound(s) \/ OpenReturns(s)
SendStep(k) == SendStarts(k) \/ OfferSends(k) \/ OfferCloses(k) \/ WaitDecides(k) \/ WaitCloses(k)
RecvStep(s) == RecvStarts(s) \/ RecvTakes(s) \/ RecvCloses(s)

Next ==
    \/ \E e \in Ends : Attach(e) \/ CloseMarks(e) \/ CloseStep(e) \/ AcceptStep(e)
    \/ \E s \in Streams : (\E e \in Ends : OpenStarts(s, e)) \/ OpenStep(s) \/ RecvStep(s) \/ DropReceiver(s)
    \/ \E k \in Packets : SendStep(k) \/ \E d \in Decisions : Decide(k, d)

Spec == Init /\ [][Next]_vars

\* The router accepts, a close runs to its end, readers read and decide; who opens, sends, closes or
\* drops is free.  A waiting mpsc sender is served in turn; weak fairness of the offers is enough,
\* because a stream is opened and a packet sent once.
Fairness ==
    /\ \A e \in Ends : WF_vars(CloseStep(e)) /\ WF_vars(AcceptStep(e))
    /\ \A s \in Streams : WF_vars(OpenStep(s)) /\ WF_vars(RecvStep(s))
    /\ \A k \in Packets : WF_vars(SendStep(k)) /\ WF_vars(\E d \in Decisions : Decide(k, d))

FairSpec == Spec /\ Fairness

-----------------------------------------------------------------------------
(* Properties                                                               *)

\* A stream that was opened and is not closed connects two endpoints of which neither has finished
\* closing: whichever side closes, and whenever, the stream is closed with it ("A concurrent remote
\* close must be able to close a stream": open_stream, register_stream, detach_peer).
OpenStreamsHaveLiveEnds ==
    \A s \in Streams : open[s] = "Open" /\ s \notin closed =>
        \A e \in {from[s], to[s]} : end[e] \in {"Live", "Marked", "Detached"}

\* Sender and receiver agree on a decision that was delivered: a receiver whose acknowledge or
\* reject returned Ok is believed, also when the stream closes right after ("That completed decision
\* remains authoritative after closure"), and no sender is told Ok without it.
DecisionsAreBelieved ==
    \A k \in Packets :
      /\ receipt[k] \in Decisions => send[k] \in {"Waiting", receipt[k]}
      /\ send[k] \in Decisions => receipt[k] = send[k]

\* The peers map names live endpoints, one for each identity, and an endpoint that closes takes its
\* entry and no newer endpoint's.
OneEndpointPerPeer ==
    /\ \A p \in Peers : peers[p] # None => peerOf[peers[p]] = p /\ end[peers[p]] \in {"Live", "Marked"}
    /\ \A e \in Ends : end[e] = "Live" => peers[peerOf[e]] = e

Opening(s) == open[s] # "New"
Opened(s) == open[s] \in {"Open", "Failed"}

\* An open returns although the target's queue is full, when the target accepts or closes.
OpensReturn == \A s \in Streams : Opening(s) ~> Opened(s)

Sending(k) == send[k] # "New"
Sent(k) == send[k] \in Results

\* A send returns: with the receiver's decision, or because the stream closed.
SendsReturn == \A k \in Packets : Sending(k) ~> Sent(k)
=============================================================================
