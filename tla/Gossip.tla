------------------------------- MODULE Gossip -------------------------------
(***************************************************************************)
(* BHReactor of services/p2p/reactor on one node: messages of the local    *)
(* application go to every peer, each through a routine of its own, and    *)
(* messages of peers go to the application.  Marks keep a payload from     *)
(* being sent to a peer that has it and a signature from being handed up   *)
(* twice; the maps of marks are emptied when they are full.  A message is  *)
(* a pair of the hashes of its payload and its signature.  The two feeds   *)
(* are those of module Feed, without their own steps.                      *)
(***************************************************************************)
EXTENDS Integers, Sequences, FiniteSets

CONSTANTS
    Peers, Messages,
    maxMarkMapSize, maxCachedSigs,
    MaxReceives,        \* bound on messages of peers
    MaxPosts            \* bound on messages of the application

Payloads == {m[1] : m \in Messages}
Sigs == {m[2] : m \in Messages}
NoMessage == <<0, 0>>

VARIABLES
    peerMap,            \* peers that are in the map
    markedMap,          \* payloads a peer is known to have
    running,            \* connections that have not quit
    rpc, ch, taken,     \* gossip routines: state, channel, message in hand
    vpc, inMsg,         \* Receive for each peer: state and message
    sigs,               \* signatures that were handed up
    subs,               \* routines subscribed to localBHMsgFeed
    sending, left,      \* message that localBHMsgFeed.Send is sending, and to whom it still goes
    delivered,          \* how often a signature was handed up
    sent, has,          \* how often a payload was sent to a peer; payloads it has
    lost,               \* payloads that peer.Send failed to send (history)
    markResets, sigResets,
    receives, posts

vars == <<peerMap, markedMap, running, rpc, ch, taken, vpc, inMsg, sigs, subs, sending, left, delivered, sent, has, lost,
          markResets, sigResets, receives, posts>>
routine == <<rpc, ch, taken>>
receive == <<vpc, inMsg>>
local == <<subs, sending, left>>
bounds == <<receives, posts>>

Init ==
    /\ peerMap = {} /\ running = {}
    /\ markedMap = [p \in Peers |-> {}]
    /\ rpc = [p \in Peers |-> "off"] /\ ch = [p \in Peers |-> << >>] /\ taken = [p \in Peers |-> NoMessage]
    /\ vpc = [p \in Peers |-> "idle"] /\ inMsg = [p \in Peers |-> NoMessage]
    /\ sigs = {} /\ subs = {} /\ sending = NoMessage /\ left = {}
    /\ delivered = [s \in Sigs |-> 0]
    /\ sent = [p \in Peers |-> [h \in Payloads |-> 0]] /\ has = [p \in Peers |-> {}] /\ lost = [p \in Peers |-> {}]
    /\ markResets = [p \in Peers |-> 0] /\ sigResets = 0
    /\ receives = 0 /\ posts = 0

-----------------------------------------------------------------------------
\* A map of marks with one more, emptied first when it has the limit.
Marked(map, h, limit) == (IF Cardinality(map) >= limit THEN {} ELSE map) \cup {h}

markBHMsg(p, h) ==
    /\ markedMap' = [markedMap EXCEPT ![p] = Marked(@, h, maxMarkMapSize)]
    /\ markResets' = [markResets EXCEPT ![p] = IF Cardinality(markedMap[p]) >= maxMarkMapSize THEN @ + 1 ELSE @]

AddPeer(p) ==
    /\ rpc[p] = "off"
    /\ running' = running \cup {p}
    /\ peerMap' = peerMap \cup {p}
    /\ markedMap' = [markedMap EXCEPT ![p] = {}]
    /\ rpc' = [rpc EXCEPT ![p] = "start"]
    /\ UNCHANGED <<ch, taken, receive, sigs, local, delivered, sent, has, lost, markResets, sigResets, bounds>>

\* The connection ends, and the switch removes the peer.
PeerQuits(p) ==
    /\ p \in running
    /\ running' = running \ {p}
    /\ UNCHANGED <<peerMap, markedMap, routine, receive, sigs, local, delivered, sent, has, lost, markResets, sigResets, bounds>>

RemovePeer(p) ==
    /\ p \in peerMap \ running
    /\ peerMap' = peerMap \ {p}
    /\ UNCHANGED <<markedMap, running, routine, receive, sigs, local, delivered, sent, has, lost, markResets, sigResets, bounds>>

-----------------------------------------------------------------------------
(***************************************************************************)
(* gossipBHMsgRoutine                                                      *)
(***************************************************************************)
SubscribeLocal(p) ==
    /\ rpc[p] = "start"
    /\ rpc' = [rpc EXCEPT ![p] = "loop"]
    /\ subs' = subs \cup {p}
    /\ UNCHANGED <<peerMap, markedMap, running, ch, taken, receive, sigs, sending, left, delivered, sent, has, lost, markResets, sigResets, bounds>>

LeavesFeed(p) == subs' = subs \ {p} /\ left' = left \ {p}

\* The routine ends and leaves the feed; a send that waits for it goes on without it.
RoutineEnds(p) ==
    /\ rpc[p] = "loop" /\ p \notin running
    /\ rpc' = [rpc EXCEPT ![p] = "ended"]
    /\ LeavesFeed(p)
    /\ ch' = [ch EXCEPT ![p] = << >>]
    /\ UNCHANGED <<peerMap, markedMap, running, taken, receive, sigs, sending, delivered, sent, has, lost, markResets, sigResets, bounds>>

marked(p, h) == h \in markedMap[p]

\* A message is taken from the channel; also when the peer has quit, since select may choose it.
TakeLocal(p) ==
    /\ rpc[p] = "loop" /\ ch[p] # << >>
    /\ ch' = [ch EXCEPT ![p] = << >>]
    /\ taken' = [taken EXCEPT ![p] = Head(ch[p])]
    /\ rpc' = [rpc EXCEPT ![p] = IF marked(p, Head(ch[p])[1]) THEN "loop" ELSE "send"]
    /\ UNCHANGED <<peerMap, markedMap, running, receive, sigs, local, delivered, sent, has, lost, markResets, sigResets, bounds>>

MarkSent(p, h) == markBHMsg(p, h)

\* peer.Send, which fails when the queue of the connection stays full or the peer has stopped, and the
\* mark, which does not depend on its result.
SendToPeer(p) ==
    /\ rpc[p] = "send"
    /\ LET h == taken[p][1] IN
       /\ sent' = [sent EXCEPT ![p][h] = @ + 1]
       /\ \/ has' = [has EXCEPT ![p] = @ \cup {h}] /\ UNCHANGED lost
          \/ lost' = [lost EXCEPT ![p] = @ \cup {h}] /\ UNCHANGED has
       /\ MarkSent(p, h)
    /\ rpc' = [rpc EXCEPT ![p] = "loop"]
    /\ UNCHANGED <<peerMap, running, ch, taken, receive, sigs, local, delivered, sigResets, bounds>>

-----------------------------------------------------------------------------
(***************************************************************************)
(* Communicate: messages of the application                                *)
(***************************************************************************)
SendLocal(m) ==
    /\ sending = NoMessage /\ posts < MaxPosts
    /\ posts' = posts + 1
    /\ sending' = m
    /\ left' = subs
    /\ UNCHANGED <<peerMap, markedMap, running, routine, receive, sigs, subs, delivered, sent, has, lost, markResets, sigResets, receives>>

\* The channels of routines hold one message.
FeedLocal(p) ==
    /\ p \in left /\ ch[p] = << >>
    /\ ch' = [ch EXCEPT ![p] = <<sending>>]
    /\ left' = left \ {p}
    /\ UNCHANGED <<peerMap, markedMap, running, rpc, taken, receive, sigs, subs, sending, delivered, sent, has, lost, markResets, sigResets, bounds>>

SendLocalEnds ==
    /\ sending # NoMessage /\ left = {}
    /\ sending' = NoMessage
    /\ UNCHANGED <<peerMap, markedMap, running, routine, receive, sigs, subs, left, delivered, sent, has, lost, markResets, sigResets, bounds>>

-----------------------------------------------------------------------------
(***************************************************************************)
(* Receive: messages of peers, one at a time from each                     *)
(***************************************************************************)
\* The peer is looked up and its payload marked; the connection of a peer that is not known is ended.
Receive(p, m) ==
    /\ p \in running /\ vpc[p] = "idle" /\ receives < MaxReceives
    /\ receives' = receives + 1
    /\ IF p \in peerMap
       THEN /\ markBHMsg(p, m[1])
            /\ has' = [has EXCEPT ![p] = @ \cup {m[1]}]
            /\ vpc' = [vpc EXCEPT ![p] = "check"] /\ inMsg' = [inMsg EXCEPT ![p] = m]
            /\ UNCHANGED running
       ELSE running' = running \ {p} /\ UNCHANGED <<markedMap, markResets, has, receive>>
    /\ UNCHANGED <<peerMap, routine, sigs, local, delivered, sent, lost, sigResets, posts>>

\* marked(sigHash), under a lock of its own.
CheckSig(p) ==
    /\ vpc[p] = "check"
    /\ vpc' = [vpc EXCEPT ![p] = IF inMsg[p][2] \in sigs THEN "idle" ELSE "mark"]
    /\ UNCHANGED <<peerMap, markedMap, running, routine, inMsg, sigs, local, delivered, sent, has, lost, markResets, sigResets, bounds>>

WithSig(m) == Marked(sigs, m[2], maxCachedSigs)

\* markSigs, and the message goes to the application.
markSigs(p) ==
    /\ vpc[p] = "mark"
    /\ LET s == inMsg[p][2] IN
       /\ sigs' = WithSig(inMsg[p])
       /\ sigResets' = IF Cardinality(sigs) >= maxCachedSigs THEN sigResets + 1 ELSE sigResets
       /\ delivered' = [delivered EXCEPT ![s] = @ + 1]
    /\ vpc' = [vpc EXCEPT ![p] = "idle"]
    /\ UNCHANGED <<peerMap, markedMap, running, routine, inMsg, local, sent, has, lost, markResets, bounds>>

-----------------------------------------------------------------------------
Routine(p) == SubscribeLocal(p) \/ RoutineEnds(p) \/ TakeLocal(p) \/ SendToPeer(p)
Receiver(p) == CheckSig(p) \/ markSigs(p)
Sender == SendLocalEnds \/ \E p \in Peers : FeedLocal(p)

Next ==
    \/ \E p \in Peers : AddPeer(p) \/ PeerQuits(p) \/ RemovePeer(p) \/ Routine(p) \/ Receiver(p)
    \/ \E p \in Peers, m \in Messages : Receive(p, m)
    \/ \E m \in Messages : SendLocal(m)
    \/ Sender

\* Go schedules every routine.
Spec ==
    /\ Init /\ [][Next]_vars
    /\ \A p \in Peers : WF_vars(Routine(p)) /\ WF_vars(Receiver(p))
    /\ WF_vars(Sender)

-----------------------------------------------------------------------------
(***************************************************************************)
(* Properties                                                              *)
(***************************************************************************)
\* A payload is sent to a peer once, and once more each time its marks were emptied, whatever the peer
\* sends at the same time.
SendsBounded == \A p \in Peers, h \in Payloads : sent[p][h] <= 1 + markResets[p]

\* A message is handed up once, but for peers that were between the check and the mark at the same time:
\* at most once for each peer until the signatures are emptied.
DuplicatesBounded == \A s \in Sigs : delivered[s] <= Cardinality(Peers) * (1 + sigResets)

\* What the application sends reaches every peer whose routine was subscribed, unless the peer quits or
\* peer.Send fails, after which the payload counts as sent; no peer holds up the others for ever.
LocalMessagesReachPeers ==
    \A p \in Peers, m \in Messages :
        (sending = m /\ p \in left) ~> (m[1] \in has[p] \cup lost[p] \/ p \notin running)

\* Send for the application returns.
LocalSendReturns == sending # NoMessage ~> sending = NoMessage
=============================================================================
