---------------------------- MODULE EventStream ----------------------------
(***************************************************************************)
(* The datastream of a chain node: events go through the bus's channel to   *)
(* the channel of every connection, over the WebSocket to its client, and   *)
(* are dropped wherever a channel is full or a connection is gone.  Nothing *)
(* is sent again: a client that reconnects starts with what comes next.     *)
(*                                                                          *)
(* An event is known here by its index in emitted.  Its own number, seq,    *)
(* counts from the start of the node's process.                             *)
(***************************************************************************)
EXTENDS Integers, Sequences

CONSTANTS
    Subscribers,
    WantedKinds,      \* the kinds that a client's filter names
    BusBuffer, SubscriberBuffer   \* capacities of the channels

ASSUME EventStreamAssumption == {BusBuffer, SubscriberBuffer} \subseteq Nat \ {0}

VARIABLES
    emitted,      \* all events of the node, in order
    eventSeq,     \* the counter in the node's memory
    publishCh,    \* Bus.publishCh
    link,         \* connections: down, open, or open with the client's filter
    subCh,        \* the channel of each connection's subscriber
    wire,         \* messages written to the socket and not yet read
    gone          \* history: wanted events that passed a subscriber by

streamVars == <<emitted, eventSeq, publishCh, link, subCh, wire, gone>>

Wanted(ns) == {n \in ns : emitted[n].kind \in WantedKinds}
Numbers(q) == {q[i] : i \in DOMAIN q}
OnTheWay(s) == wire[s] \o subCh[s] \o publishCh
Misses(s, ns) == gone' = [gone EXCEPT ![s] = @ \cup Wanted(ns)]

(* NewEvent and Bus.Publish, which never blocks the node: a full channel     *)
(* drops the event.                                                         *)
BusPublish(p, kind) ==
    LET n == Len(emitted) + 1
        room == Len(publishCh) < BusBuffer
    IN  /\ eventSeq' = eventSeq + 1
        /\ emitted' = Append(emitted, [pl |-> p, kind |-> kind, seq |-> eventSeq'])
        /\ publishCh' = IF room THEN Append(publishCh, n) ELSE publishCh
        /\ gone' = IF room \/ kind \notin WantedKinds THEN gone ELSE [s \in Subscribers |-> gone[s] \cup {n}]
        /\ UNCHANGED <<link, subCh, wire>>

HasRoom(s) == link[s] # "down" /\ Len(subCh[s]) < SubscriberBuffer

(* fanOut: every subscriber with room gets the event, the others miss it. *)
FanOut ==
    /\ publishCh # <<>>
    /\ publishCh' = Tail(publishCh)
    /\ subCh' = [s \in Subscribers |-> IF HasRoom(s) THEN Append(subCh[s], Head(publishCh)) ELSE subCh[s]]
    /\ gone' = [s \in Subscribers |-> IF HasRoom(s) THEN gone[s] ELSE gone[s] \cup Wanted({Head(publishCh)})]
    /\ UNCHANGED <<emitted, eventSeq, link, wire>>

(* The connection subscribes to the bus before the client has named its     *)
(* filter, and matches everything until then.                               *)
Connect(s) ==
    /\ link[s] = "down"
    /\ link' = [link EXCEPT ![s] = "open"]
    /\ UNCHANGED <<emitted, eventSeq, publishCh, subCh, wire, gone>>

handleSubscribe(s) ==
    /\ link[s] = "open"
    /\ link' = [link EXCEPT ![s] = "filtered"]
    /\ UNCHANGED <<emitted, eventSeq, publishCh, subCh, wire, gone>>

Matches(s, n) == link[s] = "filtered" => emitted[n].kind \in WantedKinds

writePump(s) ==
    /\ subCh[s] # <<>>
    /\ subCh' = [subCh EXCEPT ![s] = Tail(@)]
    /\ wire' = IF Matches(s, Head(subCh[s])) THEN [wire EXCEPT ![s] = Append(@, Head(subCh[s]))] ELSE wire
    /\ UNCHANGED <<emitted, eventSeq, publishCh, link, gone>>

(* Mutant: the subscriber stays registered with what its channel holds. *)
KeepsChannel(s) ==
    /\ link' = [link EXCEPT ![s] = "down"]
    /\ wire' = [wire EXCEPT ![s] = <<>>]
    /\ Misses(s, Numbers(wire[s] \o subCh[s]))
    /\ UNCHANGED <<emitted, eventSeq, publishCh, subCh>>

(* A failed write or ping, or the end of either process: cleanup closes the *)
(* subscriber and what was on the way is lost.                              *)
Disconnect(s) ==
    /\ link' = [link EXCEPT ![s] = "down"]
    /\ wire' = [wire EXCEPT ![s] = <<>>]
    /\ subCh' = [subCh EXCEPT ![s] = <<>>]
    /\ Misses(s, Numbers(wire[s] \o subCh[s]))
    /\ UNCHANGED <<emitted, eventSeq, publishCh>>

(* The node's process ends and starts again, on the chain that it had.      *)
NodeRestarts ==
    /\ eventSeq' = 0
    /\ publishCh' = <<>>
    /\ link' = [s \in Subscribers |-> "down"]
    /\ wire' = [s \in Subscribers |-> <<>>]
    /\ subCh' = [s \in Subscribers |-> <<>>]
    /\ gone' = [s \in Subscribers |-> gone[s] \cup Wanted(Numbers(OnTheWay(s)))]
    /\ UNCHANGED emitted

(* The client reads a message; lost tells whether its handler failed, which *)
(* is logged and nothing else, or had no use for it yet.                    *)
Take(s, lost) ==
    /\ wire[s] # <<>>
    /\ wire' = [wire EXCEPT ![s] = Tail(@)]
    /\ Misses(s, {n \in {Head(wire[s])} : lost})
    /\ UNCHANGED <<emitted, eventSeq, publishCh, link, subCh>>

StreamInit ==
    /\ emitted = <<>> /\ eventSeq = 0 /\ publishCh = <<>>
    /\ link = [s \in Subscribers |-> "down"]
    /\ subCh = [s \in Subscribers |-> <<>>]
    /\ wire = [s \in Subscribers |-> <<>>]
    /\ gone = [s \in Subscribers |-> {}]

(* What is on the way to a subscriber is in the order of the chain, without *)
(* repetition, and nothing that was dropped for it turns up again, over any *)
(* number of disconnections.                                                *)
StreamInOrder ==
    \A s \in Subscribers :
        /\ \A i, j \in DOMAIN OnTheWay(s) : i < j => OnTheWay(s)[i] < OnTheWay(s)[j]
        /\ Numbers(OnTheWay(s)) \cap gone[s] = {}
=============================================================================
