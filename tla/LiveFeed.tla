-------------------------------- MODULE LiveFeed --------------------------------
(***************************************************************************)
(* The fan-out of metric updates to the live clients: the broadcaster       *)
(* (api/internal/realtime/broadcaster.go) with its last update and a        *)
(* bounded channel per subscriber, the SSE handler (http/stream.go), which  *)
(* sends the last update and then subscribes, the gRPC handler              *)
(* (grpcapi/server.go), which subscribes first, and the score-writer, which *)
(* puts an anomaly on the feed with the bucket that it finds there.  The    *)
(* module has no specification of its own: Server runs these steps.         *)
(*                                                                          *)
(* An update is the bucket it shows; the anomaly that may ride along is     *)
(* left out.                                                                *)
(***************************************************************************)
EXTENDS Integers, Sequences

CONSTANTS
    SSE, GRPC,   \* the clients that may connect, of either kind
    Nothing,     \* the bucket of an update that has none
    SubBuffer,   \* capacity of a subscriber's channel (code: 8)
    MaxSurfaced  \* bound on the anomalies of the score-writer

ASSUME FeedAssumption ==
    /\ SSE \intersect GRPC = {}
    /\ SubBuffer \in Nat \ {0} /\ MaxSurfaced \in Nat

VARIABLES
    last,      \* b.last
    stage,     \* what each client's handler has done
    channel,   \* each subscriber's channel
    seen,      \* the bucket each client shows
    copied,    \* what the score-writer has copied from the feed, a sequence
    surfaced   \* anomalies surfaced so far

feed == <<last, stage, channel, seen, copied, surfaced>>
Clients == SSE \union GRPC

Subscribers == {c \in Clients : stage[c] = "on" \/ (c \in GRPC /\ stage[c] = "joining")}

\* Mutant: a full channel makes the publisher wait.
PublishBlocking(bucket) ==
    /\ \A c \in Subscribers : Len(channel[c]) < SubBuffer
    /\ last' = bucket
    /\ channel' = [c \in Clients |-> IF c \in Subscribers THEN Append(channel[c], bucket) ELSE channel[c]]

\* Mutant: the channels grow.
PublishUnbounded(bucket) ==
    /\ last' = bucket
    /\ channel' = [c \in Clients |-> IF c \in Subscribers THEN Append(channel[c], bucket) ELSE channel[c]]

\* Publish: a subscriber whose channel is full misses the update.
Publish(bucket) ==
    /\ last' = bucket
    /\ channel' = [c \in Clients |->
          IF c \in Subscribers /\ Len(channel[c]) < SubBuffer
          THEN Append(channel[c], bucket) ELSE channel[c]]

Shown(c) == IF last = Nothing THEN seen[c] ELSE last

\* SSE: Last, sent at once; gRPC: Subscribe.
Connect(c) ==
    /\ stage[c] = "away"
    /\ stage' = [stage EXCEPT ![c] = "joining"]
    /\ seen' = [seen EXCEPT ![c] = IF c \in SSE THEN Shown(c) ELSE @]
    /\ UNCHANGED <<last, channel, copied, surfaced>>

\* SSE: Subscribe; gRPC: Last, sent before what is in the channel by now.
Join(c) ==
    /\ stage[c] = "joining"
    /\ stage' = [stage EXCEPT ![c] = "on"]
    /\ seen' = [seen EXCEPT ![c] = IF c \in GRPC THEN Shown(c) ELSE @]
    /\ UNCHANGED <<last, channel, copied, surfaced>>

\* The handler's loop sends the client the next update.
Receive(c) ==
    /\ stage[c] = "on" /\ channel[c] # <<>>
    /\ seen' = [seen EXCEPT ![c] = Head(channel[c])]
    /\ channel' = [channel EXCEPT ![c] = Tail(@)]
    /\ UNCHANGED <<last, stage, copied, surfaced>>

\* The client goes: unsubscribe.
Leave(c) ==
    /\ stage[c] # "away"
    /\ stage' = [stage EXCEPT ![c] = "away"]
    /\ channel' = [channel EXCEPT ![c] = <<>>]
    /\ seen' = [seen EXCEPT ![c] = Nothing]
    /\ UNCHANGED <<last, copied, surfaced>>

\* persistModelAnomaly surfaces an anomaly with a copy of the bucket shown ...
SurfaceCopy ==
    /\ copied = <<>> /\ surfaced < MaxSurfaced
    /\ copied' = <<last>>
    /\ UNCHANGED <<last, stage, channel, seen, surfaced>>

\* ... which may be an older one by the time it is published.
SurfacePublish ==
    /\ copied # <<>>
    /\ Publish(copied[1])
    /\ copied' = <<>> /\ surfaced' = surfaced + 1
    /\ UNCHANGED <<stage, seen>>

-----------------------------------------------------------------------------
FeedInit ==
    /\ last = Nothing
    /\ stage = [c \in Clients |-> "away"]
    /\ channel = [c \in Clients |-> <<>>]
    /\ seen = [c \in Clients |-> Nothing]
    /\ copied = <<>> /\ surfaced = 0

\* The process is gone, and every connection with it.
FeedLost ==
    /\ last' = Nothing
    /\ stage' = [c \in Clients |-> "away"]
    /\ channel' = [c \in Clients |-> <<>>]
    /\ seen' = [c \in Clients |-> Nothing]
    /\ copied' = <<>>
    /\ UNCHANGED surfaced

FeedTypeOK ==
    /\ stage \in [Clients -> {"away", "joining", "on"}]
    /\ \A c \in Clients : Len(channel[c]) <= SubBuffer
    /\ \A c \in Clients \ Subscribers : channel[c] = <<>>
    /\ Len(copied) <= 1
    /\ surfaced \in 0 .. MaxSurfaced
=============================================================================
